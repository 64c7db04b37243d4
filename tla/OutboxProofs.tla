---------------------------- MODULE OutboxProofs ----------------------------
(***************************************************************************)
(* For any sets of events and server instances, any number of overlapping  *)
(* runs, and any batch size, number of stalls and number of faults.        *)
(***************************************************************************)
EXTENDS Outbox, FiniteSetTheorems, SequenceTheorems, WellFoundedInduction, TLAPS

JobStates == {"none", "waiting", "active", "completed", "failed"}
RunStates ==
    {b \in [pc : {"idle", "mark", "add"}, batch : Seq(Events)] :
        /\ b.pc = "idle" <=> b.batch = <<>>
        /\ Len(b.batch) <= BatchSize}
WorkerStates ==
    [pc : {"create", "publish", "mark", "finish"}, evt : Events] \cup {IdleWorker}

\* The types.  A run in progress has a batch, of at most BatchSize rows; a
\* worker has an event unless it is idle.
Typed ==
    /\ rows \in Seq(Events)
    /\ rowStatus \in [Events -> {"NONE", "PENDING", "PROCESSED"}]
    /\ processed \in [Events -> BOOLEAN]
    /\ run \in [Instances -> [Runs -> RunStates]]
    /\ queue \in Seq(Events)
    /\ job \in [Events -> JobStates]
    /\ stalls \in [Events -> Nat]
    /\ worker \in [Instances -> WorkerStates]
    /\ notices \in Seq(Events)
    /\ published \in Seq(Events)
    /\ faults \in Nat

\* A job is in one place: once in the queue while it waits, with at most one
\* worker while it is active, nowhere before and after.
OnePlace ==
    /\ \A m, n \in DOMAIN queue : queue[m] = queue[n] => m = n
    /\ \A n \in DOMAIN queue : job[queue[n]] = "waiting"
    /\ \A i \in Instances :
           worker[i].pc # "idle" => job[worker[i].evt] = "active"
    /\ \A i, j \in Instances :
           worker[i].pc # "idle" /\ worker[j].evt = worker[i].evt => i = j

\* The notification of the turn a job is in, or waits for, is not written yet.
Untold(e) ==
    \/ job[e] \in {"none", "waiting"}
    \/ \E i \in Instances : worker[i].evt = e /\ worker[i].pc = "create"

UntoldOwesOne == \A e \in Events : Untold(e) => NoticesOf(e) <= stalls[e]

\* What the pipeline holds was raised.
Raised ==
    /\ \A i \in Instances, r \in Runs : ToSet(run[i][r].batch) \subseteq ToSet(rows)
    /\ \A e \in Events : job[e] # "none" => e \in ToSet(rows)

\* As long as nothing has failed every active job has its worker, and none was
\* put back.
NothingStalls ==
    faults = 0 => \A e \in Events :
        /\ stalls[e] = 0
        /\ job[e] = "active" => Handled(e)

SafeLoss == IsFiniteSet(Lost) /\ LossBounded

-----------------------------------------------------------------------------
(* Sets of numbers, and counting *)

\* A set of natural numbers has a least one.
LEMMA LeastNumber ==
  ASSUME NEW S \in SUBSET Nat, S # {}
  PROVE  \E n \in S : \A m \in S : n <= m
<1>1. IsWellFoundedOn(OpToRel(<, Nat), Nat)
  BY NatLessThanWellFounded
<1>2. PICK n \in S : \A m \in S : ~ (<<m, n>> \in OpToRel(<, Nat))
  BY <1>1, WFMin
<1>3. \A m \in S : ~ (m < n)
  BY <1>2 DEF OpToRel
<1> QED
  BY <1>3

\* Positions of a sequence are finitely many.
LEMMA PositionsFinite ==
  ASSUME NEW N \in Nat, NEW S \in SUBSET (1..N)
  PROVE  IsFiniteSet(S) /\ Cardinality(S) \in Nat
<1>1. IsFiniteSet(1..N)
  BY FS_Interval
<1>2. IsFiniteSet(S)
  BY <1>1, FS_Subset
<1> QED
  BY <1>2, FS_CardinalityType

\* The k-th member of a set of positions exists.
LEMMA KthMember ==
  ASSUME NEW N \in Nat, NEW S \in SUBSET (1..N), NEW k \in 1..Cardinality(S)
  PROVE  \E n \in S : Cardinality(S \cap 1..n) = k
<1> DEFINE upTo == [n \in 0..N |-> Cardinality(S \cap 1..n)]
           T == {n \in 1..N : upTo[n] >= k}
<1>1. IsFiniteSet(S) /\ Cardinality(S) \in Nat /\ k \in Nat
  BY PositionsFinite
<1>2. \A n \in 0..N : IsFiniteSet(S \cap 1..n) /\ Cardinality(S \cap 1..n) \in Nat
  BY <1>1, FS_Intersection, FS_CardinalityType
<1>3. upTo \in [0..N -> Nat]
  BY <1>2
<1>4. upTo[0] = 0
  <2>1. S \cap 1..0 = {}
    OBVIOUS
  <2> QED
    BY <2>1, FS_EmptySet
<1>5. ASSUME NEW n \in 1..N
      PROVE  upTo[n] = IF n \in S THEN upTo[n - 1] + 1 ELSE upTo[n - 1]
  <2>1. n - 1 \in 0..N /\ n \notin S \cap 1..(n - 1)
    OBVIOUS
  <2>2. CASE n \in S
    <3>1. S \cap 1..n = (S \cap 1..(n - 1)) \cup {n}
      BY <2>2
    <3>2. Cardinality(S \cap 1..n) = Cardinality(S \cap 1..(n - 1)) + 1
      BY <1>2, <2>1, <3>1, FS_AddElement
    <3> QED
      BY <2>1, <2>2, <3>2
  <2>3. CASE n \notin S
    <3>1. S \cap 1..n = S \cap 1..(n - 1)
      BY <2>3
    <3> QED
      BY <2>1, <2>3, <3>1
  <2> QED
    BY <2>2, <2>3
<1>6. N \in T
  <2>1. S \cap 1..N = S
    OBVIOUS
  <2>2. N # 0
    BY <1>1, <1>4, <2>1
  <2> QED
    BY <1>1, <2>1, <2>2
<1>7. PICK n \in T : \A m \in T : n <= m
  <2>1. T \in SUBSET Nat
    OBVIOUS
  <2> QED
    BY <1>6, <2>1, LeastNumber
<1>8. upTo[n - 1] < k
  <2>1. CASE n = 1
    BY <1>4, <2>1
  <2>2. CASE n # 1
    <3>1. n - 1 \in 1..N /\ ~ (n <= n - 1)
      BY <2>2
    <3>2. n - 1 \notin T
      <4> HIDE DEF T
      <4> QED
        BY <1>7, <3>1
    <3> HIDE DEF upTo
    <3> QED
      BY <1>1, <1>3, <3>1, <3>2
  <2> QED
    BY <2>1, <2>2
<1>9. n \in S /\ upTo[n] = k
  <2>1. n \in 1..N /\ n - 1 \in 0..N /\ upTo[n] >= k
    OBVIOUS
  <2> HIDE DEF upTo, T
  <2> QED
    BY <1>1, <1>3, <1>5, <1>8, <2>1
<1> QED
  BY <1>9

\* One more element is one more occurrence of it and of no other.
LEMMA OccurrencesOfAppend ==
  ASSUME NEW S, NEW s \in Seq(S), NEW x \in S, NEW e \in S
  PROVE  /\ Occurrences(e, s) \in Nat
         /\ Occurrences(e, Append(s, x)) =
                IF x = e THEN Occurrences(e, s) + 1 ELSE Occurrences(e, s)
<1> DEFINE A == {n \in DOMAIN s : s[n] = e}
           B == {n \in DOMAIN Append(s, x) : Append(s, x)[n] = e}
<1>1. IsFiniteSet(A) /\ Cardinality(A) \in Nat
  <2>1. A \subseteq 1..Len(s) /\ Len(s) \in Nat
    OBVIOUS
  <2> QED
    BY <2>1, PositionsFinite
<1>2. CASE x = e
  <2>1. B = A \cup {Len(s) + 1}
    BY <1>2
  <2>2. Len(s) + 1 \notin A
    OBVIOUS
  <2> QED
    BY <1>1, <1>2, <2>1, <2>2, FS_AddElement DEF Occurrences
<1>3. CASE x # e
  <2>1. B = A
    BY <1>3
  <2> QED
    BY <1>1, <1>3, <2>1 DEF Occurrences
<1> QED
  BY <1>2, <1>3

\* A batch is a sequence of raised events, no longer than BatchSize.
LEMMA ReadsBatch ==
  ASSUME Typed, Pending # {}
  PROVE  LET b == [k \in 1..BatchLength |-> NthPending(k)]
         IN  /\ b \in Seq(Events) /\ b # <<>>
             /\ Len(b) <= BatchSize
             /\ ToSet(b) \subseteq ToSet(rows)
<1> DEFINE b == [k \in 1..BatchLength |-> NthPending(k)]
<1>1. Pending \in SUBSET (1..Len(rows)) /\ Len(rows) \in Nat
  BY DEF Typed, Pending
<1>2. IsFiniteSet(Pending) /\ Cardinality(Pending) \in Nat \ {0}
  BY <1>1, PositionsFinite, FS_EmptySet
<1>3. /\ BatchLength \in Nat \ {0} /\ BatchLength <= BatchSize
      /\ BatchLength <= Cardinality(Pending)
  BY <1>2, OutboxAssumption DEF BatchLength
<1>4. ASSUME NEW k \in 1..BatchLength
      PROVE  NthPending(k) \in Events /\ NthPending(k) \in ToSet(rows)
  <2>1. \E n \in Pending : Cardinality(Pending \cap 1..n) = k
    <3>1. k \in 1..Cardinality(Pending)
      BY <1>2, <1>3
    <3> QED
      BY <1>1, <3>1, KthMember
  <2> DEFINE n == CHOOSE n \in Pending : Cardinality(Pending \cap 1..n) = k
  <2>2. n \in DOMAIN rows
    BY <2>1 DEF Pending
  <2>3. NthPending(k) = rows[n]
    BY DEF NthPending
  <2> HIDE DEF n
  <2> QED
    BY <2>2, <2>3 DEF ToSet, Typed
<1>5. b \in [1..BatchLength -> Events] /\ b \in Seq(Events) /\ Len(b) = BatchLength
  BY <1>3, <1>4
<1> QED
  BY <1>3, <1>4, <1>5 DEF ToSet

\* What a queue or a batch holds after an Append, a Tail or a put-back.
LEMMA Holdings ==
  ASSUME NEW S, NEW s \in Seq(S), NEW x \in S
  PROVE  /\ ToSet(Append(s, x)) = ToSet(s) \cup {x}
         /\ ToSet(<<x>> \o s) = ToSet(s) \cup {x}
         /\ s # <<>> => Head(s) \in ToSet(s) /\ ToSet(Tail(s)) \subseteq ToSet(s)
<1>1. ToSet(Append(s, x)) = ToSet(s) \cup {x}
  <2>1. ToSet(Append(s, x)) \subseteq ToSet(s) \cup {x}
    BY DEF ToSet
  <2>2. ASSUME NEW n \in DOMAIN s
        PROVE  s[n] \in ToSet(Append(s, x))
    BY DEF ToSet
  <2>3. x \in ToSet(Append(s, x))
    <3>1. Append(s, x)[Len(s) + 1] = x /\ Len(s) + 1 \in DOMAIN Append(s, x)
      OBVIOUS
    <3> QED
      BY <3>1 DEF ToSet
  <2> QED
    BY <2>1, <2>2, <2>3 DEF ToSet
<1>2. ToSet(<<x>> \o s) = ToSet(s) \cup {x}
  <2>1. ToSet(<<x>> \o s) \subseteq ToSet(s) \cup {x}
    BY DEF ToSet
  <2>2. ASSUME NEW n \in DOMAIN s
        PROVE  s[n] \in ToSet(<<x>> \o s)
    <3>1. (<<x>> \o s)[n + 1] = s[n] /\ n + 1 \in DOMAIN (<<x>> \o s)
      OBVIOUS
    <3> QED
      BY <3>1 DEF ToSet
  <2>3. x \in ToSet(<<x>> \o s)
    <3>1. (<<x>> \o s)[1] = x /\ 1 \in DOMAIN (<<x>> \o s)
      OBVIOUS
    <3> QED
      BY <3>1 DEF ToSet
  <2> QED
    BY <2>1, <2>2, <2>3 DEF ToSet
<1>3. s # <<>> => Head(s) \in ToSet(s) /\ ToSet(Tail(s)) \subseteq ToSet(s)
  BY DEF ToSet
<1> QED
  BY <1>1, <1>2, <1>3

-----------------------------------------------------------------------------
(* Types *)

\* The steps of Next, and the one that changes nothing.
LEMMA StepsOfNext ==
  ASSUME [Next]_vars
  PROVE  \/ \E e \in Events : Raise(e) \/ Recover(e)
         \/ \E i \in Instances, r \in Runs :
                ReadBatch(i, r) \/ MarkBatch(i, r) \/ AddJob(i, r) \/ RunFails(i, r)
         \/ \E i \in Instances :
                \/ TakeJob(i) \/ CreateNotice(i) \/ Publish(i) \/ MarkProcessed(i)
                \/ Complete(i) \/ ProcessFails(i) \/ Crash(i)
         \/ UNCHANGED vars
BY DEF Next, RunStep, WorkerStep

\* A worker that is not idle has an event, and keeps it from step to step.
LEMMA BusyWorker ==
  ASSUME Typed, NEW i \in Instances, worker[i].pc # "idle"
  PROVE  /\ worker[i].pc \in {"create", "publish", "mark", "finish"}
         /\ worker[i].evt \in Events
         /\ \A p \in {"create", "publish", "mark", "finish"} :
                /\ [worker EXCEPT ![i].pc = p] \in [Instances -> WorkerStates]
                /\ [worker EXCEPT ![i].pc = p][i] = [pc |-> p, evt |-> worker[i].evt]
<1>1. worker[i] \in [pc : {"create", "publish", "mark", "finish"}, evt : Events]
  BY DEF Typed, WorkerStates, IdleWorker
<1>2. ASSUME NEW p \in {"create", "publish", "mark", "finish"}
      PROVE  [worker[i] EXCEPT !.pc = p] = [pc |-> p, evt |-> worker[i].evt]
  BY <1>1
<1>3. ASSUME NEW p \in {"create", "publish", "mark", "finish"}
      PROVE  [pc |-> p, evt |-> worker[i].evt] \in WorkerStates
  BY <1>1 DEF WorkerStates
<1> QED
  BY <1>1, <1>2, <1>3 DEF Typed

LEMMA IdleHasNoEvent ==
  ASSUME Typed, NEW i \in Instances
  PROVE  worker[i].pc = "idle" <=> worker[i].evt \notin Events
<1>1. CASE worker[i] = IdleWorker
  BY <1>1, OutboxAssumption DEF IdleWorker, NoEvent
<1>2. CASE worker[i] \in [pc : {"create", "publish", "mark", "finish"}, evt : Events]
  BY <1>2
<1> QED
  BY <1>1, <1>2 DEF Typed, WorkerStates

\* Every reachable state has the types of Typed.
THEOREM TypeCorrect == Spec => []Typed
<1>1. Init => Typed
  BY OutboxAssumption DEF Init, Typed, RunStates, WorkerStates, JobStates, IdleRun,
     IdleWorker
<1>2. Typed /\ [Next]_vars => Typed'
  <2> SUFFICES ASSUME Typed, [Next]_vars PROVE Typed'
    OBVIOUS
  <2> USE DEF pollVars, jobVars, outVars
  <2>1. ASSUME NEW e \in Events, Raise(e) PROVE Typed'
    BY <2>1 DEF Typed, Raise
  <2>2. ASSUME NEW e \in Events, Recover(e) PROVE Typed'
    <3>1. <<e>> \o queue \in Seq(Events)
      BY DEF Typed
    <3>2. [job EXCEPT ![e] = "waiting"] \in [Events -> JobStates]
      BY DEF Typed, JobStates
    <3>3. [job EXCEPT ![e] = "failed"] \in [Events -> JobStates]
      BY DEF Typed, JobStates
    <3>4. [stalls EXCEPT ![e] = @ + 1] \in [Events -> Nat]
      BY DEF Typed
    <3> QED
      BY <2>2, <3>1, <3>2, <3>3, <3>4 DEF Typed, Recover, PutBack
  <2>3. ASSUME NEW i \in Instances, NEW r \in Runs, ReadBatch(i, r) PROVE Typed'
    <3>1. [k \in 1..BatchLength |-> NthPending(k)] \in
              {b \in Seq(Events) : b # <<>> /\ Len(b) <= BatchSize}
      BY <2>3, ReadsBatch DEF ReadBatch
    <3> DEFINE b == [k \in 1..BatchLength |-> NthPending(k)]
    <3> HIDE DEF b
    <3>2. [pc |-> "mark", batch |-> b] \in RunStates
      BY <3>1 DEF RunStates, b
    <3>3. run' = [run EXCEPT ![i][r] = [pc |-> "mark", batch |-> b]]
      BY <2>3 DEF ReadBatch, b
    <3>4. run' \in [Instances -> [Runs -> RunStates]]
      BY <3>2, <3>3 DEF Typed
    <3> QED
      BY <2>3, <3>4 DEF Typed, ReadBatch
  <2>4. ASSUME NEW i \in Instances, NEW r \in Runs, MarkBatch(i, r) PROVE Typed'
    <3> DEFINE b == run[i][r]
    <3>0. [b EXCEPT !.pc = "add"] \in RunStates
      <4>1. b \in RunStates /\ b.pc = "mark"
        BY <2>4 DEF Typed, MarkBatch
      <4> HIDE DEF b
      <4> QED
        BY <4>1 DEF RunStates
    <3>1. run' \in [Instances -> [Runs -> RunStates]]
      BY <2>4, <3>0 DEF Typed, MarkBatch
    <3>2. rowStatus' \in [Events -> {"NONE", "PENDING", "PROCESSED"}]
      BY <2>4 DEF Typed, MarkBatch
    <3> QED
      BY <2>4, <3>1, <3>2 DEF Typed, MarkBatch
  <2>5. ASSUME NEW i \in Instances, NEW r \in Runs, AddJob(i, r) PROVE Typed'
    <3> DEFINE b == run[i][r].batch
    <3>1. b \in Seq(Events) /\ b # <<>> /\ Len(b) <= BatchSize /\ run[i][r].pc = "add"
      BY <2>5 DEF Typed, AddJob, RunStates
    <3>2. Head(b) \in Events /\ Tail(b) \in Seq(Events) /\ Len(Tail(b)) <= BatchSize
      BY <3>1, OutboxAssumption
    <3>3. /\ IdleRun \in RunStates
          /\ Tail(b) # <<>> => [pc |-> "add", batch |-> Tail(b)] \in RunStates
      BY <3>2, OutboxAssumption DEF RunStates, IdleRun
    <3>4. run' \in [Instances -> [Runs -> RunStates]]
      BY <2>5, <3>3 DEF Typed, AddJob
    <3>5. queue' \in Seq(Events) /\ job' \in [Events -> JobStates]
      <4>1. Append(queue, Head(b)) \in Seq(Events)
        BY <3>2 DEF Typed
      <4>2. [job EXCEPT ![Head(b)] = "waiting"] \in [Events -> JobStates]
        BY DEF Typed, JobStates
      <4> QED
        BY <2>5, <4>1, <4>2 DEF Typed, AddJob, Enqueue
    <3> QED
      BY <2>5, <3>4, <3>5 DEF Typed, AddJob
  <2>6. ASSUME NEW i \in Instances, NEW r \in Runs, RunFails(i, r) PROVE Typed'
    <3>1. IdleRun \in RunStates
      BY OutboxAssumption DEF RunStates, IdleRun
    <3> QED
      BY <2>6, <3>1 DEF Typed, RunFails
  <2>7. ASSUME NEW i \in Instances, TakeJob(i) PROVE Typed'
    BY <2>7 DEF Typed, TakeJob, WorkerStates, JobStates
  <2>8. ASSUME NEW i \in Instances, CreateNotice(i) PROVE Typed'
    <3>1. worker' \in [Instances -> WorkerStates] /\ worker[i].evt \in Events
      BY <2>8, BusyWorker DEF CreateNotice, GoTo
    <3> QED
      BY <2>8, <3>1 DEF Typed, CreateNotice
  <2>9. ASSUME NEW i \in Instances, Publish(i) PROVE Typed'
    <3>1. worker' \in [Instances -> WorkerStates] /\ worker[i].evt \in Events
      BY <2>9, BusyWorker DEF Publish, GoTo
    <3> QED
      BY <2>9, <3>1 DEF Typed, Publish
  <2>10. ASSUME NEW i \in Instances, MarkProcessed(i) PROVE Typed'
    BY <2>10, BusyWorker DEF Typed, MarkProcessed, GoTo
  <2>11. ASSUME NEW i \in Instances, Complete(i) PROVE Typed'
    <3>1. IdleWorker \in WorkerStates
      BY DEF WorkerStates
    <3>2. [job EXCEPT ![worker[i].evt] = "completed"] \in [Events -> JobStates]
      BY DEF Typed, JobStates
    <3> QED
      BY <2>11, <3>1, <3>2 DEF Typed, Complete, Finish
  <2>12. ASSUME NEW i \in Instances, ProcessFails(i) PROVE Typed'
    <3>1. IdleWorker \in WorkerStates
      BY DEF WorkerStates
    <3>2. [job EXCEPT ![worker[i].evt] = "failed"] \in [Events -> JobStates]
      BY DEF Typed, JobStates
    <3> QED
      BY <2>12, <3>1, <3>2 DEF Typed, ProcessFails, Finish
  <2>13. ASSUME NEW i \in Instances, Crash(i) PROVE Typed'
    <3>1. NoRuns \in [Runs -> RunStates] /\ IdleWorker \in WorkerStates
      BY OutboxAssumption DEF NoRuns, RunStates, IdleRun, WorkerStates
    <3> QED
      BY <2>13, <3>1 DEF Typed, Crash
  <2>14. CASE UNCHANGED vars
    BY <2>14 DEF Typed, vars
  <2> QED
    BY StepsOfNext, <2>1, <2>2, <2>3, <2>4, <2>5, <2>6, <2>7, <2>8, <2>9, <2>10,
       <2>11, <2>12, <2>13, <2>14
<1> QED
  BY <1>1, <1>2, PTL DEF Spec

-----------------------------------------------------------------------------
(* A job is in one place *)

\* The workers after a step of one of them, one line per kind of step.
LEMMA WorkersAfter ==
  ASSUME Typed, NEW i \in Instances
  PROVE  /\ CreateNotice(i) \/ Publish(i) \/ MarkProcessed(i) =>
                /\ worker[i].pc # "idle" /\ worker'[i].pc \notin {"idle", "create"}
                /\ worker'[i].evt = worker[i].evt
                /\ \A j \in Instances \ {i} : worker'[j] = worker[j]
         /\ Complete(i) \/ ProcessFails(i) \/ Crash(i) =>
                /\ worker'[i] = IdleWorker
                /\ \A j \in Instances \ {i} : worker'[j] = worker[j]
         /\ TakeJob(i) =>
                /\ worker'[i] = [pc |-> "create", evt |-> Head(queue)]
                /\ worker[i].pc = "idle"
                /\ \A j \in Instances \ {i} : worker'[j] = worker[j]
<1>1. ASSUME CreateNotice(i) \/ Publish(i) \/ MarkProcessed(i)
      PROVE  /\ worker[i].pc # "idle" /\ worker'[i].pc \notin {"idle", "create"}
             /\ worker'[i].evt = worker[i].evt
             /\ \A j \in Instances \ {i} : worker'[j] = worker[j]
  <2>1. PICK p \in {"publish", "mark", "finish"} :
            worker[i].pc # "idle" /\ worker' = [worker EXCEPT ![i].pc = p]
    BY <1>1 DEF CreateNotice, Publish, MarkProcessed, GoTo
  <2>2. worker'[i] = [pc |-> p, evt |-> worker[i].evt]
    BY <2>1, BusyWorker
  <2>3. \A j \in Instances \ {i} : worker'[j] = worker[j]
    BY <2>1 DEF Typed
  <2> QED
    BY <2>1, <2>2, <2>3
<1>2. ASSUME Complete(i) \/ ProcessFails(i) \/ Crash(i)
      PROVE  /\ worker'[i] = IdleWorker
             /\ \A j \in Instances \ {i} : worker'[j] = worker[j]
  BY <1>2 DEF Typed, Complete, ProcessFails, Finish, Crash
<1>3. ASSUME TakeJob(i)
      PROVE  /\ worker'[i] = [pc |-> "create", evt |-> Head(queue)]
             /\ worker[i].pc = "idle"
             /\ \A j \in Instances \ {i} : worker'[j] = worker[j]
  BY <1>3 DEF Typed, TakeJob
<1> QED
  BY <1>1, <1>2, <1>3

LEMMA OnePlaceStep ==
  ASSUME Typed, OnePlace, [Next]_vars
  PROVE  OnePlace'
<1> USE DEF pollVars, jobVars, outVars
<1>1. ASSUME NEW e \in Events, Raise(e) PROVE OnePlace'
  BY <1>1 DEF OnePlace, Raise
<1>2. ASSUME NEW e \in Events, Recover(e) PROVE OnePlace'
  <2>1. CASE PutBack(e)
    <3>1. \A n \in DOMAIN queue : queue[n] # e
      BY <1>2 DEF OnePlace, Recover
    <3>2. /\ DOMAIN queue' = 1..(Len(queue) + 1)
          /\ queue'[1] = e
          /\ \A n \in 2..(Len(queue) + 1) : queue'[n] = queue[n - 1]
      BY <2>1 DEF PutBack, Typed
    <3>3. \A n \in DOMAIN queue' : job'[queue'[n]] = "waiting"
      <4>1. job' = [job EXCEPT ![e] = "waiting"]
        BY <2>1 DEF PutBack
      <4>2. \A n \in 2..(Len(queue) + 1) : n - 1 \in DOMAIN queue
        BY DEF Typed
      <4>3. \A n \in DOMAIN queue : queue[n] \in Events
        BY DEF Typed
      <4>4. \A n \in DOMAIN queue : job'[queue[n]] = "waiting"
        BY <3>1, <4>1, <4>3 DEF OnePlace, Typed
      <4>5. job'[e] = "waiting"
        BY <4>1 DEF Typed
      <4>6. \A n \in 1..(Len(queue) + 1) : n = 1 \/ n \in 2..(Len(queue) + 1)
        BY DEF Typed
      <4> QED
        BY <3>2, <4>2, <4>4, <4>5, <4>6
    <3>4. \A m, n \in DOMAIN queue' : queue'[m] = queue'[n] => m = n
      <4>1. \A n \in 2..(Len(queue) + 1) : n - 1 \in DOMAIN queue
        BY DEF Typed
      <4>2. Len(queue) \in Nat
        BY DEF Typed
      <4> QED
        BY <3>1, <3>2, <4>1, <4>2 DEF OnePlace
    <3>5. \A i \in Instances : worker'[i].pc # "idle" => job'[worker'[i].evt] = "active"
      <4>1. worker' = worker /\ job' = [job EXCEPT ![e] = "waiting"]
        BY <2>1 DEF PutBack
      <4>2. \A i \in Instances : worker[i].evt # e
        BY <1>2 DEF Recover, Handled
      <4> QED
        BY <4>1, <4>2, BusyWorker DEF OnePlace, Typed
    <3> QED
      BY <2>1, <3>3, <3>4, <3>5 DEF OnePlace, PutBack
  <2>2. CASE job' = [job EXCEPT ![e] = "failed"] /\ UNCHANGED <<queue, worker>>
    <3>1. \A n \in DOMAIN queue : queue[n] # e /\ queue[n] \in Events
      BY <1>2 DEF OnePlace, Recover, Typed
    <3>2. \A i \in Instances : worker[i].evt # e
      BY <1>2 DEF Recover, Handled
    <3> QED
      BY <2>2, <3>1, <3>2 DEF OnePlace, Typed
  <2> QED
    BY <1>2, <2>1, <2>2 DEF Recover
<1>3. ASSUME NEW i \in Instances, NEW r \in Runs,
             ReadBatch(i, r) \/ MarkBatch(i, r) \/ RunFails(i, r)
      PROVE  OnePlace'
  BY <1>3 DEF OnePlace, ReadBatch, MarkBatch, RunFails
<1>4. ASSUME NEW i \in Instances, NEW r \in Runs, AddJob(i, r) PROVE OnePlace'
  <2> DEFINE e == Head(run[i][r].batch)
  <2>1. e \in Events
    BY <1>4 DEF Typed, AddJob, RunStates
  <2>2. UNCHANGED worker
    BY <1>4 DEF AddJob
  <2>3. CASE job[e] = "none"
    <3>1. queue' = Append(queue, e) /\ job' = [job EXCEPT ![e] = "waiting"]
      BY <1>4, <2>3 DEF AddJob, Enqueue
    <3>2. \A n \in DOMAIN queue : queue[n] # e /\ queue[n] \in Events
      BY <2>3 DEF OnePlace, Typed
    <3>3. /\ DOMAIN queue' = 1..(Len(queue) + 1) /\ DOMAIN queue = 1..Len(queue)
          /\ Len(queue) \in Nat
          /\ queue'[Len(queue) + 1] = e
          /\ \A n \in DOMAIN queue : queue'[n] = queue[n]
      BY <2>1, <3>1 DEF Typed
    <3>4. \A m, n \in DOMAIN queue' : queue'[m] = queue'[n] => m = n
      BY <3>2, <3>3 DEF OnePlace
    <3>5. \A n \in DOMAIN queue' : job'[queue'[n]] = "waiting"
      BY <2>1, <3>1, <3>2, <3>3 DEF OnePlace, Typed
    <3>6. \A j \in Instances : worker'[j].pc # "idle" => job'[worker'[j].evt] = "active"
      BY <2>1, <2>2, <2>3, <3>1, BusyWorker DEF OnePlace, Typed
    <3> QED
      BY <2>2, <3>4, <3>5, <3>6 DEF OnePlace
  <2>4. CASE job[e] # "none"
    <3>1. UNCHANGED <<queue, job>>
      BY <1>4, <2>4 DEF AddJob, Enqueue
    <3> QED
      BY <2>2, <3>1 DEF OnePlace
  <2> QED
    BY <2>3, <2>4
<1>5. ASSUME NEW i \in Instances, TakeJob(i) PROVE OnePlace'
  <2> DEFINE e == Head(queue)
  <2>1. /\ queue # <<>> /\ queue' = Tail(queue)
        /\ job' = [job EXCEPT ![e] = "active"]
    BY <1>5 DEF TakeJob
  <2>2. /\ Len(queue) \in Nat \ {0} /\ e = queue[1] /\ e \in Events
        /\ DOMAIN queue = 1..Len(queue)
        /\ DOMAIN queue' = 1..(Len(queue) - 1)
        /\ \A n \in DOMAIN queue' : queue'[n] = queue[n + 1]
    BY <2>1 DEF Typed
  <2>3. \A n \in DOMAIN queue' : n + 1 \in DOMAIN queue /\ n + 1 # 1
    BY <2>2
  <2>4. \A m, n \in DOMAIN queue' : queue'[m] = queue'[n] => m = n
    BY <2>2, <2>3 DEF OnePlace
  <2>5. \A n \in DOMAIN queue' : job'[queue'[n]] = "waiting"
    <3>1. \A n \in DOMAIN queue' : queue'[n] # e /\ job[queue'[n]] = "waiting"
      BY <2>2, <2>3 DEF OnePlace
    <3>2. \A n \in DOMAIN queue' : queue'[n] \in Events
      BY <2>2, <2>3 DEF Typed
    <3> QED
      BY <2>1, <3>1, <3>2 DEF Typed
  <2>6. job[e] = "waiting"
    BY <2>2 DEF OnePlace
  <2>7. \A j \in Instances : worker[j].pc # "idle" => worker[j].evt # e
    BY <2>6 DEF OnePlace
  <2>8. \A j \in Instances : worker[j].pc = "idle" => worker[j].evt \notin Events
    BY IdleHasNoEvent
  <2>9. \A j \in Instances : worker'[j].pc # "idle" => job'[worker'[j].evt] = "active"
    <3>1. ASSUME NEW j \in Instances \ {i}, worker'[j].pc # "idle"
          PROVE  job'[worker'[j].evt] = "active"
      <4>1. worker'[j] = worker[j]
        BY <1>5, WorkersAfter
      <4>2. worker[j].evt \in Events /\ worker[j].evt # e
        BY <2>7, <3>1, <4>1, BusyWorker
      <4> QED
        BY <2>1, <3>1, <4>1, <4>2 DEF OnePlace, Typed
    <3>2. worker'[i].evt = e /\ job'[e] = "active"
      BY <1>5, <2>1, <2>2, WorkersAfter DEF Typed
    <3> QED
      BY <3>1, <3>2
  <2>10. \A j, k \in Instances :
            worker'[j].pc # "idle" /\ worker'[k].evt = worker'[j].evt => j = k
    BY <1>5, <2>2, <2>7, <2>8, WorkersAfter, OutboxAssumption DEF OnePlace, NoEvent
  <2> QED
    BY <2>4, <2>5, <2>9, <2>10 DEF OnePlace
<1>6. ASSUME NEW i \in Instances, CreateNotice(i) \/ Publish(i) \/ MarkProcessed(i)
      PROVE  OnePlace'
  <2>1. UNCHANGED <<queue, job>>
    BY <1>6 DEF CreateNotice, Publish, MarkProcessed
  <2>2. \A j \in Instances : /\ worker'[j].evt = worker[j].evt
                             /\ worker'[j].pc = "idle" <=> worker[j].pc = "idle"
    BY <1>6, WorkersAfter
  <2> QED
    BY <2>1, <2>2 DEF OnePlace
<1>7. ASSUME NEW i \in Instances, Complete(i) \/ ProcessFails(i) \/ Crash(i)
      PROVE  OnePlace'
  <2>1. UNCHANGED queue
    BY <1>7 DEF Complete, ProcessFails, Finish, Crash
  <2>2. \/ UNCHANGED job
        \/ /\ worker[i].pc # "idle"
           /\ \E s \in JobStates : job' = [job EXCEPT ![worker[i].evt] = s]
    BY <1>7 DEF Complete, ProcessFails, Finish, Crash, JobStates
  <2>3. /\ worker'[i].pc = "idle" /\ worker'[i].evt = NoEvent
        /\ \A j \in Instances \ {i} : worker'[j] = worker[j]
    BY <1>7, WorkersAfter DEF IdleWorker
  <2>4. \A n \in DOMAIN queue' : job'[queue'[n]] = "waiting"
    <3>1. \A n \in DOMAIN queue : queue[n] \in Events
      BY DEF Typed
    <3> QED
      BY <2>1, <2>2, <3>1 DEF OnePlace, Typed
  <2>5. \A j \in Instances : worker'[j].pc # "idle" => job'[worker'[j].evt] = "active"
    <3>1. ASSUME NEW j \in Instances, worker'[j].pc # "idle"
          PROVE  job'[worker'[j].evt] = "active"
      <4>1. j # i /\ worker'[j] = worker[j] /\ worker[j].evt \in Events
        BY <2>3, <3>1, BusyWorker
      <4>2. worker[i].pc # "idle" => worker[i].evt # worker[j].evt
        BY <4>1 DEF OnePlace
      <4> QED
        BY <2>2, <3>1, <4>1, <4>2 DEF OnePlace, Typed
    <3> QED
      BY <3>1
  <2>6. \A j, k \in Instances :
            worker'[j].pc # "idle" /\ worker'[k].evt = worker'[j].evt => j = k
    <3>1. ASSUME NEW j \in Instances, NEW k \in Instances, worker'[j].pc # "idle",
                 worker'[k].evt = worker'[j].evt
          PROVE  j = k
      <4>1. j # i /\ worker'[j] = worker[j] /\ worker[j].evt \in Events
        BY <2>3, <3>1, BusyWorker
      <4>2. NoEvent \notin Events
        BY OutboxAssumption DEF NoEvent
      <4>3. k # i /\ worker'[k] = worker[k]
        BY <2>3, <3>1, <4>1, <4>2
      <4> QED
        BY <3>1, <4>1, <4>3 DEF OnePlace
    <3> QED
      BY <3>1
  <2> QED
    BY <2>1, <2>4, <2>5, <2>6 DEF OnePlace
<1>8. CASE UNCHANGED vars
  BY <1>8 DEF OnePlace, vars
<1> QED
  BY StepsOfNext, <1>1, <1>2, <1>3, <1>4, <1>5, <1>6, <1>7, <1>8

\* A job that waits is in the queue once and with no worker; one that is
\* active is with one worker at most: two workers never run one attempt.
THEOREM OnePlaceCorrect == Spec => []OnePlace
<1>1. Init => OnePlace
  BY DEF Init, OnePlace, IdleWorker
<1>2. Typed /\ OnePlace /\ [Next]_vars => OnePlace'
  BY OnePlaceStep
<1> QED
  BY <1>1, <1>2, TypeCorrect, PTL DEF Spec

-----------------------------------------------------------------------------
(* Notifications *)

LEMMA NoticesStep ==
  ASSUME Typed, OnePlace, UntoldOwesOne, NoticesBoundedByStalls, [Next]_vars
  PROVE  UntoldOwesOne' /\ NoticesBoundedByStalls'
<1> USE DEF pollVars, jobVars, outVars
<1> DEFINE Kept ==
        /\ UNCHANGED <<notices, stalls>>
        /\ \A e \in Events : Untold(e)' => Untold(e)
<1>1. CASE Kept
  BY <1>1 DEF UntoldOwesOne, NoticesBoundedByStalls, NoticesOf
<1>2. ASSUME NEW e \in Events, Raise(e) PROVE Kept
  BY <1>2 DEF Raise, Untold
<1>3. ASSUME NEW e \in Events, Recover(e)
      PROVE  UntoldOwesOne' /\ NoticesBoundedByStalls'
  <2>1. CASE stalls' = [stalls EXCEPT ![e] = @ + 1] /\ PutBack(e)
    <3>1. UNCHANGED <<notices, worker>> /\ job' = [job EXCEPT ![e] = "waiting"]
      BY <2>1 DEF PutBack
    <3>2. ASSUME NEW d \in Events
          PROVE  /\ Untold(d)' => NoticesOf(d)' <= stalls'[d]
                 /\ NoticesOf(d)' <= stalls'[d] + 1
      <4>1. NoticesOf(d)' = NoticesOf(d) /\ NoticesOf(d) \in Nat
        BY <3>1, OccurrencesOfAppend DEF NoticesOf, Typed
      <4>2. CASE d = e
        <5>1. stalls'[d] = stalls[d] + 1 /\ stalls[d] \in Nat
          BY <2>1, <4>2 DEF Typed
        <5> QED
          BY <4>1, <5>1 DEF NoticesBoundedByStalls
      <4>3. CASE d # e
        <5>1. stalls'[d] = stalls[d] /\ job'[d] = job[d]
          BY <2>1, <3>1, <4>3 DEF Typed
        <5>2. Untold(d)' => Untold(d)
          BY <3>1, <5>1 DEF Untold
        <5> QED
          BY <4>1, <5>1, <5>2 DEF NoticesBoundedByStalls, UntoldOwesOne
      <4> QED
        BY <4>2, <4>3
    <3> QED
      BY <3>2 DEF NoticesBoundedByStalls, UntoldOwesOne
  <2>2. CASE /\ job' = [job EXCEPT ![e] = "failed"]
             /\ UNCHANGED <<stalls, notices, worker>>
    <3>1. Kept
      BY <2>2 DEF Untold, Typed
    <3> QED
      BY <1>1, <3>1
  <2> QED
    BY <1>3, <2>1, <2>2 DEF Recover
<1>4. ASSUME NEW i \in Instances, NEW r \in Runs,
             ReadBatch(i, r) \/ MarkBatch(i, r) \/ RunFails(i, r)
      PROVE  Kept
  BY <1>4 DEF ReadBatch, MarkBatch, RunFails, Untold
<1>5. ASSUME NEW i \in Instances, NEW r \in Runs, AddJob(i, r)
      PROVE  Kept
  <2>1. /\ UNCHANGED <<notices, stalls, worker>>
        /\ \A d \in Events : job'[d] = job[d] \/ job[d] = "none"
    BY <1>5 DEF AddJob, Enqueue, Typed
  <2> QED
    BY <2>1 DEF Untold
<1>6. ASSUME NEW i \in Instances, TakeJob(i)
      PROVE  Kept
  <2> DEFINE h == Head(queue)
  <2>1. h \in Events /\ job[h] = "waiting"
    <3>1. queue # <<>>
      BY <1>6 DEF TakeJob
    <3>2. 1 \in DOMAIN queue /\ h = queue[1] /\ queue[1] \in Events
      BY <3>1 DEF Typed
    <3> QED
      BY <3>2 DEF OnePlace
  <2>2. \A d \in Events : d # h => job'[d] = job[d]
    BY <1>6 DEF TakeJob, Typed
  <2>3. \A d \in Events : Untold(d)' => Untold(d)
    BY <1>6, <2>1, <2>2, WorkersAfter DEF Untold
  <2> QED
    BY <1>6, <2>3 DEF TakeJob
<1>7. ASSUME NEW i \in Instances, CreateNotice(i)
      PROVE  UntoldOwesOne' /\ NoticesBoundedByStalls'
  <2>1. PICK e \in Events :
            /\ worker[i].pc = "create" /\ worker[i].evt = e
            /\ notices' = Append(notices, e)
            /\ UNCHANGED <<job, stalls>>
    BY <1>7, BusyWorker DEF CreateNotice
  <2>2. NoticesOf(e) <= stalls[e]
    BY <2>1 DEF UntoldOwesOne, Untold
  <2>3. ~Untold(e)'
    <3>1. job'[e] = "active"
      BY <2>1 DEF OnePlace
    <3>2. \A j \in Instances : worker'[j].evt = e => j = i
      BY <1>7, <2>1, WorkersAfter DEF OnePlace
    <3>3. worker'[i].pc # "create"
      BY <1>7, WorkersAfter
    <3> QED
      BY <3>1, <3>2, <3>3 DEF Untold
  <2>4. ASSUME NEW d \in Events
        PROVE  /\ Untold(d)' => NoticesOf(d)' <= stalls'[d]
               /\ NoticesOf(d)' <= stalls'[d] + 1
    <3>1. /\ NoticesOf(d) \in Nat /\ stalls[d] \in Nat
          /\ NoticesOf(d)' = IF e = d THEN NoticesOf(d) + 1 ELSE NoticesOf(d)
      BY <2>1, OccurrencesOfAppend DEF NoticesOf, Typed
    <3>2. CASE d = e
      BY <2>1, <2>2, <2>3, <3>1, <3>2
    <3>3. CASE d # e
      <4>1. Untold(d)' => Untold(d)
        BY <1>7, <2>1, WorkersAfter DEF Untold
      <4> QED
        BY <2>1, <3>1, <3>3, <4>1 DEF UntoldOwesOne, NoticesBoundedByStalls
    <3> QED
      BY <3>2, <3>3
  <2> QED
    BY <2>4 DEF UntoldOwesOne, NoticesBoundedByStalls
<1>8. ASSUME NEW i \in Instances, Publish(i) \/ MarkProcessed(i)
      PROVE  Kept
  <2>1. UNCHANGED <<notices, stalls, job>>
    BY <1>8 DEF Publish, MarkProcessed
  <2>2. \A d \in Events : Untold(d)' => Untold(d)
    BY <1>8, <2>1, WorkersAfter DEF Untold
  <2> QED
    BY <2>1, <2>2
<1>9. ASSUME NEW i \in Instances, Complete(i) \/ ProcessFails(i) \/ Crash(i)
      PROVE  Kept
  <2>1. UNCHANGED <<notices, stalls>>
    BY <1>9 DEF Complete, ProcessFails, Finish, Crash
  <2>2. \A d \in Events : job'[d] = job[d] \/ job'[d] \in {"completed", "failed"}
    BY <1>9 DEF Complete, ProcessFails, Finish, Crash, Typed
  <2>3. \A d \in Events : Untold(d)' => Untold(d)
    BY <1>9, <2>2, WorkersAfter DEF Untold, IdleWorker
  <2> QED
    BY <2>1, <2>3
<1>10. CASE UNCHANGED vars
  <2>1. Kept
    BY <1>10 DEF vars, Untold
  <2> QED
    BY <1>1, <2>1
<1> HIDE DEF Kept
<1> QED
  BY StepsOfNext, <1>1, <1>2, <1>3, <1>4, <1>5, <1>6, <1>7, <1>8, <1>9, <1>10

\* An event is notified at most once more often than its job was put back:
\* crashes, failures and overlapping runs alone never repeat a notification.
THEOREM NoticesCorrect == Spec => []NoticesBoundedByStalls
<1>1. Init => UntoldOwesOne /\ NoticesBoundedByStalls
  <2> SUFFICES ASSUME Init, NEW e \in Events PROVE NoticesOf(e) = 0 /\ stalls[e] = 0
    BY DEF UntoldOwesOne, NoticesBoundedByStalls
  <2>1. {n \in DOMAIN notices : notices[n] = e} = {}
    BY DEF Init
  <2> QED
    BY <2>1, FS_EmptySet DEF Init, NoticesOf, Occurrences
<1>2. /\ Typed /\ OnePlace /\ UntoldOwesOne /\ NoticesBoundedByStalls /\ [Next]_vars
      => UntoldOwesOne' /\ NoticesBoundedByStalls'
  BY NoticesStep
<1> QED
  BY <1>1, <1>2, TypeCorrect, OnePlaceCorrect, PTL DEF Spec

-----------------------------------------------------------------------------
(* Lost events *)

\* What the runs of an instance hold.
HeldBy(i) == UNION {ToSet(run[i][r].batch) : r \in Runs}

LEMMA HeldBounded ==
  ASSUME Typed, NEW i \in Instances
  PROVE  /\ IsFiniteSet(HeldBy(i))
         /\ Cardinality(HeldBy(i)) \in Nat
         /\ Cardinality(HeldBy(i)) <= BatchSize * Cardinality(Runs)
<1> DEFINE All == Runs \X (1..BatchSize)
           P == {p \in All : p[2] \in DOMAIN run[i][p[1]].batch}
           f == [p \in P |-> run[i][p[1]].batch[p[2]]]
<1>1. /\ IsFiniteSet(Runs) /\ Cardinality(Runs) \in Nat
      /\ IsFiniteSet(1..BatchSize) /\ Cardinality(1..BatchSize) = BatchSize
      /\ BatchSize \in Nat
  <2>1. IsFiniteSet(Runs) /\ Cardinality(Runs) \in Nat
    BY OutboxAssumption, FS_CardinalityType
  <2>2. BatchSize \in Nat \ {0}
    BY OutboxAssumption
  <2>3. IsFiniteSet(1..BatchSize) /\ Cardinality(1..BatchSize) = BatchSize
    BY <2>2, FS_Interval
  <2> QED
    BY <2>1, <2>2, <2>3
<1>2. IsFiniteSet(All) /\ Cardinality(All) = Cardinality(Runs) * BatchSize
  BY <1>1, FS_Product
<1>3. IsFiniteSet(P) /\ Cardinality(P) <= Cardinality(All)
  BY <1>2, FS_Subset
<1>4. \A r \in Runs : /\ run[i][r].batch \in Seq(Events)
                      /\ Len(run[i][r].batch) <= BatchSize
  BY DEF Typed, RunStates
<1>5. f \in Surjection(P, HeldBy(i))
  <2>1. f \in [P -> HeldBy(i)]
    <3>1. ASSUME NEW p \in P
          PROVE  run[i][p[1]].batch[p[2]] \in HeldBy(i)
      BY <3>1 DEF HeldBy, ToSet
    <3> QED
      BY <3>1
  <2>2. ASSUME NEW e \in HeldBy(i)
        PROVE  \E p \in P : f[p] = e
    <3>1. PICK r \in Runs : e \in ToSet(run[i][r].batch)
      BY DEF HeldBy
    <3>2. PICK n \in DOMAIN run[i][r].batch : run[i][r].batch[n] = e
      BY <3>1 DEF ToSet
    <3>3. n \in 1..BatchSize
      BY <1>1, <1>4, <3>2
    <3>4. <<r, n>> \in P
      BY <3>2, <3>3
    <3>5. f[<<r, n>>] = e
      BY <3>2, <3>4
    <3> QED
      BY <3>4, <3>5
  <2> HIDE DEF f, P
  <2> QED
    BY <2>1, <2>2 DEF Surjection
<1>6. IsFiniteSet(HeldBy(i)) /\ Cardinality(HeldBy(i)) <= Cardinality(P)
  <2> HIDE DEF f, P
  <2> QED
    BY <1>3, <1>5, FS_Surjection
<1>7. Cardinality(HeldBy(i)) \in Nat /\ Cardinality(P) \in Nat
  BY <1>3, <1>6, FS_CardinalityType
<1> HIDE DEF All, P
<1> QED
  BY <1>1, <1>2, <1>3, <1>6, <1>7

\* No step adds to Lost but a fault, and that no more than an instance held.
LEMMA LossOfStep ==
  ASSUME Typed, OnePlace, [Next]_vars
  PROVE  \/ Lost' \subseteq Lost /\ faults' \in {faults, faults + 1}
         \/ \E i \in Instances : Lost' \subseteq Lost \cup HeldBy(i) /\ faults' = faults + 1
<1> USE DEF pollVars, jobVars, outVars
<1>1. ASSUME NEW e \in Events, Raise(e)
      PROVE  Lost' \subseteq Lost /\ faults' = faults
  BY <1>1 DEF Raise, Lost, Typed
<1>2. ASSUME NEW e \in Events, Recover(e)
      PROVE  Lost' \subseteq Lost /\ faults' = faults
  <2>1. /\ UNCHANGED <<rowStatus, run, faults>>
        /\ \A d \in Events : job'[d] = "none" => job[d] = "none"
    BY <1>2 DEF Recover, PutBack, Typed
  <2> QED
    BY <2>1 DEF Lost
<1>3. ASSUME NEW i \in Instances, NEW r \in Runs, ReadBatch(i, r)
      PROVE  Lost' \subseteq Lost /\ faults' = faults
  <2>1. UNCHANGED <<rowStatus, job, faults>>
    BY <1>3 DEF ReadBatch
  <2>2. ToSet(run[i][r].batch) = {}
    BY <1>3 DEF ReadBatch, IdleRun, ToSet
  <2>3. \A j \in Instances, q \in Runs : <<j, q>> # <<i, r>> => run'[j][q] = run[j][q]
    BY <1>3 DEF ReadBatch, Typed
  <2> QED
    BY <2>1, <2>2, <2>3 DEF Lost
<1>4. ASSUME NEW i \in Instances, NEW r \in Runs, MarkBatch(i, r)
      PROVE  Lost' \subseteq Lost /\ faults' = faults
  <2>1. UNCHANGED <<job, faults>>
    BY <1>4 DEF MarkBatch
  <2>2. \A d \in Events : \/ rowStatus'[d] = rowStatus[d]
                          \/ d \in ToSet(run[i][r].batch)
    BY <1>4 DEF MarkBatch, Typed
  <2>3. \A j \in Instances, q \in Runs : run'[j][q].batch = run[j][q].batch
    BY <1>4 DEF MarkBatch, Typed, RunStates
  <2> QED
    BY <2>1, <2>2, <2>3 DEF Lost
<1>5. ASSUME NEW i \in Instances, NEW r \in Runs, AddJob(i, r)
      PROVE  Lost' \subseteq Lost /\ faults' = faults
  <2> DEFINE b == run[i][r].batch
  <2>1. UNCHANGED <<rowStatus, faults>>
    BY <1>5 DEF AddJob
  <2>2. b \in Seq(Events) /\ b # <<>>
    BY <1>5 DEF AddJob, Typed, RunStates
  <2>3. Head(b) \in Events /\ ToSet(b) = {Head(b)} \cup ToSet(Tail(b))
    <3>1. \A n \in DOMAIN b : n = 1 \/ (n - 1 \in DOMAIN Tail(b) /\ Tail(b)[n - 1] = b[n])
      BY <2>2
    <3>2. \A n \in DOMAIN Tail(b) : n + 1 \in DOMAIN b /\ Tail(b)[n] = b[n + 1]
      BY <2>2
    <3>3. 1 \in DOMAIN b /\ Head(b) = b[1] /\ Head(b) \in Events
      BY <2>2
    <3> HIDE DEF b
    <3>4. ToSet(b) \subseteq {Head(b)} \cup ToSet(Tail(b))
      BY <3>1, <3>3 DEF ToSet
    <3>5. ToSet(Tail(b)) \subseteq ToSet(b)
      BY <3>2 DEF ToSet
    <3>6. Head(b) \in ToSet(b)
      BY <3>3 DEF ToSet
    <3> QED
      BY <3>3, <3>4, <3>5, <3>6
  <2>4. job'[Head(b)] # "none" /\ \A d \in Events : job'[d] = "none" => job[d] = "none"
    BY <1>5, <2>3 DEF AddJob, Enqueue, Typed
  <2>5. run'[i][r].batch = Tail(b)
    BY <1>5 DEF AddJob, IdleRun, Typed
  <2>6. \A j \in Instances, q \in Runs : <<j, q>> # <<i, r>> => run'[j][q] = run[j][q]
    BY <1>5 DEF AddJob, Typed
  <2>7. ASSUME NEW d \in Lost'
        PROVE  d \in Lost
    <3>1. d \in Events /\ rowStatus[d] = "PROCESSED" /\ job[d] = "none" /\ d # Head(b)
      BY <2>1, <2>4, <2>7 DEF Lost
    <3>2. d \notin ToSet(Tail(b))
      BY <2>5, <2>7 DEF Lost
    <3>3. d \notin ToSet(b)
      BY <2>3, <3>1, <3>2
    <3>4. \A j \in Instances, q \in Runs : d \notin ToSet(run[j][q].batch)
      BY <2>6, <2>7, <3>3 DEF Lost
    <3> QED
      BY <3>1, <3>4 DEF Lost
  <2> QED
    BY <2>1, <2>7
<1>6. ASSUME NEW i \in Instances, NEW r \in Runs, RunFails(i, r)
      PROVE  Lost' \subseteq Lost \cup HeldBy(i) /\ faults' = faults + 1
  <2>1. UNCHANGED <<rowStatus, job>> /\ faults' = faults + 1
    BY <1>6 DEF RunFails
  <2>2. \A j \in Instances, q \in Runs : <<j, q>> # <<i, r>> => run'[j][q] = run[j][q]
    BY <1>6 DEF RunFails, Typed
  <2>3. ToSet(run[i][r].batch) \subseteq HeldBy(i)
    BY DEF HeldBy
  <2> QED
    BY <2>1, <2>2, <2>3 DEF Lost
<1>7. ASSUME NEW i \in Instances, TakeJob(i)
      PROVE  Lost' \subseteq Lost /\ faults' = faults
  <2>1. /\ UNCHANGED <<rowStatus, run, faults>>
        /\ \A d \in Events : job'[d] = "none" => job[d] = "none"
    BY <1>7 DEF TakeJob, Typed
  <2> QED
    BY <2>1 DEF Lost
<1>8. ASSUME NEW i \in Instances, CreateNotice(i) \/ Publish(i)
      PROVE  Lost' \subseteq Lost /\ faults' = faults
  BY <1>8 DEF CreateNotice, Publish, Lost
<1>9. ASSUME NEW i \in Instances, MarkProcessed(i)
      PROVE  Lost' \subseteq Lost /\ faults' = faults
  <2>1. UNCHANGED <<run, job, faults>> /\ job[worker[i].evt] = "active"
    BY <1>9 DEF MarkProcessed, OnePlace
  <2>2. \A d \in Events : rowStatus'[d] = rowStatus[d] \/ d = worker[i].evt
    BY <1>9 DEF MarkProcessed, Typed
  <2> QED
    BY <2>1, <2>2 DEF Lost
<1>10. ASSUME NEW i \in Instances, Complete(i) \/ ProcessFails(i)
       PROVE  Lost' \subseteq Lost /\ faults' \in {faults, faults + 1}
  <2>1. /\ UNCHANGED <<rowStatus, run>> /\ faults' \in {faults, faults + 1}
        /\ \A d \in Events : job'[d] = "none" => job[d] = "none"
    BY <1>10 DEF Complete, ProcessFails, Finish, Typed
  <2> QED
    BY <2>1 DEF Lost
<1>11. ASSUME NEW i \in Instances, Crash(i)
       PROVE  Lost' \subseteq Lost \cup HeldBy(i) /\ faults' = faults + 1
  <2>1. UNCHANGED <<rowStatus, job>> /\ faults' = faults + 1
    BY <1>11 DEF Crash
  <2>2. \A j \in Instances \ {i} : run'[j] = run[j]
    BY <1>11 DEF Crash, Typed
  <2>3. \A d \in Events : d \notin HeldBy(i) => \A q \in Runs : d \notin ToSet(run[i][q].batch)
    BY DEF HeldBy
  <2> QED
    BY <2>1, <2>2, <2>3 DEF Lost
<1>12. CASE UNCHANGED vars
  BY <1>12 DEF vars, Lost
<1> QED
  BY StepsOfNext, <1>1, <1>2, <1>3, <1>4, <1>5, <1>6, <1>7, <1>8, <1>9, <1>10, <1>11, <1>12

LEMMA LossStep ==
  ASSUME Typed, OnePlace, SafeLoss, [Next]_vars
  PROVE  SafeLoss'
<1> DEFINE K == Cardinality(Runs)
<1>1. K \in Nat /\ BatchSize \in Nat /\ faults \in Nat
  BY OutboxAssumption, FS_CardinalityType DEF Typed
<1>2. /\ IsFiniteSet(Lost) /\ Cardinality(Lost) \in Nat
      /\ Cardinality(Lost) <= faults * BatchSize * K
  BY FS_CardinalityType DEF SafeLoss, LossBounded
<1>3. CASE Lost' \subseteq Lost /\ faults' \in {faults, faults + 1}
  <2>1. IsFiniteSet(Lost') /\ Cardinality(Lost') <= Cardinality(Lost)
    BY <1>2, <1>3, FS_Subset
  <2>2. Cardinality(Lost') \in Nat
    BY <2>1, FS_CardinalityType
  <2>3. faults' * BatchSize * K \in {faults * BatchSize * K,
                                     faults * BatchSize * K + BatchSize * K}
    <3>1. CASE faults' = faults
      BY <3>1
    <3>2. CASE faults' = faults + 1
      <4>1. faults' * BatchSize * K = faults * BatchSize * K + BatchSize * K
        BY <1>1, <3>2
      <4> QED
        BY <4>1
    <3> QED
      BY <1>3, <3>1, <3>2
  <2>4. Cardinality(Lost') <= faults' * BatchSize * K
    <3>1. faults * BatchSize * K \in Nat /\ BatchSize * K \in Nat
      BY <1>1
    <3> HIDE DEF K
    <3> QED
      BY <1>2, <2>1, <2>2, <2>3, <3>1
  <2> QED
    BY <2>1, <2>4 DEF SafeLoss, LossBounded
<1>4. ASSUME NEW i \in Instances,
             Lost' \subseteq Lost \cup HeldBy(i) /\ faults' = faults + 1
      PROVE  SafeLoss'
  <2> DEFINE U == Lost \cup HeldBy(i)
             h == Cardinality(HeldBy(i))
  <2>1. IsFiniteSet(HeldBy(i)) /\ h \in Nat /\ h <= BatchSize * K
    BY HeldBounded
  <2>2. /\ IsFiniteSet(U)
        /\ Cardinality(U) = Cardinality(Lost) + h - Cardinality(Lost \cap HeldBy(i))
    BY <1>2, <2>1, FS_Union
  <2>3. Cardinality(Lost \cap HeldBy(i)) \in Nat
    BY <1>2, FS_Intersection, FS_CardinalityType
  <2>4. IsFiniteSet(Lost') /\ Cardinality(Lost') <= Cardinality(U)
    BY <1>4, <2>2, FS_Subset
  <2>5. Cardinality(Lost') \in Nat
    BY <2>4, FS_CardinalityType
  <2>6. faults' * BatchSize * K = faults * BatchSize * K + BatchSize * K
    BY <1>1, <1>4
  <2>7. Cardinality(Lost') <= faults' * BatchSize * K
    <3>1. faults * BatchSize * K \in Nat /\ BatchSize * K \in Nat
      BY <1>1
    <3> HIDE DEF K, h, U
    <3> QED
      BY <1>2, <2>1, <2>2, <2>3, <2>4, <2>5, <2>6, <3>1
  <2> QED
    BY <2>4, <2>7 DEF SafeLoss, LossBounded
<1> HIDE DEF K
<1> QED
  BY LossOfStep, <1>3, <1>4

\* At any time no more events are lost than the faults so far could take with
\* them, whatever other runs and instances had read the same rows.
THEOREM LossCorrect == Spec => []LossBounded
<1>1. Init => SafeLoss
  <2> SUFFICES ASSUME Init PROVE SafeLoss
    OBVIOUS
  <2>1. Lost = {}
    BY DEF Init, Lost
  <2>2. Cardinality(Runs) \in Nat /\ BatchSize \in Nat
    BY OutboxAssumption, FS_CardinalityType
  <2>3. 0 <= faults * BatchSize * Cardinality(Runs)
    BY <2>2 DEF Init
  <2> QED
    BY <2>1, <2>3, FS_EmptySet DEF SafeLoss, LossBounded
<1>2. Typed /\ OnePlace /\ SafeLoss /\ [Next]_vars => SafeLoss'
  BY LossStep
<1>3. SafeLoss => LossBounded
  BY DEF SafeLoss
<1> QED
  BY <1>1, <1>2, <1>3, TypeCorrect, OnePlaceCorrect, PTL DEF Spec

-----------------------------------------------------------------------------
(* Without faults: the safety half of EventDelivery *)

LEMMA RaisedStep ==
  ASSUME Typed, OnePlace, Raised, [Next]_vars
  PROVE  Raised'
<1> USE DEF pollVars, jobVars, outVars
<1>1. ASSUME NEW e \in Events, Raise(e) PROVE Raised'
  <2>1. rows' = Append(rows, e) /\ UNCHANGED <<run, job>>
    BY <1>1 DEF Raise
  <2>2. ToSet(rows') = ToSet(rows) \cup {e}
    BY <2>1, Holdings DEF Typed
  <2> QED
    BY <2>1, <2>2 DEF Raised
<1>2. ASSUME NEW e \in Events, Recover(e) PROVE Raised'
  <2>1. UNCHANGED <<rows, run>>
    BY <1>2 DEF Recover, PutBack
  <2>2. \A d \in Events : job'[d] # "none" => job[d] # "none"
    BY <1>2 DEF Recover, PutBack, Typed
  <2> QED
    BY <2>1, <2>2 DEF Raised
<1>3. ASSUME NEW i \in Instances, NEW r \in Runs, ReadBatch(i, r) PROVE Raised'
  <2>1. UNCHANGED <<rows, job>>
    BY <1>3 DEF ReadBatch
  <2>2. ToSet([k \in 1..BatchLength |-> NthPending(k)]) \subseteq ToSet(rows)
    BY <1>3, ReadsBatch DEF ReadBatch
  <2>3. \A j \in Instances, q \in Runs :
            run'[j][q].batch \in {run[j][q].batch, [k \in 1..BatchLength |-> NthPending(k)]}
    BY <1>3 DEF ReadBatch, Typed
  <2> QED
    BY <2>1, <2>2, <2>3 DEF Raised
<1>4. ASSUME NEW i \in Instances, NEW r \in Runs, MarkBatch(i, r) PROVE Raised'
  <2>1. UNCHANGED <<rows, job>>
    BY <1>4 DEF MarkBatch
  <2>2. \A j \in Instances, q \in Runs : run'[j][q].batch = run[j][q].batch
    BY <1>4 DEF MarkBatch, Typed, RunStates
  <2> QED
    BY <2>1, <2>2 DEF Raised
<1>5. ASSUME NEW i \in Instances, NEW r \in Runs, AddJob(i, r) PROVE Raised'
  <2> DEFINE b == run[i][r].batch
  <2>1. UNCHANGED rows
    BY <1>5 DEF AddJob
  <2>2. b \in Seq(Events) /\ b # <<>>
    BY <1>5 DEF AddJob, Typed, RunStates
  <2>3. /\ Head(b) \in Events /\ Head(b) \in ToSet(rows)
        /\ ToSet(Tail(b)) \subseteq ToSet(rows)
    <3>1. Head(b) \in Events
      BY <2>2
    <3>2. Head(b) \in ToSet(b) /\ ToSet(Tail(b)) \subseteq ToSet(b)
      <4> HIDE DEF b
      <4> QED
        BY <2>2, <3>1, Holdings
    <3>3. ToSet(b) \subseteq ToSet(rows)
      BY DEF Raised
    <3> QED
      BY <3>1, <3>2, <3>3
  <2>4. \A d \in Events : job'[d] # "none" => job[d] # "none" \/ d = Head(b)
    BY <1>5 DEF AddJob, Enqueue, Typed
  <2>5. \A j \in Instances, q \in Runs :
            run'[j][q].batch \in {run[j][q].batch, <<>>, Tail(b)}
    BY <1>5 DEF AddJob, IdleRun, Typed
  <2>6. ToSet(<<>>) = {}
    BY DEF ToSet
  <2> QED
    BY <2>1, <2>3, <2>4, <2>5, <2>6 DEF Raised
<1>6. ASSUME NEW i \in Instances, NEW r \in Runs, RunFails(i, r) PROVE Raised'
  <2>1. UNCHANGED <<rows, job>>
    BY <1>6 DEF RunFails
  <2>2. \A j \in Instances, q \in Runs : run'[j][q].batch \in {run[j][q].batch, <<>>}
    BY <1>6 DEF RunFails, IdleRun, Typed
  <2>3. ToSet(<<>>) = {}
    BY DEF ToSet
  <2> QED
    BY <2>1, <2>2, <2>3 DEF Raised
<1>7. ASSUME NEW i \in Instances,
             \/ TakeJob(i) \/ CreateNotice(i) \/ Publish(i) \/ MarkProcessed(i)
             \/ Complete(i) \/ ProcessFails(i)
      PROVE  Raised'
  <2>1. UNCHANGED <<rows, run>>
    BY <1>7 DEF TakeJob, CreateNotice, Publish, MarkProcessed, Complete, ProcessFails, Finish
  <2>2. \A d \in Events : job'[d] # "none" => job[d] # "none"
    <3>1. TakeJob(i) => Head(queue) \in Events /\ job[Head(queue)] = "waiting"
      <4>1. TakeJob(i) => 1 \in DOMAIN queue /\ Head(queue) = queue[1] /\ queue[1] \in Events
        BY DEF TakeJob, Typed
      <4> QED
        BY <4>1 DEF OnePlace
    <3>2. worker[i].pc # "idle" => job[worker[i].evt] = "active"
      BY DEF OnePlace
    <3> QED
      BY <1>7, <3>1, <3>2
      DEF TakeJob, CreateNotice, Publish, MarkProcessed, Complete, ProcessFails, Finish, Typed
  <2> QED
    BY <2>1, <2>2 DEF Raised
<1>8. ASSUME NEW i \in Instances, Crash(i) PROVE Raised'
  <2>1. UNCHANGED <<rows, job>>
    BY <1>8 DEF Crash
  <2>2. \A j \in Instances, q \in Runs : run'[j][q].batch \in {run[j][q].batch, <<>>}
    BY <1>8 DEF Crash, NoRuns, IdleRun, Typed
  <2>3. ToSet(<<>>) = {}
    BY DEF ToSet
  <2> QED
    BY <2>1, <2>2, <2>3 DEF Raised
<1>9. CASE UNCHANGED vars
  BY <1>9 DEF vars, Raised
<1> QED
  BY StepsOfNext, <1>1, <1>2, <1>3, <1>4, <1>5, <1>6, <1>7, <1>8, <1>9

LEMMA NothingStallsStep ==
  ASSUME Typed, OnePlace, NothingStalls, [Next]_vars
  PROVE  NothingStalls'
<1> USE DEF pollVars, jobVars, outVars
<1> SUFFICES ASSUME faults' = 0
             PROVE  \A e \in Events : stalls'[e] = 0 /\ (job'[e] = "active" => Handled(e)')
  BY DEF NothingStalls
<1>1. faults = 0 => \A e \in Events : stalls[e] = 0 /\ (job[e] = "active" => Handled(e))
  BY DEF NothingStalls
<1>2. ASSUME NEW e \in Events, Recover(e) PROVE FALSE
  <2>1. faults = 0
    BY <1>2 DEF Recover, PutBack
  <2> QED
    BY <1>1, <1>2, <2>1 DEF Recover
<1>3. ASSUME NEW i \in Instances, NEW r \in Runs, RunFails(i, r) PROVE FALSE
  BY <1>3 DEF RunFails, Typed
<1>4. ASSUME NEW i \in Instances, ProcessFails(i) \/ Crash(i) PROVE FALSE
  BY <1>4 DEF ProcessFails, Crash, Typed
<1>5. ASSUME NEW i \in Instances, NEW r \in Runs,
             ReadBatch(i, r) \/ MarkBatch(i, r) \/ AddJob(i, r)
      PROVE  \A e \in Events : stalls'[e] = 0 /\ (job'[e] = "active" => Handled(e)')
  <2>1. /\ UNCHANGED <<faults, stalls, worker>>
        /\ \A e \in Events : job'[e] = "active" => job[e] = "active"
    BY <1>5 DEF ReadBatch, MarkBatch, AddJob, Enqueue, Typed
  <2> QED
    BY <1>1, <2>1 DEF Handled
<1>6. ASSUME NEW i \in Instances, TakeJob(i)
      PROVE  \A e \in Events : stalls'[e] = 0 /\ (job'[e] = "active" => Handled(e)')
  <2>1. UNCHANGED <<faults, stalls>>
    BY <1>6 DEF TakeJob
  <2>2. ASSUME NEW e \in Events, job'[e] = "active" PROVE Handled(e)'
    <3>1. CASE e = Head(queue)
      BY <1>6, <3>1, WorkersAfter DEF Handled
    <3>2. CASE e # Head(queue)
      <4>1. job[e] = "active"
        BY <1>6, <2>2, <3>2 DEF TakeJob, Typed
      <4>2. PICK j \in Instances : worker[j].evt = e
        BY <1>1, <2>1, <4>1 DEF Handled
      <4>3. j # i
        BY <1>6, <4>2, IdleHasNoEvent DEF TakeJob
      <4> QED
        BY <1>6, <4>2, <4>3, WorkersAfter DEF Handled
    <3> QED
      BY <3>1, <3>2
  <2> QED
    BY <1>1, <2>1, <2>2
<1>7. ASSUME NEW i \in Instances, CreateNotice(i) \/ Publish(i) \/ MarkProcessed(i)
      PROVE  \A e \in Events : stalls'[e] = 0 /\ (job'[e] = "active" => Handled(e)')
  <2>1. UNCHANGED <<faults, stalls, job>>
    BY <1>7 DEF CreateNotice, Publish, MarkProcessed
  <2>2. \A j \in Instances : worker'[j].evt = worker[j].evt
    BY <1>7, WorkersAfter
  <2> QED
    BY <1>1, <2>1, <2>2 DEF Handled
<1>8. ASSUME NEW i \in Instances, Complete(i)
      PROVE  \A e \in Events : stalls'[e] = 0 /\ (job'[e] = "active" => Handled(e)')
  <2>1. UNCHANGED <<faults, stalls>> /\ job' = [job EXCEPT ![worker[i].evt] = "completed"]
    BY <1>8 DEF Complete, Finish
  <2>2. ASSUME NEW e \in Events, job'[e] = "active" PROVE Handled(e)'
    <3>1. job[e] = "active" /\ e # worker[i].evt
      BY <2>1, <2>2 DEF Typed
    <3>2. PICK j \in Instances : worker[j].evt = e
      BY <1>1, <2>1, <3>1 DEF Handled
    <3> QED
      BY <1>8, <3>1, <3>2, WorkersAfter DEF Handled
  <2> QED
    BY <1>1, <2>1, <2>2
<1>9. ASSUME NEW e \in Events, Raise(e) \/ UNCHANGED vars
      PROVE  \A d \in Events : stalls'[d] = 0 /\ (job'[d] = "active" => Handled(d)')
  BY <1>1, <1>9 DEF Raise, vars, Handled
<1> QED
  BY StepsOfNext, <1>2, <1>3, <1>4, <1>5, <1>6, <1>7, <1>8, <1>9

\* While nothing has failed a step raises an event, delivers one that was not
\* delivered yet, or is none of EventDelivery's business.
LEMMA DeliveryStep ==
  ASSUME Typed, OnePlace, UntoldOwesOne, Raised, NothingStalls, [Next]_vars, faults' = 0
  PROVE  [Delivery!DeliveryNext]_<<ToSet(rows), [e \in Events |-> NoticesOf(e)]>>
<1> USE DEF pollVars, jobVars, outVars
<1>1. ASSUME NEW e \in Events, Raise(e)
      PROVE  Delivery!Occur(e)
  <2>1. rows' = Append(rows, e) /\ UNCHANGED notices
    BY <1>1 DEF Raise
  <2>2. ToSet(rows') = ToSet(rows) \cup {e}
    BY <2>1, Holdings DEF Typed
  <2> QED
    BY <2>1, <2>2 DEF Delivery!Occur, NoticesOf
<1>2. ASSUME NEW i \in Instances, CreateNotice(i)
      PROVE  \E e \in Events : Delivery!Deliver(e)
  <2>1. PICK e \in Events :
            /\ worker[i].pc = "create" /\ worker[i].evt = e
            /\ notices' = Append(notices, e)
            /\ UNCHANGED <<rows, faults>>
    BY <1>2, BusyWorker DEF CreateNotice
  <2>2. \A d \in Events : /\ NoticesOf(d) \in Nat
                          /\ NoticesOf(d)' = IF e = d THEN NoticesOf(d) + 1 ELSE NoticesOf(d)
    BY <2>1, OccurrencesOfAppend DEF NoticesOf, Typed
  <2>3. NoticesOf(e) <= 0
    BY <2>1 DEF UntoldOwesOne, Untold, NothingStalls
  <2>4. NoticesOf(e) = 0
    BY <2>2, <2>3
  <2>5. e \in ToSet(rows)
    BY <2>1 DEF OnePlace, Raised
  <2>6. [d \in Events |-> NoticesOf(d)]' = [[d \in Events |-> NoticesOf(d)] EXCEPT ![e] = 1]
    <3>1. \A d \in Events : NoticesOf(d)' = IF d = e THEN 1 ELSE NoticesOf(d)
      BY <2>2, <2>4
    <3> QED
      BY <3>1
  <2> QED
    BY <2>1, <2>4, <2>5, <2>6 DEF Delivery!Deliver
<1>3. ASSUME UNCHANGED <<rows, notices>>
      PROVE  UNCHANGED <<ToSet(rows), [e \in Events |-> NoticesOf(e)]>>
  BY <1>3 DEF NoticesOf
<1>4. \/ \E e \in Events : Raise(e)
      \/ \E i \in Instances : CreateNotice(i)
      \/ UNCHANGED <<rows, notices>>
  BY StepsOfNext DEF Recover, PutBack, ReadBatch, MarkBatch, AddJob, RunFails, TakeJob,
     Publish, MarkProcessed, Complete, ProcessFails, Finish, Crash, vars
<1>5. CASE \E e \in Events : Raise(e)
  BY <1>1, <1>5 DEF Delivery!DeliveryNext
<1>6. CASE \E i \in Instances : CreateNotice(i)
  BY <1>2, <1>6 DEF Delivery!DeliveryNext
<1>7. CASE UNCHANGED <<rows, notices>>
  BY <1>3, <1>7
<1> QED
  BY <1>4, <1>5, <1>6, <1>7

LEMMA FaultlessStep ==
  ASSUME MaxFaults = 0, Typed, faults = 0, [Next]_vars
  PROVE  faults' = 0
<1> USE DEF pollVars, jobVars, outVars
<1>1. ~(faults < MaxFaults)
  OBVIOUS
<1>2. \A i \in Instances, r \in Runs : ~RunFails(i, r)
  BY <1>1 DEF RunFails
<1>3. \A i \in Instances : ~ProcessFails(i) /\ ~Crash(i)
  BY <1>1 DEF ProcessFails, Crash
<1>4. \A e \in Events : Raise(e) \/ Recover(e) => faults' = faults
  BY DEF Raise, Recover, PutBack
<1>5. \A i \in Instances, r \in Runs :
          ReadBatch(i, r) \/ MarkBatch(i, r) \/ AddJob(i, r) => faults' = faults
  BY DEF ReadBatch, MarkBatch, AddJob
<1>6. \A i \in Instances :
          TakeJob(i) \/ CreateNotice(i) \/ Publish(i) \/ MarkProcessed(i) \/ Complete(i)
          => faults' = faults
  BY DEF TakeJob, CreateNotice, Publish, MarkProcessed, Complete
<1>7. CASE UNCHANGED vars
  BY <1>7 DEF vars
<1> QED
  BY StepsOfNext, <1>2, <1>3, <1>4, <1>5, <1>6, <1>7

\* Without faults every step of the pipeline is a step of EventDelivery or
\* none of its business: an event is notified once at most, after it was raised,
\* however many instances and runs race.
THEOREM ImplementsDelivery ==
  ASSUME MaxFaults = 0
  PROVE  Spec => /\ Delivery!DeliveryInit
                 /\ [][Delivery!DeliveryNext]_<<ToSet(rows), [e \in Events |-> NoticesOf(e)]>>
<1> DEFINE Clean == UntoldOwesOne /\ NoticesBoundedByStalls /\ Raised /\ NothingStalls
                    /\ faults = 0
<1>1. Init => Clean /\ Delivery!DeliveryInit
  <2> SUFFICES ASSUME Init PROVE Clean /\ Delivery!DeliveryInit
    OBVIOUS
  <2>1. ToSet(rows) = {} /\ \A i \in Instances, r \in Runs : ToSet(run[i][r].batch) = {}
    BY DEF Init, IdleRun, ToSet
  <2>2. \A e \in Events : NoticesOf(e) = 0
    <3>1. \A e \in Events : {n \in DOMAIN notices : notices[n] = e} = {}
      BY DEF Init
    <3> QED
      BY <3>1, FS_EmptySet DEF NoticesOf, Occurrences
  <2>3. UntoldOwesOne /\ NoticesBoundedByStalls
    BY <2>2 DEF Init, UntoldOwesOne, NoticesBoundedByStalls
  <2>4. Raised /\ NothingStalls /\ faults = 0
    BY <2>1 DEF Init, Raised, NothingStalls
  <2> QED
    BY <2>1, <2>2, <2>3, <2>4 DEF Delivery!DeliveryInit
<1>2. Typed /\ OnePlace /\ Clean /\ [Next]_vars => Clean'
  BY NoticesStep, RaisedStep, NothingStallsStep, FaultlessStep
<1>3. Typed /\ OnePlace /\ Clean /\ [Next]_vars =>
          [Delivery!DeliveryNext]_<<ToSet(rows), [e \in Events |-> NoticesOf(e)]>>
  BY FaultlessStep, DeliveryStep
<1> HIDE DEF Clean
<1> QED
  BY <1>1, <1>2, <1>3, TypeCorrect, OnePlaceCorrect, PTL DEF Spec
=============================================================================
