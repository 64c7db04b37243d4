------------------------------- MODULE Outbox -------------------------------
(***************************************************************************)
(* From an Outbox row to the admins' notification: OutboxPoller.run moves  *)
(* the events into the BullMQ queue 'outbox-sync', and                     *)
(* NotificationsProcessor.process, run by the queue's workers, writes the  *)
(* Notification, publishes it and marks the row.                           *)
(*                                                                         *)
(* Every instance of the server polls and consumes.  The cron starts a run *)
(* every 5 s whether or not the last one has ended, so an instance has     *)
(* several runs in progress.  Each await is the end of a step.  A crash    *)
(* ends an instance's runs and its worker; the instance is up again at     *)
(* once, with nothing in memory.                                           *)
(***************************************************************************)
EXTENDS Naturals, Sequences, FiniteSets, SequencesExt

CONSTANTS Events,     \* Outbox.id
          Instances,  \* server processes
          Runs,       \* overlapping runs of the poller in one instance
          BatchSize,  \* rows a run takes (100 in the code)
          MaxStalls,  \* times a stalled job is put back (BullMQ's default: 1)
          MaxFaults   \* bound: crashes and failed awaits in a behaviour

ASSUME OutboxAssumption ==
    /\ BatchSize \in Nat \ {0}
    /\ MaxStalls \in Nat
    /\ MaxFaults \in Nat
    /\ IsFiniteSet(Runs)
    /\ "none" \notin Events

VARIABLES rows,       \* the Outbox rows, by createdAt
          rowStatus,  \* Outbox.status, NONE before the row is committed
          processed,  \* Outbox.processedAt is set
          run,        \* the poller's runs in progress
          queue,      \* the waiting jobs, next one first
          job,        \* the state of each job; its id is the event's id
          stalls,     \* how often a job was put back
          worker,     \* the job each instance's worker handles, and its step
          notices,    \* the Notification rows, oldest first
          published,  \* the messages on the Redis channel, oldest first
          faults      \* crashes and failures so far

pollVars == <<rows, rowStatus, run>>
jobVars == <<queue, job, stalls>>
outVars == <<processed, notices, published>>
vars == <<pollVars, jobVars, worker, outVars, faults>>

IdleRun == [pc |-> "idle", batch |-> <<>>]
NoEvent == "none"
IdleWorker == [pc |-> "idle", evt |-> NoEvent]

Init ==
    /\ rows = <<>>
    /\ rowStatus = [e \in Events |-> "NONE"]
    /\ processed = [e \in Events |-> FALSE]
    /\ run = [i \in Instances |-> [r \in Runs |-> IdleRun]]
    /\ queue = <<>>
    /\ job = [e \in Events |-> "none"]
    /\ stalls = [e \in Events |-> 0]
    /\ worker = [i \in Instances |-> IdleWorker]
    /\ notices = <<>>
    /\ published = <<>>
    /\ faults = 0

-----------------------------------------------------------------------------
\* A handler of an order commits an event.
Raise(e) ==
    /\ rowStatus[e] = "NONE"
    /\ rows' = Append(rows, e)
    /\ rowStatus' = [rowStatus EXCEPT ![e] = "PENDING"]
    /\ UNCHANGED <<run, jobVars, worker, outVars, faults>>

-----------------------------------------------------------------------------
(* OutboxPoller.run *)

Pending == {n \in DOMAIN rows : rowStatus[rows[n]] = "PENDING"}
NthPending(k) ==
    rows[CHOOSE n \in Pending : Cardinality(Pending \cap 1..n) = k]
BatchLength ==
    IF Cardinality(Pending) < BatchSize THEN Cardinality(Pending) ELSE BatchSize

ReadBatch(i, r) ==
    /\ run[i][r] = IdleRun
    /\ Pending # {}
    /\ run' = [run EXCEPT ![i][r] =
           [pc |-> "mark", batch |-> [k \in 1..BatchLength |-> NthPending(k)]]]
    /\ UNCHANGED <<rows, rowStatus, jobVars, worker, outVars, faults>>

\* Mutant: every PENDING row is marked, also one the run did not read.
MarkAllPending(i, r) ==
    /\ run[i][r].pc = "mark"
    /\ rowStatus' = [e \in Events |->
           IF rowStatus[e] = "PENDING" THEN "PROCESSED" ELSE rowStatus[e]]
    /\ run' = [run EXCEPT ![i][r].pc = "add"]
    /\ UNCHANGED <<rows, jobVars, worker, outVars, faults>>

\* updateMany: the rows of the batch that are still PENDING become PROCESSED.
\* The run keeps its whole batch, whoever marked it.
MarkBatch(i, r) ==
    /\ run[i][r].pc = "mark"
    /\ rowStatus' = [e \in Events |->
           IF e \in ToSet(run[i][r].batch) /\ rowStatus[e] = "PENDING"
           THEN "PROCESSED" ELSE rowStatus[e]]
    /\ run' = [run EXCEPT ![i][r].pc = "add"]
    /\ UNCHANGED <<rows, jobVars, worker, outVars, faults>>

\* Mutant: finished jobs are not kept, so that their ids are free again.
EnqueueFinished(e) ==
    IF job[e] \in {"none", "completed", "failed"}
    THEN /\ queue' = Append(queue, e)
         /\ job' = [job EXCEPT ![e] = "waiting"]
    ELSE UNCHANGED <<queue, job>>

\* Queue.add with jobId: nothing happens if the queue has a job of that id,
\* whatever its state; finished jobs are kept.
Enqueue(e) ==
    IF job[e] = "none"
    THEN /\ queue' = Append(queue, e)
         /\ job' = [job EXCEPT ![e] = "waiting"]
    ELSE UNCHANGED <<queue, job>>

AddJob(i, r) ==
    LET rest == Tail(run[i][r].batch) IN
    /\ run[i][r].pc = "add"
    /\ Enqueue(Head(run[i][r].batch))
    /\ run' = [run EXCEPT ![i][r] =
           IF rest = <<>> THEN IdleRun ELSE [pc |-> "add", batch |-> rest]]
    /\ UNCHANGED <<rows, rowStatus, stalls, worker, outVars, faults>>

\* An await of the run fails (database or Redis out of reach): the run ends.
RunFails(i, r) ==
    /\ faults < MaxFaults
    /\ run[i][r] # IdleRun
    /\ run' = [run EXCEPT ![i][r] = IdleRun]
    /\ faults' = faults + 1
    /\ UNCHANGED <<rows, rowStatus, jobVars, worker, outVars>>

-----------------------------------------------------------------------------
(* NotificationsProcessor.process *)

TakeJob(i) ==
    /\ worker[i].pc = "idle"
    /\ queue # <<>>
    /\ worker' = [worker EXCEPT ![i] = [pc |-> "create", evt |-> Head(queue)]]
    /\ queue' = Tail(queue)
    /\ job' = [job EXCEPT ![Head(queue)] = "active"]
    /\ UNCHANGED <<pollVars, stalls, outVars, faults>>

GoTo(i, pc) == worker' = [worker EXCEPT ![i].pc = pc]

\* notification.create with one recipient per admin
CreateNotice(i) ==
    /\ worker[i].pc = "create"
    /\ notices' = Append(notices, worker[i].evt)
    /\ GoTo(i, "publish")
    /\ UNCHANGED <<pollVars, jobVars, processed, published, faults>>

Publish(i) ==
    /\ worker[i].pc = "publish"
    /\ published' = Append(published, worker[i].evt)
    /\ GoTo(i, "mark")
    /\ UNCHANGED <<pollVars, jobVars, processed, notices, faults>>

MarkProcessed(i) ==
    /\ worker[i].pc = "mark"
    /\ rowStatus' = [rowStatus EXCEPT ![worker[i].evt] = "PROCESSED"]
    /\ processed' = [processed EXCEPT ![worker[i].evt] = TRUE]
    /\ GoTo(i, "finish")
    /\ UNCHANGED <<rows, run, jobVars, notices, published, faults>>

\* The queue learns the outcome after process has returned or thrown.
Finish(i, outcome) ==
    /\ job' = [job EXCEPT ![worker[i].evt] = outcome]
    /\ worker' = [worker EXCEPT ![i] = IdleWorker]
    /\ UNCHANGED <<pollVars, queue, stalls, outVars>>

Complete(i) ==
    /\ worker[i].pc = "finish"
    /\ Finish(i, "completed")
    /\ UNCHANGED faults

\* An await of process fails: jobs have one attempt.
ProcessFails(i) ==
    /\ faults < MaxFaults
    /\ worker[i].pc \in {"create", "publish", "mark"}
    /\ Finish(i, "failed")
    /\ faults' = faults + 1

-----------------------------------------------------------------------------
NoRuns == [r \in Runs |-> IdleRun]

Crash(i) ==
    /\ faults < MaxFaults
    /\ run[i] # NoRuns \/ worker[i] # IdleWorker
    /\ run' = [run EXCEPT ![i] = NoRuns]
    /\ worker' = [worker EXCEPT ![i] = IdleWorker]
    /\ faults' = faults + 1
    /\ UNCHANGED <<rows, rowStatus, jobVars, outVars>>

Handled(e) == \E i \in Instances : worker[i].evt = e

PutBack(e) ==
    /\ queue' = <<e>> \o queue
    /\ job' = [job EXCEPT ![e] = "waiting"]
    /\ UNCHANGED <<pollVars, worker, outVars, faults>>

\* Mutants: a stalled job is put back without a count; nobody looks for them.
RecoverUncounted(e) ==
    /\ job[e] = "active" /\ ~Handled(e)
    /\ PutBack(e)
    /\ UNCHANGED stalls
RecoverNever(e) == FALSE /\ e \in Events

\* BullMQ finds an active job whose worker is gone: it is next in line again,
\* or fails once it was put back MaxStalls times.
Recover(e) ==
    /\ job[e] = "active"
    /\ ~Handled(e)
    /\ \/ /\ stalls[e] < MaxStalls
          /\ stalls' = [stalls EXCEPT ![e] = @ + 1]
          /\ PutBack(e)
       \/ /\ stalls[e] >= MaxStalls
          /\ job' = [job EXCEPT ![e] = "failed"]
          /\ UNCHANGED <<pollVars, queue, stalls, worker, outVars, faults>>

-----------------------------------------------------------------------------
RunStep(i, r) == ReadBatch(i, r) \/ MarkBatch(i, r) \/ AddJob(i, r)
WorkerStep(i) ==
    TakeJob(i) \/ CreateNotice(i) \/ Publish(i) \/ MarkProcessed(i) \/ Complete(i)

Next ==
    \/ \E e \in Events : Raise(e) \/ Recover(e)
    \/ \E i \in Instances, r \in Runs : RunStep(i, r) \/ RunFails(i, r)
    \/ \E i \in Instances : WorkerStep(i) \/ ProcessFails(i) \/ Crash(i)

\* The cron keeps firing and every await ends; a worker asks for the next job
\* as soon as it is free; the queue looks for stalled jobs every 30 s.
Fairness ==
    /\ \A i \in Instances, r \in Runs : WF_vars(RunStep(i, r))
    /\ \A i \in Instances : WF_vars(WorkerStep(i))
    /\ \A e \in Events : WF_vars(Recover(e))

Spec == Init /\ [][Next]_vars
FairSpec == Spec /\ Fairness

-----------------------------------------------------------------------------
(* Properties *)

Occurrences(e, s) == Cardinality({n \in DOMAIN s : s[n] = e})
NoticesOf(e) == Occurrences(e, notices)

\* A repeated notification needs a stalled job: crashes, failures and
\* overlapping runs alone never repeat one.
NoticesBoundedByStalls == \A e \in Events : NoticesOf(e) <= stalls[e] + 1

\* An event nobody will notify and no failed job tells of: its row is marked,
\* no run holds it, and the queue never heard of it.
Lost ==
    {e \in Events :
        /\ rowStatus[e] = "PROCESSED"
        /\ job[e] = "none"
        /\ \A i \in Instances, r \in Runs : e \notin ToSet(run[i][r].batch)}

\* The poller marks its rows before it queues them, so events get lost; but a
\* fault loses no more than the batches of the runs it ends, whatever other
\* runs and instances had read the same rows.
LossBounded ==
    Cardinality(Lost) <= faults * BatchSize * Cardinality(Runs)

\* Every job ends, also one whose worker crashed.
JobsEnd ==
    \A e \in Events :
        job[e] \in {"waiting", "active"} ~> job[e] \in {"completed", "failed"}

\* Without faults the pipeline keeps the promise of EventDelivery: one
\* notification per event, eventually, however many instances and runs race.
Delivery == INSTANCE EventDelivery
    WITH raised <- ToSet(rows), delivered <- [e \in Events |-> NoticesOf(e)]
DeliversOnce == Delivery!DeliverySpec
=============================================================================
