---------------------------- MODULE InboxProofs ----------------------------
(***************************************************************************)
(* Theorems about Inbox, for any number of notifications, pages of any     *)
(* size and a clock that goes on for any time.                             *)
(***************************************************************************)
EXTENDS Inbox, TLAPS

Note == [at: {"none", "begun", "written", "lost"}, created: Int, read: Int]

\* The clock is never behind the moment the inbox was last opened.
Typed ==
    /\ now \in Nat
    /\ note \in [Notes -> Note]
    /\ lastSeen \in Int
    /\ lastSeen <= now
    /\ known \subseteq Notes
    /\ before \in [seen: SUBSET Notes, read: SUBSET Notes]

\* UncountedWasThere of the notes in progress as well: one that commits late
\* has the createdAt of its beginning.
SeenInv ==
    \A n \in Begun :
        note[n].created > lastSeen \/ n \in before.seen \/ note[n].created = lastSeen

\* The notes that markAllRead found are still written, and none is read before
\* it is written.
ReadInv ==
    /\ before.read \subseteq Written
    /\ \A n \in Notes \ Written : note[n].read = Never
    /\ UnknownStaysUnread

Inv == Typed /\ SeenInv /\ ReadInv

LEMMA InitInv == Init => Inv
BY DEF Init, Inv, Typed, Note, NoNote, Never, SeenInv, ReadInv, Begun, Written,
       UnknownStaysUnread, Unread

\* The steps of the processor: a note that is written is not read yet.
LEMMA ProcessorKeeps ==
    ASSUME Inv, NEW n \in Notes,
           BeginNote(n) \/ CommitNote(n) \/ LoseNote(n) \/ PublishNote(n)
    PROVE  Inv'
<1> USE DEF Inv, Typed, Note
<1>1. CASE BeginNote(n)
  <2>1. Written' = Written /\ n \notin Written
    BY <1>1 DEF BeginNote, Written, NoNote
  <2>2. Typed'
    BY <1>1 DEF BeginNote, Never
  <2>3. SeenInv'
    BY <1>1 DEF BeginNote, SeenInv, Begun
  <2>4. ReadInv'
    BY <1>1, <2>1 DEF BeginNote, ReadInv, UnknownStaysUnread, Unread, Written
  <2> QED
    BY <2>2, <2>3, <2>4
<1>2. CASE CommitNote(n)
  <2>1. Written' = Written \cup {n}
    BY <1>2 DEF CommitNote, Written
  <2>2. Typed'
    BY <1>2 DEF CommitNote
  <2>3. SeenInv'
    BY <1>2 DEF CommitNote, SeenInv, Begun
  <2>4. n \notin Written
    BY <1>2 DEF CommitNote, Written
  <2>5. ReadInv'
    BY <1>2, <2>1, <2>4 DEF CommitNote, ReadInv, UnknownStaysUnread, Unread, Written
  <2> QED
    BY <2>2, <2>3, <2>5
<1>3. CASE LoseNote(n)
  <2>1. Written' = Written /\ n \notin Written
    BY <1>3 DEF LoseNote, Written
  <2>2. Typed'
    BY <1>3 DEF LoseNote
  <2>3. SeenInv'
    BY <1>3 DEF LoseNote, SeenInv, Begun
  <2>4. ReadInv'
    BY <1>3, <2>1 DEF LoseNote, ReadInv, UnknownStaysUnread, Unread, Written
  <2> QED
    BY <2>2, <2>3, <2>4
<1>4. CASE PublishNote(n)
  BY <1>4 DEF PublishNote, SeenInv, Begun, ReadInv, UnknownStaysUnread, Unread,
              Written
<1> QED
  BY <1>1, <1>2, <1>3, <1>4

\* What marks and reads leave as it was: which notes are begun and written.
LEMMA MarksKeep ==
    ASSUME Inv, NEW ids \in SUBSET known, MarkRead(ids) \/ MarkAllRead
    PROVE  Inv'
<1> USE DEF Inv, Typed, Note
<1>1. /\ Written' = Written /\ Begun' = Begun
      /\ \A n \in Notes : note'[n].created = note[n].created
      /\ \A n \in Notes \ Written : note'[n].read = note[n].read
  BY DEF MarkRead, MarkAllRead, Written, Begun, Unread
<1>2. Typed'
  <2>1. \A n \in Notes : [note[n] EXCEPT !.read = now] \in Note
    OBVIOUS
  <2>2. note' \in [Notes -> Note]
    BY <2>1 DEF MarkRead, MarkAllRead
  <2>3. before' \in [seen: SUBSET Notes, read: SUBSET Notes]
    BY DEF MarkRead, MarkAllRead, Written
  <2> QED
    BY <2>2, <2>3 DEF MarkRead, MarkAllRead
<1>3. before'.seen = before.seen /\ lastSeen' = lastSeen /\ known' = known
  BY DEF MarkRead, MarkAllRead
<1>4. SeenInv'
  BY <1>1, <1>3 DEF SeenInv, Begun
<1>5. CASE MarkRead(ids)
  <2>1. \A n \in Notes \ known : note'[n] = note[n]
    BY <1>5 DEF MarkRead
  <2>2. before' = before
    BY <1>5 DEF MarkRead
  <2> QED
    BY <1>1, <1>2, <1>3, <1>4, <2>1, <2>2
       DEF ReadInv, UnknownStaysUnread, Unread, Written
<1>6. CASE MarkAllRead
  <2>1. before'.read = Written
    BY <1>6 DEF MarkAllRead
  <2> QED
    BY <1>1, <1>2, <1>3, <1>4, <2>1
       DEF ReadInv, UnknownStaysUnread, Unread, Written
<1> QED
  BY <1>5, <1>6

\* Everything else leaves the notes alone.
LEMMA OthersKeep ==
    ASSUME Inv,
           \/ OpenList(Written) \/ OpenList(Unread(Written))
           \/ MarkSeen
           \/ BeginStats \/ CountUnseen \/ CountUnread \/ AnswerStats
           \/ Tick \/ UNCHANGED vars
    PROVE  Inv'
<1> USE DEF Inv, Typed, Note
<1>1. note' = note /\ Written' = Written /\ Begun' = Begun
  BY DEF OpenList, MarkSeen, BeginStats, CountUnseen, CountUnread, AnswerStats,
         Tick, vars, Written, Begun
<1>2. before'.read = before.read /\ known \subseteq known'
  BY DEF OpenList, MarkSeen, BeginStats, CountUnseen, CountUnread, AnswerStats,
         Tick, vars
<1>3. Unread(Written) \subseteq Written /\ Written \subseteq Notes
  BY DEF Unread, Written
<1>4. Typed'
  BY <1>3 DEF OpenList, MarkSeen, BeginStats, CountUnseen, CountUnread,
              AnswerStats, Tick, vars, Begun
<1>5. SeenInv'
  <2>1. CASE MarkSeen
    BY <2>1, <1>1 DEF MarkSeen, SeenInv, Begun
  <2>2. CASE ~MarkSeen
    <3>1. lastSeen' = lastSeen /\ before' = before
      BY <2>2 DEF OpenList, BeginStats, CountUnseen, CountUnread, AnswerStats,
                  Tick, vars
    <3> QED
      BY <3>1, <1>1 DEF SeenInv, Begun
  <2> QED
    BY <2>1, <2>2
<1>6. ReadInv'
  BY <1>1, <1>2 DEF ReadInv, UnknownStaysUnread, Unread, Written
<1> QED
  BY <1>4, <1>5, <1>6

LEMMA InvAlways == Spec => []Inv
<1>1. Inv /\ [Next]_vars => Inv'
  BY ProcessorKeeps, MarksKeep, OthersKeep DEF Next
<1> QED
  BY <1>1, InitInv, PTL DEF Spec

\* The badge of the inbox leaves out only what was written, or in progress,
\* when the admin last opened it, however late a notification commits.
THEOREM BadgeHonest == Spec => []UncountedWasThere
<1>1. Inv => UncountedWasThere
  BY DEF Inv, Typed, Note, SeenInv, UncountedWasThere, Unseen, Written, Begun
<1> QED
  BY <1>1, InvAlways, PTL

\* A notification no screen has shown is unread, or markAllRead found it.
THEOREM UnknownCounts == Spec => []UnknownStaysUnread
<1>1. Inv => UnknownStaysUnread
  BY DEF Inv, ReadInv
<1> QED
  BY <1>1, InvAlways, PTL
=============================================================================
