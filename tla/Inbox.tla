------------------------------- MODULE Inbox -------------------------------
(***************************************************************************)
(* One admin's notifications and the two counts of the badge:              *)
(* NotificationsService, beside the processor that writes notifications    *)
(* (the processor itself is in module Outbox).                             *)
(*                                                                         *)
(* A notification gets its createdAt, and its recipient's row the same     *)
(* one, when its statement begins; both can be seen only after the commit. *)
(* A request of the admin may be answered in between.  The pages of the    *)
(* list after the first one are in module Paging.                          *)
(***************************************************************************)
EXTENDS Integers, FiniteSets, FiniteSetsExt

CONSTANTS Notes,    \* Notification.id
          Limit,    \* rows of a page
          LastTime  \* bound: the last moment of the clock

ASSUME InboxAssumption == Limit \in Nat \ {0} /\ LastTime \in Nat

VARIABLES
    now,
    note,     \* by id: the state of its transaction, createdAt, readAt
    lastSeen, \* User.lastSeenNotificationsAt
    stats,    \* the getStats in progress
    known,    \* history: notes the admin's screen has shown
    before    \* history: notes written or in progress at the last markSeen,
              \* written ones at the last markAllRead

vars == <<now, note, lastSeen, stats, known, before>>

Never == -1
NoNote == [at |-> "none", created |-> Never, read |-> Never]
NoStats == [at |-> "idle"]

Init ==
    /\ now = 0
    /\ note = [n \in Notes |-> NoNote]
    /\ lastSeen = Never
    /\ stats = NoStats
    /\ known = {}
    /\ before = [seen |-> {}, read |-> {}]

Written == {n \in Notes : note[n].at = "written"}
Begun == {n \in Notes : note[n].at # "none"}

-----------------------------------------------------------------------------
(* The processor                                                           *)

BeginNote(n) ==
    /\ note[n] = NoNote
    /\ note' = [note EXCEPT ![n] = [at |-> "begun", created |-> now, read |-> Never]]
    /\ UNCHANGED <<now, lastSeen, stats, known, before>>

CommitNote(n) ==
    /\ note[n].at = "begun"
    /\ note' = [note EXCEPT ![n].at = "written"]
    /\ UNCHANGED <<now, lastSeen, stats, known, before>>

\* The processor is lost, or the statement fails; a retry is another note.
LoseNote(n) ==
    /\ note[n].at = "begun"
    /\ note' = [note EXCEPT ![n].at = "lost"]
    /\ UNCHANGED <<now, lastSeen, stats, known, before>>

PublishNote(n) ==
    /\ n \in Written
    /\ known' = known \cup {n}
    /\ UNCHANGED <<now, note, lastSeen, stats, before>>

-----------------------------------------------------------------------------
(* The admin                                                               *)

\* The first page of getNotifications: the newest Limit notes, or the newest
\* unread ones.
OpenList(among) ==
    /\ \E page \in SUBSET among :
          /\ Cardinality(page) = Min({Limit, Cardinality(among)})
          /\ \A n \in page, m \in among \ page : note[n].created >= note[m].created
          /\ known' = known \cup page
    /\ UNCHANGED <<now, note, lastSeen, stats, before>>

Unread(notes) == {n \in notes : note[n].read = Never}

\* Mutant: the moment is the client's, whose clock is ahead.
MarkSeenAhead ==
    /\ lastSeen' = now + 1
    /\ before' = [before EXCEPT !.seen = Begun]
    /\ UNCHANGED <<now, note, stats, known>>

MarkSeen ==
    /\ lastSeen' = now
    /\ before' = [before EXCEPT !.seen = Begun]
    /\ UNCHANGED <<now, note, stats, known>>

\* Mutant: reading a note reads all the older ones.
MarkReadUpTo(ids) ==
    /\ note' = [n \in Notes |->
           IF n \in Unread(Written) /\ \E m \in ids : note[n].created <= note[m].created
           THEN [note[n] EXCEPT !.read = now] ELSE note[n]]
    /\ UNCHANGED <<now, lastSeen, stats, known, before>>

MarkRead(ids) ==
    /\ note' = [n \in Notes |-> IF n \in ids \cap Unread(Written)
                                THEN [note[n] EXCEPT !.read = now] ELSE note[n]]
    /\ UNCHANGED <<now, lastSeen, stats, known, before>>

\* Notes that were read before get a new readAt.
MarkAllRead ==
    /\ note' = [n \in Notes |-> IF n \in Written /\ note[n].created <= now
                                THEN [note[n] EXCEPT !.read = now] ELSE note[n]]
    /\ before' = [before EXCEPT !.read = Written]
    /\ UNCHANGED <<now, lastSeen, stats, known>>

\* getStats reads lastSeen, then counts twice, in any order.
BeginStats ==
    /\ stats = NoStats
    /\ stats' = [at |-> "counting", since |-> lastSeen, unseen |-> Never,
                 unread |-> Never]
    /\ UNCHANGED <<now, note, lastSeen, known, before>>

Unseen(since) == {n \in Written : note[n].created > since}

CountUnseen ==
    /\ stats.at = "counting" /\ stats.unseen = Never
    /\ stats' = [stats EXCEPT !.unseen = Cardinality(Unseen(stats.since))]
    /\ UNCHANGED <<now, note, lastSeen, known, before>>

CountUnread ==
    /\ stats.at = "counting" /\ stats.unread = Never
    /\ stats' = [stats EXCEPT !.unread = Cardinality(Unread(Written))]
    /\ UNCHANGED <<now, note, lastSeen, known, before>>

AnswerStats ==
    /\ stats.at = "counting" /\ Never \notin {stats.unseen, stats.unread}
    /\ stats' = NoStats
    /\ UNCHANGED <<now, note, lastSeen, known, before>>

Tick ==
    /\ now < LastTime
    /\ now' = now + 1
    /\ UNCHANGED <<note, lastSeen, stats, known, before>>

Next ==
    \/ \E n \in Notes : BeginNote(n) \/ CommitNote(n) \/ LoseNote(n) \/ PublishNote(n)
    \/ OpenList(Written)
    \/ OpenList(Unread(Written))
    \/ MarkSeen
    \/ \E ids \in SUBSET known : MarkRead(ids)
    \/ MarkAllRead
    \/ BeginStats \/ CountUnseen \/ CountUnread \/ AnswerStats
    \/ Tick

Spec == Init /\ [][Next]_vars

-----------------------------------------------------------------------------
(* Properties *)

\* The badge leaves a note out only if it was written, or being written, when
\* the admin last opened the inbox (or began in that very moment): one that
\* was being written is never counted, although no list has shown it.
UncountedWasThere ==
    \A n \in Written \ Unseen(lastSeen) :
        n \in before.seen \/ note[n].created = lastSeen

\* A note that no screen has shown keeps its place among the unread ones,
\* whatever the badge says of it, unless the admin has marked everything
\* there was as read.
UnknownStaysUnread ==
    \A n \in Written \ known : n \in Unread(Written) \/ n \in before.read
=============================================================================
