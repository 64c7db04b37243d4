------------------------------ MODULE MCInbox ------------------------------
(* An instance of Inbox for TLC. *)
EXTENDS Inbox, TLC

Alike == Permutations(Notes)
=============================================================================
