----------------------------- MODULE MCAccounts -----------------------------
(* An instance of Accounts for TLC. *)
EXTENDS Accounts, TLC

Alike == Permutations(Workers) \cup Permutations(Emails) \cup Permutations(GoogleIds)
=============================================================================
