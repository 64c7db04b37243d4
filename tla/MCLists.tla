------------------------------ MODULE MCLists ------------------------------
(* An instance of Lists for TLC: keys and times from 1 up. *)
EXTENDS Lists

CONSTANTS LastKey, LastMoment

MCKeys == 1 .. LastKey
MCMoments == 1 .. LastMoment
=============================================================================
