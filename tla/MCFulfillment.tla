--------------------------- MODULE MCFulfillment ---------------------------
(***************************************************************************)
(* A small instance of Fulfillment for TLC.                                *)
(***************************************************************************)
EXTENDS Fulfillment, TLC

CONSTANTS s1, A, B

\* Two units of s1 in one order, in two warehouses with one unit more and one
\* unit less than that.
RaceQty == [o \in Orders |-> [s \in Skus |-> 2]]
RaceStock == (<<s1, A>> :> 3) @@ (<<s1, B>> :> 1)
RaceMappings == {{<<s1, A>>}, {<<s1, A>>, <<s1, B>>}}

AnyWorker == Permutations(Workers)
=============================================================================
