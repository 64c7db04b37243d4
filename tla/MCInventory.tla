---------------------------- MODULE MCInventory ----------------------------
(* An instance of Inventory for TLC. *)
EXTENDS Inventory, TLC

CONSTANTS s1, s2

MCInitStock == s1 :> [qty |-> 1, cost |-> 2]

Bought(s, n, p) == [sku |-> s, qty |-> n, price |-> p]

\* One item; a SKU named twice; a SKU whose stock row is missing at first.
MCImports == {<<Bought(s1, 1, 4)>>,
              <<Bought(s1, 2, 1), Bought(s1, 1, 4)>>,
              <<Bought(s2, 1, 4), Bought(s2, 1, 2)>>}

MCAdjustments == {s1 :> 2, s1 :> -1}

Alike == Permutations(Workers)
=============================================================================
