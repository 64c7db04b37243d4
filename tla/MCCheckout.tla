----------------------------- MODULE MCCheckout -----------------------------
(* An instance of Checkout for TLC: three units of each SKU are in stock. *)
EXTENDS Checkout, TLC

CONSTANTS s1, s2

MCStock == [s \in Skus |-> 3]

Item(s, n) == [sku |-> s, qty |-> n]

\* One SKU, two, and one that comes twice.
MCLists == {<<Item(s1, 1)>>, <<Item(s2, 2)>>, <<Item(s1, 2), Item(s2, 1)>>,
            <<Item(s1, 2), Item(s1, 1)>>}

Alike == Permutations(Workers)
=============================================================================
