----------------------------- MODULE MCReports -----------------------------
(* An instance of Reports for TLC: two days, each of the last one of a     *)
(* month and the first one of the next, in two halves.                     *)
EXTENDS Reports, TLC

CONSTANT p1

MCSale ==
    [o \in Orders |-> [total |-> 7, product |-> p1, qty |-> 2, price |-> 4, cost |-> 1]]

MCClock == 6 .. 8
MCDates == {7}
MCRanges == {[from |-> 6, to |-> 8]}

\* Bounds: while a report is made one order changes, as often as it may, and
\* beside another order only in orderStats.  Categories go only while their
\* ranking is made, no other statement reads them.
Narrow ==
    /\ report # NoReport => Cardinality(report.changed) <= 1
    /\ report.kind \notin {"none", "orderStats"} =>
          Cardinality(In(Statuses)) + Cardinality(report.changed) <= 2
    /\ report.kind # "bestCategories" => categories = Categories

Alike == Permutations(Orders) \cup Permutations(Categories)
=============================================================================
