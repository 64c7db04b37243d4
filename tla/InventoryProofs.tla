--------------------------- MODULE InventoryProofs --------------------------
(***************************************************************************)
(* Theorems about Inventory, for any number of concurrent handlers, any    *)
(* SKUs, stock and requests: first the reference codes, from the invariant *)
(* Inv; then the quantities and costs of the stock rows, from BookInv,     *)
(* which needs the sums of a table's rows and the weighted average.        *)
(*                                                                         *)
(* And about Reports, whose figures are such sums, for any orders, ranges  *)
(* of time, time zone and length of a day: from ReportInv, which says of a *)
(* report under way what each of its statements has counted.               *)
(***************************************************************************)
EXTENDS Inventory, Reports, FiniteSetTheorems, WellFoundedInduction, TLAPS

Exports == Cardinality(exportLogs)
ImportRows == Cardinality(importLogs)

LogsFinite ==
    IsFiniteSet(exportLogs) /\ IsFiniteSet(importLogs) /\ IsFiniteSet(adjustLogs)

\* The code a handler has drawn is one of those its count allows by now.
CallOK(c) ==
    /\ "op" \in DOMAIN c
    /\ c.op = "import" => "code" \in DOMAIN c /\ c.code \in 1 .. ImportRows + 1
    /\ c.op = "adjust" => "code" \in DOMAIN c /\ c.code \in 1 .. Exports + 1

CallsOK ==
    /\ DOMAIN call = Workers /\ call = [w \in Workers |-> call[w]]
    /\ \A w \in Workers : CallOK(call[w])

AdjustCodes ==
    /\ \A row \in adjustLogs : row.code \in 1 .. Exports + 1
    /\ \A r1, r2 \in adjustLogs : r1.code = r2.code => r1 = r2

Inv == LogsFinite /\ CallsOK /\ ImportsBlockedOnlyByReturns /\ AdjustCodes

-----------------------------------------------------------------------------
(* The tables *)

LEMMA Counts ==
    ASSUME LogsFinite
    PROVE  Exports \in Nat /\ ImportRows \in Nat
BY FS_CardinalityType DEF LogsFinite, Exports, ImportRows

\* A table to which a row is added counts no less, and one more if it is new.
LEMMA AddRow ==
    ASSUME NEW T, NEW row, IsFiniteSet(T)
    PROVE  /\ IsFiniteSet(T \cup {row})
           /\ Cardinality(T) \in Nat /\ Cardinality(T \cup {row}) \in Nat
           /\ Cardinality(T \cup {row}) >= Cardinality(T)
           /\ row \notin T => Cardinality(T \cup {row}) = Cardinality(T) + 1
<1>1. Cardinality(T) \in Nat
  BY FS_CardinalityType
<1>2. /\ IsFiniteSet(T \cup {row})
      /\ row \notin T => Cardinality(T \cup {row}) = Cardinality(T) + 1
      /\ row \in T => Cardinality(T \cup {row}) = Cardinality(T)
  BY FS_AddElement
<1> QED
  BY <1>1, <1>2

\* What holds of a code goes on to hold while the tables grow.
LEMMA CallStays ==
    ASSUME NEW c, CallOK(c), Exports \in Nat, ImportRows \in Nat,
           Exports' \in Nat, ImportRows' \in Nat,
           Exports' >= Exports, ImportRows' >= ImportRows
    PROVE  CallOK(c)'
BY DEF CallOK

LEMMA CallsStay ==
    ASSUME CallsOK, Exports \in Nat, ImportRows \in Nat,
           Exports' \in Nat, ImportRows' \in Nat,
           Exports' >= Exports, ImportRows' >= ImportRows,
           NEW w \in Workers, NEW c, CallOK(c)', call' = [call EXCEPT ![w] = c]
    PROVE  CallsOK'
<1>1. DOMAIN call' = Workers /\ call' = [v \in Workers |-> call'[v]]
  BY DEF CallsOK
<1>2. ASSUME NEW v \in Workers
      PROVE  CallOK(call[v])'
  <2>1. CASE v = w
    BY <2>1 DEF CallsOK, CallOK
  <2>2. CASE v # w
    <3>1. PICK d : d = call[v]
      OBVIOUS
    <3>2. CallOK(d)'
      BY <3>1, CallStays DEF CallsOK
    <3>3. call'[v] = d
      BY <2>2, <3>1 DEF CallsOK
    <3> QED
      BY <3>2, <3>3 DEF CallOK
  <2> QED
    BY <2>1, <2>2
<1> QED
  BY <1>1, <1>2 DEF CallsOK

LEMMA SameCallsStay ==
    ASSUME CallsOK, Exports \in Nat, ImportRows \in Nat,
           Exports' \in Nat, ImportRows' \in Nat,
           Exports' >= Exports, ImportRows' >= ImportRows, call' = call
    PROVE  CallsOK'
<1>1. ASSUME NEW v \in Workers
      PROVE  CallOK(call[v])'
  <2>1. PICK d : d = call[v]
    OBVIOUS
  <2>2. CallOK(d)'
    BY <2>1, CallStays DEF CallsOK
  <2> QED
    BY <2>1, <2>2 DEF CallOK
<1> QED
  BY <1>1 DEF CallsOK

-----------------------------------------------------------------------------
(* The steps and the codes *)

LEMMA InitInv == Init => Inv
<1> SUFFICES ASSUME Init
             PROVE  Inv
  OBVIOUS
<1>1. LogsFinite
  BY FS_EmptySet DEF Init, LogsFinite
<1>2. CallsOK
  BY DEF Init, CallsOK, CallOK, NoCall
<1> QED
  BY <1>1, <1>2 DEF Init, Inv, ImportsBlockedOnlyByReturns, AdjustCodes

\* A step that writes no log changes the call of one worker at most.
LEMMA QuietKeeps ==
    ASSUME Inv, UNCHANGED logs, NEW w \in Workers, NEW c, CallOK(c),
           call' = [call EXCEPT ![w] = c]
    PROVE  Inv'
<1>1. Exports \in Nat /\ ImportRows \in Nat /\ Exports' = Exports /\ ImportRows' = ImportRows
  BY Counts DEF Inv, logs, Exports, ImportRows
<1>2. CallOK(c)'
  BY <1>1 DEF CallOK
<1>3. CallsOK'
  <2>1. Exports' \in Nat /\ ImportRows' \in Nat /\ Exports' >= Exports
        /\ ImportRows' >= ImportRows
    BY <1>1
  <2> QED
    BY <1>1, <1>2, <2>1, CallsStay DEF Inv
<1> QED
  BY <1>3 DEF Inv, LogsFinite, ImportsBlockedOnlyByReturns, AdjustCodes, logs, Exports

LEMMA ShipKeeps ==
    ASSUME Inv, NEW s \in Skus, NEW n \in Units, Ship(s, n)
    PROVE  Inv'
<1>1. PICK row : exportLogs' = exportLogs \cup {row}
  BY DEF Ship
<1>2. /\ IsFiniteSet(exportLogs') /\ Exports \in Nat /\ Exports' \in Nat
      /\ Exports' >= Exports
  BY <1>1, AddRow DEF Inv, LogsFinite, Exports
<1>3. UNCHANGED <<importLogs, adjustLogs, call>>
  BY DEF Ship
<1>4. ImportRows \in Nat /\ ImportRows' = ImportRows
  BY <1>3, Counts DEF Inv, ImportRows
<1>5. CallsOK'
  BY <1>2, <1>3, <1>4, SameCallsStay DEF Inv
<1>6. AdjustCodes'
  <2>1. \A i \in 1 .. Exports + 1 : i \in 1 .. Exports' + 1
    <3>1. \A j, k \in Nat : j <= k => \A i \in 1 .. j + 1 : i \in 1 .. k + 1
      OBVIOUS
    <3>2. Exports \in Nat /\ Exports' \in Nat /\ Exports <= Exports'
      BY <1>2
    <3> QED
      BY <3>1, <3>2
  <2> QED
    BY <1>3, <2>1 DEF Inv, AdjustCodes
<1> QED
  BY <1>2, <1>3, <1>5, <1>6 DEF Inv, LogsFinite, ImportsBlockedOnlyByReturns

LEMMA ReturnKeeps ==
    ASSUME Inv, NEW s \in Skus, NEW n \in Units, Return(s, n)
    PROVE  Inv'
<1>1. PICK code : importLogs' = importLogs \cup
                     {[code |-> code, type |-> "RETURN", qty |-> Only(s, n)]}
  BY DEF Return
<1> DEFINE row == [code |-> code, type |-> "RETURN", qty |-> Only(s, n)]
<1>2. /\ IsFiniteSet(importLogs') /\ ImportRows \in Nat /\ ImportRows' \in Nat
      /\ ImportRows' >= ImportRows
  BY <1>1, AddRow DEF Inv, LogsFinite, ImportRows
<1>3. UNCHANGED <<exportLogs, adjustLogs, call>>
  BY DEF Return
<1>4. Exports \in Nat /\ Exports' = Exports
  BY <1>3, Counts DEF Inv, Exports
<1>5. CallsOK'
  BY <1>2, <1>3, <1>4, SameCallsStay DEF Inv
<1>6. ImportsBlockedOnlyByReturns'
  <2> SUFFICES ASSUME NEW r \in importLogs', r.type = "MANUAL"
               PROVE  r.code \in 1 .. ImportRows'
    BY DEF ImportsBlockedOnlyByReturns, ImportRows
  <2>1. r \in importLogs
    BY <1>1
  <2>2. r.code \in 1 .. ImportRows
    BY <2>1 DEF Inv, ImportsBlockedOnlyByReturns, ImportRows
  <2> QED
    BY <1>2, <2>2
<1> QED
  BY <1>2, <1>3, <1>4, <1>5, <1>6 DEF Inv, LogsFinite, AdjustCodes

LEMMA BeginKeeps ==
    ASSUME Inv, NEW w \in Workers,
           \/ \E items \in Imports : BeginImport(w, items)
           \/ \E change \in Adjustments : BeginAdjustment(w, change)
           \/ \E s \in Skus, n \in Units : BeginExport(w, s, n)
    PROVE  Inv'
<1>1. Exports \in Nat /\ ImportRows \in Nat
  BY Counts DEF Inv
<1>2. ASSUME NEW items \in Imports, BeginImport(w, items)
      PROVE  Inv'
  <2>1. PICK c : c = [op |-> "import", code |-> NextImport, items |-> items,
                      next |-> 1, done |-> << >>]
    OBVIOUS
  <2>2. CallOK(c)
    BY <1>1, <2>1 DEF CallOK, NextImport, ImportRows
  <2> QED
    BY <1>2, <2>1, <2>2, QuietKeeps DEF BeginImport, Begin
<1>3. ASSUME NEW change \in Adjustments, BeginAdjustment(w, change)
      PROVE  Inv'
  <2>1. PICK c : c = [op |-> "adjust", code |-> NextAdjustment, change |-> change]
    OBVIOUS
  <2>2. CallOK(c)
    BY <1>1, <2>1 DEF CallOK, NextAdjustment, Exports
  <2> QED
    BY <1>3, <2>1, <2>2, QuietKeeps DEF BeginAdjustment, Begin
<1>4. ASSUME NEW s \in Skus, NEW n \in Units, BeginExport(w, s, n)
      PROVE  Inv'
  <2>1. PICK c : c = [op |-> "export"]
    OBVIOUS
  <2>2. CallOK(c)
    BY <2>1 DEF CallOK
  <2> QED
    BY <1>4, <2>1, <2>2, QuietKeeps DEF BeginExport, Begin
<1> QED
  BY <1>2, <1>3, <1>4

LEMMA AbortKeeps ==
    ASSUME Inv, NEW w \in Workers, Abort(w)
    PROVE  Inv'
<1>1. CallOK(NoCall)
  BY DEF CallOK, NoCall
<1> QED
  BY <1>1, QuietKeeps DEF Abort, Done

LEMMA ImportItemKeeps ==
    ASSUME Inv, NEW w \in Workers, ImportItem(w)
    PROVE  Inv'
<1>1. PICK next, done :
          call' = [call EXCEPT ![w].next = next, ![w].done = done]
  BY DEF ImportItem
<1>2. PICK c : c = [call[w] EXCEPT !.next = next, !.done = done]
  OBVIOUS
<1>3. call' = [call EXCEPT ![w] = c]
  BY <1>1, <1>2 DEF Inv, CallsOK
<1>4. CallOK(c)
  BY <1>2 DEF Inv, CallsOK, CallOK, ImportItem
<1> QED
  BY <1>3, <1>4, QuietKeeps DEF ImportItem

\* The row of an import is new, so that the count has grown past its code.
LEMMA CommitImportKeeps ==
    ASSUME Inv, NEW w \in Workers, CommitImport(w)
    PROVE  Inv'
<1> DEFINE row == [code |-> call[w].code, type |-> "MANUAL", qty |-> LogQty(call[w].items)]
<1>1. importLogs' = importLogs \cup {row} /\ row \notin importLogs
  BY DEF CommitImport, Codes
<1>2. row.code \in 1 .. ImportRows + 1
  BY DEF CommitImport, Inv, CallsOK, CallOK
<1> HIDE DEF row
<1>3. /\ IsFiniteSet(importLogs') /\ ImportRows \in Nat /\ ImportRows' \in Nat
      /\ ImportRows' = ImportRows + 1
  BY <1>1, AddRow DEF Inv, LogsFinite, ImportRows
<1>4. UNCHANGED <<exportLogs, adjustLogs>> /\ call' = [call EXCEPT ![w] = NoCall]
  BY DEF CommitImport, Done
<1>5. Exports \in Nat /\ Exports' = Exports
  BY <1>4, Counts DEF Inv, Exports
<1>6. CallsOK'
  <2>1. CallOK(NoCall)'
    BY DEF CallOK, NoCall
  <2>2. Exports' \in Nat /\ Exports' >= Exports /\ ImportRows' >= ImportRows
    BY <1>3, <1>5
  <2> QED
    BY <1>3, <1>4, <1>5, <2>1, <2>2, CallsStay DEF Inv
<1>7. ImportsBlockedOnlyByReturns'
  <2> SUFFICES ASSUME NEW r \in importLogs', r.type = "MANUAL"
               PROVE  r.code \in 1 .. ImportRows'
    BY DEF ImportsBlockedOnlyByReturns, ImportRows
  <2>1. r.code \in 1 .. ImportRows + 1
    <3>1. r \in importLogs => r.code \in 1 .. ImportRows
      BY DEF Inv, ImportsBlockedOnlyByReturns, ImportRows
    <3> QED
      BY <1>1, <1>2, <1>3, <3>1
  <2> QED
    BY <1>3, <2>1
<1> QED
  BY <1>3, <1>4, <1>5, <1>6, <1>7 DEF Inv, LogsFinite, AdjustCodes

LEMMA CommitAdjustmentKeeps ==
    ASSUME Inv, NEW w \in Workers, CommitAdjustment(w)
    PROVE  Inv'
<1> DEFINE row == [code |-> call[w].code, change |-> call[w].change]
<1>1. adjustLogs' = adjustLogs \cup {row} /\ row.code \notin {r.code : r \in adjustLogs}
  BY DEF CommitAdjustment, Codes
<1>2. row.code \in 1 .. Exports + 1
  BY DEF CommitAdjustment, Inv, CallsOK, CallOK
<1> HIDE DEF row
<1>3. IsFiniteSet(adjustLogs')
  BY <1>1, AddRow DEF Inv, LogsFinite
<1>4. UNCHANGED <<exportLogs, importLogs>> /\ call' = [call EXCEPT ![w] = NoCall]
  BY DEF CommitAdjustment, Done
<1>5. /\ Exports \in Nat /\ Exports' = Exports
      /\ ImportRows \in Nat /\ ImportRows' = ImportRows
  BY <1>4, Counts DEF Inv, Exports, ImportRows
<1>6. CallsOK'
  <2>1. CallOK(NoCall)'
    BY DEF CallOK, NoCall
  <2>2. Exports' \in Nat /\ ImportRows' \in Nat /\ Exports' >= Exports
        /\ ImportRows' >= ImportRows
    BY <1>5
  <2> QED
    BY <1>4, <1>5, <2>1, <2>2, CallsStay DEF Inv
<1>7. AdjustCodes'
  BY <1>1, <1>2, <1>5 DEF Inv, AdjustCodes
<1> QED
  BY <1>3, <1>4, <1>6, <1>7 DEF Inv, LogsFinite, ImportsBlockedOnlyByReturns

LEMMA NextKeeps ==
    ASSUME Inv, [Next]_vars
    PROVE  Inv'
<1>1. CASE OrderHandler
  BY <1>1, ShipKeeps, ReturnKeeps DEF OrderHandler
<1>2. ASSUME NEW w \in Workers, ImportHandler(w)
      PROVE  Inv'
  BY <1>2, BeginKeeps, ImportItemKeeps, CommitImportKeeps DEF ImportHandler
<1>3. ASSUME NEW w \in Workers, AdjustmentHandler(w)
      PROVE  Inv'
  BY <1>3, BeginKeeps, CommitAdjustmentKeeps DEF AdjustmentHandler
<1>4. CASE UNCHANGED vars
  <2>1. Exports' = Exports /\ ImportRows' = ImportRows
    BY <1>4 DEF vars, logs, Exports, ImportRows
  <2> QED
    BY <1>4, <2>1 DEF vars, logs, Inv, LogsFinite, CallsOK, CallOK,
                      ImportsBlockedOnlyByReturns, AdjustCodes
<1> QED
  BY <1>1, <1>2, <1>3, <1>4, BeginKeeps, AbortKeeps DEF Next

LEMMA AlwaysInv == Spec => []Inv
BY InitInv, NextKeeps, PTL DEF Spec

-----------------------------------------------------------------------------
(* The theorems on the codes *)

\* The code of a manual import never exceeds the number of import logs, so
\* that only a return can hold the next one.
THEOREM ImportCodes == Spec => []ImportsBlockedOnlyByReturns
<1>1. Inv => ImportsBlockedOnlyByReturns
  BY DEF Inv
<1> QED
  BY <1>1, AlwaysInv, PTL

\* Adjustments are numbered by the export logs: there can be one more of them
\* than there are shipments, and then every further one fails.
THEOREM AdjustmentCodes == Spec => []AdjustmentsWaitForExports
<1>1. ASSUME Inv
      PROVE  AdjustmentsWaitForExports
  <2>1. Exports \in Nat /\ IsFiniteSet(adjustLogs)
    BY <1>1, Counts DEF Inv, LogsFinite
  <2>2. \A row \in adjustLogs : row.code \in 1 .. Exports + 1
    BY <1>1 DEF Inv, AdjustCodes
  <2>3. Cardinality(adjustLogs) <= Exports + 1
    <3> DEFINE f == [row \in adjustLogs |-> row.code]
               I == 1 .. Exports + 1
    <3>1. f \in Injection(adjustLogs, I)
      BY <1>1, <2>2 DEF Inv, AdjustCodes, Injection, IsInjective
    <3>2. IsFiniteSet(I) /\ Cardinality(I) = Exports + 1
      <4>1. 1 \in Int /\ Exports + 1 \in Int
        BY <2>1
      <4> QED
        BY <2>1, <4>1, FS_Interval
    <3> HIDE DEF f, I
    <3> QED
      BY <3>1, <3>2, FS_Injection
  <2> QED
    BY <2>2, <2>3 DEF AdjustmentsWaitForExports, Codes, Exports
<1> QED
  BY <1>1, AlwaysInv, PTL

-----------------------------------------------------------------------------
(* Sums over finite sets *)

\* A set of subsets of a finite set has a smallest member: what does not hold
\* of every subset has a smallest counterexample.
LEMMA SmallestSubset ==
  ASSUME NEW S, IsFiniteSet(S), NEW C \in SUBSET (SUBSET S), C # {}
  PROVE  \E T \in C : \A U \in C : U \subseteq T => U = T
<1>1. IsWellFoundedOn(StrictSubsetOrdering(S), FiniteSubsetsOf(S))
  BY FS_StrictSubsetOrderingWellFounded
<1>2. IsWellFoundedOn(StrictSubsetOrdering(S), SUBSET S)
  BY <1>1, FS_FiniteSubsetsOfFinite
<1>3. PICK T \in C : \A U \in C : ~ (<<U, T>> \in StrictSubsetOrdering(S))
  BY <1>2, WFMin
<1> QED
  BY <1>3 DEF StrictSubsetOrdering

AnyOf(T) == CHOOSE x \in T : TRUE

\* g adds up f over the subsets of S, one element after the other.
Adds(g, f, S) ==
    /\ g \in [SUBSET S -> Int]
    /\ \A T \in SUBSET S :
          g[T] = IF T = {} THEN 0 ELSE f[AnyOf(T)] + g[T \ {AnyOf(T)}]

LEMMA AnyOfIsMember ==
  ASSUME NEW T, T # {}
  PROVE  AnyOf(T) \in T
BY DEF AnyOf

\* It does so in one way only.
LEMMA AddsUnique ==
  ASSUME NEW S, IsFiniteSet(S), NEW R, NEW f, NEW e, NEW g, NEW h,
         \A x \in S : f[x] = e[x],
         S \subseteq R, Adds(g, f, S), Adds(h, e, R)
  PROVE  \A T \in SUBSET S : g[T] = h[T]
<1> DEFINE C == {T \in SUBSET S : g[T] # h[T]}
<1> SUFFICES ASSUME C # {} PROVE FALSE
  OBVIOUS
<1>1. PICK T \in C : \A U \in C : U \subseteq T => U = T
  <2> HIDE DEF C
  <2>1. C \in SUBSET (SUBSET S)
    BY DEF C
  <2> QED
    BY <2>1, SmallestSubset
<1>2. T # {}
  BY DEF Adds
<1> DEFINE x == AnyOf(T)
<1>3. x \in T
  BY <1>2, AnyOfIsMember
<1>4. g[T \ {x}] = h[T \ {x}]
  <2>1. T \ {x} \subseteq T /\ T \ {x} # T /\ T \ {x} \in SUBSET S
    BY <1>3
  <2>2. T \ {x} \notin C
    <3> HIDE DEF C
    <3> QED
      BY <1>1, <2>1
  <2> QED
    BY <2>1, <2>2
<1>5. g[T] = f[x] + g[T \ {x}] /\ h[T] = e[x] + h[T \ {x}]
  BY <1>2 DEF Adds
<1>6. f[x] = e[x]
  BY <1>3
<1> QED
  BY <1>4, <1>5, <1>6

\* And there is such a way.
LEMMA AddsExists ==
  ASSUME NEW S, IsFiniteSet(S), NEW f, \A x \in S : f[x] \in Int
  PROVE  \E g : Adds(g, f, S)
<1> DEFINE C == {T \in SUBSET S : ~ \E g : Adds(g, f, T)}
<1> SUFFICES ASSUME C # {} PROVE FALSE
  OBVIOUS
<1>1. PICK T \in C : \A U \in C : U \subseteq T => U = T
  <2> HIDE DEF C
  <2>1. C \in SUBSET (SUBSET S)
    BY DEF C
  <2> QED
    BY <2>1, SmallestSubset
<1>2. \A U \in SUBSET T : IsFiniteSet(U)
  BY FS_Subset
<1>3. ASSUME NEW U \in SUBSET T, U # T
      PROVE  \E g : Adds(g, f, U)
  <2>1. U \in SUBSET S /\ U \notin C
    <3>1. U \in SUBSET S
      OBVIOUS
    <3> HIDE DEF C
    <3> QED
      BY <1>1, <1>3, <3>1
  <2> QED
    BY <2>1
<1> DEFINE way(U) == CHOOSE g : Adds(g, f, U)
           val(U) == way(U)[U]
           x == AnyOf(T)
           top == IF T = {} THEN 0 ELSE f[x] + val(T \ {x})
           all == [U \in SUBSET T |-> IF U = T THEN top ELSE val(U)]
<1>4. ASSUME NEW U \in SUBSET T, U # T
      PROVE  Adds(way(U), f, U)
  BY <1>3, <1>4
<1>5. ASSUME NEW U \in SUBSET T, U # T, NEW V \in SUBSET U
      PROVE  way(U)[V] = val(V)
  <2>1. V \in SUBSET T /\ V # T
    BY <1>5
  <2>2. Adds(way(U), f, U) /\ Adds(way(V), f, V)
    BY <1>4, <1>5, <2>1
  <2> HIDE DEF way
  <2>3. way(V)[V] = way(U)[V]
    BY <1>2, <2>1, <2>2, AddsUnique
  <2> QED
    BY <2>3
<1>6. ASSUME NEW U \in SUBSET T, U # T
      PROVE  /\ val(U) \in Int
             /\ val(U) = IF U = {} THEN 0 ELSE f[AnyOf(U)] + val(U \ {AnyOf(U)})
  <2>1. Adds(way(U), f, U)
    BY <1>4, <1>6
  <2> HIDE DEF way
  <2>2. way(U)[U \ {AnyOf(U)}] = val(U \ {AnyOf(U)})
    BY <1>5, <1>6
  <2> QED
    BY <2>1, <2>2 DEF Adds
<1>7. T # {} => x \in T /\ T \ {x} \in SUBSET T /\ T \ {x} # T /\ f[x] \in Int
  BY AnyOfIsMember
<1>8. top \in Int
  <2>1. T # {} => val(T \ {x}) \in Int
    <3> HIDE DEF val, x
    <3> QED
      BY <1>6, <1>7
  <2>2. CASE T = {}
    BY <2>2
  <2>3. CASE T # {}
    <3>1. top = f[x] + val(T \ {x})
      BY <2>3
    <3> HIDE DEF val, x, top
    <3> QED
      BY <1>7, <2>1, <2>3, <3>1
  <2> QED
    BY <2>2, <2>3
<1>9. all \in [SUBSET T -> Int]
  <2> HIDE DEF val, top
  <2> QED
    BY <1>6, <1>8
<1>10. ASSUME NEW U \in SUBSET T
       PROVE  all[U] = IF U = {} THEN 0 ELSE f[AnyOf(U)] + all[U \ {AnyOf(U)}]
  <2>1. U # {} => U \ {AnyOf(U)} \in SUBSET T /\ U \ {AnyOf(U)} # T
    BY AnyOfIsMember
  <2>2. U # {} => all[U \ {AnyOf(U)}] = val(U \ {AnyOf(U)})
    <3> HIDE DEF val, top
    <3> QED
      BY <2>1
  <2>3. CASE U = T
    <3>1. all[U] = top
      BY <2>3
    <3>2. top = IF U = {} THEN 0 ELSE f[AnyOf(U)] + val(U \ {AnyOf(U)})
      BY <2>3
    <3> HIDE DEF val, top, all
    <3> QED
      BY <2>2, <3>1, <3>2
  <2>4. CASE U # T
    <3>1. all[U] = val(U)
      BY <2>4
    <3> HIDE DEF val, top, all
    <3> QED
      BY <1>6, <2>2, <2>4, <3>1
  <2> QED
    BY <2>3, <2>4
<1>11. Adds(all, f, T)
  <2> HIDE DEF all
  <2> QED
    BY <1>9, <1>10 DEF Adds
<1> QED
  BY <1>11

\* SumFunctionOnSet is the way.
LEMMA SumAdds ==
  ASSUME NEW S, IsFiniteSet(S), NEW f, \A x \in S : f[x] \in Int
  PROVE  \E g : Adds(g, f, S) /\ SumFunctionOnSet(f, S) = g[S]
<1> DEFINE next(h) == [T \in SUBSET S |->
                         IF T = {} THEN 0 ELSE f[AnyOf(T)] + h[T \ {AnyOf(T)}]]
           iter == CHOOSE h : h = next(h)
<1>1. PICK g : Adds(g, f, S)
  BY AddsExists
<1>2. g = next(g)
  BY <1>1 DEF Adds
<1>3. iter = next(iter)
  <2> HIDE DEF next
  <2> QED
    BY <1>2
<1>4. SumFunctionOnSet(f, S) = iter[S]
  BY DEF SumFunctionOnSet, FoldFunctionOnSet, MapThenFoldSet, AnyOf
<1>5. ASSUME NEW h, h = next(h)
      PROVE  \A T \in SUBSET S : h[T] = g[T]
  <2> DEFINE C == {T \in SUBSET S : h[T] # g[T]}
  <2> SUFFICES ASSUME C # {} PROVE FALSE
    OBVIOUS
  <2>1. PICK T \in C : \A U \in C : U \subseteq T => U = T
    <3> HIDE DEF C
    <3>1. C \in SUBSET (SUBSET S)
      BY DEF C
    <3> QED
      BY <3>1, SmallestSubset
  <2>2. h[T] = IF T = {} THEN 0 ELSE f[AnyOf(T)] + h[T \ {AnyOf(T)}]
    BY <1>5
  <2>3. g[T] = IF T = {} THEN 0 ELSE f[AnyOf(T)] + g[T \ {AnyOf(T)}]
    BY <1>1 DEF Adds
  <2>4. T # {} => h[T \ {AnyOf(T)}] = g[T \ {AnyOf(T)}]
    <3>1. T # {} => T \ {AnyOf(T)} \in SUBSET S /\ T \ {AnyOf(T)} \subseteq T
                    /\ T \ {AnyOf(T)} # T
      BY AnyOfIsMember
    <3>2. T # {} => T \ {AnyOf(T)} \notin C
      <4> HIDE DEF C
      <4> QED
        BY <2>1, <3>1
    <3> QED
      BY <3>1, <3>2
  <2> QED
    BY <2>2, <2>3, <2>4
<1>6. iter[S] = g[S]
  <2> HIDE DEF iter, next
  <2> QED
    BY <1>3, <1>5
<1> HIDE DEF iter
<1> QED
  BY <1>1, <1>4, <1>6

\* The value of a sum.
LEMMA SumType ==
  ASSUME NEW S, IsFiniteSet(S), NEW f, \A x \in S : f[x] \in Int
  PROVE  SumFunctionOnSet(f, S) \in Int
<1>1. PICK g : Adds(g, f, S) /\ SumFunctionOnSet(f, S) = g[S]
  BY SumAdds
<1> QED
  BY <1>1 DEF Adds

LEMMA SumOfNone ==
  ASSUME NEW f
  PROVE  SumFunctionOnSet(f, {}) = 0
<1>1. PICK g : Adds(g, f, {}) /\ SumFunctionOnSet(f, {}) = g[{}]
  BY SumAdds, FS_EmptySet
<1> QED
  BY <1>1 DEF Adds

\* A sum of natural numbers.
LEMMA SumNat ==
  ASSUME NEW S, IsFiniteSet(S), NEW f, \A x \in S : f[x] \in Nat
  PROVE  SumFunctionOnSet(f, S) \in Nat
<1>1. PICK g : Adds(g, f, S) /\ SumFunctionOnSet(f, S) = g[S]
  BY SumAdds
<1> DEFINE C == {T \in SUBSET S : g[T] \notin Nat}
<1>2. C = {}
  <2> SUFFICES ASSUME C # {} PROVE FALSE
    OBVIOUS
  <2>1. PICK T \in C : \A U \in C : U \subseteq T => U = T
    <3> HIDE DEF C
    <3>1. C \in SUBSET (SUBSET S)
      BY DEF C
    <3> QED
      BY <3>1, SmallestSubset
  <2>2. T # {} /\ T \in SUBSET S /\ g[T] \notin Nat
    <3>1. g[{}] = 0
      BY <1>1 DEF Adds
    <3> QED
      BY <3>1
  <2>3. AnyOf(T) \in T
    BY <2>2, AnyOfIsMember
  <2>4. T \ {AnyOf(T)} \notin C
    <3>1. T \ {AnyOf(T)} \subseteq T /\ T \ {AnyOf(T)} # T
      BY <2>3
    <3> HIDE DEF C
    <3> QED
      BY <2>1, <3>1
  <2>5. g[T \ {AnyOf(T)}] \in Nat /\ f[AnyOf(T)] \in Nat
    BY <2>2, <2>3, <2>4
  <2> HIDE DEF C
  <2> QED
    BY <1>1, <2>2, <2>5 DEF Adds
<1> QED
  BY <1>1, <1>2

\* A sum depends on the values that are added up, and on nothing else.
LEMMA SumSame ==
  ASSUME NEW S, IsFiniteSet(S), NEW f, NEW e,
         \A x \in S : f[x] \in Int /\ f[x] = e[x]
  PROVE  SumFunctionOnSet(f, S) = SumFunctionOnSet(e, S)
<1>1. PICK g : Adds(g, f, S) /\ SumFunctionOnSet(f, S) = g[S]
  BY SumAdds
<1>2. PICK h : Adds(h, e, S) /\ SumFunctionOnSet(e, S) = h[S]
  BY SumAdds
<1> QED
  BY <1>1, <1>2, AddsUnique

\* Any element can be taken out first.
LEMMA SumWithout ==
  ASSUME NEW S, IsFiniteSet(S), NEW f, \A x \in S : f[x] \in Int, NEW y \in S
  PROVE  SumFunctionOnSet(f, S) = f[y] + SumFunctionOnSet(f, S \ {y})
<1>1. PICK g : Adds(g, f, S) /\ SumFunctionOnSet(f, S) = g[S]
  BY SumAdds
<1>2. IsFiniteSet(S \ {y})
  BY FS_RemoveElement
<1>3. PICK h : Adds(h, f, S \ {y}) /\ SumFunctionOnSet(f, S \ {y}) = h[S \ {y}]
  BY <1>2, SumAdds
<1>4. h[S \ {y}] = g[S \ {y}]
  BY <1>1, <1>2, <1>3, AddsUnique
<1> DEFINE C == {T \in SUBSET S : \E z \in T : g[T] # f[z] + g[T \ {z}]}
<1>5. C = {}
  <2> SUFFICES ASSUME C # {} PROVE FALSE
    OBVIOUS
  <2>1. PICK T \in C : \A U \in C : U \subseteq T => U = T
    <3> HIDE DEF C
    <3>1. C \in SUBSET (SUBSET S)
      BY DEF C
    <3> QED
      BY <3>1, SmallestSubset
  <2>2. \A U \in SUBSET T : \A z \in U : U # T => g[U] = f[z] + g[U \ {z}]
    <3>1. \A U \in SUBSET T : U # T => U \in SUBSET S /\ U \notin C
      <4>1. T \in SUBSET S
        OBVIOUS
      <4> HIDE DEF C
      <4> QED
        BY <2>1, <4>1
    <3> QED
      BY <3>1
  <2>3. PICK z \in T : g[T] # f[z] + g[T \ {z}]
    OBVIOUS
  <2>4. PICK x \in T : g[T] = f[x] + g[T \ {x}]
    <3>1. T # {} /\ T \in SUBSET S
      BY <2>3
    <3> QED
      BY <1>1, <3>1, AnyOfIsMember DEF Adds
  <2>5. x # z
    BY <2>3, <2>4
  <2>6. /\ g[T \ {x}] = f[z] + g[(T \ {x}) \ {z}]
        /\ g[T \ {z}] = f[x] + g[(T \ {z}) \ {x}]
    <3>1. z \in T \ {x} /\ T \ {x} # T /\ x \in T \ {z} /\ T \ {z} # T
      BY <2>5
    <3> HIDE DEF C
    <3> QED
      BY <2>2, <3>1
  <2>7. g[(T \ {x}) \ {z}] = g[(T \ {z}) \ {x}]
    <3>1. (T \ {x}) \ {z} = (T \ {z}) \ {x}
      OBVIOUS
    <3> QED
      BY <3>1
  <2>8. f[x] \in Int /\ f[z] \in Int /\ g[(T \ {z}) \ {x}] \in Int
    <3>1. x \in S /\ z \in S /\ (T \ {z}) \ {x} \in SUBSET S
      OBVIOUS
    <3> QED
      BY <1>1, <3>1 DEF Adds
  <2> HIDE DEF C
  <2> QED
    BY <2>3, <2>4, <2>6, <2>7, <2>8
<1>6. g[S] = f[y] + g[S \ {y}]
  BY <1>5
<1> QED
  BY <1>1, <1>3, <1>4, <1>6

\* One element more.
LEMMA SumWith ==
  ASSUME NEW S, IsFiniteSet(S), NEW x, x \notin S,
         NEW f, \A y \in S \cup {x} : f[y] \in Int
  PROVE  SumFunctionOnSet(f, S \cup {x}) = SumFunctionOnSet(f, S) + f[x]
<1>1. IsFiniteSet(S \cup {x})
  BY FS_AddElement
<1>2. SumFunctionOnSet(f, S \cup {x}) = f[x] + SumFunctionOnSet(f, (S \cup {x}) \ {x})
  BY <1>1, SumWithout
<1>3. (S \cup {x}) \ {x} = S
  OBVIOUS
<1>4. SumFunctionOnSet(f, S) \in Int
  BY SumType
<1>5. f[x] \in Int
  OBVIOUS
<1>6. SumFunctionOnSet(f, S \cup {x}) = f[x] + SumFunctionOnSet(f, S)
  BY <1>2, <1>3
<1> QED
  BY <1>4, <1>5, <1>6

\* The sum over two sets that share no element.
LEMMA SumOfBoth ==
  ASSUME NEW A, IsFiniteSet(A), NEW B, IsFiniteSet(B), A \cap B = {},
         NEW f, \A x \in A \cup B : f[x] \in Int
  PROVE  SumFunctionOnSet(f, A \cup B) = SumFunctionOnSet(f, A) + SumFunctionOnSet(f, B)
<1> DEFINE C == {T \in SUBSET B : SumFunctionOnSet(f, A \cup T)
                                    # SumFunctionOnSet(f, A) + SumFunctionOnSet(f, T)}
<1> SUFFICES ASSUME C # {} PROVE FALSE
  <2>1. B \notin C
    <3>1. C = {}
      OBVIOUS
    <3> HIDE DEF C
    <3> QED
      BY <3>1
  <2> QED
    BY <2>1
<1>1. PICK T \in C : \A U \in C : U \subseteq T => U = T
  <2> HIDE DEF C
  <2>1. C \in SUBSET (SUBSET B)
    BY DEF C
  <2> QED
    BY <2>1, SmallestSubset
<1>2. T \in SUBSET B /\ IsFiniteSet(T) /\ IsFiniteSet(A \cup T)
      /\ SumFunctionOnSet(f, A \cup T) # SumFunctionOnSet(f, A) + SumFunctionOnSet(f, T)
  BY FS_Subset, FS_Union
<1>3. SumFunctionOnSet(f, A) \in Int
  BY SumType
<1>4. T # {}
  <2>1. A \cup {} = A
    OBVIOUS
  <2> QED
    BY <1>2, <1>3, <2>1, SumOfNone
<1>5. PICK x : x \in T
  BY <1>4
<1>6. T \ {x} \in SUBSET B /\ T \ {x} \notin C
  <2>1. T \ {x} \subseteq T /\ T \ {x} # T /\ T \ {x} \in SUBSET B
    BY <1>2, <1>5
  <2> HIDE DEF C
  <2> QED
    BY <1>1, <2>1
<1>7. SumFunctionOnSet(f, A \cup (T \ {x}))
        = SumFunctionOnSet(f, A) + SumFunctionOnSet(f, T \ {x})
  BY <1>6
<1> HIDE DEF C
<1>8. IsFiniteSet(T \ {x}) /\ SumFunctionOnSet(f, T \ {x}) \in Int
  <2>1. IsFiniteSet(T \ {x})
    BY <1>2, FS_RemoveElement
  <2> QED
    BY <1>2, <2>1, SumType
<1>9. f[x] \in Int /\ SumFunctionOnSet(f, T) = f[x] + SumFunctionOnSet(f, T \ {x})
  BY <1>2, <1>5, SumWithout
<1>10. SumFunctionOnSet(f, A \cup T)
         = f[x] + SumFunctionOnSet(f, A \cup (T \ {x}))
  <2>1. x \in A \cup T /\ (A \cup T) \ {x} = A \cup (T \ {x})
    BY <1>2, <1>5
  <2>2. \A y \in A \cup T : f[y] \in Int
    BY <1>2
  <2> QED
    BY <1>2, <2>1, <2>2, SumWithout
<1> QED
  BY <1>2, <1>3, <1>7, <1>8, <1>9, <1>10

\* Natural numbers: the sum over more elements is no less.
LEMMA SumGrows ==
  ASSUME NEW S, IsFiniteSet(S), NEW T \in SUBSET S, NEW f, \A x \in S : f[x] \in Nat
  PROVE  SumFunctionOnSet(f, T) <= SumFunctionOnSet(f, S)
<1>1. IsFiniteSet(T) /\ IsFiniteSet(S \ T)
  BY FS_Subset, FS_Difference
<1>2. SumFunctionOnSet(f, T) \in Nat /\ SumFunctionOnSet(f, S \ T) \in Nat
  <2>1. (\A x \in T : f[x] \in Nat) /\ (\A x \in S \ T : f[x] \in Nat)
    OBVIOUS
  <2> QED
    BY <1>1, <2>1, SumNat
<1>3. T \cup (S \ T) = S /\ T \cap (S \ T) = {}
  OBVIOUS
<1>4. SumFunctionOnSet(f, S) = SumFunctionOnSet(f, T) + SumFunctionOnSet(f, S \ T)
  <2>1. \A x \in T \cup (S \ T) : f[x] \in Int
    OBVIOUS
  <2>2. SumFunctionOnSet(f, T \cup (S \ T)) = SumFunctionOnSet(f, T) + SumFunctionOnSet(f, S \ T)
    BY <1>1, <1>3, <2>1, SumOfBoth
  <2> QED
    BY <1>3, <2>2
<1> QED
  BY <1>2, <1>4

\* What is not in B is in C.
LEMMA SumWithin ==
  ASSUME NEW S, IsFiniteSet(S), NEW A \in SUBSET S, NEW B \in SUBSET S, NEW C \in SUBSET S,
         A \ C \subseteq B, NEW f, \A x \in S : f[x] \in Nat
  PROVE  SumFunctionOnSet(f, A) <= SumFunctionOnSet(f, B) + SumFunctionOnSet(f, C)
<1>1. /\ IsFiniteSet(B) /\ IsFiniteSet(C) /\ IsFiniteSet(C \ B) /\ IsFiniteSet(B \cup (C \ B))
      /\ IsFiniteSet(A)
  BY FS_Subset, FS_Union, FS_Difference
<1>2. /\ \A x \in B : f[x] \in Nat
      /\ \A x \in C : f[x] \in Nat
      /\ \A x \in C \ B : f[x] \in Nat
      /\ \A x \in B \cup (C \ B) : f[x] \in Nat
      /\ \A x \in A : f[x] \in Nat
  OBVIOUS
<1>3. /\ SumFunctionOnSet(f, B) \in Nat
      /\ SumFunctionOnSet(f, C) \in Nat
      /\ SumFunctionOnSet(f, C \ B) \in Nat
      /\ SumFunctionOnSet(f, A) \in Nat
  BY <1>1, <1>2, SumNat
<1>4. SumFunctionOnSet(f, A) <= SumFunctionOnSet(f, B \cup (C \ B))
  <2>1. A \in SUBSET (B \cup (C \ B))
    OBVIOUS
  <2> QED
    BY <1>1, <1>2, <2>1, SumGrows
<1>5. SumFunctionOnSet(f, B \cup (C \ B)) = SumFunctionOnSet(f, B) + SumFunctionOnSet(f, C \ B)
  <2>1. B \cap (C \ B) = {} /\ \A x \in B \cup (C \ B) : f[x] \in Int
    BY <1>2
  <2> QED
    BY <1>1, <2>1, SumOfBoth
<1>6. SumFunctionOnSet(f, C \ B) <= SumFunctionOnSet(f, C)
  BY <1>1, <1>2, SumGrows
<1> QED
  BY <1>3, <1>4, <1>5, <1>6

\* The groups of some values of g add up to what has such a value.
LEMMA SumOfGroups ==
  ASSUME NEW S, IsFiniteSet(S), NEW D, IsFiniteSet(D), NEW g,
         NEW f, \A x \in S : f[x] \in Int
  PROVE  SumFunctionOnSet([d \in D |-> SumFunctionOnSet(f, {x \in S : g[x] = d})], D)
           = SumFunctionOnSet(f, {x \in S : g[x] \in D})
<1> DEFINE Group(d) == {x \in S : g[x] = d}
           Part(T) == {x \in S : g[x] \in T}
           h == [d \in D |-> SumFunctionOnSet(f, Group(d))]
           C == {T \in SUBSET D : SumFunctionOnSet(h, T) # SumFunctionOnSet(f, Part(T))}
<1> SUFFICES ASSUME C # {} PROVE FALSE
  <2>1. D \notin C
    <3>1. C = {}
      OBVIOUS
    <3> HIDE DEF C
    <3> QED
      BY <3>1
  <2> QED
    BY <2>1
<1>1. PICK T \in C : \A U \in C : U \subseteq T => U = T
  <2> HIDE DEF C
  <2>1. C \in SUBSET (SUBSET D)
    BY DEF C
  <2> QED
    BY <2>1, SmallestSubset
<1>2. T \in SUBSET D /\ SumFunctionOnSet(h, T) # SumFunctionOnSet(f, Part(T))
  OBVIOUS
<1>3. ASSUME NEW P \in SUBSET S
      PROVE  IsFiniteSet(P) /\ SumFunctionOnSet(f, P) \in Int
  <2>1. IsFiniteSet(P) /\ \A x \in P : f[x] \in Int
    BY FS_Subset
  <2> QED
    BY <2>1, SumType
<1>4. \A d \in D : h[d] = SumFunctionOnSet(f, Group(d)) /\ h[d] \in Int
  <2>1. \A d : Group(d) \in SUBSET S
    OBVIOUS
  <2>2. \A d \in D : h[d] = SumFunctionOnSet(f, Group(d))
    OBVIOUS
  <2> HIDE DEF h, Group
  <2> QED
    BY <1>3, <2>1, <2>2
<1>5. Part({}) = {} /\ \A U : Part(U) \in SUBSET S
  OBVIOUS
<1>6. \A U, d : d \in U => /\ Part(U) = Part(U \ {d}) \cup Group(d)
                           /\ Part(U \ {d}) \cap Group(d) = {}
  OBVIOUS
<1>7. \A d : Group(d) \in SUBSET S
  OBVIOUS
<1>8. \A U \in SUBSET D : U \notin C => SumFunctionOnSet(h, U) = SumFunctionOnSet(f, Part(U))
  OBVIOUS
<1> HIDE DEF h, Group, Part, C
<1>9. T # {}
  BY <1>2, <1>5, SumOfNone
<1>10. PICK d : d \in T
  BY <1>9
<1>11. SumFunctionOnSet(h, T \ {d}) = SumFunctionOnSet(f, Part(T \ {d}))
  <2>1. T \ {d} \subseteq T /\ T \ {d} # T /\ T \ {d} \in SUBSET D
    BY <1>2, <1>10
  <2> QED
    BY <1>1, <1>8, <2>1
<1>12. SumFunctionOnSet(h, T) = h[d] + SumFunctionOnSet(h, T \ {d})
  <2>1. IsFiniteSet(T) /\ \A e \in T : h[e] \in Int
    BY <1>2, <1>4, FS_Subset
  <2> QED
    BY <1>10, <2>1, SumWithout
<1>13. SumFunctionOnSet(f, Part(T)) = SumFunctionOnSet(f, Part(T \ {d})) + SumFunctionOnSet(f, Group(d))
  <2>1. IsFiniteSet(Part(T \ {d})) /\ IsFiniteSet(Group(d))
    BY <1>3, <1>5, <1>7
  <2>2. Part(T) = Part(T \ {d}) \cup Group(d) /\ Part(T \ {d}) \cap Group(d) = {}
    BY <1>6, <1>10
  <2>3. \A x \in Part(T \ {d}) \cup Group(d) : f[x] \in Int
    BY <1>5, <1>7
  <2> QED
    BY <2>1, <2>2, <2>3, SumOfBoth
<1>14. SumFunctionOnSet(f, Part(T \ {d})) \in Int /\ SumFunctionOnSet(f, Group(d)) \in Int
  BY <1>3, <1>5, <1>7
<1>15. h[d] = SumFunctionOnSet(f, Group(d))
  BY <1>2, <1>4, <1>10
<1> QED
  BY <1>2, <1>11, <1>12, <1>13, <1>14, <1>15

\* A sum of ones counts.
LEMMA SumCounts ==
  ASSUME NEW S, IsFiniteSet(S), NEW f, \A x \in S : f[x] = 1
  PROVE  SumFunctionOnSet(f, S) = Cardinality(S)
<1> DEFINE C == {T \in SUBSET S : SumFunctionOnSet(f, T) # Cardinality(T)}
<1> SUFFICES ASSUME C # {} PROVE FALSE
  <2>1. S \notin C
    <3>1. C = {}
      OBVIOUS
    <3> HIDE DEF C
    <3> QED
      BY <3>1
  <2> QED
    BY <2>1
<1>1. PICK T \in C : \A U \in C : U \subseteq T => U = T
  <2> HIDE DEF C
  <2>1. C \in SUBSET (SUBSET S)
    BY DEF C
  <2> QED
    BY <2>1, SmallestSubset
<1>2. T \in SUBSET S /\ IsFiniteSet(T) /\ SumFunctionOnSet(f, T) # Cardinality(T)
  BY FS_Subset
<1>3. T # {}
  BY <1>2, SumOfNone, FS_EmptySet
<1>4. PICK x : x \in T
  BY <1>3
<1>5. SumFunctionOnSet(f, T \ {x}) = Cardinality(T \ {x})
  <2>1. T \ {x} \subseteq T /\ T \ {x} # T /\ T \ {x} \in SUBSET S
    BY <1>2, <1>4
  <2>2. T \ {x} \notin C
    <3> HIDE DEF C
    <3> QED
      BY <1>1, <2>1
  <2> QED
    BY <2>1, <2>2
<1> HIDE DEF C
<1>6. SumFunctionOnSet(f, T) = f[x] + SumFunctionOnSet(f, T \ {x})
  <2>1. \A y \in T : f[y] \in Int
    BY <1>2
  <2> QED
    BY <1>2, <1>4, <2>1, SumWithout
<1>7. Cardinality(T \ {x}) = Cardinality(T) - 1 /\ Cardinality(T) \in Nat
  BY <1>2, <1>4, FS_RemoveElement, FS_CardinalityType
<1>8. f[x] = 1
  BY <1>2, <1>4
<1> QED
  BY <1>2, <1>5, <1>6, <1>7, <1>8

-----------------------------------------------------------------------------
(* Products and fractions *)

\* A set of natural numbers has a least one.
LEMMA LeastNumber ==
  ASSUME NEW S \in SUBSET Nat, S # {}
  PROVE  \E n \in S : \A m \in S : n <= m
<1>1. IsWellFoundedOn(OpToRel(<, Nat), Nat)
  BY NatLessThanWellFounded
<1>2. PICK n \in S : \A m \in S : ~ (<<m, n>> \in OpToRel(<, Nat))
  BY <1>1, WFMin
<1>3. \A m \in S : ~ (m < n)
  BY <1>2 DEF OpToRel
<1> QED
  BY <1>3

LEMMA Product ==
    ASSUME NEW a \in Int, NEW b \in Int
    PROVE  a * b \in Int /\ a * b = b * a
OBVIOUS

\* Multiplication by a positive number keeps the order.
LEMMA ProductGrows ==
    ASSUME NEW a \in Int, NEW b \in Int, NEW c \in Nat, a <= b
    PROVE  c * a <= c * b
<1>1. c * b = c * a + c * (b - a)
  OBVIOUS
<1>2. c * (b - a) >= 0
  <2>1. ASSUME NEW e \in Nat PROVE c * e \in Nat
    OBVIOUS
  <2> QED
    BY <2>1
<1> QED
  BY <1>1, <1>2

LEMMA ProductShrinks ==
    ASSUME NEW a \in Int, NEW b \in Int, NEW c \in Nat \ {0}, c * a <= c * b
    PROVE  a <= b
<1> SUFFICES ASSUME b + 1 <= a PROVE FALSE
  OBVIOUS
<1>1. c * (b + 1) <= c * a
  BY ProductGrows
<1>2. c * (b + 1) = c * b + c
  OBVIOUS
<1>3. c * a \in Int /\ c * b \in Int
  OBVIOUS
<1> QED
  BY <1>1, <1>2, <1>3

\* Lowest terms: numerator and denominator have lost a common divisor.
LEMMA FractionOf ==
    ASSUME NEW n \in Int, NEW d \in Nat \ {0}
    PROVE  /\ Fraction(n, d).num \in Int
           /\ Fraction(n, d).den \in Nat \ {0}
           /\ \E c \in Nat \ {0} : n = c * Fraction(n, d).num /\ d = c * Fraction(n, d).den
<1> DEFINE D == {k \in 1 .. d : n % k = 0 /\ d % k = 0}
           c == Max(D)
<1>1. c \in D
  <2> DEFINE E == {k \in Nat : d - k \in D}
  <2>1. PICK m \in E : \A k \in E : m <= k
    <3>1. E \in SUBSET Nat
      OBVIOUS
    <3>2. d - 1 \in E
      <4>1. n % 1 = 0 /\ d % 1 = 0
        OBVIOUS
      <4>2. d - 1 \in Nat /\ d - (d - 1) = 1 /\ 1 \in 1 .. d
        OBVIOUS
      <4> QED
        BY <4>1, <4>2
    <3> HIDE DEF E
    <3> QED
      BY <3>1, <3>2, LeastNumber
  <2>2. \A y \in D : d - m >= y
    <3>1. ASSUME NEW y \in D PROVE d - y \in E
      <4>1. y \in Int /\ d - y \in Nat /\ d - (d - y) = y
        OBVIOUS
      <4> QED
        BY <4>1
    <3>2. ASSUME NEW y \in D PROVE d - m >= y
      <4>1. y \in Int /\ m \in Int /\ d \in Int
        OBVIOUS
      <4> HIDE DEF E, D
      <4> QED
        BY <2>1, <3>1, <4>1
    <3> HIDE DEF E, D
    <3> QED
      BY <3>2
  <2>3. d - m \in D
    OBVIOUS
  <2> HIDE DEF D
  <2> QED
    BY <2>2, <2>3 DEF Max
<1>2. c \in Nat \ {0} /\ n % c = 0 /\ d % c = 0
  <2> HIDE DEF c
  <2> QED
    BY <1>1
<1>3. n = c * (n \div c) /\ n \div c \in Int
  <2> HIDE DEF c
  <2> QED
    BY <1>2
<1>4. d = c * (d \div c) /\ d \div c \in Int
  <2> HIDE DEF c
  <2> QED
    BY <1>2
<1>5. d \div c \in Nat \ {0}
  <2> HIDE DEF c
  <2> QED
    BY <1>2, <1>4
<1>6. Fraction(n, d) = [num |-> n \div c, den |-> d \div c]
  <2>1. ~ (d < 0) /\ 1 * d = d /\ 1 * n = n
    OBVIOUS
  <2> QED
    BY <2>1 DEF Fraction
<1> HIDE DEF c
<1> QED
  BY <1>2, <1>3, <1>4, <1>5, <1>6

-----------------------------------------------------------------------------
(* Quantities and costs *)

\* A cost between two of the prices.
WithinPrices(cost) ==
    /\ cost.num \in Int /\ cost.den \in Nat \ {0}
    /\ \E p \in Prices : p * cost.den <= cost.num
    /\ \E p \in Prices : cost.num <= p * cost.den

\* The stock rows.  A row that is not in overdrawn is not below 0.
RowsFit ==
    /\ DOMAIN stock \subseteq Skus
    /\ \A s \in DOMAIN stock :
          /\ stock[s] = [qty |-> stock[s].qty, cost |-> stock[s].cost]
          /\ stock[s].qty \in Int
          /\ s \notin overdrawn => stock[s].qty >= 0 /\ WithinPrices(stock[s].cost)

\* The items of an import that were seen, and of those the units of one SKU.
Seen(c) == 1 .. c.next - 1
Of(c, s) == {i \in Seen(c) : c.items[i].sku = s}
Added(c, s) == SumFunctionOnSet([i \in DOMAIN c.items |-> c.items[i].qty], Of(c, s))

\* An import in progress has added to each row the units seen so far, and its
\* averages are within the prices, whatever others have written meanwhile.
CallFits(c) ==
    /\ c.op = "adjust" => c.change \in Adjustments
    /\ c.op = "import" =>
        /\ c = [op |-> "import", code |-> c.code, items |-> c.items,
                next |-> c.next, done |-> c.done]
        /\ c.items \in Imports
        /\ c.next \in 1 .. Len(c.items) + 1
        /\ DOMAIN c.done = {c.items[i].sku : i \in Seen(c)}
        /\ \A s \in DOMAIN c.done :
              /\ c.done[s] = [added |-> c.done[s].added, fresh |-> c.done[s].fresh,
                              cost |-> c.done[s].cost]
              /\ c.done[s].added = Added(c, s)
              /\ s \notin overdrawn => WithinPrices(c.done[s].cost)

CallsFit == \A w \in Workers : CallFits(call[w])

\* The next shipment's code is not in use: its row is a new one.
LogsFit ==
    /\ \A row \in importLogs \cup exportLogs : \A s \in Skus : row.qty[s] \in Int
    /\ \A row \in exportLogs : row.code \in 1 .. Exports

QtyOf(s) == IF s \in DOMAIN stock THEN stock[s].qty ELSE 0
Adjusted(s) == \E row \in adjustLogs : s \in DOMAIN row.change

\* The book of a SKU: what there was, what came in and what went out.
Book ==
    \A s \in Skus :
        Adjusted(s) \/ QtyOf(s) = InitQty(s) + Total(importLogs, s) - Total(exportLogs, s)

BookInv == RowsFit /\ CallsFit /\ LogsFit /\ Book

-----------------------------------------------------------------------------
(* Averages *)

LEMMA ItemsOfImports ==
    ASSUME NEW items \in Imports
    PROVE  /\ items \in Seq(Item) /\ Len(items) \in Nat /\ DOMAIN items = 1 .. Len(items)
           /\ \A i \in DOMAIN items : /\ items[i] \in Item /\ items[i].sku \in Skus
                                     /\ items[i].qty \in Nat \ {0} /\ items[i].price \in Nat
<1>1. items \in Seq(Item)
  BY InventoryAssumption
<1>2. /\ Len(items) \in Nat /\ DOMAIN items = 1 .. Len(items)
      /\ \A i \in DOMAIN items : items[i] \in Item
  BY <1>1
<1> QED
  BY <1>1, <1>2 DEF Item

LEMMA PricesAreNumbers == Prices \subseteq Nat
<1>1. ASSUME NEW s \in DOMAIN InitStock
      PROVE  InitStock[s].cost \in Nat
  BY InventoryAssumption
<1> QED
  BY <1>1, ItemsOfImports DEF Prices

LEMMA PricesOfItems ==
    ASSUME NEW items \in Imports, NEW i \in DOMAIN items
    PROVE  items[i].price \in Prices
BY DEF Prices

\* The average of an amount at cost num / den and of b units at a price is no
\* lower than the lower of both ...
LEMMA WeightedLow ==
    ASSUME NEW a \in Nat, NEW b \in Nat, NEW den \in Nat, NEW num \in Int,
           NEW p \in Int, NEW price \in Int, p <= price, a * (p * den) <= a * num
    PROVE  p * ((a + b) * den) <= a * num + b * price * den
<1>1. p * den <= price * den
  BY ProductGrows, Product
<1>2. b * (p * den) <= b * (price * den)
  <2>1. p * den \in Int /\ price * den \in Int
    OBVIOUS
  <2> QED
    BY <1>1, <2>1, ProductGrows
<1>3. b * price * den = b * (price * den)
  OBVIOUS
<1>4. p * ((a + b) * den) = a * (p * den) + b * (p * den)
  OBVIOUS
<1>5. a * (p * den) \in Int /\ b * (p * den) \in Int /\ a * num \in Int /\ b * (price * den) \in Int
  OBVIOUS
<1> QED
  BY <1>2, <1>3, <1>4, <1>5

\* ... and no higher than the higher.
LEMMA WeightedHigh ==
    ASSUME NEW a \in Nat, NEW b \in Nat, NEW den \in Nat, NEW num \in Int,
           NEW p \in Int, NEW price \in Int, price <= p, a * num <= a * (p * den)
    PROVE  a * num + b * price * den <= p * ((a + b) * den)
<1>1. price * den <= p * den
  BY ProductGrows, Product
<1>2. b * (price * den) <= b * (p * den)
  <2>1. p * den \in Int /\ price * den \in Int
    OBVIOUS
  <2> QED
    BY <1>1, <2>1, ProductGrows
<1>3. b * price * den = b * (price * den)
  OBVIOUS
<1>4. p * ((a + b) * den) = a * (p * den) + b * (p * den)
  OBVIOUS
<1>5. a * (p * den) \in Int /\ b * (p * den) \in Int /\ a * num \in Int /\ b * (price * den) \in Int
  OBVIOUS
<1> QED
  BY <1>2, <1>3, <1>4, <1>5

\* Lowest terms are within the prices if the fraction is.
LEMMA FractionWithin ==
    ASSUME NEW n \in Int, NEW d \in Nat \ {0}, NEW lo \in Prices, NEW hi \in Prices,
           lo * d <= n, n <= hi * d
    PROVE  WithinPrices(Fraction(n, d))
<1>1. PICK F : F = Fraction(n, d)
  OBVIOUS
<1>2. PICK c \in Nat \ {0} : n = c * F.num /\ d = c * F.den
  BY <1>1, FractionOf
<1>3. F.num \in Int /\ F.den \in Nat \ {0} /\ lo \in Int /\ hi \in Int
  BY <1>1, FractionOf, PricesAreNumbers
<1>4. PICK num \in Int, den \in Nat \ {0} : F.num = num /\ F.den = den
  BY <1>3
<1>5. lo * (c * den) = c * (lo * den) /\ hi * (c * den) = c * (hi * den)
  BY <1>3
<1>6. c * (lo * den) <= c * num /\ c * num <= c * (hi * den)
  BY <1>2, <1>4, <1>5
<1>7. lo * den \in Int /\ hi * den \in Int
  BY <1>3
<1>8. lo * den <= num /\ num <= hi * den
  BY <1>6, <1>7, ProductShrinks
<1> QED
  BY <1>1, <1>4, <1>8 DEF WithinPrices

\* A row without units, whatever it costs, takes the price.
LEMMA AverageWithin ==
    ASSUME NEW qty \in Nat, NEW item \in Item, item.price \in Prices, NEW cost,
           WithinPrices(cost) \/ (qty = 0 /\ cost = Whole(0))
    PROVE  WithinPrices(Average(qty, cost, item))
<1>1. PICK units \in Nat \ {0}, price \in Prices : item.qty = units /\ item.price = price
  BY DEF Item
<1>2. PICK num \in Int, den \in Nat \ {0} : cost.num = num /\ cost.den = den
  BY DEF WithinPrices, Whole
<1> DEFINE n == qty * num + units * price * den
           d == (qty + units) * den
<1>3. price \in Nat /\ Prices \subseteq Nat
  BY PricesAreNumbers
<1>4. n \in Int /\ d \in Nat \ {0}
  <2>1. \A x, y \in Nat \ {0} : x * y \in Nat \ {0}
    OBVIOUS
  <2>2. qty + units \in Nat \ {0}
    OBVIOUS
  <2> QED
    BY <1>3, <2>1, <2>2
<1>5. \E p \in Prices : p <= price /\ qty * (p * den) <= qty * num
  <2>1. CASE qty = 0
    <3>1. qty * (price * den) = 0 /\ qty * num = 0
      BY <1>3, <2>1
    <3> QED
      BY <1>3, <3>1
  <2>2. CASE qty # 0
    <3>1. PICK q \in Prices : q * den <= num
      BY <1>2, <2>2 DEF WithinPrices
    <3>2. PICK p \in Prices : p <= price /\ p * den <= num
      <4>1. CASE q <= price
        BY <3>1, <4>1
      <4>2. CASE price <= q
        <5>1. price * den <= q * den
          BY <1>3, <4>2, ProductGrows, Product
        <5>2. price * den \in Int /\ q * den \in Int
          BY <1>3
        <5> QED
          BY <1>3, <3>1, <5>1, <5>2
      <4> QED
        BY <1>3, <4>1, <4>2
    <3>3. p * den \in Int
      BY <1>3
    <3> QED
      BY <3>2, <3>3, ProductGrows
  <2> QED
    BY <2>1, <2>2
<1>6. \E p \in Prices : price <= p /\ qty * num <= qty * (p * den)
  <2>1. CASE qty = 0
    <3>1. qty * (price * den) = 0 /\ qty * num = 0
      BY <1>3, <2>1
    <3> QED
      BY <1>3, <3>1
  <2>2. CASE qty # 0
    <3>1. PICK q \in Prices : num <= q * den
      BY <1>2, <2>2 DEF WithinPrices
    <3>2. PICK p \in Prices : price <= p /\ num <= p * den
      <4>1. CASE price <= q
        BY <3>1, <4>1
      <4>2. CASE q <= price
        <5>1. q * den <= price * den
          BY <1>3, <4>2, ProductGrows, Product
        <5>2. price * den \in Int /\ q * den \in Int
          BY <1>3
        <5> QED
          BY <1>3, <3>1, <5>1, <5>2
      <4> QED
        BY <1>3, <4>1, <4>2
    <3>3. p * den \in Int
      BY <1>3
    <3> QED
      BY <3>2, <3>3, ProductGrows
  <2> QED
    BY <2>1, <2>2
<1>7. \E p \in Prices : p * d <= n
  BY <1>3, <1>5, WeightedLow
<1>8. \E p \in Prices : n <= p * d
  BY <1>3, <1>6, WeightedHigh
<1>9. WithinPrices(Fraction(n, d))
  <2> HIDE DEF n, d
  <2> QED
    BY <1>4, <1>7, <1>8, FractionWithin
<1>10. Average(qty, cost, item) = Fraction(n, d)
  BY <1>1, <1>2 DEF Average
<1> QED
  BY <1>9, <1>10

-----------------------------------------------------------------------------
(* Totals *)

\* A row that is written once adds its quantities to the total of its table.
LEMMA TotalWith ==
    ASSUME NEW T, IsFiniteSet(T), NEW row, row \notin T, NEW s,
           \A r \in T \cup {row} : r.qty[s] \in Int
    PROVE  /\ Total(T \cup {row}, s) = Total(T, s) + row.qty[s]
           /\ Total(T, s) \in Int
<1> DEFINE U == T \cup {row}
           f == [r \in U |-> r.qty[s]]
           e == [r \in T |-> r.qty[s]]
<1>1. Total(U, s) = SumFunctionOnSet(f, U) /\ Total(T, s) = SumFunctionOnSet(e, T)
  BY DEF Total, SumFunction
<1>2. \A r \in U : f[r] \in Int
  OBVIOUS
<1>3. f[row] = row.qty[s]
  OBVIOUS
<1>4. \A r \in T : e[r] \in Int /\ e[r] = f[r]
  OBVIOUS
<1> HIDE DEF f, e
<1>5. SumFunctionOnSet(f, U) = SumFunctionOnSet(f, T) + f[row]
  BY <1>2, SumWith
<1>6. SumFunctionOnSet(e, T) = SumFunctionOnSet(f, T)
  BY <1>4, SumSame
<1>7. SumFunctionOnSet(e, T) \in Int
  BY <1>4, SumType
<1> QED
  BY <1>1, <1>3, <1>5, <1>6, <1>7

LEMMA TotalOfNone ==
    ASSUME NEW s
    PROVE  Total({}, s) = 0
<1>1. Total({}, s) = SumFunctionOnSet([r \in {} |-> r.qty[s]], {})
  BY DEF Total, SumFunction
<1> QED
  BY <1>1, SumOfNone
-----------------------------------------------------------------------------
(* The steps and the books *)

LEMMA InitBooks == Init => BookInv
<1> SUFFICES ASSUME Init
             PROVE  BookInv
  OBVIOUS
<1>1. RowsFit
  <2> SUFFICES ASSUME NEW s \in DOMAIN stock
               PROVE  /\ stock[s] = [qty |-> stock[s].qty, cost |-> stock[s].cost]
                      /\ stock[s].qty \in Int
                      /\ s \notin overdrawn => stock[s].qty >= 0 /\ WithinPrices(stock[s].cost)
    BY InventoryAssumption DEF Init, RowsFit
  <2>1. /\ s \in DOMAIN InitStock
        /\ stock[s] = [qty |-> InitStock[s].qty, cost |-> Whole(InitStock[s].cost)]
    BY DEF Init
  <2>2. InitStock[s].qty \in Int /\ InitStock[s].cost \in Nat
    BY <2>1, InventoryAssumption
  <2>3. s \notin overdrawn => stock[s].qty >= 0
    BY <2>1, <2>2 DEF Init
  <2>4. WithinPrices(Whole(InitStock[s].cost))
    <3>1. PICK p \in Nat : p = InitStock[s].cost
      BY <2>2
    <3>2. p \in Prices
      BY <2>1, <3>1 DEF Prices
    <3>3. p * 1 = p
      OBVIOUS
    <3> QED
      BY <3>1, <3>2, <3>3 DEF WithinPrices, Whole
  <2> QED
    BY <2>1, <2>2, <2>3, <2>4
<1>2. CallsFit
  BY DEF Init, CallsFit, CallFits, NoCall
<1>3. LogsFit
  BY DEF Init, LogsFit
<1>4. Book
  <2> SUFFICES ASSUME NEW s \in Skus
               PROVE  QtyOf(s) = InitQty(s) + Total(importLogs, s) - Total(exportLogs, s)
    BY DEF Book
  <2>1. Total(importLogs, s) = 0 /\ Total(exportLogs, s) = 0
    BY TotalOfNone DEF Init
  <2>2. QtyOf(s) = InitQty(s) /\ InitQty(s) \in Int
    BY InventoryAssumption DEF Init, QtyOf, InitQty
  <2> QED
    BY <2>1, <2>2
<1> QED
  BY <1>1, <1>2, <1>3, <1>4 DEF BookInv

\* The book of one SKU is whole numbers.
LEMMA BookType ==
    ASSUME Inv, BookInv, NEW s \in Skus
    PROVE  /\ Total(importLogs, s) \in Int /\ Total(exportLogs, s) \in Int
           /\ InitQty(s) \in Int /\ QtyOf(s) \in Int
<1>1. ASSUME NEW T, IsFiniteSet(T), \A row \in T : row.qty[s] \in Int
      PROVE  Total(T, s) \in Int
  <2> DEFINE e == [r \in T |-> r.qty[s]]
  <2>1. Total(T, s) = SumFunctionOnSet(e, T)
    BY DEF Total, SumFunction
  <2>2. \A r \in T : e[r] \in Int
    BY <1>1
  <2> HIDE DEF e
  <2> QED
    BY <1>1, <2>1, <2>2, SumType
<1>2. Total(importLogs, s) \in Int /\ Total(exportLogs, s) \in Int
  BY <1>1 DEF Inv, LogsFinite, BookInv, LogsFit
<1>3. InitQty(s) \in Int
  BY InventoryAssumption DEF InitQty
<1>4. QtyOf(s) \in Int
  BY DEF QtyOf, BookInv, RowsFit
<1> QED
  BY <1>2, <1>3, <1>4

\* Rows that fit stay so when the table changes.
LEMMA StoreFits ==
    ASSUME NEW rows, Store(rows), DOMAIN rows \subseteq Skus,
           \A s \in DOMAIN rows :
              /\ rows[s] = [qty |-> rows[s].qty, cost |-> rows[s].cost]
              /\ rows[s].qty \in Int
              /\ s \notin overdrawn => WithinPrices(rows[s].cost)
    PROVE  RowsFit' /\ overdrawn \subseteq overdrawn'
<1>1. stock' = rows /\ overdrawn' = overdrawn \cup {s \in DOMAIN rows : rows[s].qty < 0}
  BY DEF Store
<1>2. ASSUME NEW s \in DOMAIN rows, s \notin overdrawn'
      PROVE  rows[s].qty >= 0 /\ WithinPrices(rows[s].cost)
  BY <1>1, <1>2
<1>3. \A cost : WithinPrices(cost)' = WithinPrices(cost)
  BY DEF WithinPrices
<1> QED
  BY <1>1, <1>2, <1>3 DEF RowsFit

\* More SKUs overdrawn only ask less of a call.
LEMMA CallFitsStays ==
    ASSUME NEW c, CallFits(c), overdrawn \subseteq overdrawn'
    PROVE  CallFits(c)'
<1>1. \A cost : WithinPrices(cost)' = WithinPrices(cost)
  BY DEF WithinPrices
<1> HIDE DEF WithinPrices
<1> QED
  BY <1>1 DEF CallFits

LEMMA CallsFitStay ==
    ASSUME Inv, CallsFit, overdrawn \subseteq overdrawn',
           NEW w \in Workers, NEW c, CallFits(c), call' = [call EXCEPT ![w] = c]
    PROVE  CallsFit'
<1> SUFFICES ASSUME NEW v \in Workers
             PROVE  CallFits(call[v])'
  BY DEF CallsFit
<1>1. PICK d : d = call'[v]
  OBVIOUS
<1>2. CallFits(d)
  <2>1. v = w => d = c
    BY <1>1 DEF Inv, CallsOK
  <2>2. v # w => d = call[v]
    BY <1>1 DEF Inv, CallsOK
  <2> QED
    BY <2>1, <2>2 DEF CallsFit
<1>3. CallFits(d)'
  BY <1>2, CallFitsStays
<1> QED
  BY <1>1, <1>3

LEMMA SameCallsFit ==
    ASSUME CallsFit, overdrawn \subseteq overdrawn', call' = call
    PROVE  CallsFit'
<1> SUFFICES ASSUME NEW v \in Workers
             PROVE  CallFits(call[v])'
  BY DEF CallsFit
<1>1. PICK d : d = call[v]
  OBVIOUS
<1>2. CallFits(d)'
  BY <1>1, CallFitsStays DEF CallsFit
<1> QED
  BY <1>1, <1>2

\* What a step that writes neither rows nor logs keeps.
LEMMA SameTablesFit ==
    ASSUME BookInv, UNCHANGED <<stock, logs, overdrawn>>, CallsFit'
    PROVE  BookInv'
<1>1. RowsFit'
  <2>1. \A cost : WithinPrices(cost)' = WithinPrices(cost)
    BY DEF WithinPrices
  <2> QED
    BY <2>1 DEF BookInv, RowsFit
<1>2. Exports' = Exports
  BY DEF logs, Exports
<1>3. LogsFit'
  BY <1>2 DEF BookInv, LogsFit, logs
<1>4. Book'
  <2> SUFFICES ASSUME NEW s \in Skus
               PROVE  (Adjusted(s) \/ QtyOf(s) = InitQty(s) + Total(importLogs, s)
                                                           - Total(exportLogs, s))'
    BY DEF Book
  <2>1. Adjusted(s)' = Adjusted(s) /\ QtyOf(s)' = QtyOf(s)
    BY DEF Adjusted, QtyOf, logs
  <2>2. importLogs' = importLogs /\ exportLogs' = exportLogs
    BY DEF logs
  <2>3. Total(importLogs, s)' = Total(importLogs, s) /\ Total(exportLogs, s)' = Total(exportLogs, s)
    BY <2>2 DEF Total
  <2> QED
    BY <2>1, <2>3 DEF BookInv, Book
<1> QED
  BY <1>1, <1>3, <1>4 DEF BookInv

\* A shipment takes from the row what it writes to the log.
LEMMA ShipBooks ==
    ASSUME Inv, BookInv, NEW s \in Skus, NEW n \in Units, Ship(s, n)
    PROVE  BookInv'
<1>1. n \in Nat \ {0}
  BY InventoryAssumption
<1> DEFINE rows == [stock EXCEPT ![s].qty = @ - n]
           row == [code |-> Exports + 1, qty |-> Only(s, n)]
<1>2. /\ Store(rows) /\ exportLogs' = exportLogs \cup {row} /\ s \in DOMAIN stock
      /\ importLogs' = importLogs /\ adjustLogs' = adjustLogs /\ call' = call
  BY DEF Ship, Exports
<1>3. /\ DOMAIN rows = DOMAIN stock
      /\ rows[s] = [qty |-> stock[s].qty - n, cost |-> stock[s].cost]
      /\ \A t \in DOMAIN stock : t # s => rows[t] = stock[t]
  BY <1>2 DEF BookInv, RowsFit
<1>4. stock' = rows
  BY <1>2 DEF Store
<1>5. \A t \in Skus : row.qty[t] = (IF t = s THEN n ELSE 0) /\ row.qty[t] \in Int
  BY <1>1 DEF Only
<1>6. RowsFit' /\ overdrawn \subseteq overdrawn'
  <2> HIDE DEF rows, row
  <2>1. \A t \in DOMAIN rows :
           /\ rows[t] = [qty |-> rows[t].qty, cost |-> rows[t].cost]
           /\ rows[t].qty \in Int
           /\ t \notin overdrawn => WithinPrices(rows[t].cost)
    BY <1>1, <1>2, <1>3 DEF BookInv, RowsFit
  <2>2. DOMAIN rows \subseteq Skus
    BY <1>3 DEF BookInv, RowsFit
  <2> QED
    BY <1>2, <2>1, <2>2, StoreFits
<1>7. CallsFit'
  BY <1>2, <1>6, SameCallsFit DEF BookInv
<1>8. Exports \in Nat
  BY Counts DEF Inv
<1>9. row \notin exportLogs
  <2>1. \A r \in exportLogs : r.code # Exports + 1
    BY <1>8 DEF BookInv, LogsFit
  <2> QED
    BY <2>1
<1>10. Exports' = Exports + 1
  <2> HIDE DEF row
  <2> QED
    BY <1>2, <1>9, AddRow DEF Inv, LogsFinite, Exports
<1>11. LogsFit'
  <2>1. row.code = Exports + 1
    OBVIOUS
  <2> HIDE DEF row
  <2>2. \A r \in exportLogs' : r.code \in 1 .. Exports'
    BY <1>2, <1>8, <1>10, <2>1 DEF BookInv, LogsFit
  <2> QED
    BY <1>2, <1>5, <2>2 DEF BookInv, LogsFit
<1>12. Book'
  <2> SUFFICES ASSUME NEW t \in Skus, ~ Adjusted(t)
               PROVE  (QtyOf(t) = InitQty(t) + Total(importLogs, t) - Total(exportLogs, t))'
    BY <1>2 DEF Book, Adjusted
  <2>1. Total(exportLogs', t) = Total(exportLogs, t) + row.qty[t]
    <3> HIDE DEF row
    <3> QED
      BY <1>2, <1>5, <1>9, TotalWith DEF Inv, LogsFinite, BookInv, LogsFit
  <2>2. QtyOf(t)' = QtyOf(t) - row.qty[t]
    <3> HIDE DEF rows, row
    <3> QED
      BY <1>1, <1>2, <1>3, <1>4, <1>5 DEF QtyOf, BookInv, RowsFit
  <2>3. row.qty[t] \in Int
    BY <1>5
  <2>4. QtyOf(t) = InitQty(t) + Total(importLogs, t) - Total(exportLogs, t)
    BY DEF BookInv, Book
  <2>5. Total(importLogs', t) = Total(importLogs, t) /\ InitQty(t)' = InitQty(t)
    BY <1>2 DEF InitQty
  <2>6. (Total(importLogs, t))' = Total(importLogs', t) /\ (Total(exportLogs, t))' = Total(exportLogs', t)
    BY DEF Total
  <2> HIDE DEF row, rows
  <2> QED
    BY <2>1, <2>2, <2>3, <2>4, <2>5, <2>6, BookType
<1> QED
  BY <1>6, <1>7, <1>11, <1>12 DEF BookInv

LEMMA ReturnBooks ==
    ASSUME Inv, BookInv, NEW s \in Skus, NEW n \in Units, Return(s, n)
    PROVE  BookInv'
<1>1. n \in Nat \ {0}
  BY InventoryAssumption
<1>2. PICK code : /\ code \notin Codes(importLogs)
                  /\ importLogs' = importLogs \cup
                         {[code |-> code, type |-> "RETURN", qty |-> Only(s, n)]}
  BY DEF Return
<1> DEFINE rows == [stock EXCEPT ![s].qty = @ + n]
           row == [code |-> code, type |-> "RETURN", qty |-> Only(s, n)]
<1>3. /\ Store(rows) /\ s \in DOMAIN stock
      /\ exportLogs' = exportLogs /\ adjustLogs' = adjustLogs /\ call' = call
  BY DEF Return
<1>4. /\ DOMAIN rows = DOMAIN stock
      /\ rows[s] = [qty |-> stock[s].qty + n, cost |-> stock[s].cost]
      /\ \A t \in DOMAIN stock : t # s => rows[t] = stock[t]
  BY <1>3 DEF BookInv, RowsFit
<1>5. stock' = rows
  BY <1>3 DEF Store
<1>6. /\ \A t \in Skus : row.qty[t] = (IF t = s THEN n ELSE 0) /\ row.qty[t] \in Int
      /\ row \notin importLogs /\ importLogs' = importLogs \cup {row}
  BY <1>1, <1>2 DEF Only, Codes
<1> HIDE DEF row
<1>7. RowsFit' /\ overdrawn \subseteq overdrawn'
  <2> HIDE DEF rows
  <2>1. \A t \in DOMAIN rows :
           /\ rows[t] = [qty |-> rows[t].qty, cost |-> rows[t].cost]
           /\ rows[t].qty \in Int
           /\ t \notin overdrawn => WithinPrices(rows[t].cost)
    BY <1>1, <1>3, <1>4 DEF BookInv, RowsFit
  <2>2. DOMAIN rows \subseteq Skus
    BY <1>4 DEF BookInv, RowsFit
  <2> QED
    BY <1>3, <2>1, <2>2, StoreFits
<1>8. CallsFit'
  BY <1>3, <1>7, SameCallsFit DEF BookInv
<1>9. LogsFit'
  BY <1>3, <1>6 DEF BookInv, LogsFit, Exports
<1>10. Book'
  <2> SUFFICES ASSUME NEW t \in Skus, ~ Adjusted(t)
               PROVE  (QtyOf(t) = InitQty(t) + Total(importLogs, t) - Total(exportLogs, t))'
    BY <1>3 DEF Book, Adjusted
  <2>1. Total(importLogs', t) = Total(importLogs, t) + row.qty[t]
    BY <1>6, TotalWith DEF Inv, LogsFinite, BookInv, LogsFit
  <2>2. QtyOf(t)' = QtyOf(t) + row.qty[t]
    <3> HIDE DEF rows
    <3> QED
      BY <1>1, <1>3, <1>4, <1>5, <1>6 DEF QtyOf, BookInv, RowsFit
  <2>3. row.qty[t] \in Int
    BY <1>6
  <2>4. QtyOf(t) = InitQty(t) + Total(importLogs, t) - Total(exportLogs, t)
    BY DEF BookInv, Book
  <2>5. Total(exportLogs', t) = Total(exportLogs, t) /\ InitQty(t)' = InitQty(t)
    BY <1>3 DEF InitQty
  <2>6. (Total(importLogs, t))' = Total(importLogs', t) /\ (Total(exportLogs, t))' = Total(exportLogs', t)
    BY DEF Total
  <2> HIDE DEF rows
  <2> QED
    BY <2>1, <2>2, <2>3, <2>4, <2>5, <2>6, BookType
<1> QED
  BY <1>7, <1>8, <1>9, <1>10 DEF BookInv

LEMMA BeginBooks ==
    ASSUME Inv, BookInv, NEW w \in Workers,
           \/ \E items \in Imports : BeginImport(w, items)
           \/ \E change \in Adjustments : BeginAdjustment(w, change)
           \/ \E s \in Skus, n \in Units : BeginExport(w, s, n)
           \/ Abort(w)
    PROVE  BookInv'
<1>1. ASSUME NEW c, CallFits(c), call' = [call EXCEPT ![w] = c],
             UNCHANGED <<stock, logs, overdrawn>>
      PROVE  BookInv'
  <2>1. CallsFit'
    BY <1>1, CallsFitStay DEF BookInv
  <2> QED
    BY <1>1, <2>1, SameTablesFit
<1>2. ASSUME NEW items \in Imports, BeginImport(w, items)
      PROVE  BookInv'
  <2>1. PICK c : c = [op |-> "import", code |-> NextImport, items |-> items,
                      next |-> 1, done |-> << >>]
    OBVIOUS
  <2>2. CallFits(c)
    <3>1. Seen(c) = {} /\ c.done = << >> /\ DOMAIN << >> = {}
      BY <2>1 DEF Seen
    <3>2. DOMAIN c.done = {c.items[i].sku : i \in Seen(c)}
      BY <3>1
    <3>3. 1 \in 1 .. Len(items) + 1
      BY ItemsOfImports
    <3> QED
      BY <2>1, <3>1, <3>2, <3>3 DEF CallFits
  <2> QED
    BY <1>1, <1>2, <2>1, <2>2 DEF BeginImport, Begin
<1>3. ASSUME NEW change \in Adjustments, BeginAdjustment(w, change)
      PROVE  BookInv'
  <2>1. PICK c : c = [op |-> "adjust", code |-> NextAdjustment, change |-> change]
    OBVIOUS
  <2>2. CallFits(c)
    BY <2>1 DEF CallFits
  <2> QED
    BY <1>1, <1>3, <2>1, <2>2 DEF BeginAdjustment, Begin
<1>4. ASSUME NEW s \in Skus, NEW n \in Units, BeginExport(w, s, n)
      PROVE  BookInv'
  <2>1. PICK c : c = [op |-> "export"]
    OBVIOUS
  <2>2. CallFits(c)
    BY <2>1 DEF CallFits
  <2> QED
    BY <1>1, <1>4, <2>1, <2>2 DEF BeginExport, Begin
<1>5. ASSUME Abort(w)
      PROVE  BookInv'
  <2>1. CallFits(NoCall)
    BY DEF CallFits, NoCall
  <2> QED
    BY <1>1, <1>5, <2>1 DEF Abort, Done
<1> QED
  BY <1>2, <1>3, <1>4, <1>5

\* One turn of the loop: the units add up, the average stays within the prices.
LEMMA ImportItemBooks ==
    ASSUME Inv, BookInv, NEW w \in Workers, ImportItem(w)
    PROVE  BookInv'
<1>1. PICK c : c = call[w]
  OBVIOUS
<1>2. PICK item : item = c.items[c.next]
  OBVIOUS
<1>3. PICK s : s = item.sku
  OBVIOUS
<1>4. PICK before :
         before = IF s \in DOMAIN c.done THEN c.done[s]
                  ELSE [added |-> 0, fresh |-> s \notin DOMAIN stock,
                        cost |-> IF s \in DOMAIN stock THEN stock[s].cost ELSE Whole(0)]
  OBVIOUS
<1>5. PICK qty : qty = before.added + IF s \in DOMAIN stock THEN stock[s].qty ELSE 0
  OBVIOUS
<1>6. PICK after : after = [before EXCEPT !.added = @ + item.qty,
                                          !.cost = Average(qty, before.cost, item)]
  OBVIOUS
<1>7. PICK done : done = [t \in DOMAIN c.done \cup {s} |-> IF t = s THEN after ELSE c.done[t]]
  OBVIOUS
<1>8. /\ c.op = "import" /\ c.next \in DOMAIN c.items
      /\ call' = [call EXCEPT ![w].next = @ + 1, ![w].done = done]
      /\ UNCHANGED <<stock, logs, overdrawn>>
  BY <1>1, <1>2, <1>3, <1>4, <1>5, <1>6, <1>7 DEF ImportItem
<1>9. CallFits(c)
  BY <1>1 DEF BookInv, CallsFit
<1>10. /\ c = [op |-> "import", code |-> c.code, items |-> c.items,
               next |-> c.next, done |-> c.done]
       /\ c.items \in Imports /\ c.next \in 1 .. Len(c.items) /\ Len(c.items) \in Nat
       /\ DOMAIN c.items = 1 .. Len(c.items)
       /\ DOMAIN c.done = {c.items[i].sku : i \in Seen(c)}
  BY <1>8, <1>9, ItemsOfImports DEF CallFits
<1>11. PICK e : e = [op |-> "import", code |-> c.code, items |-> c.items,
                     next |-> c.next + 1, done |-> done]
  OBVIOUS
<1>12. call' = [call EXCEPT ![w] = e]
  <2>1. PICK next : next = c.next + 1
    OBVIOUS
  <2>2. call' = [call EXCEPT ![w].next = next, ![w].done = done]
    BY <1>1, <1>8, <2>1
  <2>3. call' = [call EXCEPT ![w] = [c EXCEPT !.next = next, !.done = done]]
    BY <1>1, <2>2 DEF Inv, CallsOK
  <2>4. [c EXCEPT !.next = next, !.done = done] = e
    <3>1. PICK code, items, old, was :
             c = [op |-> "import", code |-> code, items |-> items, next |-> old, done |-> was]
      BY <1>10
    <3>2. c.code = code /\ c.items = items
      BY <3>1
    <3>3. e = [op |-> "import", code |-> code, items |-> items, next |-> next, done |-> done]
      BY <1>11, <2>1, <3>2
    <3>4. [c EXCEPT !.next = next, !.done = done]
              = [op |-> "import", code |-> code, items |-> items, next |-> next, done |-> done]
      <4>1. PICK d : d = [c EXCEPT !.next = next]
        OBVIOUS
      <4>2. d = [op |-> "import", code |-> code, items |-> items, next |-> next, done |-> was]
        BY ONLY <3>1, <4>1
      <4>3. [d EXCEPT !.done = done]
               = [op |-> "import", code |-> code, items |-> items, next |-> next, done |-> done]
        BY ONLY <4>2
      <4> QED
        BY ONLY <4>1, <4>3
    <3> QED
      BY ONLY <3>3, <3>4
  <2> QED
    BY <2>3, <2>4
<1>13. /\ item \in Item /\ s \in Skus /\ item.qty \in Nat \ {0} /\ item.price \in Prices
  BY <1>2, <1>3, <1>8, <1>10, ItemsOfImports, PricesOfItems
<1>14. e.next - 1 = c.next /\ Seen(e) = Seen(c) \cup {c.next} /\ c.next \notin Seen(c)
       /\ Seen(c) \subseteq DOMAIN c.items /\ IsFiniteSet(Seen(c))
  <2>1. c.next \in Nat \ {0} /\ e.next = c.next + 1
    BY <1>10, <1>11
  <2>2. IsFiniteSet(Seen(c))
    <3>1. 1 \in Int /\ c.next - 1 \in Int
      BY <2>1
    <3> QED
      BY <3>1, FS_Interval DEF Seen
  <2> QED
    BY <1>10, <2>1, <2>2 DEF Seen
<1> DEFINE units == [i \in DOMAIN c.items |-> c.items[i].qty]
<1>15. \A i \in DOMAIN c.items : units[i] \in Nat \ {0}
  BY <1>10, ItemsOfImports
<1>16. \A t : /\ Of(c, t) \subseteq DOMAIN c.items /\ IsFiniteSet(Of(c, t))
              /\ Of(e, t) = IF t = s THEN Of(c, t) \cup {c.next} ELSE Of(c, t)
              /\ Added(c, t) = SumFunctionOnSet(units, Of(c, t))
              /\ Added(e, t) = SumFunctionOnSet(units, Of(e, t))
  <2>1. e.items = c.items
    BY <1>11
  <2>2. \A t : Of(c, t) \subseteq Seen(c)
    BY DEF Of
  <2>3. \A t : IsFiniteSet(Of(c, t))
    BY <1>14, <2>2, FS_Subset
  <2>4. \A t : Of(e, t) = IF t = s THEN Of(c, t) \cup {c.next} ELSE Of(c, t)
    BY <1>2, <1>3, <1>14, <2>1 DEF Of
  <2> QED
    BY <1>14, <2>1, <2>2, <2>3, <2>4 DEF Added
<1>17. ASSUME NEW t, t \notin DOMAIN c.done
       PROVE  Added(c, t) = 0
  <2>1. Of(c, t) = {}
    BY <1>10, <1>17 DEF Of
  <2> HIDE DEF units
  <2> QED
    BY <1>16, <2>1, SumOfNone
<1>18. before.added = Added(c, s) /\ Added(c, s) \in Nat
  <2>1. Added(c, s) \in Nat
    <3> HIDE DEF units
    <3> QED
      BY <1>15, <1>16, SumNat
  <2>2. s \in DOMAIN c.done => c.done[s].added = Added(c, s)
    BY <1>8, <1>9 DEF CallFits
  <2> QED
    BY <1>4, <1>17, <2>1, <2>2
<1>19. Added(e, s) = Added(c, s) + item.qty
  <2>1. units[c.next] = item.qty
    BY <1>2, <1>8
  <2>2. c.next \notin Of(c, s) /\ \A i \in Of(c, s) \cup {c.next} : units[i] \in Int
    <3>1. c.next \notin Of(c, s) /\ c.next \in DOMAIN c.items
      BY <1>8, <1>14 DEF Of
    <3>2. \A i \in DOMAIN c.items : units[i] \in Int
      BY <1>15
    <3> HIDE DEF units
    <3> QED
      BY <1>16, <3>1, <3>2
  <2>3. /\ Of(e, s) = Of(c, s) \cup {c.next} /\ IsFiniteSet(Of(c, s))
        /\ Added(c, s) = SumFunctionOnSet(units, Of(c, s))
        /\ Added(e, s) = SumFunctionOnSet(units, Of(e, s))
    <3> HIDE DEF units
    <3> QED
      BY <1>16
  <2> HIDE DEF units
  <2>4. SumFunctionOnSet(units, Of(c, s) \cup {c.next})
           = SumFunctionOnSet(units, Of(c, s)) + units[c.next]
    BY <2>2, <2>3, SumWith
  <2> QED
    BY <2>1, <2>3, <2>4
<1>20. before = [added |-> before.added, fresh |-> before.fresh, cost |-> before.cost]
  BY <1>4, <1>8, <1>9 DEF CallFits
<1>21. after = [added |-> Added(e, s), fresh |-> before.fresh,
                cost |-> Average(qty, before.cost, item)]
  BY <1>6, <1>18, <1>19, <1>20
<1>22. s \notin overdrawn => WithinPrices(after.cost)
  <2> SUFFICES ASSUME s \notin overdrawn
               PROVE  WithinPrices(Average(qty, before.cost, item))
    BY <1>21
  <2>1. s \in DOMAIN stock => stock[s].qty \in Nat /\ WithinPrices(stock[s].cost)
    BY DEF BookInv, RowsFit
  <2>2. qty \in Nat
    BY <1>5, <1>18, <2>1
  <2>3. WithinPrices(before.cost) \/ (qty = 0 /\ before.cost = Whole(0))
    <3>1. CASE s \in DOMAIN c.done
      BY <1>4, <1>8, <1>9, <3>1 DEF CallFits
    <3>2. CASE s \notin DOMAIN c.done /\ s \in DOMAIN stock
      BY <1>4, <2>1, <3>2
    <3>3. CASE s \notin DOMAIN c.done /\ s \notin DOMAIN stock
      BY <1>4, <1>5, <3>3
    <3> QED
      BY <3>1, <3>2, <3>3
  <2> QED
    BY <1>13, <2>2, <2>3, AverageWithin
<1>23. CallFits(e)
  <2>1. DOMAIN done = {c.items[i].sku : i \in Seen(e)}
    BY <1>2, <1>3, <1>7, <1>10, <1>14
  <2>2. ASSUME NEW t \in DOMAIN done
        PROVE  /\ done[t] = [added |-> done[t].added, fresh |-> done[t].fresh,
                             cost |-> done[t].cost]
               /\ done[t].added = Added(e, t)
               /\ t \notin overdrawn => WithinPrices(done[t].cost)
    <3>1. CASE t = s
      BY <1>7, <1>21, <1>22, <3>1
    <3>2. CASE t # s
      <4>1. t \in DOMAIN c.done /\ done[t] = c.done[t]
        BY <1>7, <3>2
      <4>2. Added(e, t) = Added(c, t)
        <5> HIDE DEF units
        <5> QED
          BY <1>16, <3>2
      <4> QED
        BY <1>8, <1>9, <4>1, <4>2 DEF CallFits
    <3> QED
      BY <3>1, <3>2
  <2>3. e.next \in 1 .. Len(e.items) + 1
    BY <1>10, <1>11
  <2> QED
    BY <1>10, <1>11, <2>1, <2>2, <2>3 DEF CallFits
<1>24. CallsFit'
  <2>1. overdrawn \subseteq overdrawn'
    BY <1>8
  <2> QED
    BY <1>12, <1>23, <2>1, CallsFitStay DEF BookInv
<1> QED
  BY <1>8, <1>24, SameTablesFit

\* The log has the units the rows were raised by.
LEMMA CommitImportBooks ==
    ASSUME Inv, BookInv, NEW w \in Workers, CommitImport(w)
    PROVE  BookInv'
<1>1. PICK c : c = call[w]
  OBVIOUS
<1>2. PICK row : row = [code |-> c.code, type |-> "MANUAL", qty |-> LogQty(c.items)]
  OBVIOUS
<1>3. /\ c.op = "import" /\ c.next > Len(c.items)
      /\ row \notin importLogs /\ importLogs' = importLogs \cup {row}
      /\ Store(Imported(c.done)) /\ call' = [call EXCEPT ![w] = NoCall]
      /\ exportLogs' = exportLogs /\ adjustLogs' = adjustLogs
  BY <1>1, <1>2 DEF CommitImport, Done, Codes
<1>4. CallFits(c)
  BY <1>1 DEF BookInv, CallsFit
<1>5. /\ c.items \in Imports /\ DOMAIN c.items = 1 .. Len(c.items) /\ Len(c.items) \in Nat
      /\ c.next - 1 = Len(c.items)
      /\ DOMAIN c.done = {c.items[i].sku : i \in Seen(c)}
  BY <1>3, <1>4, ItemsOfImports DEF CallFits
<1>6. Seen(c) = DOMAIN c.items /\ IsFiniteSet(Seen(c))
  <2>1. IsFiniteSet(1 .. Len(c.items))
    BY <1>5, FS_Interval
  <2> QED
    BY <1>5, <2>1 DEF Seen
<1>7. DOMAIN c.done \subseteq Skus
  BY <1>5, <1>6, ItemsOfImports
<1>8. ASSUME NEW s \in Skus
      PROVE  /\ row.qty[s] \in Nat
             /\ row.qty[s] = IF s \in DOMAIN c.done THEN c.done[s].added ELSE 0
  <2> DEFINE units == [i \in DOMAIN c.items |-> c.items[i].qty]
  <2>1. row.qty[s] = SumFunctionOnSet(units, Of(c, s)) /\ row.qty[s] = Added(c, s)
    BY <1>2, <1>6 DEF LogQty, Of, Added
  <2>2. \A i \in Of(c, s) : units[i] \in Nat
    BY <1>5, <1>6, ItemsOfImports DEF Of
  <2>3. IsFiniteSet(Of(c, s))
    <3>1. Of(c, s) \subseteq Seen(c)
      BY DEF Of
    <3> QED
      BY <1>6, <3>1, FS_Subset
  <2> HIDE DEF units
  <2>4. row.qty[s] \in Nat
    BY <2>1, <2>2, <2>3, SumNat
  <2>5. CASE s \in DOMAIN c.done
    BY <1>3, <1>4, <2>1, <2>4, <2>5 DEF CallFits
  <2>6. CASE s \notin DOMAIN c.done
    <3>1. Of(c, s) = {}
      BY <1>5, <2>6 DEF Of
    <3>2. SumFunctionOnSet(units, {}) = 0
      BY SumOfNone
    <3>3. row.qty[s] = 0
      BY <2>1, <3>1, <3>2
    <3> QED
      BY <2>6, <3>3
  <2> QED
    BY <2>4, <2>5, <2>6
<1> DEFINE rows == Imported(c.done)
<1>9. /\ DOMAIN rows = DOMAIN stock \cup DOMAIN c.done
      /\ \A s \in DOMAIN rows :
            rows[s] = IF s \notin DOMAIN c.done THEN stock[s]
                      ELSE [qty |-> c.done[s].added
                                      + IF s \in DOMAIN stock THEN stock[s].qty ELSE 0,
                            cost |-> c.done[s].cost]
  BY DEF Imported
<1>10. stock' = rows
  BY <1>3 DEF Store
<1> HIDE DEF rows
<1>11. \A s \in DOMAIN c.done : c.done[s].added \in Int
  BY <1>7, <1>8
<1>12. ASSUME NEW s \in DOMAIN rows
       PROVE  /\ rows[s] = [qty |-> rows[s].qty, cost |-> rows[s].cost]
              /\ rows[s].qty \in Int
              /\ s \notin overdrawn => WithinPrices(rows[s].cost)
  <2>1. CASE s \in DOMAIN c.done
    <3>1. PICK qty : qty = c.done[s].added + IF s \in DOMAIN stock THEN stock[s].qty ELSE 0
      OBVIOUS
    <3>2. qty \in Int
      BY <1>11, <2>1, <3>1 DEF BookInv, RowsFit
    <3>3. rows[s] = [qty |-> qty, cost |-> c.done[s].cost]
      BY <1>9, <2>1, <3>1
    <3>4. s \notin overdrawn => WithinPrices(c.done[s].cost)
      BY <1>3, <1>4, <2>1 DEF CallFits
    <3> QED
      BY <3>2, <3>3, <3>4
  <2>2. CASE s \notin DOMAIN c.done
    <3>1. s \in DOMAIN stock /\ rows[s] = stock[s]
      BY <1>9, <2>2
    <3> QED
      BY <3>1 DEF BookInv, RowsFit
  <2> QED
    BY <2>1, <2>2
<1>13. RowsFit' /\ overdrawn \subseteq overdrawn'
  <2>1. DOMAIN rows \subseteq Skus
    BY <1>7, <1>9 DEF BookInv, RowsFit
  <2>2. Store(rows)
    BY <1>3 DEF rows
  <2> QED
    BY <1>12, <2>1, <2>2, StoreFits
<1>14. CallsFit'
  <2>1. CallFits(NoCall)
    BY DEF CallFits, NoCall
  <2> QED
    BY <1>3, <1>13, <2>1, CallsFitStay DEF BookInv
<1>15. LogsFit'
  <2>1. \A s \in Skus : row.qty[s] \in Int
    BY <1>8
  <2> QED
    BY <1>3, <2>1 DEF BookInv, LogsFit, Exports
<1>16. Book'
  <2> SUFFICES ASSUME NEW t \in Skus, ~ Adjusted(t)
               PROVE  (QtyOf(t) = InitQty(t) + Total(importLogs, t) - Total(exportLogs, t))'
    BY <1>3 DEF Book, Adjusted
  <2>1. Total(importLogs', t) = Total(importLogs, t) + row.qty[t]
    <3>1. \A r \in importLogs \cup {row} : r.qty[t] \in Int
      BY <1>8 DEF BookInv, LogsFit
    <3> QED
      BY <1>3, <3>1, TotalWith DEF Inv, LogsFinite
  <2>2. QtyOf(t)' = QtyOf(t) + row.qty[t]
    <3>1. CASE t \in DOMAIN c.done
      <4>1. /\ t \in DOMAIN stock'
            /\ stock'[t].qty = c.done[t].added + IF t \in DOMAIN stock THEN stock[t].qty ELSE 0
        <5>1. t \in DOMAIN rows
          BY <1>9, <3>1
        <5>2. PICK qty : qty = c.done[t].added + IF t \in DOMAIN stock THEN stock[t].qty ELSE 0
          OBVIOUS
        <5>3. rows[t] = [qty |-> qty, cost |-> c.done[t].cost]
          BY <1>9, <3>1, <5>1, <5>2
        <5>4. t \in DOMAIN stock' /\ stock'[t].qty = qty
          BY <1>10, <5>1, <5>3
        <5> QED
          BY <5>2, <5>4
      <4>2. c.done[t].added \in Int /\ c.done[t].added = row.qty[t]
        BY <1>8, <1>11, <3>1
      <4>3. QtyOf(t) \in Int
        BY BookType
      <4> QED
        BY <4>1, <4>2, <4>3 DEF QtyOf
    <3>2. CASE t \notin DOMAIN c.done
      <4>1. row.qty[t] = 0 /\ QtyOf(t) \in Int
        BY <1>8, <3>2, BookType
      <4>2. QtyOf(t)' = QtyOf(t)
        BY <1>9, <1>10, <3>2 DEF QtyOf
      <4> QED
        BY <4>1, <4>2
    <3> QED
      BY <3>1, <3>2
  <2>3. row.qty[t] \in Int
    BY <1>8
  <2>4. QtyOf(t) = InitQty(t) + Total(importLogs, t) - Total(exportLogs, t)
    BY DEF BookInv, Book
  <2>5. Total(exportLogs', t) = Total(exportLogs, t) /\ InitQty(t)' = InitQty(t)
    BY <1>3 DEF InitQty
  <2>6. (Total(importLogs, t))' = Total(importLogs', t) /\ (Total(exportLogs, t))' = Total(exportLogs', t)
    BY DEF Total
  <2> QED
    BY <2>1, <2>2, <2>3, <2>4, <2>5, <2>6, BookType
<1> QED
  BY <1>13, <1>14, <1>15, <1>16 DEF BookInv

\* An adjustment ends the book of its SKUs, and changes no other quantity.
LEMMA CommitAdjustmentBooks ==
    ASSUME Inv, BookInv, NEW w \in Workers, CommitAdjustment(w)
    PROVE  BookInv'
<1>1. PICK c : c = call[w]
  OBVIOUS
<1>2. PICK row : row = [code |-> c.code, change |-> c.change]
  OBVIOUS
<1> DEFINE rows == [s \in DOMAIN stock |->
                       IF s \in DOMAIN c.change THEN [stock[s] EXCEPT !.qty = c.change[s]]
                       ELSE stock[s]]
<1>3. /\ adjustLogs' = adjustLogs \cup {row} /\ Store(rows)
      /\ call' = [call EXCEPT ![w] = NoCall]
      /\ exportLogs' = exportLogs /\ importLogs' = importLogs
  BY <1>1, <1>2 DEF CommitAdjustment, Done
<1>4. stock' = rows
  BY <1>3 DEF Store
<1>5. \A s \in DOMAIN c.change : c.change[s] \in Int
  <2>1. c.change \in Adjustments
    BY <1>1 DEF CommitAdjustment, BookInv, CallsFit, CallFits
  <2> QED
    BY <2>1, InventoryAssumption
<1>6. /\ DOMAIN rows = DOMAIN stock
      /\ \A s \in DOMAIN stock :
            rows[s] = IF s \in DOMAIN c.change THEN [qty |-> c.change[s], cost |-> stock[s].cost]
                      ELSE stock[s]
  BY DEF BookInv, RowsFit
<1> HIDE DEF rows
<1>7. RowsFit' /\ overdrawn \subseteq overdrawn'
  <2>1. \A s \in DOMAIN rows :
           /\ rows[s] = [qty |-> rows[s].qty, cost |-> rows[s].cost]
           /\ rows[s].qty \in Int
           /\ s \notin overdrawn => WithinPrices(rows[s].cost)
    BY <1>5, <1>6 DEF BookInv, RowsFit
  <2>2. DOMAIN rows \subseteq Skus
    BY <1>6 DEF BookInv, RowsFit
  <2> QED
    BY <1>3, <2>1, <2>2, StoreFits
<1>8. CallsFit'
  <2>1. CallFits(NoCall)
    BY DEF CallFits, NoCall
  <2> QED
    BY <1>3, <1>7, <2>1, CallsFitStay DEF BookInv
<1>9. LogsFit'
  BY <1>3 DEF BookInv, LogsFit, Exports
<1>10. Book'
  <2> SUFFICES ASSUME NEW t \in Skus, ~ Adjusted(t)'
               PROVE  (QtyOf(t) = InitQty(t) + Total(importLogs, t) - Total(exportLogs, t))'
    BY DEF Book
  <2>1. ~ Adjusted(t) /\ t \notin DOMAIN c.change
    BY <1>2, <1>3 DEF Adjusted
  <2>2. QtyOf(t)' = QtyOf(t)
    BY <1>4, <1>6, <2>1 DEF QtyOf
  <2>3. QtyOf(t) = InitQty(t) + Total(importLogs, t) - Total(exportLogs, t)
    BY <2>1 DEF BookInv, Book
  <2>4. /\ (Total(importLogs, t))' = Total(importLogs, t)
        /\ (Total(exportLogs, t))' = Total(exportLogs, t) /\ InitQty(t)' = InitQty(t)
    BY <1>3 DEF Total, InitQty
  <2> QED
    BY <2>2, <2>3, <2>4
<1> QED
  BY <1>7, <1>8, <1>9, <1>10 DEF BookInv

-----------------------------------------------------------------------------
(* The theorems on quantities and costs *)

LEMMA NextBooks ==
    ASSUME Inv, BookInv, [Next]_vars
    PROVE  BookInv'
<1>1. CASE OrderHandler
  BY <1>1, ShipBooks, ReturnBooks DEF OrderHandler
<1>2. ASSUME NEW w \in Workers, ImportHandler(w)
      PROVE  BookInv'
  BY <1>2, BeginBooks, ImportItemBooks, CommitImportBooks DEF ImportHandler
<1>3. ASSUME NEW w \in Workers, AdjustmentHandler(w)
      PROVE  BookInv'
  BY <1>3, BeginBooks, CommitAdjustmentBooks DEF AdjustmentHandler
<1>4. CASE UNCHANGED vars
  <2>1. CallsFit'
    <3>1. overdrawn \subseteq overdrawn' /\ call' = call
      BY <1>4 DEF vars
    <3> QED
      BY <3>1, SameCallsFit DEF BookInv
  <2> QED
    BY <1>4, <2>1, SameTablesFit DEF vars
<1> QED
  BY <1>1, <1>2, <1>3, <1>4, BeginBooks DEF Next

LEMMA AlwaysBooks == Spec => []BookInv
BY InitBooks, NextBooks, AlwaysInv, PTL DEF Spec

\* The quantity of a SKU is what the logs say, whatever handlers read while
\* others wrote, unless an adjustment has overwritten it.
THEOREM QuantityCorrect == Spec => []QuantityFollowsPaperwork
<1>1. BookInv => QuantityFollowsPaperwork
  BY DEF BookInv, RowsFit, Book, QtyOf, Adjusted, QuantityFollowsPaperwork
<1> QED
  BY <1>1, AlwaysBooks, PTL

\* A unit cost lies between the lowest and the highest price paid, as long as
\* the quantity that weights it was never below 0.
THEOREM CostCorrect == Spec => []CostWithinPrices
<1>1. BookInv => CostWithinPrices
  BY DEF BookInv, RowsFit, WithinPrices, CostWithinPrices
<1> QED
  BY <1>1, AlwaysBooks, PTL

-----------------------------------------------------------------------------
(* Days *)

LEMMA DayLengthFits == DayLength \in Nat \ {0}
BY ReportsAssumption

TimeOf(t) == t % DayLength

\* A moment lies in the day that begins at its midnight.
LEMMA DayOfMoment ==
  ASSUME NEW t \in Int
  PROVE  \E q \in Int, r \in 0 .. DayLength - 1 :
            /\ r = TimeOf(t) /\ Midnight(t) = DayLength * q
            /\ Midnight(t) \in Int /\ t = Midnight(t) + r
<1> DEFINE q == t \div DayLength
           r == t % DayLength
<1>1. ASSUME NEW n \in Nat \ {0}
      PROVE  t \div n \in Int /\ t % n \in 0 .. n - 1 /\ t = n * (t \div n) + (t % n)
  OBVIOUS
<1>2. q \in Int /\ r \in 0 .. DayLength - 1 /\ t = DayLength * q + r
  BY <1>1, DayLengthFits
<1>3. Midnight(t) = q * DayLength
  BY DEF Midnight
<1>4. r = TimeOf(t)
  BY DEF TimeOf
<1> HIDE DEF q, r
<1>5. Midnight(t) = DayLength * q /\ Midnight(t) \in Int
  BY <1>2, <1>3, DayLengthFits, Product
<1> QED
  BY <1>2, <1>4, <1>5

LEMMA MidnightOf ==
  ASSUME NEW t \in Int
  PROVE  /\ Midnight(t) \in Int /\ TimeOf(t) \in 0 .. DayLength - 1
         /\ t = Midnight(t) + TimeOf(t)
         /\ Midnight(t) <= t /\ t < Midnight(t) + DayLength
<1>1. PICK r \in 0 .. DayLength - 1 :
          r = TimeOf(t) /\ Midnight(t) \in Int /\ t = Midnight(t) + r
  BY DayOfMoment
<1>2. Midnight(t) <= t /\ t < Midnight(t) + DayLength
  BY <1>1, DayLengthFits
<1> QED
  BY <1>1, <1>2

\* Two days are a day apart at least.
LEMMA DaysApart ==
  ASSUME NEW p \in Int, NEW q \in Int, p < q
  PROVE  DayLength * p + DayLength <= DayLength * q
<1>1. DayLength * (p + 1) <= DayLength * q
  BY ProductGrows, DayLengthFits
<1>2. DayLength * (p + 1) = DayLength * p + DayLength
  BY DayLengthFits
<1> QED
  BY <1>1, <1>2

\* And in no other.
LEMMA OneMidnight ==
  ASSUME NEW t \in Int, NEW q \in Int, DayLength * q <= t, t < DayLength * q + DayLength
  PROVE  Midnight(t) = DayLength * q
<1>1. PICK p \in Int : Midnight(t) = DayLength * p
  BY DayOfMoment
<1>2. Midnight(t) \in Int /\ Midnight(t) <= t /\ t < Midnight(t) + DayLength
  BY MidnightOf
<1>3. DayLength * q \in Int
  BY DayLengthFits, Product
<1>4. ~(p < q)
  BY <1>1, <1>2, <1>3, DaysApart, DayLengthFits
<1>5. ~(q < p)
  BY <1>1, <1>2, <1>3, DaysApart, DayLengthFits
<1> QED
  BY <1>1, <1>4, <1>5

\* The midnights are in the order of their days, a day apart at least.
LEMMA MidnightsInOrder ==
  ASSUME NEW s \in Int, NEW t \in Int, s <= t
  PROVE  /\ Midnight(s) <= Midnight(t)
         /\ Midnight(s) = Midnight(t) \/ Midnight(s) + DayLength <= Midnight(t)
<1>1. PICK p \in Int, q \in Int : Midnight(s) = DayLength * p /\ Midnight(t) = DayLength * q
  BY DayOfMoment
<1>2. /\ Midnight(s) \in Int /\ Midnight(s) <= s
      /\ Midnight(t) \in Int /\ t < Midnight(t) + DayLength
  BY MidnightOf
<1>3. ~(q < p)
  <2>1. q < p => DayLength * q + DayLength <= DayLength * p
    BY DaysApart
  <2> QED
    BY <1>1, <1>2, <2>1, DayLengthFits
<1>4. p < q => Midnight(s) + DayLength <= Midnight(t)
  BY <1>1, DaysApart
<1> QED
  BY <1>1, <1>2, <1>3, <1>4, DayLengthFits

\* The difference of two moments is a number of whole days if they are at the
\* same time of day.
LEMMA WholeDays ==
  ASSUME NEW s \in Int, NEW t \in Int
  PROVE  TimeOf(t - s) = 0 <=> TimeOf(s) = TimeOf(t)
<1>1. PICK p \in Int, a \in 0 .. DayLength - 1 : a = TimeOf(s) /\ s = DayLength * p + a
  BY DayOfMoment
<1>2. PICK q \in Int, b \in 0 .. DayLength - 1 : b = TimeOf(t) /\ t = DayLength * q + b
  BY DayOfMoment
<1>3. PICK r \in Int, c \in 0 .. DayLength - 1 :
          c = TimeOf(t - s) /\ t - s = DayLength * r + c
  <2>1. t - s \in Int
    OBVIOUS
  <2> QED
    BY <2>1, DayOfMoment
<1>4. /\ DayLength * p \in Int /\ DayLength * q \in Int /\ DayLength * r \in Int
      /\ DayLength * (q - p) = DayLength * q - DayLength * p
      /\ DayLength * (p + r) = DayLength * p + DayLength * r
  BY DayLengthFits
<1>5. ASSUME c = 0 PROVE a = b
  <2>1. t = DayLength * (p + r) + a
    BY <1>1, <1>3, <1>4, <1>5
  <2>2. Midnight(t) = DayLength * (p + r)
    <3>1. /\ DayLength * (p + r) <= t /\ t < DayLength * (p + r) + DayLength
          /\ p + r \in Int
      BY <1>4, <2>1, DayLengthFits
    <3> QED
      BY <3>1, OneMidnight
  <2>3. t = Midnight(t) + b
    BY <1>2, MidnightOf
  <2> QED
    BY <1>4, <2>1, <2>2, <2>3
<1>6. ASSUME a = b PROVE c = 0
  <2>1. t - s = DayLength * (q - p) /\ t - s \in Int /\ q - p \in Int
    BY <1>1, <1>2, <1>4, <1>6
  <2>2. Midnight(t - s) = DayLength * (q - p)
    <3>1. DayLength * (q - p) <= t - s /\ t - s < DayLength * (q - p) + DayLength
      BY <1>4, <2>1, DayLengthFits
    <3> QED
      BY <2>1, <3>1, OneMidnight
  <2>3. t - s = Midnight(t - s) + c
    BY <1>3, <2>1, MidnightOf
  <2> QED
    BY <1>4, <2>1, <2>2, <2>3
<1> QED
  BY <1>1, <1>2, <1>3, <1>5, <1>6

\* A midnight is at time 0 of its day.
LEMMA MidnightIsSharp ==
  ASSUME NEW t \in Int
  PROVE  TimeOf(Midnight(t)) = 0 /\ Midnight(Midnight(t)) = Midnight(t)
<1>1. PICK q \in Int : Midnight(t) \in Int /\ Midnight(t) = DayLength * q
  BY DayOfMoment
<1>2. Midnight(Midnight(t)) = Midnight(t)
  <2>1. Midnight(t) < DayLength * q + DayLength /\ DayLength * q <= Midnight(t)
    BY <1>1, DayLengthFits
  <2> QED
    BY <1>1, <2>1, OneMidnight
<1>3. Midnight(t) = Midnight(Midnight(t)) + TimeOf(Midnight(t))
      /\ TimeOf(Midnight(t)) \in Int
  BY <1>1, MidnightOf
<1> QED
  BY <1>1, <1>2, <1>3

\* The days from one moment to another.
LEMMA DaysAre ==
  ASSUME NEW from \in Int, NEW to \in Int
  PROVE  /\ IsFiniteSet(Days(from, to))
         /\ \A v \in from .. to : TimeOf(v) = TimeOf(from) => Midnight(v) \in Days(from, to)
         /\ \A d \in Days(from, to) :
               \E v \in from .. to : TimeOf(v) = TimeOf(from) /\ d = Midnight(v)
<1> DEFINE U == {u \in from .. to : (u - from) % DayLength = 0}
           V == {u \in from .. to : TimeOf(u) = TimeOf(from)}
<1>1. U = V
  <2>1. \A u \in from .. to : TimeOf(u - from) = 0 <=> TimeOf(from) = TimeOf(u)
    BY WholeDays
  <2> QED
    BY <2>1 DEF TimeOf
<1>2. Days(from, to) = {Midnight(u) : u \in V}
  <2>1. Days(from, to) = {Midnight(u) : u \in U}
    BY DEF Days
  <2> HIDE DEF U, V
  <2> QED
    BY <1>1, <2>1
<1>3. IsFiniteSet(V)
  <2>1. IsFiniteSet(from .. to) /\ V \subseteq from .. to
    BY FS_Interval
  <2> HIDE DEF V
  <2> QED
    BY <2>1, FS_Subset
<1>4. IsFiniteSet({Midnight(u) : u \in V})
  <2> HIDE DEF V
  <2> DEFINE f == [u \in V |-> Midnight(u)]
  <2>1. {Midnight(u) : u \in V} = {f[u] : u \in V}
    OBVIOUS
  <2>2. f \in Surjection(V, {f[u] : u \in V})
    BY DEF Surjection
  <2> HIDE DEF f
  <2> QED
    BY <1>3, <2>1, <2>2, FS_Surjection
<1> QED
  BY <1>2, <1>4

\* A moment of the range is on one of its days, unless the range begins later
\* in its day than it ends, and the moment is on its last.
LEMMA DayIsListed ==
  ASSUME NEW from \in Int, NEW to \in Int, NEW t \in from .. to
  PROVE  Midnight(t) \in Days(from, to)
           <=> ~(TimeOf(from) > TimeOf(to) /\ Midnight(t) = Midnight(to))
<1> DEFINE L == DayLength
           u == Midnight(t) + TimeOf(from)
<1>1. /\ Midnight(t) \in Int /\ t = Midnight(t) + TimeOf(t) /\ TimeOf(t) \in 0 .. L - 1
      /\ Midnight(from) \in Int /\ from = Midnight(from) + TimeOf(from) /\ TimeOf(from) \in 0 .. L - 1
      /\ Midnight(to) \in Int /\ to = Midnight(to) + TimeOf(to) /\ TimeOf(to) \in 0 .. L - 1
  BY MidnightOf
<1>2. /\ Midnight(from) <= Midnight(t) /\ Midnight(t) <= Midnight(to)
      /\ Midnight(t) = Midnight(to) \/ Midnight(t) + L <= Midnight(to)
  BY MidnightsInOrder
<1>3. u \in Int /\ Midnight(u) = Midnight(t) /\ from <= u /\ TimeOf(u) = TimeOf(from)
  <2>1. u \in Int /\ from <= u
    BY <1>1, <1>2
  <2>2. Midnight(u) = Midnight(t)
    <3>1. PICK q \in Int : Midnight(t) = L * q
      BY DayOfMoment
    <3>2. L * q <= u /\ u < L * q + L
      BY <1>1, <3>1, DayLengthFits
    <3> QED
      BY <2>1, <3>1, <3>2, OneMidnight
  <2>3. u = Midnight(u) + TimeOf(u) /\ TimeOf(u) \in Int
    BY <2>1, MidnightOf
  <2> QED
    BY <1>1, <2>1, <2>2, <2>3
<1>4. u <= to <=> ~(TimeOf(from) > TimeOf(to) /\ Midnight(t) = Midnight(to))
  BY <1>1, <1>2, DayLengthFits
<1>5. ASSUME u <= to PROVE Midnight(t) \in Days(from, to)
  <2>1. u \in from .. to
    BY <1>3, <1>5
  <2> HIDE DEF u
  <2> QED
    BY <1>3, <2>1, DaysAre
<1>6. ASSUME Midnight(t) \in Days(from, to) PROVE u <= to
  <2>1. PICK v \in from .. to : TimeOf(v) = TimeOf(from) /\ Midnight(v) = Midnight(t)
    BY <1>6, DaysAre
  <2>2. v = Midnight(v) + TimeOf(v)
    BY MidnightOf
  <2> QED
    BY <2>1, <2>2
<1> QED
  BY <1>4, <1>5, <1>6

\* Nothing before the range is on one of its days if it begins at midnight.
LEMMA DayIsNotListed ==
  ASSUME NEW from \in Int, NEW to \in Int, TimeOf(from) = 0, NEW t \in Int, t < from
  PROVE  Midnight(t) \notin Days(from, to)
<1> SUFFICES ASSUME Midnight(t) \in Days(from, to) PROVE FALSE
  OBVIOUS
<1>1. PICK v \in from .. to : TimeOf(v) = 0 /\ Midnight(v) = Midnight(t)
  BY DaysAre
<1>2. v = Midnight(v) + TimeOf(v) /\ Midnight(t) <= t /\ Midnight(t) \in Int
  BY MidnightOf
<1> QED
  BY <1>1, <1>2

-----------------------------------------------------------------------------
(* The orders of the shop *)

Rows == [status : Statuses \cup {"NONE"}, created : Int, completed : Int, sent : Int,
         confirmed : BOOLEAN]

\* An order was placed in the past; it has the date of completion that came
\* with it, or none came, and it was completed after it was placed.
OrderFits(r, moment) ==
    /\ r \in Rows
    /\ r.status = "NONE" => r = NotPlaced
    /\ r.status # "NONE" => r.created \in Nat /\ r.created <= moment
    /\ r.completed # r.sent => r.sent = Never /\ r.created <= r.completed
    /\ r.status = "DELIVERED" => r.completed # Never

ShopTyped ==
    /\ now \in Clock
    /\ DOMAIN orders = Orders /\ orders = [o \in Orders |-> orders[o]]
    /\ \A o \in Orders : OrderFits(orders[o], now)
    /\ categoryOf \in [Products -> categories]

LEMMA ReportInitFits == ReportInit => ShopTyped
<1> SUFFICES ASSUME ReportInit PROVE ShopTyped
  OBVIOUS
<1>1. now \in Clock
  <2>1. PICK m \in Clock : \A n \in Clock : m <= n
    BY LeastNumber, ReportsAssumption
  <2>2. now = CHOOSE x \in Clock : \A y \in Clock : x <= y
    BY DEF ReportInit, Min
  <2> QED
    BY <2>1, <2>2
<1>2. OrderFits(NotPlaced, now)
  BY DEF OrderFits, Rows, NotPlaced, Never
<1> QED
  BY <1>1, <1>2 DEF ReportInit, ShopTyped

LEMMA PlaceFits ==
  ASSUME ShopTyped, NEW o \in Orders, NEW sent \in Dates \cup {Never}, Place(o, sent)
  PROVE  ShopTyped'
<1> DEFINE r == [status |-> "PENDING", created |-> now, completed |-> sent,
                 sent |-> sent, confirmed |-> FALSE]
<1>1. OrderFits(r, now)
  <2>1. now \in Nat /\ sent \in Int
    BY ReportsAssumption DEF ShopTyped, Never
  <2> QED
    BY <2>1 DEF OrderFits, Rows, Statuses, Pending
<1>2. orders' = [orders EXCEPT ![o] = r] /\ UNCHANGED <<now, categoryOf, categories>>
  BY DEF Place
<1> HIDE DEF r
<1> QED
  BY <1>1, <1>2 DEF ShopTyped

\* What handlers may write into an order leaves a row of the kind above.
LEMMA RowAdvances ==
  ASSUME ShopTyped, NEW o \in Orders, NEW status \in Statuses, NEW read,
         Advance(o, status, read)
  PROVE  /\ orders' = [orders EXCEPT ![o] = orders'[o]]
         /\ orders'[o].status = status
         /\ OrderFits(orders'[o], now)
<1>1. PICK r : r = orders[o] /\ OrderFits(r, now)
  BY DEF ShopTyped
<1>2. PICK e : e = [r EXCEPT !.status = status,
                       !.confirmed = @ \/ status = "PROCESSING",
                       !.completed = IF status = "DELIVERED" /\ read = Never THEN now ELSE @]
  OBVIOUS
<1>3. orders' = [orders EXCEPT ![o] = e] /\ orders'[o] = e
  BY <1>1, <1>2 DEF Advance, ShopTyped
<1>4. r # NotPlaced /\ r.status # "NONE" /\ status # "NONE"
  BY <1>1 DEF Advance, OrderFits, Statuses, Ended, Pending
<1>5. read = r.sent \/ read = r.completed
  BY <1>1 DEF Advance
<1>6. r \in Rows
  BY <1>1 DEF OrderFits
<1>7. now \in Nat /\ Never = -1
  BY ReportsAssumption DEF ShopTyped, Never
<1>8. /\ e.status = status /\ e.created = r.created /\ e.sent = r.sent
      /\ e.completed = IF status = "DELIVERED" /\ read = Never THEN now ELSE r.completed
  BY <1>2, <1>6 DEF Rows
<1>9. e \in Rows
  <2>1. (r.confirmed \/ status = "PROCESSING") \in BOOLEAN
    OBVIOUS
  <2>2. PICK c : c = (r.confirmed \/ status = "PROCESSING") /\ c \in BOOLEAN
    BY <2>1, Zenon
  <2>3. PICK t \in Int : t = IF status = "DELIVERED" /\ read = Never THEN now ELSE r.completed
    BY <1>6, <1>7 DEF Rows
  <2>4. e = [r EXCEPT !.status = status, !.confirmed = c, !.completed = t]
    BY <1>2, <2>2, <2>3, Zenon
  <2> QED
    BY <1>6, <2>2, <2>3, <2>4 DEF Rows
<1>10. e.completed # e.sent => e.sent = Never /\ e.created <= e.completed
  BY <1>1, <1>4, <1>5, <1>7, <1>8 DEF OrderFits
<1>11. status = "DELIVERED" => e.completed # Never
  BY <1>1, <1>5, <1>7, <1>8 DEF OrderFits
<1>12. OrderFits(e, now)
  BY <1>1, <1>4, <1>8, <1>9, <1>10, <1>11 DEF OrderFits
<1> QED
  BY <1>3, <1>8, <1>12

LEMMA AdvanceFits ==
  ASSUME ShopTyped, NEW o \in Orders, NEW status \in Statuses, NEW read,
         Advance(o, status, read)
  PROVE  ShopTyped'
<1>1. PICK e : orders' = [orders EXCEPT ![o] = e] /\ OrderFits(e, now)
  BY RowAdvances
<1> QED
  BY <1>1 DEF ShopTyped, Advance

LEMMA OthersFit ==
  ASSUME ShopTyped,
         \/ Tick
         \/ \E p \in Products, c \in Categories : MoveProduct(p, c)
         \/ \E c \in Categories : DeleteCategory(c)
         \/ UNCHANGED <<now, tables>>
  PROVE  ShopTyped'
<1>1. CASE Tick
  <2>1. now \in Nat /\ now' = now + 1 /\ now' \in Clock
    BY <1>1, ReportsAssumption DEF Tick, ShopTyped
  <2>2. \A r : OrderFits(r, now) => OrderFits(r, now')
    BY <2>1 DEF OrderFits
  <2>3. UNCHANGED <<orders, categoryOf, categories>>
    BY <1>1 DEF Tick, tables
  <2> QED
    BY <2>1, <2>2, <2>3 DEF ShopTyped
<1>2. ASSUME NEW p \in Products, NEW c \in Categories, MoveProduct(p, c)
      PROVE  ShopTyped'
  BY <1>2 DEF MoveProduct, ShopTyped
<1>3. ASSUME NEW c \in Categories, DeleteCategory(c)
      PROVE  ShopTyped'
  BY <1>3 DEF DeleteCategory, ShopTyped
<1>4. CASE UNCHANGED <<now, tables>>
  BY <1>4 DEF ShopTyped, tables
<1> QED
  BY <1>1, <1>2, <1>3, <1>4

\* Asking, running a statement and responding leave the tables alone.
LEMMA ReportStepsFit ==
  ASSUME ShopTyped, Asked \/ (\E q \in DOMAIN After : Run(q)) \/ Respond
  PROVE  UNCHANGED <<now, tables>>
BY DEF Asked, AskOrderStats, AskSummary, AskPurchases, AskCategories, Ask, Run, Respond

LEMMA ReportNextFits ==
  ASSUME ShopTyped, [ReportNext]_reportVars
  PROVE  ShopTyped'
<1>1. CASE UNCHANGED reportVars
  BY <1>1, OthersFit DEF reportVars
<1> QED
  BY <1>1, ReportStepsFit, PlaceFits, AdvanceFits, OthersFit DEF ReportNext

LEMMA ShopAlwaysTyped == ReportSpec => []ShopTyped
BY ReportInitFits, ReportNextFits, PTL DEF ReportSpec

-----------------------------------------------------------------------------
(* The figures by day *)

\* The orders that are in the figures by day.
OnItsDays(from, to) == {o \in Completed(from, to) : DayOf(o) \in Days(from, to)}

LEMMA FiguresAreNumbers ==
  /\ \A o \in Orders : Revenue[o] \in Nat /\ Profit[o] \in Int /\ One[o] = 1
<1>1. ASSUME NEW o \in Orders
      PROVE  Sale[o].total \in Nat /\ Sale[o].qty \in Nat /\ Sale[o].cost \in Nat
  BY ReportsAssumption
<1>2. ASSUME NEW o \in Orders
      PROVE  Sale[o].cost * Sale[o].qty \in Int
  BY <1>1, Product
<1> QED
  BY <1>1, <1>2 DEF Revenue, Profit, One

LEMMA OfOrders ==
  ASSUME NEW S \in SUBSET Orders
  PROVE  IsFiniteSet(S)
BY ReportsAssumption, FS_Subset

LEMMA CompletedIn ==
  ASSUME ShopTyped, NEW from \in Int, NEW to \in Int
  PROVE  /\ Completed(from, to) \in SUBSET Orders
         /\ \A o \in Completed(from, to) :
               /\ orders[o].completed \in from .. to
               /\ orders[o].created \in Nat
               /\ orders[o].sent = Never => orders[o].created <= orders[o].completed
<1>1. Completed(from, to) \in SUBSET Orders
  BY DEF Completed, In
<1>2. ASSUME NEW o \in Completed(from, to)
      PROVE  /\ orders[o].completed \in from .. to
             /\ orders[o].created \in Nat
             /\ orders[o].sent = Never => orders[o].created <= orders[o].completed
  <2>1. /\ o \in Orders /\ orders[o].status = "DELIVERED"
        /\ from <= orders[o].completed /\ orders[o].completed <= to
    BY DEF Completed, In, Between
  <2> QED
    BY <2>1 DEF ShopTyped, OrderFits, Rows
<1> QED
  BY <1>1, <1>2

\* The figures by day add up to those of the orders on these days.
LEMMA DaysTotal ==
  ASSUME ShopTyped, NEW from \in Int, NEW to \in Int,
         NEW figure, \A o \in Orders : figure[o] \in Int
  PROVE  DayTotal(figure, from, to) = Sum(figure, OnItsDays(from, to))
<1> DEFINE S == Completed(from, to)
           D == Days(from, to)
           g == [o \in Orders |-> DayOf(o)]
<1>1. S \in SUBSET Orders /\ IsFiniteSet(S) /\ IsFiniteSet(D)
  BY CompletedIn, OfOrders, DaysAre
<1>2. \A o \in S : g[o] = DayOf(o)
  BY <1>1
<1>3. DayTotal(figure, from, to)
        = SumFunctionOnSet([d \in D |-> SumFunctionOnSet(figure, {o \in S : DayOf(o) = d})], D)
  BY DEF DayTotal, ByDay, Sum
<1>4. OnItsDays(from, to) = {o \in S : g[o] \in D}
  BY <1>2 DEF OnItsDays
<1> HIDE DEF S, D, g
<1>5. \A d : {o \in S : DayOf(o) = d} = {o \in S : g[o] = d}
  BY <1>2
<1>6. \A o \in S : figure[o] \in Int
  BY <1>1
<1>7. SumFunctionOnSet([d \in D |-> SumFunctionOnSet(figure, {o \in S : g[o] = d})], D)
        = SumFunctionOnSet(figure, {o \in S : g[o] \in D})
  BY <1>1, <1>6, SumOfGroups
<1> QED
  BY <1>3, <1>4, <1>5, <1>7 DEF Sum

\* Without and with the last day, if that is not listed.
Lost(from, to) ==
    {o \in Completed(from, to) : TimeOf(from) > TimeOf(to) /\ DayOf(o) = Midnight(to)}

LEMMA OnDaysOrLost ==
  ASSUME ShopTyped, NEW from \in Int, NEW to \in Int
  PROVE  /\ OnItsDays(from, to) \cup Lost(from, to) = Completed(from, to)
         /\ OnItsDays(from, to) \cap Lost(from, to) = {}
<1>1. ASSUME NEW o \in Completed(from, to)
      PROVE  DayOf(o) \in Days(from, to) <=> o \notin Lost(from, to)
  <2>1. PICK t \in from .. to : t = orders[o].completed
    BY CompletedIn
  <2>2. Midnight(t) \in Days(from, to)
           <=> ~(TimeOf(from) > TimeOf(to) /\ Midnight(t) = Midnight(to))
    BY DayIsListed
  <2> QED
    BY <2>1, <2>2 DEF Lost, DayOf
<1> QED
  BY <1>1 DEF OnItsDays, Lost

LEMMA DaysAndLost ==
  ASSUME ShopTyped, NEW from \in Int, NEW to \in Int,
         NEW figure, \A o \in Orders : figure[o] \in Int
  PROVE  DayTotal(figure, from, to) + Sum(figure, Lost(from, to))
            = Sum(figure, Completed(from, to))
<1>1. /\ OnItsDays(from, to) \in SUBSET Orders
      /\ Lost(from, to) \in SUBSET Orders
  BY CompletedIn DEF OnItsDays, Lost
<1>2. /\ IsFiniteSet(OnItsDays(from, to)) /\ IsFiniteSet(Lost(from, to))
      /\ \A o \in OnItsDays(from, to) \cup Lost(from, to) : figure[o] \in Int
  BY <1>1, OfOrders
<1>3. Sum(figure, OnItsDays(from, to) \cup Lost(from, to))
        = Sum(figure, OnItsDays(from, to)) + Sum(figure, Lost(from, to))
  BY <1>2, OnDaysOrLost, SumOfBoth DEF Sum
<1> QED
  BY <1>3, OnDaysOrLost, DaysTotal

\* The figures by day add up to the figures of the whole range, or all but the
\* range's last day, for any orders, range and length of a day.
THEOREM DaysCorrect == ReportSpec => []DaysAddUp
<1>1. ASSUME ShopTyped PROVE DaysAddUp
  <2> SUFFICES ASSUME NEW from \in Clock, NEW to \in Clock
               PROVE  /\ DayTotal(Revenue, from, to) + Sum(Revenue, Lost(from, to))
                            = RevenueStats(from, to)
                      /\ DayTotal(Profit, from, to) + Sum(Profit, Lost(from, to))
                            = ProfitStats(from, to)
    BY DEF DaysAddUp, Lost, TimeOf
  <2>1. from \in Int /\ to \in Int
    BY ReportsAssumption
  <2>2. (\A o \in Orders : Revenue[o] \in Int) /\ (\A o \in Orders : Profit[o] \in Int)
    BY FiguresAreNumbers
  <2> QED
    BY <1>1, <2>1, <2>2, DaysAndLost DEF RevenueStats, ProfitStats
<1> QED
  BY <1>1, ShopAlwaysTyped, PTL

LEMMA SoldIn ==
  ASSUME ShopTyped, NEW from \in Int, NEW to \in Int
  PROVE  \A o \in SoldItems(from, to) :
            /\ o \in Orders
            /\ orders[o].created \in from .. to
            /\ orders[o].completed \in Int
            /\ orders[o].sent = Never => orders[o].created <= orders[o].completed
            /\ orders[o].status = "DELIVERED"
<1> SUFFICES ASSUME NEW o \in SoldItems(from, to)
             PROVE  /\ o \in Orders
                    /\ orders[o].created \in from .. to
                    /\ orders[o].completed \in Int
                    /\ orders[o].sent = Never => orders[o].created <= orders[o].completed
                    /\ orders[o].status = "DELIVERED"
  OBVIOUS
<1>1. /\ o \in Orders /\ orders[o].status = "DELIVERED"
      /\ from <= orders[o].created /\ orders[o].created <= to
  BY DEF SoldItems, In, Between
<1> QED
  BY <1>1 DEF ShopTyped, OrderFits, Rows

\* The completed orders that were placed on a day before the range or after it
PlacedBefore(from, to) == {o \in Completed(from, to) : orders[o].created < from}
PlacedAfter(from, to) == {o \in Completed(from, to) : DayPlaced(o) > Midnight(to)}
PlacedOnDays(from, to) == {o \in Completed(from, to) : DayPlaced(o) \in Days(from, to)}

LEMMA ByDayPlaced ==
  ASSUME ShopTyped, NEW from \in Int, NEW to \in Int, TimeOf(from) = 0, from <= to,
         NEW o \in Completed(from, to)
  PROVE  /\ o \in PlacedOnDays(from, to)
               <=> o \notin PlacedBefore(from, to) \cup PlacedAfter(from, to)
         /\ ~(o \in PlacedBefore(from, to) /\ o \in PlacedAfter(from, to))
<1>1. PICK t \in Int : t = orders[o].created
  BY CompletedIn
<1>2. /\ DayPlaced(o) = Midnight(t) /\ Midnight(t) \in Int
      /\ Midnight(to) \in Int
      /\ ~(TimeOf(from) > TimeOf(to))
  <2>1. DayPlaced(o) = Midnight(t)
    BY <1>1 DEF DayPlaced
  <2>2. Midnight(t) \in Int /\ Midnight(to) \in Int
    BY MidnightOf
  <2>3. PICK m : m = TimeOf(to) /\ m \in 0 .. DayLength - 1
    BY MidnightOf
  <2> QED
    BY <2>1, <2>2, <2>3
<1>3. CASE t < from
  <2>1. Midnight(t) \notin Days(from, to)
    BY <1>3, DayIsNotListed
  <2>2. Midnight(t) <= Midnight(to)
    BY <1>3, MidnightsInOrder
  <2> QED
    BY <1>1, <1>2, <1>3, <2>1, <2>2 DEF PlacedOnDays, PlacedBefore, PlacedAfter
<1>4. CASE from <= t /\ t <= to
  <2>1. Midnight(t) \in Days(from, to)
    BY <1>2, <1>4, DayIsListed
  <2>2. Midnight(t) <= Midnight(to)
    BY <1>4, MidnightsInOrder
  <2> QED
    BY <1>1, <1>2, <1>4, <2>1, <2>2 DEF PlacedOnDays, PlacedBefore, PlacedAfter
<1>5. CASE to < t
  <2>1. Midnight(to) <= Midnight(t)
    BY <1>5, MidnightsInOrder
  <2>2. Midnight(t) \in Days(from, to) <=> Midnight(t) = Midnight(to)
    <3>1. Midnight(to) \in Days(from, to)
      BY <1>2, DayIsListed
    <3>2. ASSUME NEW d \in Days(from, to) PROVE d <= Midnight(to)
      <4>1. PICK v \in from .. to : d = Midnight(v)
        BY DaysAre
      <4> QED
        BY <4>1, MidnightsInOrder
    <3> QED
      BY <1>2, <2>1, <3>1, <3>2
  <2> QED
    BY <1>1, <1>2, <1>5, <2>1, <2>2 DEF PlacedOnDays, PlacedBefore, PlacedAfter
<1> QED
  BY <1>1, <1>3, <1>4, <1>5

\* The daily figures are those of the orders completed in the range and placed
\* on one of its days.
LEMMA DailyTotal ==
  ASSUME ShopTyped, NEW from \in Int, NEW to \in Int
  PROVE  Sum(DailyStats(from, to), Days(from, to)) = Sum(Revenue, PlacedOnDays(from, to))
<1> DEFINE S == Completed(from, to)
           D == Days(from, to)
           g == [o \in Orders |-> DayPlaced(o)]
<1>1. S \in SUBSET Orders /\ IsFiniteSet(S) /\ IsFiniteSet(D)
  BY CompletedIn, OfOrders, DaysAre
<1>2. \A o \in S : g[o] = DayPlaced(o)
  BY <1>1
<1>3. Sum(DailyStats(from, to), D)
        = SumFunctionOnSet([d \in D |-> SumFunctionOnSet(Revenue, {o \in S : DayPlaced(o) = d})], D)
  BY DEF DailyStats, Sum
<1>4. PlacedOnDays(from, to) = {o \in S : g[o] \in D}
  BY <1>2 DEF PlacedOnDays
<1> HIDE DEF S, D, g
<1>5. \A d : {o \in S : DayPlaced(o) = d} = {o \in S : g[o] = d}
  BY <1>2
<1>6. \A o \in S : Revenue[o] \in Int
  BY <1>1, FiguresAreNumbers
<1>7. SumFunctionOnSet([d \in D |-> SumFunctionOnSet(Revenue, {o \in S : g[o] = d})], D)
        = SumFunctionOnSet(Revenue, {o \in S : g[o] \in D})
  BY <1>1, <1>6, SumOfGroups
<1> QED
  BY <1>3, <1>4, <1>5, <1>7 DEF Sum, D

LEMMA DailyAndOthers ==
  ASSUME ShopTyped, NEW from \in Int, NEW to \in Int, TimeOf(from) = 0, from <= to
  PROVE  Sum(DailyStats(from, to), Days(from, to)) + Sum(Revenue, PlacedBefore(from, to))
            + Sum(Revenue, PlacedAfter(from, to)) = RevenueStats(from, to)
<1>1. PICK S, A, B, C :
          /\ S = Completed(from, to) /\ A = PlacedOnDays(from, to)
          /\ B = PlacedBefore(from, to) /\ C = PlacedAfter(from, to)
  OBVIOUS
<1>2. S \in SUBSET Orders /\ A \in SUBSET S /\ B \in SUBSET S /\ C \in SUBSET S
  BY <1>1, CompletedIn DEF PlacedOnDays, PlacedBefore, PlacedAfter
<1>3. S = (A \cup B) \cup C /\ A \cap B = {} /\ (A \cup B) \cap C = {}
  <2>1. \A o \in S : (o \in A <=> o \notin B \cup C) /\ ~(o \in B /\ o \in C)
    BY <1>1, ByDayPlaced
  <2> QED
    BY <1>2, <2>1
<1>4. /\ IsFiniteSet(A) /\ IsFiniteSet(B) /\ IsFiniteSet(C) /\ IsFiniteSet(A \cup B)
      /\ \A o \in S : Revenue[o] \in Int
  <2>1. A \in SUBSET Orders /\ B \in SUBSET Orders /\ C \in SUBSET Orders
        /\ A \cup B \in SUBSET Orders
    BY <1>2
  <2> QED
    BY <1>2, <2>1, OfOrders, FiguresAreNumbers
<1>5. Sum(Revenue, A \cup B) = Sum(Revenue, A) + Sum(Revenue, B)
  BY <1>2, <1>3, <1>4, SumOfBoth DEF Sum
<1>6. Sum(Revenue, S) = Sum(Revenue, A \cup B) + Sum(Revenue, C)
  BY <1>2, <1>3, <1>4, SumOfBoth DEF Sum
<1>7. Sum(DailyStats(from, to), Days(from, to)) = Sum(Revenue, A)
  BY <1>1, DailyTotal
<1> QED
  BY <1>1, <1>5, <1>6, <1>7 DEF RevenueStats

\* Whatever dates clients send, for any orders, range and length of a day: an
\* order whose completion the shop dated counts among the sold items of a range
\* but not in its revenue only if it was completed after it, and the other way
\* round only if it was placed before it; and the daily figures add up to the
\* range's revenue without the orders placed on a day outside it.
THEOREM EndsCorrect == ReportSpec => []RangesDifferAtTheirEnds
<1>1. ASSUME ShopTyped PROVE RangesDifferAtTheirEnds
  <2> SUFFICES ASSUME NEW from \in Clock, NEW to \in Clock, from % DayLength = 0
               PROVE  /\ \A o \in SoldItems(from, to) \ Completed(from, to) :
                            orders[o].sent = Never => orders[o].completed > to
                      /\ \A o \in Completed(from, to) \ SoldItems(from, to) :
                            orders[o].sent = Never => o \in PlacedBefore(from, to)
                      /\ from <= to =>
                            Sum(DailyStats(from, to), Days(from, to))
                              + Sum(Revenue, PlacedBefore(from, to))
                              + Sum(Revenue, PlacedAfter(from, to)) = RevenueStats(from, to)
    BY DEF RangesDifferAtTheirEnds, PlacedBefore, PlacedAfter, DayPlaced
  <2>1. from \in Int /\ to \in Int
    BY ReportsAssumption
  <2>2. ASSUME NEW o \in SoldItems(from, to) \ Completed(from, to), orders[o].sent = Never
        PROVE  orders[o].completed > to
    <3>1. /\ o \in Orders /\ orders[o].created \in from .. to /\ orders[o].completed \in Int
          /\ orders[o].created <= orders[o].completed
          /\ orders[o].status = "DELIVERED"
      BY <1>1, <2>1, <2>2, SoldIn
    <3>2. ~(from <= orders[o].completed /\ orders[o].completed <= to)
      BY <3>1 DEF Completed, In, Between
    <3> QED
      BY <2>1, <3>1, <3>2
  <2>3. ASSUME NEW o \in Completed(from, to) \ SoldItems(from, to), orders[o].sent = Never
        PROVE  o \in PlacedBefore(from, to)
    <3>1. /\ orders[o].created \in Nat /\ orders[o].completed \in from .. to
          /\ orders[o].created <= orders[o].completed
      BY <1>1, <2>1, <2>3, CompletedIn
    <3>2. ~(from <= orders[o].created /\ orders[o].created <= to)
      BY DEF Completed, SoldItems, Between
    <3> QED
      BY <2>1, <3>1, <3>2 DEF PlacedBefore
  <2>4. ASSUME from <= to
        PROVE  Sum(DailyStats(from, to), Days(from, to))
                 + Sum(Revenue, PlacedBefore(from, to))
                 + Sum(Revenue, PlacedAfter(from, to)) = RevenueStats(from, to)
    BY <1>1, <2>1, <2>4, DailyAndOthers DEF TimeOf
  <2> QED
    BY <2>2, <2>3, <2>4
<1> QED
  BY <1>1, ShopAlwaysTyped, PTL

-----------------------------------------------------------------------------
(* What a report under way has counted *)

\* The statements that add up or count orders, and what they add up.
Figures == {"days", "count", "delivered", "pending", "canceled", "canceledMonth",
            "deliveredMonth", "deliveredLast", "current", "previous", "month",
            "total", "page", "all"}
FigureOf(q) == IF q \in {"current", "previous", "month", "total"} THEN Revenue ELSE One
Amount(q, result) == IF q = "total" THEN result.revenue ELSE result

DeliveredIn(range, r) ==
    r.status = "DELIVERED" /\ Between(r.completed, range.from, range.to)
DeliveredOnDays(range, r) ==
    DeliveredIn(range, r) /\ Midnight(r.completed) \in Days(range.from, range.to)

\* Whether figure q counts an order with row r
IsCounted(q, args, r) ==
    CASE q = "days" -> DeliveredOnDays(args, r)
      [] q = "count" -> DeliveredIn(args, r)
      [] q = "delivered" -> r.status = "DELIVERED"
      [] q = "pending" -> r.status \in Pending
      [] q = "canceled" -> r.status \in Ended
      [] q = "canceledMonth" ->
             r.status \in Ended /\ Between(r.created, args.this.from, args.this.to)
      [] q = "deliveredMonth" -> DeliveredIn(args.this, r)
      [] q = "deliveredLast" -> DeliveredIn(args.last, r)
      [] q = "current" -> DeliveredOnDays(args.this, r)
      [] q = "previous" -> DeliveredOnDays(args.last, r)
      [] q = "month" -> DeliveredIn(args.this, r)
      [] q = "total" -> r.status = "DELIVERED"
      [] q = "page" -> r.status # "NONE" /\ (args.type # "OTHER" => UIStatus(r.status) = args.type)
      [] q = "all" -> r.status # "NONE"

\* A result is the sum over some orders, those that the figure still counts if
\* they have not changed since.
FigureFits(q, args, changed, result) ==
    \E S \in SUBSET Orders :
        /\ Amount(q, result) = Sum(FigureOf(q), S)
        /\ \A o \in Orders \ changed : o \in S <=> IsCounted(q, args, orders[o])

UIStatuses == {UIStatus(t) : t \in Statuses}

\* Likewise the counts by status
LightFits(changed, result) ==
    \E g \in [Orders -> UIStatuses \cup {"NONE"}] :
        /\ result = [u \in UIStatuses |-> Cardinality({o \in Orders : g[o] = u})]
        /\ \A o \in Orders \ changed : g[o] = UIStatus(orders[o].status)

\* The statements of the ranking of categories follow each other.
RankingFits(got, moved) ==
    /\ "items" \in DOMAIN got => got["items"] \in SUBSET Orders
    /\ "products" \in DOMAIN got =>
          /\ "items" \in DOMAIN got
          /\ DOMAIN got["products"] = {Sale[o].product : o \in got["items"]}
          /\ \A o \in got["items"] :
                Sale[o].product \in moved
                  \/ got["products"][Sale[o].product] = categoryOf[Sale[o].product]
    /\ "names" \in DOMAIN got =>
          /\ "products" \in DOMAIN got
          /\ \A o \in got["items"] :
                Sale[o].product \in moved
                  \/ got["products"][Sale[o].product] \in got["names"]

RangeTyped(range) == range.from \in Int /\ range.to \in Int
MonthTyped(range) == RangeTyped(range) /\ TimeOf(range.from) = 0 /\ TimeOf(range.to) = 0

ArgsFit(kind, args) ==
    CASE kind = "orderStats" -> RangeTyped(args)
      [] kind \in {"orderSummary", "revenueSummary"} ->
             /\ MonthTyped(args.this) /\ MonthTyped(args.last)
             /\ args.last.to <= args.this.from
      [] kind = "purchases" -> args.type \in UIStatuses \cup {"OTHER"}
      [] kind = "bestCategories" -> TRUE

AnswerFits(kind, args, got, changed, moved) ==
    /\ kind \in DOMAIN Statements
    /\ ArgsFit(kind, args)
    /\ changed \in SUBSET In(Statuses)
    /\ DOMAIN got \subseteq Statements[kind]
    /\ \A q \in DOMAIN got : q \in Figures => FigureFits(q, args, changed, got[q])
    /\ "light" \in DOMAIN got => LightFits(changed, got["light"])
    /\ kind = "bestCategories" => RankingFits(got, moved)

ReportFits ==
    report # NoReport =>
        \E kind, args, got, changed, moved :
            /\ report = [kind |-> kind, args |-> args, got |-> got,
                         changed |-> changed, moved |-> moved]
            /\ AnswerFits(kind, args, got, changed, moved)

ReportInv == ShopTyped /\ ReportFits

-----------------------------------------------------------------------------
(* Reports and the changes meanwhile *)

\* Figures outlive a change of an order.
LEMMA FigureStays ==
  ASSUME NEW o \in Orders, NEW q, NEW args, NEW changed, NEW result,
         FigureFits(q, args, changed, result),
         \A p \in Orders \ {o} : orders'[p] = orders[p]
  PROVE  FigureFits(q, args, changed \cup {o}, result)'
<1>1. PICK S \in SUBSET Orders :
          /\ Amount(q, result) = Sum(FigureOf(q), S)
          /\ \A p \in Orders \ changed : p \in S <=> IsCounted(q, args, orders[p])
  BY DEF FigureFits
<1>2. \A p \in Orders \ (changed \cup {o}) : p \in S <=> IsCounted(q, args, orders'[p])
  BY <1>1
<1>3. Amount(q, result) = Sum(FigureOf(q), S)
  BY <1>1
<1> QED
  BY <1>2, <1>3 DEF FigureFits

LEMMA LightStays ==
  ASSUME NEW o \in Orders, NEW changed, NEW result, LightFits(changed, result),
         \A p \in Orders \ {o} : orders'[p] = orders[p]
  PROVE  LightFits(changed \cup {o}, result)'
BY DEF LightFits

LEMMA AnswerStays ==
  ASSUME NEW o \in Orders, NEW kind, NEW args, NEW got, NEW changed, NEW moved,
         AnswerFits(kind, args, got, changed, moved),
         \A p \in Orders \ {o} : orders'[p] = orders[p],
         orders'[o].status \in Statuses,
         UNCHANGED categoryOf
  PROVE  AnswerFits(kind, args, got, changed \cup {o}, moved)'
<1>1. \A q \in DOMAIN got : q \in Figures => FigureFits(q, args, changed \cup {o}, got[q])'
  BY FigureStays DEF AnswerFits
<1>2. "light" \in DOMAIN got => LightFits(changed \cup {o}, got["light"])'
  BY LightStays DEF AnswerFits
<1>3. kind = "bestCategories" => RankingFits(got, moved)'
  BY DEF AnswerFits, RankingFits
<1>4. changed \cup {o} \in SUBSET In(Statuses)'
  BY DEF AnswerFits, In
<1> QED
  BY <1>1, <1>2, <1>3, <1>4 DEF AnswerFits

LEMMA TouchKeeps ==
  ASSUME ReportFits, NEW o \in Orders, Touch(o),
         \A p \in Orders \ {o} : orders'[p] = orders[p],
         orders'[o].status \in Statuses,
         UNCHANGED categoryOf
  PROVE  ReportFits'
<1>1. CASE report = NoReport
  BY <1>1 DEF Touch, ReportFits
<1>2. CASE report # NoReport
  <2>1. PICK kind, args, got, changed, moved :
            /\ report = [kind |-> kind, args |-> args, got |-> got,
                         changed |-> changed, moved |-> moved]
            /\ AnswerFits(kind, args, got, changed, moved)
    BY <1>2 DEF ReportFits
  <2>2. report' = [kind |-> kind, args |-> args, got |-> got,
                   changed |-> changed \cup {o}, moved |-> moved]
    BY <1>2, <2>1 DEF Touch
  <2>3. AnswerFits(kind, args, got, changed \cup {o}, moved)'
    BY <2>1, AnswerStays
  <2> QED
    BY <2>2, <2>3 DEF ReportFits
<1> QED
  BY <1>1, <1>2

LEMMA PlaceReports ==
  ASSUME ReportInv, NEW o \in Orders, NEW sent \in Dates \cup {Never}, Place(o, sent)
  PROVE  ReportFits'
<1>1. /\ \A p \in Orders \ {o} : orders'[p] = orders[p]
      /\ orders'[o].status = "PENDING"
      /\ Touch(o) /\ UNCHANGED categoryOf
  BY DEF Place, ReportInv, ShopTyped
<1> QED
  BY <1>1, TouchKeeps DEF ReportInv, Statuses, Pending

LEMMA AdvanceReports ==
  ASSUME ReportInv, NEW o \in Orders, NEW status \in Statuses, NEW read,
         Advance(o, status, read)
  PROVE  ReportFits'
<1>1. /\ \A p \in Orders \ {o} : orders'[p] = orders[p]
      /\ Touch(o) /\ UNCHANGED categoryOf
  BY DEF Advance, ReportInv, ShopTyped
<1>2. orders'[o].status \in Statuses
  BY RowAdvances DEF ReportInv
<1> QED
  BY <1>1, <1>2, TouchKeeps DEF ReportInv

\* A step that changes no order, and neither product nor category.
LEMMA QuietReports ==
  ASSUME ReportFits, UNCHANGED <<orders, categoryOf, report>>
  PROVE  ReportFits'
<1>1. ASSUME NEW kind, NEW args, NEW got, NEW changed, NEW moved,
             AnswerFits(kind, args, got, changed, moved)
      PROVE  AnswerFits(kind, args, got, changed, moved)'
  BY <1>1 DEF AnswerFits, FigureFits, LightFits, RankingFits, In
<1>2. CASE report = NoReport
  BY <1>2 DEF ReportFits
<1>3. CASE report # NoReport
  <2>1. PICK kind, args, got, changed, moved :
            /\ report = [kind |-> kind, args |-> args, got |-> got,
                         changed |-> changed, moved |-> moved]
            /\ AnswerFits(kind, args, got, changed, moved)
    BY <1>3 DEF ReportFits
  <2>2. AnswerFits(kind, args, got, changed, moved)'
    BY <1>1, <2>1
  <2> QED
    BY <2>1, <2>2 DEF ReportFits
<1> QED
  BY <1>2, <1>3

LEMMA MoveProductReports ==
  ASSUME ReportInv, NEW p \in Products, NEW c \in Categories, MoveProduct(p, c)
  PROVE  ReportFits'
<1>1. /\ UNCHANGED orders /\ \A s \in Products \ {p} : categoryOf'[s] = categoryOf[s]
  BY DEF MoveProduct, ReportInv, ShopTyped
<1>2. CASE report = NoReport
  BY <1>2 DEF MoveProduct, ReportFits, NoReport
<1>3. CASE report # NoReport
  <2>1. PICK kind, args, got, changed, moved :
            /\ report = [kind |-> kind, args |-> args, got |-> got,
                         changed |-> changed, moved |-> moved]
            /\ AnswerFits(kind, args, got, changed, moved)
    BY <1>3 DEF ReportFits, ReportInv
  <2>2. PICK gone : gone = IF kind = "bestCategories" THEN moved \cup {p} ELSE moved
    OBVIOUS
  <2>3. report' = [kind |-> kind, args |-> args, got |-> got,
                   changed |-> changed, moved |-> gone]
    BY <2>1, <2>2 DEF MoveProduct
  <2>4. kind = "bestCategories" => RankingFits(got, gone)'
    <3> SUFFICES ASSUME kind = "bestCategories" PROVE RankingFits(got, gone)'
      OBVIOUS
    <3>1. RankingFits(got, moved) /\ gone = moved \cup {p}
      BY <2>1, <2>2 DEF AnswerFits
    <3>2. \A o \in Orders : Sale[o].product \in Products
      BY ReportsAssumption
    <3> QED
      BY <1>1, <3>1, <3>2 DEF RankingFits
  <2>5. AnswerFits(kind, args, got, changed, gone)'
    BY <1>1, <2>1, <2>4 DEF AnswerFits, FigureFits, LightFits, In
  <2> QED
    BY <2>3, <2>5 DEF ReportFits
<1> QED
  BY <1>2, <1>3

-----------------------------------------------------------------------------
(* Asking *)

LEMMA AskFits ==
  ASSUME NEW kind \in DOMAIN Statements, NEW args, ArgsFit(kind, args), Ask(kind, args)
  PROVE  ReportFits'
<1> DEFINE none == [q \in {} |-> 0]
<1>1. report' = [kind |-> kind, args |-> args, got |-> none, changed |-> {}, moved |-> {}]
  BY DEF Ask
<1>2. DOMAIN none = {}
  OBVIOUS
<1> HIDE DEF none
<1>3. AnswerFits(kind, args, none, {}, {})'
  BY <1>2 DEF AnswerFits, RankingFits
<1> QED
  BY <1>1, <1>3 DEF ReportFits

\* The months, one after the other, begin and end at midnight.
LEMMA MonthsFit ==
  ASSUME ShopTyped
  PROVE  /\ MonthTyped(ThisMonth) /\ MonthTyped(LastMonth)
         /\ LastMonth.to <= ThisMonth.from
<1> DEFINE start == MonthStart(now + Offset)
<1>1. now \in Int /\ Offset \in Int
  BY ReportsAssumption DEF ShopTyped
<1>2. MonthLength \in Nat \ {0}
  <2>1. \A a, b \in Nat \ {0} : a * b \in Nat \ {0}
    OBVIOUS
  <2> QED
    BY <2>1, ReportsAssumption DEF MonthLength
<1>3. start \in Int
  <2>1. ASSUME NEW t \in Int, NEW n \in Nat \ {0} PROVE (t \div n) * n \in Int
    OBVIOUS
  <2> QED
    BY <1>1, <1>2, <2>1 DEF MonthStart
<1> HIDE DEF start
<1>4. ASSUME NEW s \in Int
      PROVE  /\ MonthTyped(Month(s, Offset))
             /\ Month(s, Offset).from = Midnight(s - Offset)
             /\ Month(s, Offset).to = Midnight(s + MonthLength - 1 - Offset)
  <2>1. s - Offset \in Int /\ s + MonthLength - 1 - Offset \in Int
    BY <1>1, <1>2
  <2>2. /\ Midnight(s - Offset) \in Int /\ TimeOf(Midnight(s - Offset)) = 0
        /\ Midnight(s + MonthLength - 1 - Offset) \in Int
        /\ TimeOf(Midnight(s + MonthLength - 1 - Offset)) = 0
    BY <2>1, MidnightOf, MidnightIsSharp
  <2> QED
    BY <2>2 DEF Month, MonthTyped, RangeTyped
<1>5. ThisMonth = Month(start, Offset) /\ LastMonth = Month(start - MonthLength, Offset)
  BY DEF ThisMonth, LastMonth, start
<1>6. Midnight(start - MonthLength + MonthLength - 1 - Offset) <= Midnight(start - Offset)
  <2>1. /\ start - MonthLength + MonthLength - 1 - Offset \in Int /\ start - Offset \in Int
        /\ start - MonthLength + MonthLength - 1 - Offset <= start - Offset
    BY <1>1, <1>2, <1>3
  <2> QED
    BY <2>1, MidnightsInOrder
<1>7. start - MonthLength \in Int
  BY <1>2, <1>3
<1> QED
  BY <1>3, <1>4, <1>5, <1>6, <1>7

LEMMA AskedFits ==
  ASSUME ShopTyped, Asked
  PROVE  ReportFits'
<1>1. ASSUME NEW range \in Ranges, AskOrderStats(range) PROVE ReportFits'
  <2>1. ArgsFit("orderStats", range)
    BY ReportsAssumption DEF ArgsFit, RangeTyped
  <2>2. "orderStats" \in DOMAIN Statements
    BY DEF Statements
  <2> QED
    BY <1>1, <2>1, <2>2, AskFits DEF AskOrderStats
<1>2. ASSUME NEW kind \in {"orderSummary", "revenueSummary"}, AskSummary(kind)
      PROVE  ReportFits'
  <2> DEFINE args == [this |-> ThisMonth, last |-> LastMonth]
  <2>1. args.this = ThisMonth /\ args.last = LastMonth
    OBVIOUS
  <2>2. Ask(kind, args)
    BY <1>2 DEF AskSummary
  <2> HIDE DEF args
  <2>3. ArgsFit(kind, args)
    BY <2>1, MonthsFit DEF ArgsFit
  <2>4. kind \in DOMAIN Statements
    BY DEF Statements
  <2> QED
    BY <2>2, <2>3, <2>4, AskFits
<1>3. ASSUME NEW type \in Types, AskPurchases(type) PROVE ReportFits'
  <2>1. type \in UIStatuses \cup {"OTHER"}
    <3>1. {"PENDING", "PROCESSING", "SHIPPED", "DELIVERED", "CANCELED"} \subseteq UIStatuses
      BY DEF UIStatuses, UIStatus, Statuses, Ended, Pending
    <3> QED
      BY <3>1, ReportsAssumption
  <2>2. ArgsFit("purchases", [type |-> type])
    BY <2>1 DEF ArgsFit
  <2>3. "purchases" \in DOMAIN Statements
    BY DEF Statements
  <2> QED
    BY <1>3, <2>2, <2>3, AskFits DEF AskPurchases
<1>4. ASSUME AskCategories PROVE ReportFits'
  <2>1. "bestCategories" \in DOMAIN Statements /\ \A args : ArgsFit("bestCategories", args)
    BY DEF Statements, ArgsFit
  <2> QED
    BY <1>4, <2>1, AskFits DEF AskCategories
<1> QED
  BY <1>1, <1>2, <1>3, <1>4 DEF Asked

-----------------------------------------------------------------------------
(* The results of the statements *)

CountedBy(q, args) == {o \in Orders : IsCounted(q, args, orders[o])}

\* The sum over the orders a figure counts, at the moment of its statement
LEMMA FreshFigure ==
  ASSUME ShopTyped, NEW q \in Figures, NEW args, NEW changed, NEW result,
         Amount(q, result) = Sum(FigureOf(q), CountedBy(q, args))
  PROVE  FigureFits(q, args, changed, result)
<1>1. CountedBy(q, args) \in SUBSET Orders
  BY DEF CountedBy
<1>2. \A o \in Orders \ changed : o \in CountedBy(q, args) <=> IsCounted(q, args, orders[o])
  BY DEF CountedBy
<1> QED
  BY <1>1, <1>2 DEF FigureFits

LEMMA FreshCount ==
  ASSUME ShopTyped, NEW q \in Figures \ {"current", "previous", "month", "total"},
         NEW args, NEW changed, NEW S, S = CountedBy(q, args)
  PROVE  FigureFits(q, args, changed, Cardinality(S))
<1>1. S \in SUBSET Orders
  BY DEF CountedBy
<1>2. IsFiniteSet(S) /\ \A o \in S : One[o] = 1
  BY <1>1, OfOrders, FiguresAreNumbers
<1>3. SumFunctionOnSet(One, S) = Cardinality(S)
  BY <1>2, SumCounts
<1> QED
  BY <1>3, FreshFigure DEF Amount, FigureOf, Sum

LEMMA FreshDays ==
  ASSUME ShopTyped, NEW q \in Figures \ {"total"}, NEW args, NEW changed,
         NEW range, RangeTyped(range),
         \A r : IsCounted(q, args, r) <=> DeliveredOnDays(range, r)
  PROVE  FigureFits(q, args, changed, DayTotal(FigureOf(q), range.from, range.to))
<1>1. CountedBy(q, args) = OnItsDays(range.from, range.to)
  BY DEF CountedBy, OnItsDays, DeliveredOnDays, DeliveredIn, Completed, In, DayOf
<1>2. \A o \in Orders : FigureOf(q)[o] \in Int
  BY FiguresAreNumbers DEF FigureOf
<1>3. DayTotal(FigureOf(q), range.from, range.to) = Sum(FigureOf(q), CountedBy(q, args))
  BY <1>1, <1>2, DaysTotal DEF RangeTyped
<1> QED
  BY <1>3, FreshFigure DEF Amount

\* The statements of the kinds of reports
LEMMA KindOf ==
  ASSUME NEW kind \in DOMAIN Statements, NEW q \in Statements[kind]
  PROVE  /\ q \in {"days", "count"} => kind = "orderStats"
         /\ q \in {"delivered", "pending", "canceled", "canceledMonth", "deliveredMonth",
                   "deliveredLast"} => kind = "orderSummary"
         /\ q \in {"current", "previous", "month", "total"} => kind = "revenueSummary"
         /\ q \in {"page", "light", "all"} => kind = "purchases"
         /\ q \in {"items", "products", "names"} => kind = "bestCategories"
         /\ q \in Figures \cup {"light", "items", "products", "names"}
BY DEF Statements, Figures

LEMMA CompletedCounts ==
  ASSUME NEW q, NEW args, NEW range, \A r : IsCounted(q, args, r) <=> DeliveredIn(range, r)
  PROVE  Completed(range.from, range.to) = CountedBy(q, args)
BY DEF Completed, In, CountedBy, DeliveredIn

LEMMA ResultOfPage ==
  ASSUME ShopTyped, NEW args, args.type \in UIStatuses \cup {"OTHER"}
  PROVE  PageOf(args.type) = CountedBy("page", args)
<1>1. ASSUME NEW o \in Orders
      PROVE  o \in PageOf(args.type) <=> IsCounted("page", args, orders[o])
  <2>1. PICK r : r = orders[o] /\ r.status \in Statuses \cup {"NONE"}
    BY DEF ShopTyped, OrderFits, Rows
  <2>2. PICK t : t = args.type /\ t \in {"PENDING", "PROCESSING", "SHIPPED", "DELIVERED",
                                          "CANCELED", "OTHER"}
    BY DEF UIStatuses, UIStatus, Statuses, Ended, Pending
  <2>3. o \in PageOf(t) <=> r.status # "NONE" /\ (t # "OTHER" => UIStatus(r.status) = t)
    <3>1. CASE t = "CANCELED"
      BY <2>1, <3>1 DEF PageOf, In, UIStatus, Statuses, Ended, Pending
    <3>2. CASE t = "OTHER"
      BY <2>1, <3>2 DEF PageOf, In, Statuses, Ended, Pending
    <3>3. CASE t \notin {"CANCELED", "OTHER"}
      BY <2>1, <2>2, <3>3 DEF PageOf, In, UIStatus, Ended
    <3> QED
      BY <3>1, <3>2, <3>3
  <2> QED
    BY <2>1, <2>2, <2>3 DEF IsCounted
<1>2. PageOf(args.type) \subseteq Orders
  BY DEF PageOf, In
<1> QED
  BY <1>1, <1>2 DEF CountedBy

LEMMA ResultOfLight ==
  ASSUME ShopTyped, NEW changed
  PROVE  LightFits(changed, Result("light"))
<1> DEFINE g == [o \in Orders |-> UIStatus(orders[o].status)]
<1>1. \A o \in Orders : orders[o].status \in Statuses \cup {"NONE"}
  BY DEF ShopTyped, OrderFits, Rows
<1>2. UIStatus("NONE") = "NONE" /\ "NONE" \notin UIStatuses
  BY DEF UIStatuses, UIStatus, Statuses, Ended, Pending
<1>3. g \in [Orders -> UIStatuses \cup {"NONE"}]
  BY <1>1, <1>2 DEF UIStatuses
<1>4. ASSUME NEW u \in UIStatuses
      PROVE  {o \in In(Statuses) : UIStatus(orders[o].status) = u} = {o \in Orders : g[o] = u}
  BY <1>1, <1>2 DEF In
<1>5. Result("light") = [u \in UIStatuses |->
          Cardinality({o \in In(Statuses) : UIStatus(orders[o].status) = u})]
  BY DEF Result, UIStatuses
<1>6. \A o \in Orders \ changed : g[o] = UIStatus(orders[o].status)
  OBVIOUS
<1> HIDE DEF g
<1>7. Result("light") = [u \in UIStatuses |-> Cardinality({o \in Orders : g[o] = u})]
  BY <1>4, <1>5
<1> QED
  BY <1>3, <1>6, <1>7 DEF LightFits

LEMMA ResultOfFigure ==
  ASSUME ShopTyped, NEW kind \in DOMAIN Statements, NEW args, report.args = args,
         ArgsFit(kind, args), NEW q \in Statements[kind], q \in Figures, NEW changed
  PROVE  FigureFits(q, args, changed, Result(q))
<1>1. CASE q \in {"days", "count"}
  <2>1. RangeTyped(args)
    BY <1>1, KindOf DEF ArgsFit
  <2>2. CASE q = "days"
    <3>1. Result(q) = DayTotal(FigureOf(q), args.from, args.to)
      BY <2>2 DEF Result, FigureOf
    <3>2. \A r : IsCounted(q, args, r) <=> DeliveredOnDays(args, r)
      BY <2>2 DEF IsCounted
    <3> QED
      BY <2>1, <2>2, <3>1, <3>2, FreshDays
  <2>3. CASE q = "count"
    <3>1. Result(q) = Cardinality(Completed(args.from, args.to))
      BY <2>3 DEF Result, CountOf
    <3>2. \A r : IsCounted(q, args, r) <=> DeliveredIn(args, r)
      BY <2>3 DEF IsCounted
    <3>3. Completed(args.from, args.to) = CountedBy(q, args)
      BY <3>2, CompletedCounts
    <3> QED
      BY <2>3, <3>1, <3>3, FreshCount
  <2> QED
    BY <1>1, <2>2, <2>3
<1>2. CASE q \in {"delivered", "pending", "canceled", "canceledMonth", "all"}
  <2>1. PICK S : Result(q) = Cardinality(S) /\ S = CountedBy(q, args)
    <3>1. CASE q = "delivered"
      BY <3>1 DEF Result, CountedBy, IsCounted, In
    <3>2. CASE q = "pending"
      BY <3>2 DEF Result, CountedBy, IsCounted, In
    <3>3. CASE q = "canceled"
      BY <3>3 DEF Result, CountedBy, IsCounted, In
    <3>4. CASE q = "canceledMonth"
      <4>1. {o \in In(Ended) : Between(orders[o].created, args.this.from, args.this.to)}
               = CountedBy(q, args)
        BY <3>4 DEF CountedBy, IsCounted, In
      <4> QED
        BY <3>4, <4>1 DEF Result
    <3>5. CASE q = "all"
      <4>1. \A o \in Orders : orders[o].status \in Statuses \cup {"NONE"}
        BY DEF ShopTyped, OrderFits, Rows
      <4>2. "NONE" \notin Statuses
        BY DEF Statuses, Ended, Pending
      <4>3. In(Statuses) = CountedBy(q, args)
        BY <3>5, <4>1, <4>2 DEF CountedBy, IsCounted, In
      <4> QED
        BY <3>5, <4>3 DEF Result
    <3> QED
      BY <1>2, <3>1, <3>2, <3>3, <3>4, <3>5
  <2> QED
    BY <1>2, <2>1, FreshCount
<1>3. CASE q \in {"deliveredMonth", "deliveredLast"}
  <2>1. PICK range : /\ Result(q) = Cardinality(Completed(range.from, range.to))
                     /\ \A r : IsCounted(q, args, r) <=> DeliveredIn(range, r)
    <3>1. CASE q = "deliveredMonth"
      BY <3>1 DEF Result, CountOf, IsCounted
    <3>2. CASE q = "deliveredLast"
      BY <3>2 DEF Result, CountOf, IsCounted
    <3> QED
      BY <1>3, <3>1, <3>2
  <2>2. Completed(range.from, range.to) = CountedBy(q, args)
    BY <2>1, CompletedCounts
  <2> QED
    BY <1>3, <2>1, <2>2, FreshCount
<1>4. CASE q \in {"current", "previous"}
  <2>1. RangeTyped(args.this) /\ RangeTyped(args.last)
    BY <1>4, KindOf DEF ArgsFit, MonthTyped
  <2>2. PICK range : /\ Result(q) = DayTotal(FigureOf(q), range.from, range.to)
                     /\ RangeTyped(range)
                     /\ \A r : IsCounted(q, args, r) <=> DeliveredOnDays(range, r)
    <3>1. CASE q = "current"
      BY <2>1, <3>1 DEF Result, FigureOf, IsCounted
    <3>2. CASE q = "previous"
      BY <2>1, <3>2 DEF Result, FigureOf, IsCounted
    <3> QED
      BY <1>4, <3>1, <3>2
  <2> QED
    BY <1>4, <2>2, FreshDays
<1>5. CASE q = "month"
  <2>1. Result(q) = Sum(Revenue, Completed(args.this.from, args.this.to))
    BY <1>5 DEF Result, RevenueStats
  <2>2. Completed(args.this.from, args.this.to) = CountedBy(q, args)
    <3>1. \A r : IsCounted(q, args, r) <=> DeliveredIn(args.this, r)
      BY <1>5 DEF IsCounted
    <3> QED
      BY <3>1, CompletedCounts
  <2>3. Amount(q, Result(q)) = Sum(FigureOf(q), CountedBy(q, args))
    BY <1>5, <2>1, <2>2 DEF Amount, FigureOf
  <2> QED
    BY <2>3, FreshFigure
<1>6. CASE q = "total"
  <2>1. In({"DELIVERED"}) = CountedBy(q, args)
    BY <1>6 DEF In, CountedBy, IsCounted
  <2>2. Result(q).revenue = Sum(Revenue, In({"DELIVERED"}))
    BY <1>6 DEF Result
  <2>3. Amount(q, Result(q)) = Sum(FigureOf(q), CountedBy(q, args))
    BY <1>6, <2>1, <2>2 DEF Amount, FigureOf
  <2> QED
    BY <2>3, FreshFigure
<1>7. CASE q = "page"
  <2>1. args.type \in UIStatuses \cup {"OTHER"}
    BY <1>7, KindOf DEF ArgsFit
  <2>2. Result(q) = Cardinality(PageOf(args.type)) /\ PageOf(args.type) = CountedBy(q, args)
    BY <1>7, <2>1, ResultOfPage DEF Result
  <2> QED
    BY <1>7, <2>2, FreshCount
<1> QED
  BY <1>1, <1>2, <1>3, <1>4, <1>5, <1>6, <1>7 DEF Figures

\* The next statement of the ranking sees the products where they are now.
LEMMA ResultOfRanking ==
  ASSUME ShopTyped, NEW got, NEW moved, NEW more, RankingFits(got, moved), report.got = got,
         NEW q \in {"items", "products", "names"}, q \notin DOMAIN got,
         After[q] \subseteq DOMAIN got,
         DOMAIN more = DOMAIN got \cup {q}, more[q] = Result(q),
         \A r \in DOMAIN got : more[r] = got[r]
  PROVE  RankingFits(more, moved)
<1>1. "products" \in DOMAIN got => "items" \in DOMAIN got
  BY DEF RankingFits
<1>2. "names" \in DOMAIN got => "products" \in DOMAIN got
  BY DEF RankingFits
<1>3. CASE q = "items"
  <2>1. more["items"] \in SUBSET Orders
    BY <1>3 DEF Result, SoldItems, In
  <2>2. "products" \notin DOMAIN more /\ "names" \notin DOMAIN more
    BY <1>1, <1>2, <1>3
  <2> QED
    BY <2>1, <2>2 DEF RankingFits
<1>4. CASE q = "products"
  <2>1. "items" \in DOMAIN got
    BY <1>4 DEF After, Statements
  <2>2. more["products"] = [p \in {Sale[o].product : o \in got["items"]} |-> categoryOf[p]]
    BY <1>4 DEF Result
  <2>3. "names" \notin DOMAIN more
    BY <1>2, <1>4
  <2>4. more["items"] = got["items"] /\ got["items"] \in SUBSET Orders /\ "items" \in DOMAIN more
    BY <2>1 DEF RankingFits
  <2>5. /\ DOMAIN more["products"] = {Sale[o].product : o \in more["items"]}
        /\ \A o \in more["items"] :
              more["products"][Sale[o].product] = categoryOf[Sale[o].product]
    BY <2>2, <2>4
  <2> QED
    BY <2>3, <2>4, <2>5 DEF RankingFits
<1>5. CASE q = "names"
  <2>1. "products" \in DOMAIN got /\ "items" \in DOMAIN got
    BY <1>5 DEF After, Statements
  <2>2. /\ more["items"] = got["items"] /\ more["products"] = got["products"]
        /\ "items" \in DOMAIN more /\ "products" \in DOMAIN more
    BY <2>1
  <2>3. PICK found : found = got["products"]
    OBVIOUS
  <2>4. more["names"] = {c \in categories : \E p \in DOMAIN found : found[p] = c}
    BY <1>5, <2>3 DEF Result, Names
  <2>5. ASSUME NEW o \in got["items"], Sale[o].product \notin moved
        PROVE  found[Sale[o].product] \in more["names"]
    <3>1. PICK p \in DOMAIN found : p = Sale[o].product
      BY <2>1, <2>3 DEF RankingFits
    <3>2. found[p] = categoryOf[p]
      BY <2>1, <2>3, <2>5, <3>1 DEF RankingFits
    <3>3. p \in Products
      BY <2>1, <3>1, ReportsAssumption DEF RankingFits
    <3>4. categoryOf[p] \in categories
      BY <3>3 DEF ShopTyped
    <3> QED
      BY <2>4, <3>1, <3>2, <3>4
  <2> QED
    BY <2>1, <2>2, <2>3, <2>5 DEF RankingFits
<1> QED
  BY <1>3, <1>4, <1>5

LEMMA RunFits ==
  ASSUME ReportInv, NEW q, Run(q)
  PROVE  ReportFits'
<1>1. report # NoReport
  BY DEF Run
<1>2. PICK kind, args, got, changed, moved :
          /\ report = [kind |-> kind, args |-> args, got |-> got,
                       changed |-> changed, moved |-> moved]
          /\ AnswerFits(kind, args, got, changed, moved)
  BY <1>1 DEF ReportFits, ReportInv
<1>3. PICK more : more = [r \in DOMAIN got \cup {q} |-> IF r = q THEN Result(q) ELSE got[r]]
  OBVIOUS
<1>4. report' = [kind |-> kind, args |-> args, got |-> more,
                 changed |-> changed, moved |-> moved]
  BY <1>2, <1>3 DEF Run
<1>5. q \in Statements[kind] /\ q \notin DOMAIN got /\ After[q] \subseteq DOMAIN got
  BY <1>2 DEF Run, Left
<1>6. report.args = args /\ report.got = got
  BY <1>2
<1>7. /\ DOMAIN more = DOMAIN got \cup {q} /\ more[q] = Result(q)
      /\ \A r \in DOMAIN got : more[r] = got[r]
  BY <1>3, <1>5
<1>8. AnswerFits(kind, args, more, changed, moved)
  <2>1. ASSUME NEW r \in DOMAIN more, r \in Figures
        PROVE  FigureFits(r, args, changed, more[r])
    <3>1. CASE r = q
      <4>1. kind \in DOMAIN Statements /\ ArgsFit(kind, args)
        BY <1>2 DEF AnswerFits
      <4>2. FigureFits(q, args, changed, Result(q))
        BY <1>5, <1>6, <2>1, <3>1, <4>1, ResultOfFigure DEF ReportInv
      <4> QED
        BY <1>7, <3>1, <4>2
    <3>2. CASE r # q
      BY <1>2, <1>7, <2>1, <3>2 DEF AnswerFits
    <3> QED
      BY <3>1, <3>2
  <2>2. "light" \in DOMAIN more => LightFits(changed, more["light"])
    <3>1. CASE q = "light"
      BY <1>7, <3>1, ResultOfLight DEF ReportInv
    <3>2. CASE q # "light"
      BY <1>2, <1>7, <3>2 DEF AnswerFits
    <3> QED
      BY <3>1, <3>2
  <2>3. ASSUME kind = "bestCategories"
        PROVE  RankingFits(more, moved)
    <3>1. q \in {"items", "products", "names"}
      BY <1>5, <2>3 DEF Statements
    <3>2. RankingFits(got, moved)
      BY <1>2, <2>3 DEF AnswerFits
    <3> QED
      BY <1>5, <1>6, <1>7, <3>1, <3>2, ResultOfRanking DEF ReportInv
  <2> QED
    BY <1>2, <1>5, <1>7, <2>1, <2>2, <2>3 DEF AnswerFits
<1>9. AnswerFits(kind, args, more, changed, moved)'
  <2>1. UNCHANGED <<orders, categoryOf>>
    BY DEF Run, tables
  <2> QED
    BY <1>8, <2>1 DEF AnswerFits, FigureFits, LightFits, RankingFits, In
<1> QED
  BY <1>4, <1>9 DEF ReportFits

LEMMA ReportNextKeeps ==
  ASSUME ReportInv, [ReportNext]_reportVars
  PROVE  ReportInv'
<1>1. ShopTyped'
  BY ReportNextFits DEF ReportInv
<1>2. CASE UNCHANGED reportVars
  BY <1>1, <1>2, QuietReports DEF ReportInv, reportVars, tables
<1>3. CASE Asked
  BY <1>1, <1>3, AskedFits DEF ReportInv
<1>4. ASSUME NEW q, Run(q) PROVE ReportInv'
  BY <1>1, <1>4, RunFits DEF ReportInv
<1>5. CASE Respond
  BY <1>1, <1>5 DEF Respond, ReportInv, ReportFits
<1>6. ASSUME NEW o \in Orders, NEW sent \in Dates \cup {Never}, Place(o, sent)
      PROVE  ReportInv'
  BY <1>1, <1>6, PlaceReports DEF ReportInv
<1>7. ASSUME NEW o \in Orders, NEW status \in Statuses, NEW read, Advance(o, status, read)
      PROVE  ReportInv'
  BY <1>1, <1>7, AdvanceReports DEF ReportInv
<1>8. ASSUME NEW p \in Products, NEW c \in Categories, MoveProduct(p, c)
      PROVE  ReportInv'
  BY <1>1, <1>8, MoveProductReports DEF ReportInv
<1>9. ASSUME NEW c \in Categories, DeleteCategory(c) PROVE ReportInv'
  BY <1>1, <1>9, QuietReports DEF ReportInv, DeleteCategory
<1>10. CASE Tick
  BY <1>1, <1>10, QuietReports DEF ReportInv, Tick, tables
<1> QED
  BY <1>2, <1>3, <1>4, <1>5, <1>6, <1>7, <1>8, <1>9, <1>10 DEF ReportNext

LEMMA AlwaysReportInv == ReportSpec => []ReportInv
<1>1. ReportInit => ReportInv
  BY ReportInitFits DEF ReportInit, ReportInv, ReportFits
<1> QED
  BY <1>1, ReportNextKeeps, PTL DEF ReportSpec

\* An answer that is complete has every result of its kind.
LEMMA WhenComplete ==
  ASSUME ReportInv, Complete
  PROVE  \E kind, args, got, changed, moved :
            /\ report = [kind |-> kind, args |-> args, got |-> got,
                         changed |-> changed, moved |-> moved]
            /\ AnswerFits(kind, args, got, changed, moved)
            /\ DOMAIN got = Statements[kind]
<1>1. PICK kind, args, got, changed, moved :
          /\ report = [kind |-> kind, args |-> args, got |-> got,
                       changed |-> changed, moved |-> moved]
          /\ AnswerFits(kind, args, got, changed, moved)
  BY DEF ReportInv, ReportFits, Complete
<1>2. Statements[kind] \ DOMAIN got = {}
  BY <1>1 DEF Complete, Left
<1>3. DOMAIN got = Statements[kind]
  BY <1>1, <1>2 DEF AnswerFits
<1> QED
  BY <1>1, <1>3

\* The ranking leaves out an item only if its product moved meanwhile: a
\* category that products are in cannot be deleted.
THEOREM SalesCorrect == ReportSpec => []SalesKept
<1>1. ASSUME ReportInv PROVE SalesKept
  <2> SUFFICES ASSUME Complete, report.kind = "bestCategories", NEW o \in report.got["items"]
               PROVE  \/ report.got["products"][Sale[o].product] \in report.got["names"]
                      \/ Sale[o].product \in report.moved
    BY DEF SalesKept
  <2>1. PICK kind, args, got, changed, moved :
            /\ report = [kind |-> kind, args |-> args, got |-> got,
                         changed |-> changed, moved |-> moved]
            /\ AnswerFits(kind, args, got, changed, moved)
            /\ DOMAIN got = Statements[kind]
    BY <1>1, WhenComplete
  <2>2. kind = "bestCategories" /\ report.got = got /\ report.moved = moved
    BY <2>1
  <2>3. RankingFits(got, moved) /\ "names" \in DOMAIN got
    BY <2>1, <2>2 DEF AnswerFits, Statements
  <2> QED
    BY <2>2, <2>3 DEF RankingFits
<1> QED
  BY <1>1, AlwaysReportInv, PTL

-----------------------------------------------------------------------------
(* The figures of one answer *)

\* What is in A is in B, unless it is in C: a count, or an amount of money.
LEMMA Within ==
  ASSUME NEW A \in SUBSET Orders, NEW B \in SUBSET Orders, NEW C \in SUBSET Orders,
         A \ C \subseteq B
  PROVE  /\ Cardinality(A) \in Nat /\ Cardinality(B) \in Nat /\ Cardinality(C) \in Nat
         /\ Cardinality(A) <= Cardinality(B) + Cardinality(C)
         /\ Sum(Revenue, A) \in Nat /\ Sum(Revenue, B) \in Nat /\ Sum(Revenue, C) \in Nat
         /\ Sum(Revenue, A) <= Sum(Revenue, B) + Sum(Revenue, C)
<1>1. IsFiniteSet(Orders) /\ IsFiniteSet(A) /\ IsFiniteSet(B) /\ IsFiniteSet(C)
  BY OfOrders, ReportsAssumption
<1>2. \A o \in Orders : One[o] = 1 /\ One[o] \in Nat /\ Revenue[o] \in Nat
  BY FiguresAreNumbers
<1> HIDE DEF One, Revenue
<1>3. /\ SumFunctionOnSet(One, A) = Cardinality(A)
      /\ SumFunctionOnSet(One, B) = Cardinality(B)
      /\ SumFunctionOnSet(One, C) = Cardinality(C)
  <2>1. ASSUME NEW S \in SUBSET Orders, IsFiniteSet(S)
        PROVE  SumFunctionOnSet(One, S) = Cardinality(S)
    <3>1. \A o \in S : One[o] = 1
      BY <1>2
    <3> QED
      BY <2>1, <3>1, SumCounts
  <2> QED
    BY <1>1, <2>1
<1>4. SumFunctionOnSet(One, A) <= SumFunctionOnSet(One, B) + SumFunctionOnSet(One, C)
  BY <1>1, <1>2, SumWithin
<1>5. SumFunctionOnSet(Revenue, A) <= SumFunctionOnSet(Revenue, B) + SumFunctionOnSet(Revenue, C)
  BY <1>1, <1>2, SumWithin
<1>6. ASSUME NEW S \in SUBSET Orders, IsFiniteSet(S)
      PROVE  SumFunctionOnSet(Revenue, S) \in Nat
  <2>1. \A o \in S : Revenue[o] \in Nat
    BY <1>2
  <2> QED
    BY <1>6, <2>1, SumNat
<1>7. Cardinality(A) \in Nat /\ Cardinality(B) \in Nat /\ Cardinality(C) \in Nat
  BY <1>1, FS_CardinalityType
<1> QED
  BY <1>1, <1>3, <1>4, <1>5, <1>6, <1>7 DEF Sum

\* S is what figure q counted.
Saw(q, args, changed, S) ==
    \A o \in Orders \ changed : o \in S <=> IsCounted(q, args, orders[o])

LEMMA FigureCounts ==
  ASSUME NEW q, NEW args, NEW changed, NEW result, FigureFits(q, args, changed, result)
  PROVE  \E S \in SUBSET Orders :
            /\ Amount(q, result) = IF q \in {"current", "previous", "month", "total"}
                                   THEN Sum(Revenue, S) ELSE Cardinality(S)
            /\ Saw(q, args, changed, S)
<1>1. PICK S \in SUBSET Orders :
          /\ Amount(q, result) = Sum(FigureOf(q), S)
          /\ Saw(q, args, changed, S)
  BY DEF FigureFits, Saw
<1>2. Sum(One, S) = Cardinality(S)
  <2>1. IsFiniteSet(S) /\ \A o \in S : One[o] = 1
    BY OfOrders, FiguresAreNumbers
  <2> QED
    BY <2>1, SumCounts DEF Sum
<1> QED
  BY <1>1, <1>2 DEF FigureOf

\* A set is what of it is outside another, and some of the other.
LEMMA Outside ==
  ASSUME NEW A \in SUBSET Orders, NEW C \in SUBSET Orders
  PROVE  /\ Cardinality(A) \in Nat /\ Cardinality(C) \in Nat /\ Cardinality(A \ C) \in Nat
         /\ Cardinality(A \ C) <= Cardinality(A)
         /\ Cardinality(A) <= Cardinality(A \ C) + Cardinality(C)
         /\ C \subseteq A => Cardinality(A) = Cardinality(A \ C) + Cardinality(C)
<1>1. /\ IsFiniteSet(A) /\ IsFiniteSet(C) /\ IsFiniteSet(A \cap C) /\ IsFiniteSet(A \ C)
      /\ A \cap C \subseteq C /\ A = (A \ C) \cup (A \cap C) /\ (A \ C) \cap (A \cap C) = {}
  <2>1. A \cap C \in SUBSET Orders /\ A \ C \in SUBSET Orders
    OBVIOUS
  <2> QED
    BY <2>1, OfOrders
<1>2. /\ Cardinality(A) \in Nat /\ Cardinality(C) \in Nat
      /\ Cardinality(A \cap C) \in Nat /\ Cardinality(A \ C) \in Nat
      /\ Cardinality(A \cap C) <= Cardinality(C)
  BY <1>1, FS_CardinalityType, FS_Subset
<1>3. Cardinality((A \ C) \cup (A \cap C))
        = Cardinality(A \ C) + Cardinality(A \cap C) - Cardinality((A \ C) \cap (A \cap C))
  BY <1>1, FS_Union
<1>4. Cardinality((A \ C) \cap (A \cap C)) = 0
  BY <1>1, FS_EmptySet
<1>5. Cardinality(A) = Cardinality(A \ C) + Cardinality(A \cap C)
  <2>1. Cardinality((A \ C) \cup (A \cap C)) = Cardinality(A)
    BY <1>1
  <2> QED
    BY <1>2, <1>3, <1>4, <2>1
<1>6. C \subseteq A => A \cap C = C
  OBVIOUS
<1> QED
  BY <1>2, <1>5, <1>6

\* Two sets have as many elements as their union and what they share.
LEMMA Together ==
  ASSUME NEW A \in SUBSET Orders, NEW B \in SUBSET Orders
  PROVE  /\ Cardinality(A) \in Nat /\ Cardinality(B) \in Nat
         /\ Cardinality(A \cup B) \in Nat /\ Cardinality(A \cap B) \in Nat
         /\ Cardinality(A) + Cardinality(B) = Cardinality(A \cup B) + Cardinality(A \cap B)
<1>1. /\ IsFiniteSet(A) /\ IsFiniteSet(B) /\ IsFiniteSet(A \cap B) /\ IsFiniteSet(A \cup B)
  <2>1. A \cap B \in SUBSET Orders /\ A \cup B \in SUBSET Orders
    OBVIOUS
  <2> QED
    BY <2>1, OfOrders
<1>2. Cardinality(A \cup B) = Cardinality(A) + Cardinality(B) - Cardinality(A \cap B)
  BY <1>1, FS_Union
<1> QED
  BY <1>1, <1>2, FS_CardinalityType

\* Both figures count the same orders but for those that changed.
LEMMA SameRange ==
  ASSUME ShopTyped, NEW range, RangeTyped(range),
         TimeOf(range.from) <= TimeOf(range.to), NEW o \in Orders
  PROVE  DeliveredOnDays(range, orders[o]) <=> DeliveredIn(range, orders[o])
<1>1. PICK r : r = orders[o] /\ r.completed \in Int
  BY DEF ShopTyped, OrderFits, Rows
<1>2. PICK from \in Int, to \in Int : from = range.from /\ to = range.to
  BY DEF RangeTyped
<1>3. /\ TimeOf(from) \in Int /\ TimeOf(to) \in Int
      /\ ~(TimeOf(from) > TimeOf(to))
  BY <1>2, MidnightOf
<1>4. Between(r.completed, from, to) => Midnight(r.completed) \in Days(from, to)
  <2>1. Between(r.completed, from, to) => r.completed \in from .. to
    BY <1>1, <1>2 DEF Between
  <2> QED
    BY <1>3, <2>1, DayIsListed
<1> QED
  BY <1>1, <1>2, <1>4 DEF DeliveredOnDays, DeliveredIn

LEMMA OrderStatsAgree ==
  ASSUME ReportInv, NEW args, NEW got, NEW changed, NEW moved,
         AnswerFits("orderStats", args, got, changed, moved),
         DOMAIN got = Statements["orderStats"],
         TimeOf(args.from) <= TimeOf(args.to)
  PROVE  got["days"] \in got["count"] - Cardinality(changed) .. got["count"] + Cardinality(changed)
<1>1. /\ FigureFits("days", args, changed, got["days"])
      /\ FigureFits("count", args, changed, got["count"])
  BY DEF AnswerFits, Statements, Figures
<1>2. PICK D \in SUBSET Orders :
          got["days"] = Cardinality(D) /\ Saw("days", args, changed, D)
  BY <1>1, FigureCounts DEF Amount
<1>3. PICK N \in SUBSET Orders :
          got["count"] = Cardinality(N) /\ Saw("count", args, changed, N)
  BY <1>1, FigureCounts DEF Amount
<1>4. \A o \in Orders \ changed : o \in D <=> o \in N
  <2>1. RangeTyped(args) /\ ShopTyped
    BY DEF AnswerFits, ArgsFit, ReportInv
  <2> QED
    BY <1>2, <1>3, <2>1, SameRange DEF Saw, IsCounted
<1>5. changed \in SUBSET Orders /\ D \ changed \subseteq N /\ N \ changed \subseteq D
  BY <1>4 DEF AnswerFits, In
<1>6. Cardinality(D) <= Cardinality(N) + Cardinality(changed)
      /\ Cardinality(N) <= Cardinality(D) + Cardinality(changed)
      /\ Cardinality(D) \in Nat /\ Cardinality(N) \in Nat /\ Cardinality(changed) \in Nat
  BY <1>5, Within
<1> QED
  BY <1>2, <1>3, <1>6

LEMMA OrderSummaryAgrees ==
  ASSUME ReportInv, NEW args, NEW got, NEW changed, NEW moved,
         AnswerFits("orderSummary", args, got, changed, moved),
         DOMAIN got = Statements["orderSummary"]
  PROVE  LET slack == Cardinality(changed)
             counted == got["delivered"] + got["pending"] + got["canceled"]
             placed == Cardinality(In(Statuses)) IN
         /\ got["deliveredMonth"] + got["deliveredLast"] <= got["delivered"] + 2 * slack
              + Cardinality({o \in Orders : orders[o].completed = args.this.from})
         /\ got["canceledMonth"] <= got["canceled"] + slack
         /\ counted \in placed - slack .. placed + 2 * slack
<1> DEFINE Shared == {o \in Orders : orders[o].completed = args.this.from}
           Fits(q) == FigureFits(q, args, changed, got[q])
<1>1. /\ Fits("deliveredMonth") /\ Fits("deliveredLast") /\ Fits("delivered")
      /\ Fits("canceledMonth") /\ Fits("canceled") /\ Fits("pending")
  BY DEF AnswerFits, Statements, Figures
<1>2. PICK D \in SUBSET Orders :
          got["delivered"] = Cardinality(D) /\ Saw("delivered", args, changed, D)
  BY <1>1, FigureCounts DEF Amount
<1>3. PICK M \in SUBSET Orders :
          got["deliveredMonth"] = Cardinality(M) /\ Saw("deliveredMonth", args, changed, M)
  BY <1>1, FigureCounts DEF Amount
<1>4. PICK L \in SUBSET Orders :
          got["deliveredLast"] = Cardinality(L) /\ Saw("deliveredLast", args, changed, L)
  BY <1>1, FigureCounts DEF Amount
<1>5. PICK E \in SUBSET Orders :
          got["canceled"] = Cardinality(E) /\ Saw("canceled", args, changed, E)
  BY <1>1, FigureCounts DEF Amount
<1>6. PICK F \in SUBSET Orders :
          got["canceledMonth"] = Cardinality(F) /\ Saw("canceledMonth", args, changed, F)
  BY <1>1, FigureCounts DEF Amount
<1>7. PICK P \in SUBSET Orders :
          got["pending"] = Cardinality(P) /\ Saw("pending", args, changed, P)
  BY <1>1, FigureCounts DEF Amount
<1>8. /\ changed \in SUBSET Orders /\ changed \subseteq In(Statuses)
      /\ In(Statuses) \in SUBSET Orders /\ Shared \in SUBSET Orders
  BY DEF AnswerFits, In
<1>9. (M \ changed) \cup (L \ changed) \subseteq D
  BY <1>2, <1>3, <1>4 DEF Saw, IsCounted, DeliveredIn
<1>10. (M \ changed) \cap (L \ changed) \subseteq Shared
  <2> SUFFICES ASSUME NEW o \in (M \ changed) \cap (L \ changed)
               PROVE  orders[o].completed = args.this.from
    OBVIOUS
  <2>1. PICK t \in Int : t = orders[o].completed
    BY DEF ReportInv, ShopTyped, OrderFits, Rows
  <2>2. /\ args.this.from \in Int /\ args.last.to \in Int
        /\ args.last.to <= args.this.from
    BY DEF AnswerFits, ArgsFit, MonthTyped, RangeTyped
  <2>3. args.this.from <= t /\ t <= args.last.to
    BY <1>3, <1>4, <2>1 DEF Saw, IsCounted, DeliveredIn, Between
  <2> QED
    BY <2>1, <2>2, <2>3
<1>11. F \ changed \subseteq E
  BY <1>5, <1>6 DEF Saw, IsCounted
<1>12. /\ (D \ changed) \cap (E \ changed) = {}
       /\ ((D \ changed) \cup (E \ changed)) \cap (P \ changed) = {}
       /\ ((D \ changed) \cup (E \ changed)) \cup (P \ changed) = In(Statuses) \ changed
  <2>1. \A o \in Orders \ changed :
            /\ o \in D <=> orders[o].status = "DELIVERED"
            /\ o \in E <=> orders[o].status \in Ended
            /\ o \in P <=> orders[o].status \in Pending
            /\ o \in In(Statuses) <=> orders[o].status \in Statuses
    BY <1>2, <1>5, <1>7 DEF Saw, IsCounted, In
  <2>2. /\ Statuses = Ended \cup Pending \cup {"DELIVERED"}
        /\ Ended \cap Pending = {} /\ "DELIVERED" \notin Ended \cup Pending
    BY DEF Statuses, Ended, Pending
  <2>3. \A o \in Orders \ changed :
            /\ ~(o \in D /\ o \in E) /\ ~(o \in D /\ o \in P) /\ ~(o \in E /\ o \in P)
            /\ o \in In(Statuses) <=> o \in D \/ o \in E \/ o \in P
    BY <2>1, <2>2
  <2> QED
    BY <1>8, <2>3
<1> HIDE DEF Shared
<1>13. Cardinality(M) + Cardinality(L)
         <= Cardinality(D) + 2 * Cardinality(changed) + Cardinality(Shared)
  <2>1. PICK m, l : m = M \ changed /\ l = L \ changed
    OBVIOUS
  <2>2. m \in SUBSET Orders /\ l \in SUBSET Orders
    BY <2>1
  <2>3. /\ Cardinality(m) + Cardinality(l) = Cardinality(m \cup l) + Cardinality(m \cap l)
        /\ Cardinality(m \cup l) \in Nat /\ Cardinality(m \cap l) \in Nat
        /\ Cardinality(m) \in Nat /\ Cardinality(l) \in Nat
    BY <2>2, Together
  <2>4. /\ Cardinality(M) <= Cardinality(m) + Cardinality(changed)
        /\ Cardinality(L) <= Cardinality(l) + Cardinality(changed)
        /\ Cardinality(M) \in Nat /\ Cardinality(L) \in Nat /\ Cardinality(changed) \in Nat
    BY <1>8, <2>1, Outside
  <2>5. /\ Cardinality(m \cup l) <= Cardinality(D) /\ Cardinality(D) \in Nat
        /\ Cardinality(m \cap l) <= Cardinality(Shared) /\ Cardinality(Shared) \in Nat
    BY <1>8, <1>9, <1>10, <2>1, OfOrders, FS_Subset, FS_CardinalityType
  <2> QED
    BY <2>3, <2>4, <2>5
<1>14. Cardinality(F) <= Cardinality(E) + Cardinality(changed)
  BY <1>8, <1>11, Within
<1>15. Cardinality(D) + Cardinality(P) + Cardinality(E)
         \in Cardinality(In(Statuses)) - Cardinality(changed)
               .. Cardinality(In(Statuses)) + 2 * Cardinality(changed)
  <2>1. PICK d, e, p, k : /\ d = D \ changed /\ e = E \ changed /\ p = P \ changed
                          /\ k = In(Statuses) \ changed
    OBVIOUS
  <2>2. /\ d \in SUBSET Orders /\ e \in SUBSET Orders /\ p \in SUBSET Orders
        /\ d \cup e \in SUBSET Orders
        /\ d \cap e = {} /\ (d \cup e) \cap p = {} /\ (d \cup e) \cup p = k
    BY <1>12, <2>1
  <2>3. Cardinality({}) = 0
    BY FS_EmptySet
  <2>4. /\ Cardinality(d) + Cardinality(e) = Cardinality(d \cup e)
        /\ Cardinality(d) \in Nat /\ Cardinality(e) \in Nat
    <3>1. /\ Cardinality(d) + Cardinality(e) = Cardinality(d \cup e) + Cardinality(d \cap e)
          /\ Cardinality(d) \in Nat /\ Cardinality(e) \in Nat
          /\ Cardinality(d \cup e) \in Nat
      BY <2>2, Together
    <3>2. Cardinality(d \cap e) = 0
      BY <2>2, <2>3
    <3> QED
      BY <3>1, <3>2
  <2>5. /\ Cardinality(d \cup e) + Cardinality(p) = Cardinality(k)
        /\ Cardinality(p) \in Nat /\ Cardinality(d \cup e) \in Nat
    <3>1. PICK b \in SUBSET Orders : b = d \cup e /\ b \cap p = {} /\ b \cup p = k
      BY <2>2
    <3>2. /\ Cardinality(b) + Cardinality(p) = Cardinality(b \cup p) + Cardinality(b \cap p)
          /\ Cardinality(p) \in Nat /\ Cardinality(b) \in Nat
          /\ Cardinality(b \cup p) \in Nat
      BY <2>2, <3>1, Together
    <3>3. Cardinality(b \cap p) = 0
      BY <2>3, <3>1
    <3>4. Cardinality(b \cup p) = Cardinality(k)
      BY <3>1, Zenon
    <3>5. Cardinality(d \cup e) = Cardinality(b)
      BY <3>1, Zenon
    <3> QED
      BY <3>2, <3>3, <3>4, <3>5
  <2>6. /\ Cardinality(d) <= Cardinality(D)
        /\ Cardinality(D) <= Cardinality(d) + Cardinality(changed)
        /\ Cardinality(e) <= Cardinality(E)
        /\ Cardinality(E) <= Cardinality(e) + Cardinality(changed)
        /\ Cardinality(p) <= Cardinality(P)
        /\ Cardinality(P) <= Cardinality(p) + Cardinality(changed)
        /\ Cardinality(D) \in Nat /\ Cardinality(E) \in Nat /\ Cardinality(P) \in Nat
        /\ Cardinality(changed) \in Nat
    BY <1>8, <2>1, Outside
  <2>7. /\ Cardinality(In(Statuses)) = Cardinality(k) + Cardinality(changed)
        /\ Cardinality(k) \in Nat /\ Cardinality(In(Statuses)) \in Nat
    BY <1>8, <2>1, Outside
  <2> QED
    BY <2>4, <2>5, <2>6, <2>7
<1> QED
  BY <1>2, <1>3, <1>4, <1>5, <1>6, <1>7, <1>13, <1>14, <1>15 DEF Shared

LEMMA RevenueSummaryAgrees ==
  ASSUME ReportInv, NEW args, NEW got, NEW changed, NEW moved,
         AnswerFits("revenueSummary", args, got, changed, moved),
         DOMAIN got = Statements["revenueSummary"]
  PROVE  LET money == Sum(Revenue, changed) IN
         /\ got["current"] \in got["month"] - money .. got["month"] + money
         /\ got["month"] <= got["total"].revenue + money
<1>1. /\ FigureFits("current", args, changed, got["current"])
      /\ FigureFits("month", args, changed, got["month"])
      /\ FigureFits("total", args, changed, got["total"])
  BY DEF AnswerFits, Statements, Figures
<1>2. PICK N \in SUBSET Orders :
          got["current"] = Sum(Revenue, N) /\ Saw("current", args, changed, N)
  BY <1>1, FigureCounts DEF Amount
<1>3. PICK M \in SUBSET Orders :
          got["month"] = Sum(Revenue, M) /\ Saw("month", args, changed, M)
  BY <1>1, FigureCounts DEF Amount
<1>4. PICK T \in SUBSET Orders :
          got["total"].revenue = Sum(Revenue, T) /\ Saw("total", args, changed, T)
  BY <1>1, FigureCounts DEF Amount
<1>5. \A o \in Orders \ changed : o \in N <=> o \in M
  <2>1. MonthTyped(args.this) /\ ShopTyped
    BY DEF AnswerFits, ArgsFit, ReportInv
  <2>2. RangeTyped(args.this) /\ TimeOf(args.this.from) <= TimeOf(args.this.to)
    BY <2>1 DEF MonthTyped
  <2> QED
    BY <1>2, <1>3, <2>1, <2>2, SameRange DEF Saw, IsCounted
<1>6. M \ changed \subseteq T
  BY <1>3, <1>4 DEF Saw, IsCounted, DeliveredIn
<1>7. changed \in SUBSET Orders /\ N \ changed \subseteq M /\ M \ changed \subseteq N
  BY <1>5 DEF AnswerFits, In
<1>8. /\ Sum(Revenue, N) <= Sum(Revenue, M) + Sum(Revenue, changed)
      /\ Sum(Revenue, M) <= Sum(Revenue, N) + Sum(Revenue, changed)
      /\ Sum(Revenue, M) <= Sum(Revenue, T) + Sum(Revenue, changed)
      /\ Sum(Revenue, N) \in Nat /\ Sum(Revenue, M) \in Nat /\ Sum(Revenue, T) \in Nat
      /\ Sum(Revenue, changed) \in Nat
  BY <1>6, <1>7, Within
<1> QED
  BY <1>2, <1>3, <1>4, <1>8

LEMMA PurchasesAgree ==
  ASSUME ReportInv, NEW args, NEW got, NEW changed, NEW moved,
         AnswerFits("purchases", args, got, changed, moved),
         DOMAIN got = Statements["purchases"]
  PROVE  LET slack == Cardinality(changed)
             light == Sum(got["light"], DOMAIN got["light"]) IN
         /\ light \in got["all"] - slack .. got["all"] + slack
         /\ args.type # "OTHER" =>
               got["page"] \in got["light"][args.type] - slack .. got["light"][args.type] + slack
<1>1. /\ FigureFits("page", args, changed, got["page"])
      /\ FigureFits("all", args, changed, got["all"])
      /\ LightFits(changed, got["light"])
  BY DEF AnswerFits, Statements, Figures
<1>2. PICK P \in SUBSET Orders :
          got["page"] = Cardinality(P) /\ Saw("page", args, changed, P)
  BY <1>1, FigureCounts DEF Amount
<1>3. PICK A \in SUBSET Orders :
          got["all"] = Cardinality(A) /\ Saw("all", args, changed, A)
  BY <1>1, FigureCounts DEF Amount
<1>4. PICK g \in [Orders -> UIStatuses \cup {"NONE"}] :
          /\ got["light"] = [u \in UIStatuses |-> Cardinality({o \in Orders : g[o] = u})]
          /\ \A o \in Orders \ changed : g[o] = UIStatus(orders[o].status)
  BY <1>1 DEF LightFits
<1> DEFINE G == {o \in Orders : g[o] \in UIStatuses}
           With(u) == {o \in Orders : g[o] = u}
<1>5. changed \in SUBSET Orders
  BY DEF AnswerFits, In
<1>6. \A o \in Orders : orders[o].status \in Statuses \cup {"NONE"}
  BY DEF ReportInv, ShopTyped, OrderFits, Rows
<1>7. "NONE" \notin UIStatuses /\ UIStatus("NONE") = "NONE"
  BY DEF UIStatuses, UIStatus, Statuses, Ended, Pending
<1>8. Sum(got["light"], DOMAIN got["light"]) = Cardinality(G)
  <2>1. IsFiniteSet(Orders) /\ \A o \in Orders : One[o] = 1 /\ One[o] \in Int
    BY ReportsAssumption, FiguresAreNumbers
  <2>2. IsFiniteSet(UIStatuses)
    <3>1. UIStatuses = {"CANCELED", "PENDING", "PROCESSING", "SHIPPED", "DELIVERED"}
      BY DEF UIStatuses, UIStatus, Statuses, Ended, Pending
    <3>2. ASSUME NEW S, IsFiniteSet(S), NEW x PROVE IsFiniteSet(S \cup {x})
      BY <3>2, FS_AddElement
    <3>3. IsFiniteSet({} \cup {"CANCELED"})
      BY <3>2, FS_EmptySet, Zenon
    <3>4. IsFiniteSet(({} \cup {"CANCELED"}) \cup {"PENDING"})
      BY <3>2, <3>3, Zenon
    <3>5. IsFiniteSet((({} \cup {"CANCELED"}) \cup {"PENDING"}) \cup {"PROCESSING"})
      BY <3>2, <3>4, Zenon
    <3>6. IsFiniteSet(((({} \cup {"CANCELED"}) \cup {"PENDING"}) \cup {"PROCESSING"})
                         \cup {"SHIPPED"})
      BY <3>2, <3>5, Zenon
    <3>7. IsFiniteSet((((({} \cup {"CANCELED"}) \cup {"PENDING"}) \cup {"PROCESSING"})
                         \cup {"SHIPPED"}) \cup {"DELIVERED"})
      BY <3>2, <3>6, Zenon
    <3>8. UIStatuses = (((({} \cup {"CANCELED"}) \cup {"PENDING"}) \cup {"PROCESSING"})
                         \cup {"SHIPPED"}) \cup {"DELIVERED"}
      BY <3>1
    <3> QED
      BY <3>7, <3>8
  <2>3. \A u : SumFunctionOnSet(One, With(u)) = Cardinality(With(u))
    <3> SUFFICES ASSUME NEW u PROVE SumFunctionOnSet(One, With(u)) = Cardinality(With(u))
      OBVIOUS
    <3>1. IsFiniteSet(With(u)) /\ \A o \in With(u) : One[o] = 1
      BY <2>1, OfOrders
    <3> QED
      BY <3>1, SumCounts
  <2>4. got["light"] = [u \in UIStatuses |-> SumFunctionOnSet(One, With(u))]
        /\ DOMAIN got["light"] = UIStatuses
    <3>1. got["light"] = [u \in UIStatuses |-> Cardinality(With(u))]
      BY <1>4
    <3> HIDE DEF With
    <3> QED
      BY <2>3, <3>1
  <2>5. SumFunctionOnSet([u \in UIStatuses |-> SumFunctionOnSet(One, With(u))], UIStatuses)
          = SumFunctionOnSet(One, G)
    BY <2>1, <2>2, SumOfGroups
  <2>6. SumFunctionOnSet(One, G) = Cardinality(G)
    <3>1. IsFiniteSet(G) /\ \A o \in G : One[o] = 1
      BY <2>1, OfOrders
    <3> QED
      BY <3>1, SumCounts
  <2> QED
    BY <2>4, <2>5, <2>6 DEF Sum
<1>9. \A o \in Orders \ changed : o \in G <=> o \in A
  <2> SUFFICES ASSUME NEW o \in Orders \ changed PROVE o \in G <=> o \in A
    OBVIOUS
  <2>1. o \in A <=> orders[o].status # "NONE"
    BY <1>3 DEF Saw, IsCounted
  <2>2. o \in G <=> UIStatus(orders[o].status) \in UIStatuses
    BY <1>4
  <2> QED
    BY <1>6, <1>7, <2>1, <2>2 DEF UIStatuses
<1>10. G \in SUBSET Orders /\ G \ changed \subseteq A /\ A \ changed \subseteq G
  BY <1>9
<1>11. /\ Cardinality(G) <= Cardinality(A) + Cardinality(changed)
       /\ Cardinality(A) <= Cardinality(G) + Cardinality(changed)
       /\ Cardinality(G) \in Nat /\ Cardinality(A) \in Nat /\ Cardinality(changed) \in Nat
  <2> HIDE DEF G
  <2> QED
    BY <1>5, <1>10, Within
<1>12. ASSUME args.type # "OTHER"
       PROVE  got["page"] \in got["light"][args.type] - Cardinality(changed)
                                .. got["light"][args.type] + Cardinality(changed)
  <2>1. args.type \in UIStatuses
    BY <1>12 DEF AnswerFits, ArgsFit
  <2>2. got["light"][args.type] = Cardinality(With(args.type))
    BY <1>4, <2>1
  <2>3. \A o \in Orders \ changed : o \in P <=> o \in With(args.type)
    <3> SUFFICES ASSUME NEW o \in Orders \ changed PROVE o \in P <=> o \in With(args.type)
      OBVIOUS
    <3>1. o \in P <=> orders[o].status # "NONE" /\ UIStatus(orders[o].status) = args.type
      BY <1>2, <1>12 DEF Saw, IsCounted
    <3>2. o \in With(args.type) <=> UIStatus(orders[o].status) = args.type
      BY <1>4
    <3> QED
      BY <1>7, <2>1, <3>1, <3>2
  <2>4. With(args.type) \in SUBSET Orders
        /\ P \ changed \subseteq With(args.type) /\ With(args.type) \ changed \subseteq P
    BY <2>3
  <2> HIDE DEF With
  <2>5. /\ Cardinality(P) <= Cardinality(With(args.type)) + Cardinality(changed)
        /\ Cardinality(With(args.type)) <= Cardinality(P) + Cardinality(changed)
        /\ Cardinality(P) \in Nat /\ Cardinality(With(args.type)) \in Nat
        /\ Cardinality(changed) \in Nat
    BY <1>5, <2>4, Within
  <2> QED
    BY <1>2, <2>2, <2>5
<1> HIDE DEF G
<1>13. Sum(got["light"], DOMAIN got["light"])
         \in got["all"] - Cardinality(changed) .. got["all"] + Cardinality(changed)
  BY <1>3, <1>8, <1>11
<1> QED
  BY <1>12, <1>13

\* The figures of one answer disagree only about the orders that changed
\* meanwhile, however these changed.
THEOREM AgreeCorrect == ReportSpec => []FiguresAgree
<1>1. ASSUME ReportInv PROVE FiguresAgree
  <2> SUFFICES ASSUME Complete PROVE FiguresAgree
    BY DEF FiguresAgree
  <2>1. PICK kind, args, got, changed, moved :
            /\ report = [kind |-> kind, args |-> args, got |-> got,
                         changed |-> changed, moved |-> moved]
            /\ AnswerFits(kind, args, got, changed, moved)
            /\ DOMAIN got = Statements[kind]
    BY <1>1, WhenComplete
  <2>2. /\ report.kind = kind /\ report.args = args /\ report.got = got
        /\ report.changed = changed
    BY <2>1
  <2>3. kind = "orderStats" /\ args.from % DayLength <= args.to % DayLength =>
            got["days"] \in got["count"] - Cardinality(changed)
                              .. got["count"] + Cardinality(changed)
    BY <1>1, <2>1, OrderStatsAgree DEF TimeOf
  <2>4. kind = "orderSummary" =>
            /\ got["deliveredMonth"] + got["deliveredLast"]
                 <= got["delivered"] + 2 * Cardinality(changed)
                      + Cardinality({o \in Orders : orders[o].completed = args.this.from})
            /\ got["canceledMonth"] <= got["canceled"] + Cardinality(changed)
            /\ got["delivered"] + got["pending"] + got["canceled"]
                 \in Cardinality(In(Statuses)) - Cardinality(changed)
                       .. Cardinality(In(Statuses)) + 2 * Cardinality(changed)
    BY <1>1, <2>1, OrderSummaryAgrees
  <2>5. kind = "revenueSummary" =>
            /\ got["current"] \in got["month"] - Sum(Revenue, changed)
                                    .. got["month"] + Sum(Revenue, changed)
            /\ got["month"] <= got["total"].revenue + Sum(Revenue, changed)
    BY <1>1, <2>1, RevenueSummaryAgrees
  <2>6. kind = "purchases" =>
            /\ Sum(got["light"], DOMAIN got["light"])
                 \in got["all"] - Cardinality(changed) .. got["all"] + Cardinality(changed)
            /\ args.type # "OTHER" =>
                  got["page"] \in got["light"][args.type] - Cardinality(changed)
                                    .. got["light"][args.type] + Cardinality(changed)
    BY <1>1, <2>1, PurchasesAgree
  <2> QED
    BY <2>2, <2>3, <2>4, <2>5, <2>6 DEF FiguresAgree
<1> QED
  BY <1>1, AlwaysReportInv, PTL
=============================================================================
