----------------------------- MODULE StockBook -----------------------------
(***************************************************************************)
(* What the stock-moving requests promise, without their steps: a request  *)
(* posts all its log rows and all its stock movements at once, or nothing. *)
(* The rows of one posting concern one order, one row per warehouse, under *)
(* reference codes no row of the table has.                                *)
(***************************************************************************)
EXTENDS StockLogs

VARIABLES stock,      \* Stock: cell -> quantity, for the rows that exist
          exportLogs, \* ExportLog rows
          importLogs  \* ImportLog rows of type RETURN

bookVars == <<stock, exportLogs, importLogs>>

BookInit ==
    /\ stock = InitStock
    /\ exportLogs = {}
    /\ importLogs = {}

Posted(table, batch) ==
    /\ batch # {}
    /\ OneRowPerWarehouse(batch)
    /\ \A r1, r2 \in batch : r1.order = r2.order
    /\ CanInsert(batch, table)

\* Goods leave: the new export rows and the decrements are one step.
Ship ==
    LET batch == exportLogs' \ exportLogs IN
    /\ Posted(exportLogs, batch)
    /\ exportLogs' = exportLogs \cup batch
    /\ stock' = [c \in DOMAIN stock |-> stock[c] - Moved(batch, c)]
    /\ UNCHANGED importLogs

\* Goods come back: the new import rows and the increments are one step.
Restock ==
    LET batch == importLogs' \ importLogs IN
    /\ Posted(importLogs, batch)
    /\ importLogs' = importLogs \cup batch
    /\ stock' = [c \in DOMAIN stock |-> stock[c] + Moved(batch, c)]
    /\ UNCHANGED exportLogs

BookNext == Ship \/ Restock

BookSpec == BookInit /\ [][BookNext]_bookVars
=============================================================================
