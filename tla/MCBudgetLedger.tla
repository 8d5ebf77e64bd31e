--------------------------- MODULE MCBudgetLedger ---------------------------
(***************************************************************************)
(* Small instances of the budget ledger for TLC: "a1" and "a2" execute     *)
(* steps of one order, "b1" a step of its child.                           *)
(***************************************************************************)
EXTENDS BudgetLedgerProperties

MCOrderOf == [a \in Attempt |-> IF a = "b1" THEN "child" ELSE "parent"]
MCCap == [a \in Attempt |-> IF a = "a1" THEN 1 ELSE 2]
=============================================================================
