---------------------------- MODULE MCWorkOrder ----------------------------
(***************************************************************************)
(* Small instances of the work-order runtime for TLC: the plans' steps     *)
(* stand side by side, in a chain, or two of them join in a third.         *)
(***************************************************************************)
EXTENDS WorkOrderProperties

NoDeps == [k \in Key |-> {}]
Chain  == [k \in Key |-> IF k = "b" THEN {"a"} ELSE {}]
FanIn  == [k \in Key |-> IF k = "c" THEN {"a", "b"} ELSE {}]
=============================================================================
