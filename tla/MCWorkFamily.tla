---------------------------- MODULE MCWorkFamily ----------------------------
(***************************************************************************)
(* Small instances of a family for TLC: the parent "p" may be decomposed   *)
(* into "a" and "b", then into "c" with a step after it, or into nothing.  *)
(***************************************************************************)
EXTENDS WorkFamilyProperties

MCBrood ==
  [x \in Order \X Spec |->
     CASE x = <<"p", "first">>  -> {"a", "b"} \cap Order
       [] x = <<"p", "second">> -> {"c"} \cap Order
       [] OTHER                 -> {}]
MCPlans == [o \in Order |-> IF o = "p" THEN Spec \cup {Leaf} ELSE {Leaf}]
MCInstructions == [o \in Order |-> IF o = "p" THEN 1 ELSE 0]
=============================================================================
