----------------------------- MODULE MCChatTurn -----------------------------
(***************************************************************************)
(* A small instance of a chat turn for TLC: two calls that both need a     *)
(* confirmation, one of them with a recipient that keeps receipts.         *)
(***************************************************************************)
EXTENDS ChatTurnProperties
=============================================================================
