----------------------------- MODULE MCScriptRun -----------------------------
(***************************************************************************)
(* Small instances of a script run for TLC.                                *)
(***************************************************************************)
EXTENDS ScriptRunProperties
=============================================================================
