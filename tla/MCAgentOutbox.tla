--------------------------- MODULE MCAgentOutbox ---------------------------
(***************************************************************************)
(* Small instances of the agent outbox for TLC.                            *)
(***************************************************************************)
EXTENDS AgentOutboxProperties
=============================================================================
