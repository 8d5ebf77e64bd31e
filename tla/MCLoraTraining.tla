--------------------------- MODULE MCLoraTraining ---------------------------
(* Training runs for TLC; the runs are interchangeable only without liveness. *)
EXTENDS LoraTrainingProperties
=============================================================================
