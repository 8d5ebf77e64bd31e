-------------------------- MODULE MCImageGeneration --------------------------
(* The image studio for TLC: the instances are given by the configurations. *)
EXTENDS ImageGenerationProperties
=============================================================================
