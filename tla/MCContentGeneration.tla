-------------------------- MODULE MCContentGeneration --------------------------
(* Instances of ContentGeneration for TLC. *)
EXTENDS ContentGeneration, TLC

CONSTANTS j1, j2

================================================================================
