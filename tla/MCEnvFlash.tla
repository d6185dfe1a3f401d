----------------------------- MODULE MCEnvFlash -----------------------------
(* Two variables of two values in three sectors of two nodes, for TLC. *)
EXTENDS EnvFlash
=============================================================================
