------------------------------ MODULE MCRxRing ------------------------------
(* Small rings for TLC: N and MaxBytes are set in the configuration. *)
EXTENDS RxRing
=============================================================================
