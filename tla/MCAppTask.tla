----------------------------- MODULE MCAppTask -----------------------------
(* The two keys, in the order of T_KEY_VALUE. *)
EXTENDS AppTask

TwoKeys == <<"config", "feed">>
=============================================================================
