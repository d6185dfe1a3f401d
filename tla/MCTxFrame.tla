----------------------------- MODULE MCTxFrame -----------------------------
(* The two tasks with frames of two lengths each. *)
EXTENDS TxFrame

TwoTasks == {"app", "control"}

\* app: an acknowledgement, DPID_FEED_NUM's, of a whole value;
\* control: DPID_REALTIME_DATA "water low" and a voice prompt.
MixedRequests == [t \in TwoTasks |->
    IF t = "app" THEN {mcu_dp_bool_update(236, TRUE)}
    ELSE {mcu_dp_enum_update(235, 2), module_play_voice(1)}]

\* Enough for a frame over the remains of another, by the same task or not.
ThreeCalls == [t \in TwoTasks |-> IF t = "app" THEN 2 ELSE 1]
=============================================================================
