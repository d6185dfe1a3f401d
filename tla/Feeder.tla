------------------------------- MODULE Feeder -------------------------------
(***************************************************************************)
(* What the feed motor promises, whatever tasks, timers and queues make of  *)
(* it: a run is asked for with a number of portions while none is in        *)
(* progress, the motor starts once for the run, turns for one period per    *)
(* portion, and stops with the last one.  hal/control.c, feed_food and      *)
(* feedfood_timer_callback, is meant to implement it.                       *)
(***************************************************************************)
EXTENDS Naturals

CONSTANT MaxPortions  \* the largest run, 255 for a uint8_t counter

VARIABLES
    remaining,  \* portions the run still owes
    motor       \* the motor turns

vars == <<remaining, motor>>

Init == remaining = 0 /\ motor = FALSE

Accept == /\ remaining = 0
          /\ remaining' \in 1..MaxPortions
          /\ motor' = motor

Start == /\ remaining > 0
         /\ ~motor
         /\ motor' = TRUE
         /\ remaining' = remaining

Portion == /\ motor
           /\ remaining > 1
           /\ remaining' = remaining - 1
           /\ motor' = motor

Finish == /\ motor
          /\ remaining = 1
          /\ remaining' = 0
          /\ motor' = FALSE

Next == Accept \/ Start \/ Portion \/ Finish

\* What the feeder never does, and what it does in the end.
SafeSpec == Init /\ [][Next]_vars
Spec == SafeSpec /\ WF_vars(Start) /\ WF_vars(Portion \/ Finish)
=============================================================================
