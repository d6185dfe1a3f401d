---------------------------- MODULE MCFeedSides ----------------------------
(***************************************************************************)
(* The feeding core of a device whose pump is only ever told to turn on.    *)
(* A behaviour uses both sides and tares the balance, or it only ever       *)
(* feeds, or only ever waters: in the last two nobody writes the port while *)
(* another task holds a copy of it.                                         *)
(***************************************************************************)
EXTENDS MCFeedControl

VARIABLE side

Unused == [food  |-> {"FEEDWATER"},
           water |-> {"FEEDFOOD_START"},
           both  |-> {}]

SidesInit == Init /\ side \in DOMAIN Unused

SidesNext == /\ Next
             /\ \A i \in 1..Len(queue') : queue'[i].subtype \notin Unused[side]
             /\ side = "both" \/ app' # "tare"
             /\ UNCHANGED side

SidesSpec == /\ SidesInit
             /\ [][SidesNext]_<<vars, side>>
             /\ Fairness

\* inc/peripheral/rtl876x_gpio.h:478-492 with hal/control.c:140-250.  While the
\* device only feeds, or only waters, and nobody tares the balance, every pin
\* has the level it was last written: a callback writes the port only when the
\* control task is not between its load and its store.
NoWriteIsLostAlone == side # "both" => NoWriteIsLost
=============================================================================
