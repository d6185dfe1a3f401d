------------------------------ MODULE MCTimers ------------------------------
(***************************************************************************)
(* The parts that live by the clock and share no state: a detector's        *)
(* holdoff (HoldoffTimer), the periodic checks of the timer task            *)
(* (DeviceStatus, Battery) and its weighing against the app task's tare     *)
(* (Weight).  A behaviour watches one of them and leaves the others as they *)
(* started, so TLC explores the sum of their states and not the product.    *)
(***************************************************************************)
EXTENDS HoldoffTimer, DeviceStatus, Battery, Weight

VARIABLE watched

Parts == {"holdoff", "status", "battery", "scale"}

\* Loads: the bowl, the bowl with food, and far more than the scale takes.
ThreeLoads == {1000, 24150, 1500000}

\* What is left of a conversion after a cut: too little, and all ones.
TwoStrays == {7, 16777215}

\* Means of samples that double to voltages on, between, below and above the
\* rows of battery_cap_map.
AroundTheRows == {1645, 1655, 1700, 1725, 1730, 1750, 1760, 1800, 1850, 1855,
                  1900, 1950, 2000, 2050, 2055, 2100, 2105}

timersVars == <<watched, vars, statusVars, batteryVars, weightVars>>

TimersInit == /\ watched \in Parts
              /\ Init
              /\ StatusInit
              /\ BatteryInit
              /\ WeightInit

TimersNext ==
    /\ UNCHANGED watched
    /\ \/ /\ watched = "holdoff"
          /\ Next
          /\ UNCHANGED <<statusVars, batteryVars, weightVars>>
       \/ /\ watched = "status"
          /\ Change \/ Check
          /\ UNCHANGED <<vars, batteryVars, weightVars>>
       \/ /\ watched = "battery"
          /\ Measure
          /\ UNCHANGED <<vars, statusVars, weightVars>>
       \/ /\ watched = "scale"
          /\ WeightNext
          /\ UNCHANGED <<vars, statusVars, batteryVars>>

TimersSpec == TimersInit /\ [][TimersNext]_timersVars

\* The state of every part is well typed; of the holdoff, with its deadline.
TimersTypeOK == /\ HoldoffInv
                /\ StatusTypeOK
                /\ WeightTypeOK
=============================================================================
