---------------------------- MODULE HoldoffTimer ----------------------------
(***************************************************************************)
(* The holdoff of a presence detector: utils.c's expired and countdown on a *)
(* 32-bit clock, as the handlers FEED_FOOD_DET_HANDLER and                  *)
(* FEED_WATER_DET_HANDLER of hal/control.c use them.  The two handlers have *)
(* a timer each and are alike; this is one of them.                         *)
(***************************************************************************)
EXTENDS Integers

CONSTANTS
    Modulus,  \* values of a uint32_t, 2^32 in the code
    Period,   \* portTICK_PERIOD_MS, 10 in the code
    Holdoff,  \* milliseconds of a holdoff, 30 * 60 * 1000 in the code
    MaxTicks  \* bound of the model: ticks the device is up

ASSUME ModulusAssumption == Modulus \in Nat \ {0}
ASSUME PeriodAssumption == Period \in Nat \ {0}
ASSUME HoldoffAssumption == Holdoff \in Nat /\ Holdoff < Modulus
ASSUME MaxTicksAssumption == MaxTicks \in Nat

VARIABLES
    ticks,     \* os_sys_tick_get()
    end_time,  \* the static Timer of the handler
    enabled,   \* g_auto_feed_flag
    fed        \* milliseconds of uptime at the last feeding, -1 before it

vars == <<ticks, end_time, enabled, fed>>

Uptime == ticks * Period

HAL_GetTimeMs == Uptime % Modulus

expired == HAL_GetTimeMs > end_time

\* Mutant of countdown: the timeout is taken for the deadline.
CountdownFromZero == Holdoff

\* InitTimer and countdown: the deadline.
countdown == (HAL_GetTimeMs + Holdoff) % Modulus

Init == /\ ticks = 0
        /\ end_time = 0
        /\ enabled = TRUE
        /\ fed = -1

Tick == /\ ticks < MaxTicks
        /\ ticks' = ticks + 1
        /\ UNCHANGED <<end_time, enabled, fed>>

\* Mutant of Detected: a refused detection starts the holdoff anew.
DetectedRestarts ==
    /\ enabled
    /\ end_time' = countdown
    /\ fed' = IF expired THEN Uptime ELSE fed
    /\ UNCHANGED <<ticks, enabled>>

\* The interrupt handler: feed unless a holdoff is running.
Detected == /\ enabled
            /\ expired
            /\ end_time' = countdown
            /\ fed' = Uptime
            /\ UNCHANGED <<ticks, enabled>>

\* control_set_auto_feed, which leaves a running holdoff alone.
SetAutoFeed == /\ enabled' \in BOOLEAN
               /\ UNCHANGED <<ticks, end_time, fed>>

Next == Tick \/ Detected \/ SetAutoFeed

Spec == Init /\ [][Next]_vars

-----------------------------------------------------------------------------
TypeOK == /\ ticks \in 0..MaxTicks
          /\ end_time \in 0..Modulus-1
          /\ enabled \in BOOLEAN
          /\ fed \in -1..Uptime

\* hal/control.c:379-390.  The deadline is that of the last feeding: a
\* detection the holdoff refuses, or switching the detectors off and on, does
\* not move it.
DeadlineOfLastFeeding ==
    end_time = IF fed < 0 THEN 0 ELSE (fed + Holdoff) % Modulus

HoldoffInv == TypeOK /\ DeadlineOfLastFeeding

\* hal/control.c:379-390.  Two feedings by the detector are more than a
\* holdoff apart.
HoldoffIsKept == [][fed' # fed /\ fed >= 0 => fed' - fed > Holdoff]_vars

\* hal/control.c:379-390.  Once the holdoff of the last feeding has passed the
\* detector feeds again: expired() does not go on refusing.
HoldoffIsOver == fed >= 0 /\ Uptime - fed > Holdoff => expired
=============================================================================
