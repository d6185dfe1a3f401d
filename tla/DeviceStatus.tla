---------------------------- MODULE DeviceStatus ----------------------------
(***************************************************************************)
(* The check of hal/control.c's device_status_check_callback: every 5 s the *)
(* timer task looks at the water level and at the feed chute and has the    *)
(* control task report what is wrong, at once and then once a minute.       *)
(***************************************************************************)
EXTENDS Naturals

CONSTANTS
    Conditions, \* what is looked at: low water, a stuck chute
    Ratio       \* EXCEPTION_REPORT_FREQ / EXCEPTION_CHECK_FREQ, 12 in the code

ASSUME RatioAssumption == Ratio \in 1..255

VARIABLES
    high,     \* conditions whose pin is high
    count,    \* water_level_count and stuck_count
    reported, \* conditions the last check posted a message for
    seen,     \* conditions that were high at the last check
    since     \* checks since a condition was last reported, Ratio at most

statusVars == <<high, count, reported, seen, since>>

StatusInit == /\ high = {}
              /\ count = [c \in Conditions |-> 0]
              /\ reported = {}
              /\ seen = {}
              /\ since = [c \in Conditions |-> 0]

\* The world: water runs low or is poured in, food gets stuck or loose.
Change == /\ high' \in SUBSET Conditions
          /\ UNCHANGED <<count, reported, seen, since>>

NextCountKept(c) == IF c \in high THEN (count[c] + 1) % Ratio ELSE count[c]
\* Mutant of NextCount: the count is not brought back to zero.
NextCountWide(c) == IF c \in high THEN (count[c] + 1) % 256 ELSE 0

\* count++ and the remainder, or the reset.
NextCount(c) == IF c \in high THEN (count[c] + 1) % Ratio ELSE 0

\* device_status_check_callback.
Check ==
    /\ reported' = {c \in high : count[c] = 0}
    /\ count' = [c \in Conditions |-> NextCount(c)]
    /\ seen' = high
    /\ since' = [c \in Conditions |->
                   IF c \in reported' THEN 0
                   ELSE IF since[c] < Ratio THEN since[c] + 1 ELSE Ratio]
    /\ UNCHANGED high

StatusSpec == StatusInit /\ [][Change \/ Check]_statusVars

-----------------------------------------------------------------------------
StatusTypeOK == /\ high \subseteq Conditions
                /\ count \in [Conditions -> 0..Ratio-1]
                /\ reported \subseteq seen
                /\ seen \subseteq Conditions
                /\ since \in [Conditions -> 0..Ratio]

\* hal/control.c:261-298.  A condition is reported exactly when it was not
\* there at the last check, however its pin came and went before, and while it
\* lasts every Ratio checks, no fewer and no more.
ReportsAreDue ==
    [][Check => \A c \in seen' :
                   c \in reported' <=> c \notin seen \/ since[c] = Ratio - 1]_statusVars
=============================================================================
