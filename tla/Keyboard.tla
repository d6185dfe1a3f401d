------------------------------ MODULE Keyboard ------------------------------
(***************************************************************************)
(* The keys of the box, app/keyboard.c: a timer scans the pins every 50 ms  *)
(* and ReadKeyStatus drives a machine of five states per key, whose events  *)
(* are posted to the app task.  Pins change at any time between scans; how  *)
(* soon a released key may be pressed again is a parameter.  AppTask         *)
(* composes these actions with the task the events go to.                   *)
(***************************************************************************)
EXTENDS Integers, Sequences, FiniteSets, SequencesExt

CONSTANTS
    Keys,                 \* in the order they are scanned, a sequence
    KEY_EVENT_LONG_COUNT, \* scans of a long press, 100 in the code
    MinRelease            \* scans that see a key up before it goes down again

ASSUME KeysAssumption ==
    /\ Keys \in Seq(ToSet(Keys))
    /\ \A m, n \in DOMAIN Keys : Keys[m] = Keys[n] => m = n
ASSUME CountFitsItsByte == KEY_EVENT_LONG_COUNT \in 1..255
ASSUME MinReleaseAssumption == MinRelease \in Nat

VARIABLES
    pressed, \* the keys whose pin is low
    key,     \* KeyStatus, KeyCount and KeyEvent of each key
    posted,  \* the key events the last scan posted, in order
    held,    \* scans in a row that have seen the key down
    up,      \* scans in a row that have seen it up
    last     \* the last event posted for the key

KeySet == ToSet(Keys)

Statuses == {"KEY_NULL", "KEY_SURE", "KEY_UP", "KEY_DOWN", "KEY_LONG"}
Events == {"NULL", "UP", "DOWN", "LONG"}

keyVars == <<pressed, key, posted, held, up, last>>

\* keyboard_gpio_init.  Nothing was posted before, and the keys were at rest.
KeyInit == /\ pressed = {}
           /\ key = [k \in KeySet |->
                       [status |-> "KEY_NULL", count |-> 0, event |-> "NULL"]]
           /\ posted = <<>>
           /\ held = [k \in KeySet |-> 0]
           /\ up = [k \in KeySet |-> MinRelease]
           /\ last = [k \in KeySet |-> "NULL"]

Press(k) == /\ k \notin pressed
            /\ up[k] >= MinRelease
            /\ pressed' = pressed \cup {k}
            /\ UNCHANGED <<key, posted, held, up, last>>

Release(k) == /\ k \in pressed
              /\ pressed' = pressed \ {k}
              /\ UNCHANGED <<key, posted, held, up, last>>

To(s, status, event) == [s EXCEPT !.status = status, !.event = event]

\* Mutant of FromDown: the count is compared before it is raised.
FromDownLate(s, down) ==
    IF ~down THEN To(s, "KEY_UP", "UP")
    ELSE [To(s, IF s.count >= KEY_EVENT_LONG_COUNT THEN "KEY_LONG" ELSE "KEY_DOWN",
                IF s.count >= KEY_EVENT_LONG_COUNT THEN "LONG" ELSE "NULL")
          EXCEPT !.count = @ + 1]

\* A pressed key is released, or becomes a long press.
FromDown(s, down) ==
    LET long == s.count + 1 >= KEY_EVENT_LONG_COUNT
    IN IF ~down THEN To(s, "KEY_UP", "UP")
       ELSE [To(s, IF long THEN "KEY_LONG" ELSE "KEY_DOWN",
                   IF long THEN "LONG" ELSE "NULL") EXCEPT !.count = @ + 1]

\* A long press ends without an event.
FromLong(s, down) == To(s, IF down THEN "KEY_LONG" ELSE "KEY_UP", "NULL")

\* Down again already: nothing is assigned, and the event stays as it is.
FromUp(s, down) ==
    IF down THEN s ELSE [To(s, "KEY_NULL", "NULL") EXCEPT !.count = 0]

\* One case of ReadKeyStatus's switch.
Scanned(s, down) ==
    CASE s.status = "KEY_NULL" ->
            To(s, IF down THEN "KEY_SURE" ELSE "KEY_NULL", "NULL")
      [] s.status = "KEY_SURE" ->
            IF down THEN [To(s, "KEY_DOWN", "DOWN") EXCEPT !.count = 0]
            ELSE To(s, "KEY_NULL", "NULL")
      [] s.status = "KEY_DOWN" -> FromDown(s, down)
      [] s.status = "KEY_LONG" -> FromLong(s, down)
      [] s.status = "KEY_UP" -> FromUp(s, down)

\* The numbers of S from the least to the greatest.
InOrder(S) == [i \in 1..Cardinality(S) |->
                 CHOOSE n \in S : Cardinality({m \in S : m <= n}) = i]

Lesser(m, n) == IF m < n THEN m ELSE n

\* ReadKeyStatus over all keys, in one run of the timer's callback.
Scan ==
    /\ key' = [k \in KeySet |-> Scanned(key[k], k \in pressed)]
    /\ posted' = LET told == InOrder({n \in DOMAIN Keys :
                                         key'[Keys[n]].event # "NULL"})
                 IN [i \in DOMAIN told |->
                       <<Keys[told[i]], key'[Keys[told[i]]].event>>]
    /\ last' = [k \in KeySet |->
                  IF key'[k].event = "NULL" THEN last[k] ELSE key'[k].event]
    /\ held' = [k \in KeySet |-> IF k \in pressed
                  THEN Lesser(held[k] + 1, KEY_EVENT_LONG_COUNT + 2) ELSE 0]
    /\ up' = [k \in KeySet |-> IF k \in pressed
                THEN 0 ELSE Lesser(up[k] + 1, MinRelease)]
    /\ UNCHANGED pressed

-----------------------------------------------------------------------------
KeyTypeOK ==
    /\ pressed \subseteq KeySet
    /\ key \in [KeySet -> [status : Statuses, event : Events,
                           count : 0..KEY_EVENT_LONG_COUNT]]
    /\ ToSet(posted) \subseteq KeySet \X (Events \ {"NULL"})
    /\ held \in [KeySet -> 0..KEY_EVENT_LONG_COUNT + 2]
    /\ up \in [KeySet -> 0..MinRelease]
    /\ last \in [KeySet -> Events]

\* app/keyboard.c:105-193.  The last event of a key that is down tells for how
\* long: none yet at the first scan that sees it down, DOWN from the second
\* on, LONG when the count of a long press is full.  A key that is up has had
\* its UP, or its LONG.
EventsTellTheHold ==
    \A k \in KeySet :
        CASE held[k] <= 1 -> last[k] # "DOWN"
          [] held[k] = KEY_EVENT_LONG_COUNT + 2 -> last[k] = "LONG"
          [] OTHER -> last[k] = "DOWN"
=============================================================================
