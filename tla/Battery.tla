------------------------------ MODULE Battery ------------------------------
(***************************************************************************)
(* The battery level of drivers/battery.c: every 10 s the timer task        *)
(* averages 16 samples, doubles the mean, which is the voltage behind a     *)
(* divider, and looks the percentage up in battery_cap_map.  Outside the    *)
(* table battery_calc_percent returns a local it never assigned, and past   *)
(* the last row it reads one row too many: both are any value here.         *)
(***************************************************************************)
EXTENDS Naturals, Sequences, FiniteSetsExt

CONSTANT Samples  \* means of 16 samples, in millivolts

\* Twice a sample fits the 16 bits of the voltage.
MaxSample == 32767

ASSUME SamplesAssumption == Samples \subseteq 0..MaxSample

VARIABLES
    voltage,  \* battery_voltage * 2, the voltage looked up
    percent,  \* battery_percent
    measured  \* a first measurement was made

batteryVars == <<voltage, percent, measured>>

Row(v, c) == [voltage |-> v, cap |-> c]

battery_cap_map ==
    <<Row(3300, 0), Row(3400, 10), Row(3450, 20), Row(3500, 30),
      Row(3600, 40), Row(3700, 50), Row(3800, 60), Row(3900, 70),
      Row(4000, 80), Row(4100, 90), Row(4200, 100)>>

LEVEL_ITEMS == Len(battery_cap_map)

Lowest == battery_cap_map[1].voltage
Highest == battery_cap_map[LEVEL_ITEMS].voltage

\* Mutant of InRow: a voltage on a row's own value belongs to no interval.
InRowOpen(v, i) ==
    battery_cap_map[i].voltage < v /\ v < battery_cap_map[i + 1].voltage

\* The test of battery_calc_percent's loop on row i.
InRow(v, i) ==
    battery_cap_map[i].voltage < v /\ v <= battery_cap_map[i + 1].voltage

\* The values battery_calc_percent may return: the cap of the interval the
\* voltage is in, or whatever the local held.
Percents(v) ==
    LET rows == {i \in 1..LEVEL_ITEMS - 1 : InRow(v, i)}
    IN IF rows # {} THEN {battery_cap_map[i].cap : i \in rows} ELSE 0..255

BatteryInit == /\ voltage = 0
               /\ percent = 0
               /\ measured = FALSE

\* battery_timer_callback, up to the message for the app task.
Measure ==
    \E mean \in Samples :
        /\ voltage' = mean * 2
        /\ percent' \in Percents(mean * 2)
        /\ measured' = TRUE

-----------------------------------------------------------------------------
InTable == measured /\ Lowest < voltage /\ voltage <= Highest

\* drivers/battery.c:207-222.  In the range of the table the percentage is that
\* of the highest row below the voltage: never more than it has earned, and it
\* does not rise as the voltage falls.
LevelIsEarned ==
    InTable => percent = Max({battery_cap_map[i].cap : i \in
                  {j \in 1..LEVEL_ITEMS : battery_cap_map[j].voltage < voltage}})
=============================================================================
