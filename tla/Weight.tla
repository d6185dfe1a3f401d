------------------------------- MODULE Weight -------------------------------
(***************************************************************************)
(* The scale of drivers/hx711.c.  A long press of the feed key makes the    *)
(* app task take the tare (Get_Maopi): it clears Weight_Maopi, adds up some *)
(* readings in it and divides.  Every 5 s the timer task weighs (Get_Weight)*)
(* and reports.  The delays of both are busy waits, so the app task cannot  *)
(* disturb a weighing, and a weighing may come between any two steps of a   *)
(* tare: also between two clock pulses of a reading, whose remaining bits   *)
(* are then those of another conversion.                                    *)
(***************************************************************************)
EXTENDS Naturals

CONSTANTS
    Loads,  \* readings of what may lie on the scale
    Strays, \* readings that an interrupted one may end with
    Reads   \* readings of a tare and of a weighing, 5 in the code

\* A reading has 24 bits.
MaxReading == 16777215

ASSUME LoadsAssumption == Loads \subseteq 0..MaxReading /\ Loads # {}
ASSUME StraysAssumption == Strays \subseteq 0..MaxReading /\ Strays # {}
ASSUME ReadsAssumption == Reads \in 1..255   \* a sum of them fits 32 bits

MAX_WEIGHT == 5000

VARIABLES
    load,         \* what lies on the scale, as a reading of it
    Weight_Maopi, \* the tare, or the sum it is made of
    tare,         \* where Get_Maopi is
    done,         \* readings it has added up
    sample,       \* the conversion it is clocking out
    cut,          \* a weighing came between its clock pulses
    Weight_Shiwu, \* the last weight reported
    tally,        \* the loads behind the readings of the last tare, added up
    spoiled,      \* one of them was cut
    fresh         \* the last step was a report

weightVars == <<load, Weight_Maopi, tare, done, sample, cut, Weight_Shiwu, tally,
          spoiled, fresh>>

\* The readings are added to Weight_Maopi, which the weighing may see.
WeightInit == /\ load \in Loads
              /\ Weight_Maopi = load
              /\ tare = "idle"
              /\ done = 0
              /\ sample = load
              /\ cut = FALSE
              /\ Weight_Shiwu = 0
              /\ tally = Reads * load
              /\ spoiled = FALSE
              /\ fresh = FALSE

\* Food is eaten or filled in, the bowl is taken away or put back.
LoadChange == /\ load' \in Loads
              /\ UNCHANGED <<Weight_Maopi, tare, done, sample, cut, Weight_Shiwu,
                             tally, spoiled>>

-----------------------------------------------------------------------------
(* The app task: Get_Maopi.                                                *)

\* Mutant of TareStart: the sum starts from the last tare.
TareStartAgain ==
    /\ tare = "idle"
    /\ tare' = "wait"
    /\ done' = 0
    /\ tally' = 0
    /\ spoiled' = FALSE
    /\ UNCHANGED <<load, Weight_Maopi, sample, cut, Weight_Shiwu>>

TareStart == /\ tare = "idle"
             /\ tare' = "wait"
             /\ Weight_Maopi' = 0
             /\ done' = 0
             /\ tally' = 0
             /\ spoiled' = FALSE
             /\ UNCHANGED <<load, sample, cut, Weight_Shiwu>>

\* hx711_Read, up to the pulses: a conversion is ready.
ReadBegins == /\ tare = "wait"
              /\ tare' = "clock"
              /\ sample' = load
              /\ cut' = FALSE
              /\ tally' = tally + load
              /\ UNCHANGED <<load, Weight_Maopi, done, Weight_Shiwu, spoiled>>

\* hx711_Read returns, the reading is added, and delay_ms is waited out.
ReadEnds == /\ tare = "clock"
            /\ \E count \in IF cut THEN Strays \cup {sample} ELSE {sample} :
                  Weight_Maopi' = Weight_Maopi + count
            /\ done' = done + 1
            /\ tare' = IF done' = Reads THEN "divide" ELSE "wait"
            /\ UNCHANGED <<load, sample, cut, Weight_Shiwu, tally, spoiled>>

TareEnds == /\ tare = "divide"
            /\ Weight_Maopi' = Weight_Maopi \div Reads
            /\ tare' = "idle"
            /\ UNCHANGED <<load, done, sample, cut, Weight_Shiwu, tally, spoiled>>

-----------------------------------------------------------------------------
(* The timer task: weight_timer_callback.                                  *)

\* 231.5 counts of a reading are a gram.
Grams(counts) == (2 * counts) \div 463

\* Get_Weight on the mean of its readings.
Shiwu(raw, maopi) ==
    IF raw > maopi
    THEN LET grams == Grams(raw - maopi)
         IN IF grams > MAX_WEIGHT THEN 5000 ELSE grams
    ELSE 0

\* A whole weighing, and the report of it; the load rests meanwhile.
Weigh == /\ Weight_Shiwu' = Shiwu(load, Weight_Maopi)
         /\ cut' = (cut \/ tare = "clock")
         /\ spoiled' = (spoiled \/ tare = "clock")
         /\ fresh' = TRUE
         /\ UNCHANGED <<load, Weight_Maopi, tare, done, sample, tally>>

WeightNext == \/ Weigh
              \/ /\ LoadChange \/ TareStart \/ ReadBegins \/ ReadEnds \/ TareEnds
                 /\ fresh' = FALSE

WeightSpec == WeightInit /\ [][WeightNext]_weightVars

-----------------------------------------------------------------------------
WeightTypeOK == /\ load \in Loads
                /\ Weight_Maopi \in 0..Reads * MaxReading
                /\ tare \in {"idle", "wait", "clock", "divide"}
                /\ done \in 0..Reads
                /\ sample \in Loads
                /\ cut \in BOOLEAN
                /\ Weight_Shiwu \in 0..MAX_WEIGHT
                /\ tally \in 0..Reads * MaxReading
                /\ spoiled \in BOOLEAN
                /\ fresh \in BOOLEAN

\* The tare that the last Get_Maopi should have found.
TrueTare == tally \div Reads

\* drivers/hx711.c:161-172.  A tare no weighing cut into is the mean of what
\* lay on the scale at its readings; weighings between them do no harm.
UncutTareIsRight == tare = "idle" /\ ~spoiled => Weight_Maopi = TrueTare

\* drivers/hx711.c:177-207.  With such a tare a weighing reports the load less
\* the tare, nothing below it, and 5000 g at most.
SettledWeighingIsRight ==
    fresh /\ tare = "idle" /\ ~spoiled =>
        Weight_Shiwu = IF load <= TrueTare THEN 0 ELSE
            IF Grams(load - TrueTare) <= 5000 THEN Grams(load - TrueTare)
            ELSE 5000

\* drivers/hx711.c:161-207.  A tare and the weighings by it, together.
ScaleIsRight == UncutTareIsRight /\ SettledWeighingIsRight
=============================================================================
