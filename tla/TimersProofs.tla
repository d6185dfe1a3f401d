---------------------------- MODULE TimersProofs ----------------------------
(***************************************************************************)
(* The parts that live by the clock, for all values of their constants.     *)
(* A holdoff is kept and comes to its end while no deadline wraps; reports  *)
(* of the status check come when they are due; the battery's level is that  *)
(* of the highest row below the voltage; a tare that no weighing cut into   *)
(* is right, and so are the weighings by it.                                *)
(***************************************************************************)
EXTENDS MCTimers, Integers, TLAPS

-----------------------------------------------------------------------------
(* The holdoff of a detector.                                              *)

\* The device is not up for so long that a deadline wraps.
NoWrap == MaxTicks * Period + Holdoff < Modulus

\* A clock value below the modulus is left as it is by the modulus.
LEMMA SmallMod ==
    ASSUME NEW x \in Nat, x < Modulus
    PROVE  x % Modulus = x
BY ModulusAssumption

\* What is left of a division is the remainder whatever the quotient is.
LEMMA ModUnique ==
    ASSUME NEW q \in Nat, NEW s \in Nat, s < Modulus
    PROVE  (Modulus * q + s) % Modulus = s
<1>. DEFINE y == Modulus * q + s
            k == y \div Modulus
            t == y % Modulus
<1>1. y \in Nat /\ Modulus \in Nat \ {0}
    BY ModulusAssumption
<1>. HIDE DEF y
<1>2. k \in Int /\ t \in Nat /\ t < Modulus /\ y = Modulus * k + t
    BY <1>1
<1>. HIDE DEF k, t
<1>3. Modulus * (q - k) = t - s
    BY <1>1, <1>2 DEF y
<1>4. q = k
  <2>1. CASE q - k >= 1
    <3>1. Modulus * (q - k) >= Modulus
        BY <2>1, <1>1, <1>2
    <3>. QED
        BY <3>1, <1>1, <1>2, <1>3
  <2>2. CASE q - k <= -1
    <3>1. Modulus * (q - k) <= -Modulus
        BY <2>2, <1>1, <1>2
    <3>. QED
        BY <3>1, <1>1, <1>2, <1>3
  <2>. QED
      BY <2>1, <2>2, <1>2
<1>5. Modulus * (q - k) = 0
    BY <1>1, <1>2, <1>4
<1>6. t = s
    BY <1>2, <1>3, <1>5
<1>. QED
    BY <1>6 DEF t, y

\* Taking the modulus first changes nothing.
LEMMA ModSum ==
    ASSUME NEW x \in Nat
    PROVE  ((x % Modulus) + Holdoff) % Modulus = (x + Holdoff) % Modulus
<1>. DEFINE q == x \div Modulus
            r == x % Modulus
<1>1. q \in Nat /\ r \in Nat /\ r < Modulus /\ x = Modulus * q + r
    BY ModulusAssumption
<1>. HIDE DEF q, r
<1>2. Modulus \in Nat /\ Holdoff \in Nat /\ Holdoff < Modulus
    BY ModulusAssumption, HoldoffAssumption
<1>3. CASE r + Holdoff < Modulus
  <2>1. x + Holdoff = Modulus * q + (r + Holdoff) /\ r + Holdoff \in Nat
      BY <1>1, <1>2
  <2>2. (x + Holdoff) % Modulus = r + Holdoff
      BY <2>1, <1>1, <1>3, ModUnique
  <2>3. (r + Holdoff) % Modulus = r + Holdoff
      BY <2>1, <1>3, SmallMod
  <2>. QED
      BY <2>2, <2>3 DEF r
<1>4. CASE r + Holdoff >= Modulus
  <2>. DEFINE s == r + Holdoff - Modulus
  <2>1. s \in Nat /\ s < Modulus /\ q + 1 \in Nat
      BY <1>1, <1>2, <1>4
  <2>2. x + Holdoff = Modulus * (q + 1) + s /\ r + Holdoff = Modulus * 1 + s
      BY <1>1, <1>2
  <2>. HIDE DEF s
  <2>3. (x + Holdoff) % Modulus = s
      BY <2>1, <2>2, ModUnique
  <2>4. (r + Holdoff) % Modulus = s
      BY <2>1, <2>2, ModUnique
  <2>. QED
      BY <2>3, <2>4 DEF r
<1>. QED
    BY <1>1, <1>2, <1>3, <1>4

\* The clock is within its bound: ticks of a period each, MaxTicks at most.
LEMMA UptimeBound ==
    ASSUME NEW t \in 0..MaxTicks
    PROVE  t * Period \in Nat /\ t * Period <= MaxTicks * Period
<1>1. t \in Nat /\ MaxTicks - t \in Nat
    BY MaxTicksAssumption
<1>2. t * Period \in Nat /\ (MaxTicks - t) * Period \in Nat
    BY <1>1, PeriodAssumption
<1>3. MaxTicks * Period = t * Period + (MaxTicks - t) * Period
    BY <1>1, PeriodAssumption, MaxTicksAssumption
<1>. QED
    BY <1>2, <1>3, PeriodAssumption, MaxTicksAssumption

\* Without a wrap the state is simple arithmetic: the clock is the uptime and
\* the deadline a holdoff after the last feeding.
LEMMA PlainClock ==
    ASSUME NoWrap, TypeOK
    PROVE  /\ Uptime \in Nat
           /\ HAL_GetTimeMs = Uptime
           /\ countdown = Uptime + Holdoff
           /\ DeadlineOfLastFeeding =>
                 end_time = IF fed < 0 THEN 0 ELSE fed + Holdoff
<1>1. Uptime \in Nat /\ Uptime <= MaxTicks * Period
    BY UptimeBound DEF TypeOK, Uptime
<1>2. Uptime + Holdoff \in Nat /\ Uptime + Holdoff < Modulus
    BY <1>1, UptimeBound, HoldoffAssumption, ModulusAssumption,
       MaxTicksAssumption, PeriodAssumption DEF NoWrap
<1>3. HAL_GetTimeMs = Uptime
    BY <1>1, <1>2, SmallMod, HoldoffAssumption, ModulusAssumption
       DEF HAL_GetTimeMs
<1>4. countdown = Uptime + Holdoff
    BY <1>2, <1>3, SmallMod DEF countdown
<1>5. ASSUME fed >= 0 PROVE (fed + Holdoff) % Modulus = fed + Holdoff
    BY <1>1, <1>2, <1>5, SmallMod, HoldoffAssumption, ModulusAssumption DEF TypeOK
<1>. QED
    BY <1>1, <1>3, <1>4, <1>5 DEF DeadlineOfLastFeeding, TypeOK

\* hal/control.c:379-390.  A refused detection, a tick or a switch leaves the
\* deadline to the last feeding; a feeding sets both.
LEMMA HoldoffInvInit == Init => HoldoffInv
BY ModulusAssumption, PeriodAssumption, MaxTicksAssumption
   DEF Init, HoldoffInv, TypeOK, DeadlineOfLastFeeding, Uptime

LEMMA HoldoffInvStep ==
    ASSUME HoldoffInv, [Next]_vars
    PROVE  HoldoffInv'
<1>. USE DEF HoldoffInv, TypeOK, DeadlineOfLastFeeding
<1>1. CASE Tick
  <2>1. Uptime <= Uptime' /\ Uptime \in Nat /\ Uptime' \in Nat
    <3>1. ticks' * Period = ticks * Period + Period
        BY <1>1, PeriodAssumption, MaxTicksAssumption DEF Tick
    <3>2. ticks * Period \in Nat
        BY PeriodAssumption, MaxTicksAssumption
    <3>. QED
        BY <3>1, <3>2, PeriodAssumption DEF Uptime
  <2>. QED
      BY <1>1, <2>1, MaxTicksAssumption DEF Tick
<1>2. CASE Detected
  <2>1. Uptime \in Nat /\ Uptime' = Uptime
      BY <1>2, UptimeBound DEF Detected, Uptime
  <2>2. HAL_GetTimeMs + Holdoff \in Nat /\ countdown \in 0..Modulus-1
      BY <2>1, ModulusAssumption, HoldoffAssumption DEF HAL_GetTimeMs, countdown
  <2>3. end_time' = countdown /\ fed' = Uptime
      BY <1>2 DEF Detected
  <2>4. countdown = (Uptime + Holdoff) % Modulus
      BY <2>1, ModSum DEF HAL_GetTimeMs, countdown
  <2>. QED
      BY <1>2, <2>1, <2>2, <2>3, <2>4 DEF Detected
<1>3. CASE SetAutoFeed
    BY <1>3 DEF SetAutoFeed, Uptime
<1>4. CASE UNCHANGED vars
    BY <1>4 DEF vars, Uptime
<1>. QED
    BY <1>1, <1>2, <1>3, <1>4 DEF Next

\* hal/control.c:379-390.  On a clock of any width the deadline is that of the
\* last feeding: no refused detection, tick or switch moves it.
THEOREM DeadlineIsKept == Spec => []HoldoffInv
<1>. QED
    BY HoldoffInvInit, HoldoffInvStep, PTL DEF Spec

\* hal/control.c:379-390, utils.c:52-59.  While no deadline wraps, a detector
\* whose holdoff has passed is not refused any more.
THEOREM HoldoffComesToItsEnd == ASSUME NoWrap PROVE Spec => []HoldoffIsOver
<1>1. HoldoffInv => HoldoffIsOver
  <2>. SUFFICES ASSUME HoldoffInv, fed >= 0, Uptime - fed > Holdoff
               PROVE  expired
      BY DEF HoldoffIsOver
  <2>1. TypeOK /\ DeadlineOfLastFeeding
      BY DEF HoldoffInv
  <2>2. HAL_GetTimeMs = Uptime /\ Uptime \in Nat /\ end_time = fed + Holdoff
      BY <2>1, PlainClock DEF TypeOK
  <2>. QED
      BY <2>1, <2>2, HoldoffAssumption DEF expired, TypeOK
<1>. QED
    BY <1>1, DeadlineIsKept, PTL

\* hal/control.c:379-390, utils.c:52-59.  While no deadline wraps, two feedings
\* by the detector are more than a holdoff apart.
THEOREM FeedingsAreHeldOff == ASSUME NoWrap PROVE Spec => HoldoffIsKept
<1>1. ASSUME HoldoffInv, [Next]_vars, fed' # fed, fed >= 0
      PROVE  fed' - fed > Holdoff
  <2>1. TypeOK /\ DeadlineOfLastFeeding
      BY <1>1 DEF HoldoffInv
  <2>2. Detected
      BY <1>1 DEF Next, vars, Tick, SetAutoFeed
  <2>3. HAL_GetTimeMs = Uptime /\ Uptime \in Nat /\ end_time = fed + Holdoff
      BY <1>1, <2>1, PlainClock DEF TypeOK
  <2>4. Uptime > fed + Holdoff /\ fed' = Uptime
      BY <2>2, <2>3 DEF Detected, expired
  <2>. QED
      BY <2>1, <2>3, <2>4, HoldoffAssumption DEF TypeOK
<1>2. HoldoffInv /\ [Next]_vars => [fed' # fed /\ fed >= 0 => fed' - fed > Holdoff]_vars
    BY <1>1
<1>. QED
    BY <1>2, DeadlineIsKept, PTL DEF Spec, HoldoffIsKept

-----------------------------------------------------------------------------
(* The status check.                                                       *)

\* The inductive invariant behind ReportsAreDue: the count of a condition is
\* told by the checks since its last report, and is zero if it was not seen.
StatusInv ==
    \A c \in Conditions :
        IF c \in seen
        THEN /\ since[c] \in 0..Ratio-1
             /\ count[c] = IF since[c] = Ratio - 1 THEN 0 ELSE since[c] + 1
        ELSE count[c] = 0

\* What the check leaves in a count.
LEMMA Rounds ==
    ASSUME NEW n \in 0..Ratio-1
    PROVE  (n + 1) % Ratio = IF n = Ratio - 1 THEN 0 ELSE n + 1
<1>1. CASE n = Ratio - 1
    BY <1>1, RatioAssumption
<1>2. CASE n < Ratio - 1
    BY <1>2, RatioAssumption, SMTT(60)
<1>. QED  BY <1>1, <1>2, RatioAssumption

LEMMA CountFits ==
    ASSUME StatusInv, NEW c \in Conditions
    PROVE  count[c] \in 0..Ratio-1
BY RatioAssumption DEF StatusInv

\* A condition that is high now is reported if it is new or a round is over.
LEMMA DueNow ==
    ASSUME StatusInv, NEW c \in Conditions
    PROVE  count[c] = 0 <=> c \notin seen \/ since[c] = Ratio - 1
BY RatioAssumption DEF StatusInv

LEMMA StatusStarts == StatusInit => StatusInv
BY DEF StatusInit, StatusInv

LEMMA CheckKeeps == ASSUME StatusInv, Check PROVE StatusInv'
<1>. SUFFICES ASSUME NEW c \in Conditions
              PROVE  IF c \in seen'
                     THEN /\ since'[c] \in 0..Ratio-1
                          /\ count'[c] = IF since'[c] = Ratio - 1 THEN 0
                                         ELSE since'[c] + 1
                     ELSE count'[c] = 0
    BY DEF StatusInv
<1>1. /\ count'[c] = IF c \in high THEN (count[c] + 1) % Ratio ELSE 0
      /\ c \in seen' <=> c \in high
      /\ c \in reported' <=> c \in high /\ count[c] = 0
      /\ since'[c] = IF c \in reported' THEN 0
                     ELSE IF since[c] < Ratio THEN since[c] + 1 ELSE Ratio
    BY DEF Check, NextCount
<1>2. count[c] \in 0..Ratio-1
    BY CountFits
<1>3. CASE c \notin high
    BY <1>1, <1>3
<1>4. CASE c \in high /\ count[c] = 0
  <2>1. count'[c] = IF Ratio = 1 THEN 0 ELSE 1
    BY <1>1, <1>2, <1>4, Rounds, RatioAssumption
  <2>. QED  BY <1>1, <1>4, <2>1, RatioAssumption
<1>5. CASE c \in high /\ count[c] # 0
  <2>1. /\ since[c] \in 0..Ratio-2
        /\ count[c] = since[c] + 1
    BY <1>5, RatioAssumption DEF StatusInv
  <2>2. count'[c] = IF count[c] = Ratio - 1 THEN 0 ELSE count[c] + 1
    BY <1>1, <1>2, <1>5, Rounds
  <2>3. c \in seen' /\ since'[c] = since[c] + 1
    BY <1>1, <1>5, <2>1, RatioAssumption
  <2>. QED  BY <2>1, <2>2, <2>3, RatioAssumption
<1>. QED  BY <1>3, <1>4, <1>5

LEMMA StatusKeeps ==
    ASSUME StatusInv, [Change \/ Check]_statusVars PROVE StatusInv'
<1>1. CASE Change \/ UNCHANGED statusVars
    BY <1>1 DEF Change, StatusInv, statusVars
<1>2. CASE Check
    BY <1>2, CheckKeeps
<1>. QED  BY <1>1, <1>2

LEMMA HighAreConditions ==
    StatusSpec => [](high \subseteq Conditions)
<1>1. StatusInit => high \subseteq Conditions
    BY DEF StatusInit
<1>2. high \subseteq Conditions /\ [Change \/ Check]_statusVars
        => (high \subseteq Conditions)'
    BY DEF Change, Check, statusVars
<1>. QED  BY <1>1, <1>2, PTL DEF StatusSpec

\* hal/control.c:261-298.  Whatever is looked at and however often a report is
\* repeated: a condition is reported exactly when it was not there at the last
\* check, and while it lasts every Ratio checks.
THEOREM ReportsComeWhenDue == StatusSpec => ReportsAreDue
<1>1. StatusInv /\ high \subseteq Conditions /\ [Change \/ Check]_statusVars =>
        [Check => \A c \in seen' :
            c \in reported' <=> c \notin seen \/ since[c] = Ratio - 1]_statusVars
  <2>. SUFFICES ASSUME StatusInv, high \subseteq Conditions, Check,
                       NEW c \in seen'
                PROVE  c \in reported' <=> c \notin seen \/ since[c] = Ratio - 1
    OBVIOUS
  <2>1. c \in Conditions /\ (c \in reported' <=> count[c] = 0)
    BY DEF Check
  <2>. QED  BY <2>1, DueNow
<1>2. StatusInv /\ [Change \/ Check]_statusVars => StatusInv'
    BY StatusKeeps
<1>. QED
    BY <1>1, <1>2, StatusStarts, HighAreConditions, PTL DEF StatusSpec, ReportsAreDue

-----------------------------------------------------------------------------
(* The battery's level.                                                    *)

Voltage(i) == battery_cap_map[i].voltage
Cap(i) == battery_cap_map[i].cap

\* The table, row by row.
LEMMA TableRows ==
    /\ LEVEL_ITEMS = 11
    /\ Voltage(1) = 3300 /\ Voltage(2) = 3400 /\ Voltage(3) = 3450
    /\ Voltage(4) = 3500 /\ Voltage(5) = 3600 /\ Voltage(6) = 3700
    /\ Voltage(7) = 3800 /\ Voltage(8) = 3900 /\ Voltage(9) = 4000
    /\ Voltage(10) = 4100 /\ Voltage(11) = 4200
    /\ \A i \in 1..11 : Cap(i) = 10 * (i - 1)
BY DEF LEVEL_ITEMS, battery_cap_map, Row, Voltage, Cap

\* A higher row has a higher voltage.
LEMMA TableRises ==
    ASSUME NEW i \in 1..11, NEW j \in 1..11, i < j
    PROVE  Voltage(i) < Voltage(j)
<1>1. \A n \in 1..11 : n = 1 \/ n = 2 \/ n = 3 \/ n = 4 \/ n = 5 \/ n = 6
                       \/ n = 7 \/ n = 8 \/ n = 9 \/ n = 10 \/ n = 11
    OBVIOUS
<1>. QED  BY <1>1, TableRows

\* A voltage in the range of the table is in one interval of it, and the rows
\* below the voltage are those up to that interval.
LEMMA InOneRow ==
    ASSUME NEW v \in Nat, Lowest < v, v <= Highest
    PROVE  \E i \in 1..10 :
               /\ {n \in 1..LEVEL_ITEMS-1 : InRow(v, n)} = {i}
               /\ {n \in 1..LEVEL_ITEMS : battery_cap_map[n].voltage < v} = 1..i
<1>1. 3300 < v /\ v <= 4200
    BY TableRows DEF Lowest, Highest, Voltage
<1>2. PICK i \in 1..10 : Voltage(i) < v /\ v <= Voltage(i + 1)
    BY <1>1, TableRows
<1>3. \A n \in 1..11 : Voltage(n) \in Nat
  <2>1. \A n \in 1..11 : n = 1 \/ n = 2 \/ n = 3 \/ n = 4 \/ n = 5 \/ n = 6
                         \/ n = 7 \/ n = 8 \/ n = 9 \/ n = 10 \/ n = 11
      OBVIOUS
  <2>. QED  BY <2>1, TableRows
<1>4. \A n \in 1..11 : Voltage(n) < v <=> n <= i
  <2>. SUFFICES ASSUME NEW n \in 1..11 PROVE Voltage(n) < v <=> n <= i
      OBVIOUS
  <2>1. CASE n <= i
    <3>1. n = i \/ Voltage(n) < Voltage(i)
        BY <2>1, TableRises
    <3>. QED  BY <1>2, <1>3, <2>1, <3>1
  <2>2. CASE n > i
    <3>1. n = i + 1 \/ Voltage(i + 1) < Voltage(n)
        BY <2>2, TableRises
    <3>. QED  BY <1>2, <1>3, <2>2, <3>1
  <2>. QED  BY <2>1, <2>2
<1>5. \A n \in 1..10 : InRow(v, n) <=> n <= i /\ ~(n + 1 <= i)
  <2>. SUFFICES ASSUME NEW n \in 1..10
                PROVE  InRow(v, n) <=> n <= i /\ ~(n + 1 <= i)
      OBVIOUS
  <2>1. (Voltage(n) < v <=> n <= i) /\ (Voltage(n + 1) < v <=> n + 1 <= i)
      BY <1>4
  <2>2. InRow(v, n) <=> Voltage(n) < v /\ ~(Voltage(n + 1) < v)
      BY <1>3 DEF InRow, Voltage
  <2>. QED  BY <2>1, <2>2
<1>6. {n \in 1..LEVEL_ITEMS-1 : InRow(v, n)} = {i}
    BY <1>5, TableRows
<1>7. {n \in 1..LEVEL_ITEMS : battery_cap_map[n].voltage < v} = 1..i
    BY <1>4, TableRows DEF Voltage
<1>. QED  BY <1>6, <1>7

\* The greatest of the caps up to a row is that of the row.
LEMMA CapsRise ==
    ASSUME NEW i \in 1..10
    PROVE  Max({battery_cap_map[n].cap : n \in 1..i}) = battery_cap_map[i].cap
<1>. DEFINE caps == {Cap(n) : n \in 1..i}
<1>1. Cap(i) \in caps /\ \A x \in caps : x \in Nat /\ Cap(i) >= x
    BY TableRows
<1>2. \A x \in caps : (\A y \in caps : x >= y) => x = Cap(i)
    BY <1>1
<1>. HIDE DEF caps
<1>3. (CHOOSE x \in caps : \A y \in caps : x >= y) = Cap(i)
    BY <1>1, <1>2
<1>. QED  BY <1>3 DEF caps, Max, Cap

LEMMA SamplesAreNat == \A m \in Samples : m \in Nat
<1>1. MaxSample \in Nat
    BY SMT DEF MaxSample
<1>. QED  BY <1>1, SamplesAssumption

LEMMA LevelStarts == BatteryInit => LevelIsEarned
BY DEF BatteryInit, LevelIsEarned, InTable

LEMMA LevelKeeps ==
    ASSUME LevelIsEarned, [Measure]_batteryVars
    PROVE  LevelIsEarned'
<1>1. CASE Measure
  <2>. SUFFICES ASSUME InTable'
                PROVE  percent' = Max({battery_cap_map[n].cap :
                          n \in {j \in 1..LEVEL_ITEMS :
                                    battery_cap_map[j].voltage < voltage'}})
      BY DEF LevelIsEarned
  <2>1. PICK mean \in Samples : voltage' = mean * 2 /\ percent' \in Percents(mean * 2)
      BY <1>1 DEF Measure
  <2>2. mean * 2 \in Nat /\ Lowest < mean * 2 /\ mean * 2 <= Highest
    <3>1. mean \in Nat
        BY SamplesAreNat
    <3>2. Lowest < voltage' /\ voltage' <= Highest
        BY DEF InTable
    <3>. QED  BY <2>1, <3>1, <3>2
  <2>3. PICK i \in 1..10 :
            /\ {n \in 1..LEVEL_ITEMS-1 : InRow(mean * 2, n)} = {i}
            /\ {n \in 1..LEVEL_ITEMS : battery_cap_map[n].voltage < mean * 2} = 1..i
      BY <2>2, InOneRow
  <2>4. Percents(mean * 2) = {battery_cap_map[i].cap}
      BY <2>3 DEF Percents
  <2>. QED  BY <2>1, <2>3, <2>4, CapsRise
<1>2. CASE UNCHANGED batteryVars
    BY <1>2 DEF batteryVars, LevelIsEarned, InTable
<1>. QED  BY <1>1, <1>2

\* drivers/battery.c:207-222.  Whatever is measured: in the range of the table
\* the level is that of the highest row below the voltage, never the value of
\* the local that was not assigned.
THEOREM LevelsAreEarned == BatteryInit /\ [][Measure]_batteryVars => []LevelIsEarned
BY LevelStarts, LevelKeeps, PTL

-----------------------------------------------------------------------------
(* The scale.                                                              *)

\* Where the sum of the readings is, as long as none of them was cut: the
\* reading that is being clocked out is still missing from it.
SumIsOnItsWay ==
    /\ tare = "idle" => Weight_Maopi = TrueTare
    /\ tare = "clock" => ~cut /\ Weight_Maopi + sample = tally
    /\ tare \in {"wait", "divide"} => Weight_Maopi = tally

\* The inductive invariant behind ScaleIsRight.
ScaleInv ==
    /\ load \in Nat /\ tally \in Nat
    /\ tare \in {"idle", "wait", "clock", "divide"}
    /\ ~spoiled => SumIsOnItsWay
    /\ tare = "clock" => sample \in Nat
    /\ ~spoiled => Weight_Maopi \in Nat
    /\ fresh => Weight_Shiwu = Shiwu(load, Weight_Maopi)

LEMMA LoadsAreNat == Loads \subseteq Nat /\ Reads \in Nat \ {0}
<1>1. Loads \subseteq Nat
    BY LoadsAssumption
<1>2. Reads \in Nat \ {0}
    BY ReadsAssumption, SMT
<1>. QED  BY <1>1, <1>2

LEMMA MeanOfEqual ==
    ASSUME NEW m \in Nat PROVE (Reads * m) \div Reads = m
<1>. DEFINE y == Reads * m
            k == y \div Reads
            t == y % Reads
<1>1. y \in Nat /\ Reads \in Nat \ {0}
    BY LoadsAreNat
<1>. HIDE DEF y
<1>2. k \in Int /\ t \in Nat /\ t < Reads /\ y = Reads * k + t
    BY <1>1
<1>. HIDE DEF k, t
<1>3. Reads * (m - k) = t
    BY <1>1, <1>2 DEF y
<1>4. ~(m - k >= 1)
  <2>. SUFFICES ASSUME m - k >= 1 PROVE FALSE
    OBVIOUS
  <2>1. Reads * (m - k) >= Reads
    BY <1>1, <1>2
  <2>. QED  BY <2>1, <1>1, <1>2, <1>3
<1>5. ~(m - k <= -1)
  <2>. SUFFICES ASSUME m - k <= -1 PROVE FALSE
    OBVIOUS
  <2>1. Reads * (m - k) <= -Reads
    BY <1>1, <1>2
  <2>. QED  BY <2>1, <1>1, <1>2, <1>3
<1>. QED  BY <1>2, <1>4, <1>5 DEF k, y

LEMMA MeanIsNat ==
    ASSUME NEW m \in Nat PROVE m \div Reads \in Nat
BY LoadsAreNat

LEMMA ScaleStarts == WeightInit => ScaleInv
<1>. SUFFICES ASSUME WeightInit PROVE ScaleInv
    OBVIOUS
<1>1. load \in Nat
    BY LoadsAreNat DEF WeightInit
<1>2. Reads * load \in Nat
    BY <1>1, LoadsAreNat
<1>. QED
    BY <1>1, <1>2, MeanOfEqual DEF WeightInit, ScaleInv, SumIsOnItsWay, TrueTare

LEMMA ScaleKeeps ==
    ASSUME ScaleInv, [WeightNext]_weightVars PROVE ScaleInv'
<1>. USE DEF ScaleInv, SumIsOnItsWay
<1>1. CASE Weigh
    BY <1>1 DEF Weigh, TrueTare
<1>2. CASE LoadChange /\ fresh' = FALSE
    BY <1>2, LoadsAreNat DEF LoadChange, TrueTare
<1>3. CASE TareStart /\ fresh' = FALSE
    BY <1>3 DEF TareStart
<1>4. CASE ReadBegins /\ fresh' = FALSE
    BY <1>4 DEF ReadBegins
<1>5. CASE ReadEnds /\ fresh' = FALSE
    BY <1>5 DEF ReadEnds
<1>6. CASE TareEnds /\ fresh' = FALSE
    BY <1>6, MeanIsNat DEF TareEnds, TrueTare
<1>7. CASE UNCHANGED weightVars
    BY <1>7 DEF weightVars, TrueTare
<1>. QED
    BY <1>1, <1>2, <1>3, <1>4, <1>5, <1>6, <1>7 DEF WeightNext

\* What is reported, by a tare that is right.
LEMMA ReportIsRight == ScaleInv => SettledWeighingIsRight
<1>. SUFFICES ASSUME ScaleInv, fresh, tare = "idle", ~spoiled
              PROVE  Weight_Shiwu = IF load <= TrueTare THEN 0 ELSE
                         IF Grams(load - TrueTare) <= 5000
                         THEN Grams(load - TrueTare) ELSE 5000
    BY DEF SettledWeighingIsRight
<1>1. /\ load \in Nat /\ TrueTare \in Nat
      /\ Weight_Shiwu = Shiwu(load, TrueTare)
    BY DEF ScaleInv, SumIsOnItsWay
<1>2. CASE load <= TrueTare
    BY <1>1, <1>2 DEF Shiwu
<1>3. CASE load > TrueTare
  <2>1. Grams(load - TrueTare) \in Nat
    BY <1>1, <1>3 DEF Grams
  <2>2. Weight_Shiwu = IF Grams(load - TrueTare) > 5000 THEN 5000
                       ELSE Grams(load - TrueTare)
    BY <1>1, <1>3 DEF Shiwu, MAX_WEIGHT
  <2>. QED  BY <1>1, <1>3, <2>1, <2>2
<1>. QED  BY <1>1, <1>2, <1>3

\* drivers/hx711.c:161-207.  For any loads and any number of readings: a tare
\* whose readings no weighing came into is the mean of what lay on the scale at
\* them, and the weighings after it report the load less that tare.
THEOREM TareAndWeighingsAreRight == WeightSpec => []ScaleIsRight
<1>1. ScaleInv => UncutTareIsRight
    BY DEF ScaleInv, SumIsOnItsWay, UncutTareIsRight
<1>2. ScaleInv => ScaleIsRight
    BY <1>1, ReportIsRight DEF ScaleIsRight
<1>3. ScaleInv /\ [WeightNext]_weightVars => ScaleInv'
    BY ScaleKeeps
<1>. QED  BY <1>2, <1>3, ScaleStarts, PTL DEF WeightSpec

-----------------------------------------------------------------------------
(* The parts together.                                                     *)

\* What so many readings add up to at most.
Most(n) == n * MaxReading

\* What is behind WeightTypeOK: the sum of the readings of a tare, and that of
\* the loads behind them, is bounded by their number.
SumIsBounded ==
    /\ tare \in {"idle", "divide"} => Weight_Maopi <= Most(Reads) /\ tally <= Most(Reads)
    /\ tare \in {"wait", "clock"} => done < Reads /\ Weight_Maopi <= Most(done)
    /\ tare = "wait" => tally <= Most(done)
    /\ tare = "clock" => tally <= Most(done + 1)

LEMMA ReadingsAreNat ==
    /\ MaxReading \in Nat
    /\ \A l \in Loads : l \in 0..MaxReading
    /\ \A s \in Strays : s \in 0..MaxReading
<1>1. MaxReading \in Nat
    BY SMT DEF MaxReading
<1>. QED  BY <1>1, LoadsAssumption, StraysAssumption

\* A sum of no more than Reads readings fits the variable.
LEMMA SumsFit ==
    /\ Most(0) = 0
    /\ \A n \in 0..Reads : Most(n) \in Nat /\ Most(n) <= Most(Reads)
    /\ \A n \in 0..Reads : Most(n + 1) = Most(n) + MaxReading
    /\ Reads * MaxReading = Most(Reads)
<1>1. Reads \in Nat \ {0} /\ MaxReading \in Nat
    BY LoadsAreNat, ReadingsAreNat
<1>2. \A n \in 0..Reads : n * MaxReading \in Nat /\ (Reads - n) * MaxReading \in Nat
    BY <1>1
<1>3. \A n \in 0..Reads : Reads * MaxReading = n * MaxReading + (Reads - n) * MaxReading
    BY <1>1
<1>4. \A n \in 0..Reads : (n + 1) * MaxReading = n * MaxReading + MaxReading
    BY <1>1
<1>5. 0 * MaxReading = 0
    BY <1>1
<1>6. \A n \in 0..Reads : n * MaxReading <= Reads * MaxReading
    BY <1>1, <1>2, <1>3
<1>. QED  BY <1>2, <1>4, <1>5, <1>6 DEF Most

LEMMA LoadsFit ==
    ASSUME NEW l \in Loads
    PROVE  Reads * l \in 0..Most(Reads)
<1>1. /\ Reads \in Nat /\ l \in Nat /\ MaxReading - l \in Nat /\ MaxReading \in Nat
    BY LoadsAreNat, ReadingsAreNat
<1>2. Reads * l \in Nat /\ Reads * (MaxReading - l) \in Nat
    BY <1>1
<1>3. Reads * MaxReading = Reads * l + Reads * (MaxReading - l)
    BY <1>1
<1>. QED  BY <1>2, <1>3, SumsFit

\* The mean of some readings is no more than their sum.
LEMMA MeanFits ==
    ASSUME NEW m \in Nat
    PROVE  m \div Reads \in Nat /\ m \div Reads <= m
<1>. DEFINE k == m \div Reads
            t == m % Reads
<1>1. Reads \in Nat \ {0}
    BY LoadsAreNat
<1>2. k \in Int /\ t \in Nat /\ t < Reads /\ m = Reads * k + t
    BY <1>1
<1>. HIDE DEF k, t
<1>3. k >= 0
  <2>. SUFFICES ASSUME k <= -1 PROVE FALSE
      BY <1>2
  <2>1. Reads * k <= -Reads
      BY <1>1, <1>2
  <2>. QED  BY <2>1, <1>1, <1>2
<1>4. Reads * k >= k
    BY <1>1, <1>2, <1>3
<1>. QED  BY <1>1, <1>2, <1>3, <1>4 DEF k

\* A reported weight is within what the scale takes.
LEMMA ShiwuFits ==
    ASSUME NEW raw \in Nat, NEW maopi \in Nat
    PROVE  Shiwu(raw, maopi) \in 0..MAX_WEIGHT
<1>1. CASE raw > maopi
  <2>. DEFINE g == Grams(raw - maopi)
  <2>1. g \in Nat
      BY <1>1 DEF Grams
  <2>2. Shiwu(raw, maopi) = IF g > 5000 THEN 5000 ELSE g
      BY <1>1 DEF Shiwu, MAX_WEIGHT
  <2>. HIDE DEF g
  <2>3. CASE g > 5000
      BY <2>2, <2>3 DEF MAX_WEIGHT
  <2>4. CASE g <= 5000
      BY <2>1, <2>2, <2>4 DEF MAX_WEIGHT
  <2>. QED  BY <2>1, <2>3, <2>4
<1>2. CASE ~(raw > maopi)
    BY <1>2 DEF Shiwu, MAX_WEIGHT
<1>. QED  BY <1>1, <1>2

\* The type invariant with the bound of the sums in one place.
ScaleTypeInv ==
    /\ load \in Loads /\ sample \in Loads
    /\ Weight_Maopi \in Nat /\ Weight_Maopi <= Most(Reads)
    /\ tally \in Nat /\ tally <= Most(Reads)
    /\ tare \in {"idle", "wait", "clock", "divide"}
    /\ done \in 0..Reads
    /\ Weight_Shiwu \in 0..MAX_WEIGHT
    /\ SumIsBounded

ScaleFlagsInv == cut \in BOOLEAN /\ spoiled \in BOOLEAN /\ fresh \in BOOLEAN

LEMMA ScaleTypeIsType == ScaleTypeInv /\ ScaleFlagsInv => WeightTypeOK
<1>1. Most(Reads) \in Nat
    BY SumsFit, LoadsAreNat
<1>. QED  BY <1>1, SumsFit DEF ScaleTypeInv, ScaleFlagsInv, WeightTypeOK

LEMMA ScaleTypeStarts == WeightInit => ScaleTypeInv
<1>. SUFFICES ASSUME WeightInit PROVE ScaleTypeInv
    OBVIOUS
<1>1. load \in Loads /\ load \in 0..MaxReading /\ Reads * load \in 0..Most(Reads)
    BY LoadsFit, ReadingsAreNat DEF WeightInit
<1>2. Reads \in Nat \ {0} /\ MaxReading \in Nat /\ MaxReading <= Most(Reads)
  <2>1. Reads \in Nat \ {0} /\ 1 \in 0..Reads
      BY LoadsAreNat
  <2>2. Most(1) = Most(0) + MaxReading /\ Most(1) <= Most(Reads)
      BY <2>1, SumsFit
  <2>. QED  BY <2>1, <2>2, SumsFit, ReadingsAreNat
<1>3. 0 \in 0..MAX_WEIGHT
    BY DEF MAX_WEIGHT
<1>4. Most(Reads) \in Nat
    BY <1>2, SumsFit
<1>. QED
    BY <1>1, <1>2, <1>3, <1>4 DEF WeightInit, ScaleTypeInv, SumIsBounded

LEMMA ScaleTypeKeeps ==
    ASSUME ScaleTypeInv, [WeightNext]_weightVars
    PROVE  ScaleTypeInv'
<1>. USE DEF ScaleTypeInv, SumIsBounded
<1>1. /\ Reads \in Nat \ {0} /\ MaxReading \in Nat
      /\ load \in 0..MaxReading /\ sample \in 0..MaxReading
    BY LoadsAreNat, ReadingsAreNat
<1>2. /\ Most(0) = 0 /\ Most(Reads) \in Nat
      /\ Most(done) \in Nat /\ Most(done) <= Most(Reads)
      /\ Most(done + 1) = Most(done) + MaxReading
      /\ done < Reads => Most(done + 1) \in Nat /\ Most(done + 1) <= Most(Reads)
    BY <1>1, SumsFit
<1>3. CASE Weigh
    BY <1>1, <1>3, ShiwuFits DEF Weigh
<1>4. CASE LoadChange /\ fresh' = FALSE
    BY <1>4 DEF LoadChange
<1>5. CASE TareStart /\ fresh' = FALSE
    BY <1>1, <1>2, <1>5 DEF TareStart
<1>6. CASE ReadBegins /\ fresh' = FALSE
    BY <1>1, <1>2, <1>6 DEF ReadBegins
<1>7. CASE ReadEnds /\ fresh' = FALSE
  <2>1. PICK c \in 0..MaxReading : Weight_Maopi' = Weight_Maopi + c
      BY <1>1, <1>7, ReadingsAreNat DEF ReadEnds
  <2>2. /\ done' = done + 1 /\ done' \in 0..Reads /\ tally' = tally
        /\ tally <= Most(done') /\ Weight_Maopi' \in Nat
        /\ Weight_Maopi' <= Most(done') /\ Most(done') <= Most(Reads)
      BY <1>1, <1>2, <1>7, <2>1 DEF ReadEnds
  <2>3. /\ tare' = IF done' = Reads THEN "divide" ELSE "wait"
        /\ UNCHANGED <<load, sample, Weight_Shiwu>>
      BY <1>7 DEF ReadEnds
  <2>4. /\ tare' = "wait" => done' < Reads
        /\ tare' = "divide" => done' = Reads
        /\ tare' \in {"wait", "divide"}
      BY <1>1, <2>2, <2>3
  <2>5. SumIsBounded'
      BY <2>2, <2>4
  <2>. QED  BY <1>1, <1>2, <2>2, <2>3, <2>4, <2>5
<1>8. CASE TareEnds /\ fresh' = FALSE
  <2>1. Weight_Maopi' \in Nat /\ Weight_Maopi' <= Weight_Maopi
      BY <1>8, MeanFits DEF TareEnds
  <2>. QED  BY <1>2, <1>8, <2>1 DEF TareEnds
<1>9. CASE UNCHANGED weightVars
    BY <1>9 DEF weightVars
<1>. QED
    BY <1>3, <1>4, <1>5, <1>6, <1>7, <1>8, <1>9 DEF WeightNext

LEMMA ScaleFlags ==
    /\ WeightInit => ScaleFlagsInv
    /\ ScaleFlagsInv /\ [WeightNext]_weightVars => ScaleFlagsInv'
BY Zenon DEF WeightInit, ScaleFlagsInv, WeightNext, weightVars, Weigh, LoadChange,
       TareStart, ReadBegins, ReadEnds, TareEnds

LEMMA StatusTypeStarts == StatusInit => StatusTypeOK
BY RatioAssumption DEF StatusInit, StatusTypeOK

LEMMA StatusTypeKeeps ==
    ASSUME StatusTypeOK, [Change \/ Check]_statusVars
    PROVE  StatusTypeOK'
<1>1. CASE Change
    BY <1>1 DEF Change, StatusTypeOK
<1>2. CASE Check
  <2>1. \A c \in Conditions : NextCount(c) \in 0..Ratio-1
      BY Rounds, RatioAssumption DEF NextCount, StatusTypeOK
  <2>2. count' \in [Conditions -> 0..Ratio-1]
      BY <1>2, <2>1 DEF Check
  <2>3. since' \in [Conditions -> 0..Ratio]
      BY <1>2, RatioAssumption DEF Check, StatusTypeOK
  <2>. QED  BY <1>2, <2>2, <2>3 DEF Check, StatusTypeOK
<1>3. CASE UNCHANGED statusVars
    BY <1>3 DEF statusVars, StatusTypeOK
<1>. QED  BY <1>1, <1>2, <1>3

\* Whatever part is watched, every variable keeps its type, the bytes and
\* words of the code included: a count of the status check stays below the
\* ratio, the deadline below the clock's modulus, a tare's sum within the
\* readings added up.
THEOREM TimersTypeCorrect == TimersSpec => []TimersTypeOK
<1>. DEFINE I == HoldoffInv /\ StatusTypeOK /\ ScaleTypeInv /\ ScaleFlagsInv
<1>1. TimersInit => I
    BY HoldoffInvInit, StatusTypeStarts, ScaleTypeStarts, ScaleFlags DEF TimersInit
<1>2. I /\ [TimersNext]_timersVars => I'
  <2>. SUFFICES ASSUME I, [TimersNext]_timersVars PROVE I'
      OBVIOUS
  <2>1. [Next]_vars /\ [Change \/ Check]_statusVars /\ [WeightNext]_weightVars
      BY DEF TimersNext, timersVars
  <2>. QED
      BY <2>1, HoldoffInvStep, StatusTypeKeeps, ScaleTypeKeeps, ScaleFlags
<1>3. I => TimersTypeOK
    BY ScaleTypeIsType DEF TimersTypeOK
<1>. QED
    BY <1>1, <1>2, <1>3, PTL DEF TimersSpec
=============================================================================
