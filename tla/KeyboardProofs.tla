--------------------------- MODULE KeyboardProofs ---------------------------
(***************************************************************************)
(* The keyboard and the application task that its events go to, for any     *)
(* keys, any length of a long press and any length of the queue.  The key   *)
(* events tell the hold, if a key that was let go is up for at least two    *)
(* scans; what the queue has accepted is pending until it has its effect,   *)
(* but for the resets that are lost, of which there are at most as many as  *)
(* presses.                                                                 *)
(***************************************************************************)
EXTENDS AppTask, FiniteSetTheorems, SequenceTheorems, WellFoundedInduction,
        TLAPS

\* The longest hold that is counted: it is a long press from there on.
Full == KEY_EVENT_LONG_COUNT + 2

\* Where the machine of a key that was seen down h times in a row is.
MachineOf(k, h) ==
    \/ /\ h = 0 /\ up[k] > 0
       /\ key[k].status = "KEY_NULL" \/ (key[k].status = "KEY_UP" /\ up[k] = 1)
       /\ last[k] # "DOWN"
    \/ h = 1 /\ up[k] = 0 /\ key[k].status = "KEY_SURE" /\ last[k] # "DOWN"
    \/ /\ h \in 2..KEY_EVENT_LONG_COUNT + 1 /\ up[k] = 0
       /\ key[k].status = "KEY_DOWN" /\ key[k].count = h - 2
       /\ last[k] = "DOWN"
    \/ h = Full /\ up[k] = 0 /\ key[k].status = "KEY_LONG" /\ last[k] = "LONG"

\* The inductive invariant behind EventsTellTheHold.  A key that is down was
\* seen down by the last scan, or had been up long enough: its machine has left
\* KEY_UP, in which the scan would forget that it is down again.
HoldInv ==
    /\ key = [k \in KeySet |-> key[k]]
    /\ \A k \in KeySet :
         /\ key[k] = [status |-> key[k].status, count |-> key[k].count,
                      event |-> key[k].event]
         /\ held[k] \in Nat /\ up[k] \in Nat
         /\ MachineOf(k, held[k])
         /\ k \in pressed => held[k] > 0 \/ up[k] >= MinRelease

LEMMA KeyHoldInit == ASSUME MinRelease >= 2 PROVE KeyInit => HoldInv
BY MinReleaseAssumption DEF KeyInit, HoldInv, MachineOf

LEMMA PressHold ==
    ASSUME HoldInv, NEW k \in KeySet, Press(k) \/ Release(k)
    PROVE  HoldInv'
BY DEF HoldInv, MachineOf, Press, Release

\* One case of the switch each, with the record of the key laid open.
Laid(k, status) ==
    key[k] = [status |-> status, count |-> key[k].count, event |-> key[k].event]

LEMMA ScannedNull ==
    ASSUME NEW k, Laid(k, "KEY_NULL")
    PROVE  Scanned(key[k], k \in pressed) =
             [status |-> IF k \in pressed THEN "KEY_SURE" ELSE "KEY_NULL",
              count |-> key[k].count, event |-> "NULL"]
<1>1. key[k].status = "KEY_NULL"
    BY DEF Laid
<1>2. Scanned(key[k], k \in pressed) =
        To(key[k], IF k \in pressed THEN "KEY_SURE" ELSE "KEY_NULL", "NULL")
    BY <1>1 DEF Scanned
<1>. QED  BY <1>2 DEF To, Laid

LEMMA ScannedSure ==
    ASSUME NEW k, Laid(k, "KEY_SURE")
    PROVE  Scanned(key[k], k \in pressed) =
             IF k \in pressed
             THEN [status |-> "KEY_DOWN", count |-> 0, event |-> "DOWN"]
             ELSE [status |-> "KEY_NULL", count |-> key[k].count,
                   event |-> "NULL"]
<1>1. key[k].status = "KEY_SURE"
    BY DEF Laid
<1>2. Scanned(key[k], k \in pressed) =
        IF k \in pressed
        THEN [To(key[k], "KEY_DOWN", "DOWN") EXCEPT !.count = 0]
        ELSE To(key[k], "KEY_NULL", "NULL")
    BY <1>1 DEF Scanned
<1>3. CASE k \in pressed  BY <1>2, <1>3 DEF To, Laid
<1>4. CASE k \notin pressed  BY <1>2, <1>4 DEF To, Laid
<1>. QED  BY <1>3, <1>4

LEMMA ScannedDown ==
    ASSUME NEW k, Laid(k, "KEY_DOWN")
    PROVE  Scanned(key[k], k \in pressed) =
             IF k \notin pressed
             THEN [status |-> "KEY_UP", count |-> key[k].count, event |-> "UP"]
             ELSE IF key[k].count + 1 >= KEY_EVENT_LONG_COUNT
                  THEN [status |-> "KEY_LONG", count |-> key[k].count + 1,
                        event |-> "LONG"]
                  ELSE [status |-> "KEY_DOWN", count |-> key[k].count + 1,
                        event |-> "NULL"]
<1>1. key[k].status = "KEY_DOWN"
    BY DEF Laid
<1>2. Scanned(key[k], k \in pressed) = FromDown(key[k], k \in pressed)
    BY <1>1 DEF Scanned
<1>3. CASE k \notin pressed
    BY <1>2, <1>3 DEF FromDown, To, Laid
<1>4. CASE k \in pressed /\ key[k].count + 1 >= KEY_EVENT_LONG_COUNT
  <2>1. Scanned(key[k], k \in pressed) =
          [To(key[k], "KEY_LONG", "LONG") EXCEPT !.count = @ + 1]
    BY <1>2, <1>4 DEF FromDown
  <2>. QED  BY <2>1, <1>4 DEF To, Laid
<1>5. CASE k \in pressed /\ ~(key[k].count + 1 >= KEY_EVENT_LONG_COUNT)
  <2>1. Scanned(key[k], k \in pressed) =
          [To(key[k], "KEY_DOWN", "NULL") EXCEPT !.count = @ + 1]
    BY <1>2, <1>5 DEF FromDown
  <2>. QED  BY <2>1, <1>5 DEF To, Laid
<1>. QED  BY <1>3, <1>4, <1>5

LEMMA ScannedLong ==
    ASSUME NEW k, Laid(k, "KEY_LONG")
    PROVE  Scanned(key[k], k \in pressed) =
             [status |-> IF k \in pressed THEN "KEY_LONG" ELSE "KEY_UP",
              count |-> key[k].count, event |-> "NULL"]
<1>1. key[k].status = "KEY_LONG"
    BY DEF Laid
<1>2. Scanned(key[k], k \in pressed) =
        To(key[k], IF k \in pressed THEN "KEY_LONG" ELSE "KEY_UP", "NULL")
    BY <1>1 DEF Scanned, FromLong
<1>. QED  BY <1>2 DEF To, Laid

LEMMA ScannedUp ==
    ASSUME NEW k, Laid(k, "KEY_UP"), k \notin pressed
    PROVE  Scanned(key[k], k \in pressed) =
             [status |-> "KEY_NULL", count |-> 0, event |-> "NULL"]
<1>1. key[k].status = "KEY_UP"
    BY DEF Laid
<1>2. Scanned(key[k], k \in pressed) = FromUp(key[k], k \in pressed)
    BY <1>1 DEF Scanned
<1>3. FromUp(key[k], k \in pressed) =
        [To(key[k], "KEY_NULL", "NULL") EXCEPT !.count = 0]
    BY DEF FromUp
<1>. QED  BY <1>2, <1>3 DEF To, Laid

\* One scan of one key.
LEMMA ScanHold ==
    ASSUME MinRelease >= 2, HoldInv, Scan, NEW k \in KeySet
    PROVE  /\ key'[k] = [status |-> key'[k].status, count |-> key'[k].count,
                         event |-> key'[k].event]
           /\ held'[k] \in Nat /\ up'[k] \in Nat
           /\ MachineOf(k, held[k])'
           /\ k \in pressed => held'[k] > 0
<1>. DEFINE down == k \in pressed
            c == key[k].count
<1>1. /\ key'[k] = Scanned(key[k], k \in pressed)
      /\ last'[k] = IF key'[k].event = "NULL" THEN last[k] ELSE key'[k].event
      /\ held'[k] = IF down THEN Lesser(held[k] + 1, Full) ELSE 0
      /\ up'[k] = IF down THEN 0 ELSE Lesser(up[k] + 1, MinRelease)
    BY DEF Scan, Full
<1>2. /\ key[k] = [status |-> key[k].status, count |-> c,
                   event |-> key[k].event]
      /\ held[k] \in Nat /\ up[k] \in Nat
      /\ MachineOf(k, held[k])
      /\ down => held[k] > 0 \/ up[k] >= MinRelease
    BY DEF HoldInv
<1>3. KEY_EVENT_LONG_COUNT \in 1..255 /\ MinRelease \in Nat
    BY CountFitsItsByte, MinReleaseAssumption
<1>4. held'[k] \in Nat /\ up'[k] \in Nat /\ (down => held'[k] > 0)
    BY <1>1, <1>2, <1>3 DEF Lesser, Full
<1>5. CASE held[k] = 0 /\ key[k].status = "KEY_NULL" /\ last[k] # "DOWN"
  <2>1. key'[k] = [status |-> IF down THEN "KEY_SURE" ELSE "KEY_NULL",
                   count |-> c, event |-> "NULL"]
    BY <1>1, <1>2, <1>5, ScannedNull DEF Laid
  <2>2. /\ key'[k].status = IF down THEN "KEY_SURE" ELSE "KEY_NULL"
        /\ key'[k].event = "NULL"
    BY <2>1
  <2>3. /\ held'[k] = IF down THEN 1 ELSE 0
        /\ IF down THEN up'[k] = 0 ELSE up'[k] > 0
    BY <1>1, <1>2, <1>3, <1>5 DEF Lesser, Full
  <2>4. MachineOf(k, held[k])'
    BY <1>1, <1>5, <2>2, <2>3 DEF MachineOf
  <2>. QED  BY <1>4, <2>1, <2>4
<1>6. CASE /\ held[k] = 1 /\ key[k].status = "KEY_SURE" /\ up[k] = 0
           /\ last[k] # "DOWN"
  <2>1. CASE down
    <3>1. key'[k] = [status |-> "KEY_DOWN", count |-> 0, event |-> "DOWN"]
      BY <1>1, <1>2, <1>6, <2>1, ScannedSure DEF Laid
    <3>2. /\ key'[k].status = "KEY_DOWN" /\ key'[k].count = 0
          /\ key'[k].event = "DOWN"
      BY <3>1
    <3>3. held'[k] = 2 /\ up'[k] = 0 /\ last'[k] = "DOWN"
      BY <1>1, <1>3, <1>6, <2>1, <3>2 DEF Lesser, Full
    <3>4. MachineOf(k, held[k])'
      BY <1>3, <3>2, <3>3 DEF MachineOf
    <3>. QED  BY <1>4, <3>1, <3>4
  <2>2. CASE ~down
    <3>1. key'[k] = [status |-> "KEY_NULL", count |-> c, event |-> "NULL"]
      BY <1>1, <1>2, <1>6, <2>2, ScannedSure DEF Laid
    <3>2. key'[k].status = "KEY_NULL" /\ key'[k].event = "NULL"
      BY <3>1
    <3>3. held'[k] = 0 /\ up'[k] > 0
      BY <1>1, <1>2, <1>3, <1>6, <2>2 DEF Lesser
    <3>4. MachineOf(k, held[k])'
      BY <1>1, <1>6, <3>2, <3>3 DEF MachineOf
    <3>. QED  BY <1>4, <3>1, <3>4
  <2>. QED  BY <2>1, <2>2
<1>7. CASE /\ held[k] \in 2..KEY_EVENT_LONG_COUNT + 1 /\ up[k] = 0
           /\ key[k].status = "KEY_DOWN" /\ c = held[k] - 2 /\ last[k] = "DOWN"
  <2>0. c \in Nat
    BY <1>3, <1>7
  <2>1. CASE ~down
    <3>1. key'[k] = [status |-> "KEY_UP", count |-> c, event |-> "UP"]
      BY <1>1, <1>2, <1>7, <2>0, <2>1, ScannedDown DEF Laid
    <3>2. key'[k].status = "KEY_UP" /\ key'[k].event = "UP"
      BY <3>1
    <3>3. held'[k] = 0 /\ up'[k] = 1 /\ last'[k] = "UP"
      BY <1>1, <1>3, <1>7, <2>1, <3>2 DEF Lesser
    <3>4. MachineOf(k, held[k])'
      BY <3>2, <3>3 DEF MachineOf
    <3>. QED  BY <1>4, <3>1, <3>4
  <2>2. CASE down /\ c + 1 >= KEY_EVENT_LONG_COUNT
    <3>1. key'[k] = [status |-> "KEY_LONG", count |-> c + 1, event |-> "LONG"]
      BY <1>1, <1>2, <1>7, <2>0, <2>2, ScannedDown DEF Laid
    <3>2. key'[k].status = "KEY_LONG" /\ key'[k].event = "LONG"
      BY <3>1
    <3>3. held'[k] = Full /\ up'[k] = 0 /\ last'[k] = "LONG"
      BY <1>1, <1>3, <1>7, <2>2, <3>2 DEF Lesser, Full
    <3>4. MachineOf(k, held[k])'
      BY <3>2, <3>3 DEF MachineOf
    <3>. QED  BY <1>4, <3>1, <3>4
  <2>3. CASE down /\ ~(c + 1 >= KEY_EVENT_LONG_COUNT)
    <3>1. key'[k] = [status |-> "KEY_DOWN", count |-> c + 1, event |-> "NULL"]
      BY <1>1, <1>2, <1>7, <2>0, <2>3, ScannedDown DEF Laid
    <3>2. /\ key'[k].status = "KEY_DOWN" /\ key'[k].count = c + 1
          /\ key'[k].event = "NULL"
      BY <3>1
    <3>3. held'[k] = held[k] + 1 /\ up'[k] = 0 /\ last'[k] = "DOWN"
      BY <1>1, <1>3, <1>7, <2>3, <3>2 DEF Lesser, Full
    <3>4. /\ held'[k] \in 2..KEY_EVENT_LONG_COUNT + 1
          /\ key'[k].count = held'[k] - 2
      BY <1>3, <1>7, <2>3, <3>2, <3>3
    <3>5. MachineOf(k, held[k])'
      BY <3>2, <3>3, <3>4 DEF MachineOf
    <3>. QED  BY <1>4, <3>1, <3>5
  <2>. QED  BY <2>1, <2>2, <2>3
<1>8. CASE /\ held[k] = Full /\ up[k] = 0
           /\ key[k].status = "KEY_LONG" /\ last[k] = "LONG"
  <2>1. key'[k] = [status |-> IF down THEN "KEY_LONG" ELSE "KEY_UP",
                   count |-> c, event |-> "NULL"]
    BY <1>1, <1>2, <1>8, ScannedLong DEF Laid
  <2>2. /\ key'[k].status = IF down THEN "KEY_LONG" ELSE "KEY_UP"
        /\ key'[k].event = "NULL"
    BY <2>1
  <2>3. /\ held'[k] = IF down THEN Full ELSE 0
        /\ up'[k] = IF down THEN 0 ELSE 1
        /\ last'[k] = "LONG"
    BY <1>1, <1>3, <1>8, <2>2 DEF Lesser, Full
  <2>4. MachineOf(k, held[k])'
    BY <2>2, <2>3 DEF MachineOf
  <2>. QED  BY <1>4, <2>1, <2>4
<1>9. CASE /\ held[k] = 0 /\ up[k] = 1 /\ key[k].status = "KEY_UP"
           /\ last[k] # "DOWN"
  <2>1. ~down
    BY <1>2, <1>3, <1>9
  <2>2. key'[k] = [status |-> "KEY_NULL", count |-> 0, event |-> "NULL"]
    BY <1>1, <1>2, <1>9, <2>1, ScannedUp DEF Laid
  <2>3. key'[k].status = "KEY_NULL" /\ key'[k].event = "NULL"
    BY <2>2
  <2>4. held'[k] = 0 /\ up'[k] > 0
    BY <1>1, <1>3, <1>9, <2>1 DEF Lesser
  <2>5. MachineOf(k, held[k])'
    BY <1>1, <1>9, <2>3, <2>4 DEF MachineOf
  <2>. QED  BY <1>4, <2>2, <2>5
<1>. QED
    BY <1>2, <1>5, <1>6, <1>7, <1>8, <1>9 DEF MachineOf

LEMMA ScansHold == ASSUME MinRelease >= 2, HoldInv, Scan PROVE HoldInv'
<1>1. key' = [k \in KeySet |-> key'[k]]
    BY DEF Scan
<1>2. pressed' = pressed
    BY DEF Scan
<1>3. ASSUME NEW k \in KeySet
      PROVE  /\ key'[k] = [status |-> key'[k].status, count |-> key'[k].count,
                           event |-> key'[k].event]
             /\ held'[k] \in Nat /\ up'[k] \in Nat
             /\ MachineOf(k, held[k])'
             /\ k \in pressed' => held'[k] > 0 \/ up'[k] >= MinRelease
    BY <1>2, ScanHold
<1>. QED
    BY <1>1, <1>3 DEF HoldInv

\* The other actions of the two tasks leave the keyboard alone.
LEMMA StepHold ==
    ASSUME MinRelease >= 2, HoldInv, [Next]_vars PROVE HoldInv'
<1>. USE DEF Next
<1>1. CASE UNCHANGED keyVars
    BY <1>1 DEF HoldInv, MachineOf, keyVars
<1>2. CASE \E k \in KeySet : PressKey(k) \/ ReleaseKey(k)
    BY <1>2, PressHold DEF PressKey, ReleaseKey
<1>3. CASE ScanKeys
    BY <1>3, ScansHold DEF ScanKeys
<1>. QED
    BY <1>1, <1>2, <1>3 DEF vars, SampleBattery, ServeWifiState, Receive, Handle

LEMMA HoldTells == HoldInv => EventsTellTheHold
BY CountFitsItsByte DEF HoldInv, MachineOf, EventsTellTheHold, Full

\* app/keyboard.c:105-193.  With any number of keys and any length of a long
\* press, the last event of a key that is down tells for how long: no DOWN yet
\* at the first scan, DOWN from the second on, LONG when the count is full.
\* It takes that a key that was let go is seen up twice before it goes down
\* again: KEY_UP does not look at a key that is down.
THEOREM KeyEventsTellTheHold ==
    ASSUME MinRelease >= 2 PROVE Spec => []EventsTellTheHold
<1>1. Init => HoldInv
    BY KeyHoldInit DEF Init
<1>2. HoldInv /\ [Next]_vars => HoldInv'
    BY StepHold
<1>3. HoldInv => EventsTellTheHold
    BY HoldTells
<1>. QED  BY <1>1, <1>2, <1>3, PTL DEF Spec

-----------------------------------------------------------------------------
(* Counting the messages of a sequence that are in a set.                   *)

\* The places of ms whose messages are in M.
Places(M, ms) == {i \in DOMAIN ms : ms[i] \in M}

LEMMA PlacesAreFinite ==
    ASSUME NEW S, NEW ms \in Seq(S), NEW M
    PROVE  /\ Places(M, ms) \subseteq 1..Len(ms) /\ IsFiniteSet(Places(M, ms))
           /\ CountIn(M, ms) = Cardinality(Places(M, ms))
           /\ CountIn(M, ms) \in Nat
<1>1. Len(ms) \in Nat /\ DOMAIN ms = 1..Len(ms)
  OBVIOUS
<1>2. Places(M, ms) \subseteq 1..Len(ms)
  BY <1>1 DEF Places
<1>3. IsFiniteSet(1..Len(ms))
  BY <1>1, FS_Interval
<1>4. IsFiniteSet(Places(M, ms))
  BY <1>2, <1>3, FS_Subset
<1>5. CountIn(M, ms) = Cardinality(Places(M, ms))
  BY DEF CountIn, Places
<1>. QED  BY <1>2, <1>4, <1>5, FS_CardinalityType

LEMMA CountNone == ASSUME NEW M PROVE CountIn(M, <<>>) = 0
<1>1. {i \in DOMAIN <<>> : <<>>[i] \in M} = {}
  OBVIOUS
<1>. QED  BY <1>1, FS_EmptySet DEF CountIn

LEMMA CountOne ==
    ASSUME NEW M, NEW m
    PROVE  CountIn(M, <<m>>) = IF m \in M THEN 1 ELSE 0
<1>1. {i \in DOMAIN <<m>> : <<m>>[i] \in M} =
        IF m \in M THEN {1} ELSE {}
  OBVIOUS
<1>. QED  BY <1>1, FS_EmptySet, FS_Singleton DEF CountIn

\* Moving every member of a set by n leaves as many.
LEMMA MovedCount ==
    ASSUME NEW S \in SUBSET Nat, IsFiniteSet(S), NEW n \in Nat
    PROVE  LET T == {i + n : i \in S}
           IN  IsFiniteSet(T) /\ Cardinality(T) = Cardinality(S)
<1>. DEFINE T == {i + n : i \in S}
            f == [i \in S |-> i + n]
<1>1. f \in [S -> T]
  OBVIOUS
<1>2. \A i, j \in S : f[i] = f[j] => i = j
  OBVIOUS
<1>3. \A t \in T : \E i \in S : f[i] = t
  OBVIOUS
<1>4. f \in Bijection(S, T)
  BY <1>1, <1>2, <1>3 DEF Bijection, Injection, Surjection, IsInjective
<1>5. ExistsBijection(S, T)
  BY <1>4 DEF ExistsBijection
<1>. QED  BY <1>5, FS_Bijection

LEMMA CountOfBoth ==
    ASSUME NEW S, NEW ms \in Seq(S), NEW ns \in Seq(S), NEW M
    PROVE  CountIn(M, ms \o ns) = CountIn(M, ms) + CountIn(M, ns)
<1>. DEFINE P == Places(M, ms)
            Q == {i + Len(ms) : i \in Places(M, ns)}
<1>1. /\ Len(ms) \in Nat /\ Len(ns) \in Nat
      /\ DOMAIN ms = 1..Len(ms) /\ DOMAIN ns = 1..Len(ns)
  OBVIOUS
<1>2. /\ ms \o ns \in Seq(S) /\ Len(ms \o ns) = Len(ms) + Len(ns)
      /\ \A i \in 1..Len(ms) + Len(ns) :
           (ms \o ns)[i] = IF i <= Len(ms) THEN ms[i] ELSE ns[i - Len(ms)]
  BY ConcatProperties
<1>3. DOMAIN (ms \o ns) = 1..Len(ms) + Len(ns)
  BY <1>1, <1>2
<1>4. Places(M, ms \o ns) \subseteq P \cup Q
  <2>1. SUFFICES ASSUME NEW i \in Places(M, ms \o ns), i \notin P
                 PROVE  i \in Q
    OBVIOUS
  <2>2. i \in 1..Len(ms) + Len(ns) /\ (ms \o ns)[i] \in M
    BY <1>3 DEF Places
  <2>3. ~(i <= Len(ms))
    BY <1>1, <1>2, <2>1, <2>2 DEF Places
  <2>4. i - Len(ms) \in 1..Len(ns) /\ ns[i - Len(ms)] \in M
    BY <1>1, <1>2, <2>2, <2>3
  <2>5. i - Len(ms) \in Places(M, ns)
    BY <1>1, <2>4 DEF Places
  <2>. QED  BY <1>1, <2>2, <2>5
<1>5. P \cup Q \subseteq Places(M, ms \o ns)
  BY <1>1, <1>2, <1>3 DEF Places
<1>6. /\ P \subseteq 1..Len(ms) /\ IsFiniteSet(P)
      /\ Places(M, ns) \subseteq 1..Len(ns) /\ IsFiniteSet(Places(M, ns))
  BY PlacesAreFinite
<1>7. P \cap Q = {}
  BY <1>1, <1>6
<1>8. IsFiniteSet(Q) /\ Cardinality(Q) = Cardinality(Places(M, ns))
  <2>. HIDE DEF Q
  <2>1. Places(M, ns) \in SUBSET Nat
    BY <1>1, <1>6
  <2>. QED  BY <1>1, <1>6, <2>1, MovedCount DEF Q
<1>9. Cardinality(P \cup Q) = Cardinality(P) + Cardinality(Q)
  <2>. HIDE DEF P, Q
  <2>1. Cardinality(P) \in Nat /\ Cardinality(Q) \in Nat
    BY <1>6, <1>8, FS_CardinalityType
  <2>2. Cardinality(P \cap Q) = 0
    BY <1>7, FS_EmptySet
  <2>3. Cardinality(P \cup Q) =
          Cardinality(P) + Cardinality(Q) - Cardinality(P \cap Q)
    BY <1>6, <1>8, FS_Union
  <2>. QED  BY <2>1, <2>2, <2>3
<1>10. Places(M, ms \o ns) = P \cup Q
  BY <1>4, <1>5
<1>. QED  BY <1>2, <1>8, <1>9, <1>10, PlacesAreFinite

LEMMA CountWithLast ==
    ASSUME NEW q \in Seq(Messages), NEW c \in Messages \cup {NoMsg}, NEW M
    PROVE  CountIn(M, Append(q, c)) =
             CountIn(M, q) + IF c \in M THEN 1 ELSE 0
<1>1. q \in Seq(Messages \cup {NoMsg}) /\ <<c>> \in Seq(Messages \cup {NoMsg})
  OBVIOUS
<1>2. Append(q, c) = q \o <<c>>
  BY <1>1, AppendIsConcat
<1>3. CountIn(M, q \o <<c>>) = CountIn(M, q) + CountIn(M, <<c>>)
  BY <1>1, CountOfBoth
<1>4. CountIn(M, <<c>>) = IF c \in M THEN 1 ELSE 0
  BY CountOne
<1>. QED  BY <1>2, <1>3, <1>4

LEMMA CountWithFirst ==
    ASSUME NEW q \in Seq(Messages), q # <<>>, NEW M
    PROVE  CountIn(M, q) =
             CountIn(M, Tail(q)) + IF Head(q) \in M THEN 1 ELSE 0
<1>1. /\ Head(q) \in Messages /\ Tail(q) \in Seq(Messages)
      /\ <<Head(q)>> \in Seq(Messages)
  OBVIOUS
<1>2. q = <<Head(q)>> \o Tail(q)
  OBVIOUS
<1>3. CountIn(M, <<Head(q)>> \o Tail(q)) =
        CountIn(M, <<Head(q)>>) + CountIn(M, Tail(q))
  BY <1>1, CountOfBoth
<1>4. CountIn(M, Tail(q)) \in Nat
  BY <1>1, PlacesAreFinite
<1>5. CountIn(M, <<Head(q)>>) = IF Head(q) \in M THEN 1 ELSE 0
  BY CountOne
<1>6. CountIn(M, <<Head(q)>> \o Tail(q)) =
        CountIn(M, Tail(q)) + CountIn(M, <<Head(q)>>)
  BY <1>3, <1>4, <1>5
<1>. QED  BY <1>2, <1>5, <1>6

-----------------------------------------------------------------------------
(* What is accepted is pending until it has its effect.                     *)

\* The inductive invariant behind AcceptedIsPending.
QueueInv ==
    /\ io_queue \in Seq(Messages) /\ Len(io_queue) <= QueueLen
    /\ current \in Messages \cup {NoMsg}
    /\ stage \in {"service", "handle"}
    /\ current = NoMsg <=> stage = "service"
    /\ owed \in [Effects -> Int]
    /\ lost \in Nat
    /\ AcceptedIsPending

\* No message is the sign of none, and no effect is owed by it.
LEMMA MessagesAreSome == NoMsg \notin Messages
BY DEF NoMsg, Messages, KeyMsg, WifiReset, WifiState, BatteryCap, FeedFoodStart,
       Msg

LEMMA NoneOwesNothing == ASSUME NEW e \in Effects PROVE NoMsg \notin Owing[e]
BY DEF NoMsg, Effects, Owing, KeyMsg, WifiReset, WifiState, BatteryCap, Msg

\* What the queue takes of several messages.
LEMMA FittingFits ==
    ASSUME io_queue \in Seq(Messages), Len(io_queue) <= QueueLen,
           NEW ms \in Seq(Messages)
    PROVE  /\ Fitting(ms) \in Seq(Messages)
           /\ io_queue \o Fitting(ms) \in Seq(Messages)
           /\ Len(io_queue \o Fitting(ms)) <= QueueLen
<1>. DEFINE n == Lesser(Len(ms), QueueLen - Len(io_queue))
<1>1. Len(ms) \in Nat /\ Len(io_queue) \in Nat /\ QueueLen \in Nat
  BY QueueLenAssumption
<1>2. n \in 0..Len(ms) /\ n <= QueueLen - Len(io_queue)
  BY <1>1 DEF Lesser
<1>3. Fitting(ms) = SubSeq(ms, 1, n)
  BY DEF Fitting
<1>4. Fitting(ms) \in Seq(Messages) /\ Len(Fitting(ms)) = n
  <2>. HIDE DEF n
  <2>. QED  BY <1>1, <1>2, <1>3, SubSeqProperties
<1>. QED  BY <1>1, <1>2, <1>4, ConcatProperties

LEMMA FittingOne ==
    ASSUME io_queue \in Seq(Messages), Len(io_queue) <= QueueLen,
           NEW m \in Messages
    PROVE  /\ Fitting(<<m>>) = IF Len(io_queue) < QueueLen THEN <<m>> ELSE <<>>
           /\ Fitting(<<>>) = <<>>
<1>1. Len(io_queue) \in Nat /\ QueueLen \in Nat
  BY QueueLenAssumption
<1>2. Len(<<m>>) = 1 /\ Len(<<>>) = 0
  OBVIOUS
<1>3. SubSeq(<<m>>, 1, 1) = <<m>>
  <2>1. <<m>> \in Seq(Messages)
    OBVIOUS
  <2>. QED  BY <1>2, <2>1, SubSeqFull
<1>4. SubSeq(<<m>>, 1, 0) = <<>> /\ SubSeq(<<>>, 1, 0) = <<>>
  BY SubSeqEmpty
<1>5. /\ Lesser(1, QueueLen - Len(io_queue)) =
           IF Len(io_queue) < QueueLen THEN 1 ELSE 0
      /\ Lesser(0, QueueLen - Len(io_queue)) = 0
  BY <1>1 DEF Lesser
<1>6. /\ Fitting(<<m>>) = SubSeq(<<m>>, 1, Lesser(1, QueueLen - Len(io_queue)))
      /\ Fitting(<<>>) = SubSeq(<<>>, 1, Lesser(0, QueueLen - Len(io_queue)))
  BY <1>2 DEF Fitting
<1>. QED  BY <1>3, <1>4, <1>5, <1>6

\* A message that is accepted adds what it owes.
LEMMA PostHolds ==
    ASSUME QueueInv, NEW ms \in Seq(Messages), PostNew(ms),
           UNCHANGED <<stage, current, lost>>
    PROVE  QueueInv'
<1>. DEFINE fit == Fitting(ms)
<1>1. /\ fit \in Seq(Messages) /\ io_queue \o fit \in Seq(Messages)
      /\ Len(io_queue \o fit) <= QueueLen
  BY FittingFits DEF QueueInv
<1>2. io_queue' = io_queue \o fit
  BY DEF PostNew
<1>3. owed' = [e \in Effects |-> owed[e] + CountIn(Owing[e], fit)]
  BY DEF PostNew
<1>. HIDE DEF fit
<1>4. ASSUME NEW e \in Effects
      PROVE  /\ owed'[e] = owed[e] + CountIn(Owing[e], fit)
             /\ owed'[e] \in Int
             /\ Pending(e)' = Pending(e) + CountIn(Owing[e], fit)
             /\ Pending(e) \in Nat /\ CountIn(Owing[e], fit) \in Nat
  <2>0. PICK M : M = Owing[e]
    OBVIOUS
  <2>1. owed'[e] = owed[e] + CountIn(M, fit) /\ owed[e] \in Int
    BY <1>3, <2>0 DEF QueueInv
  <2>2. CountIn(M, fit) \in Nat /\ CountIn(M, io_queue) \in Nat
    BY <1>1, PlacesAreFinite DEF QueueInv
  <2>3. CountIn(M, io_queue \o fit) = CountIn(M, io_queue) + CountIn(M, fit)
    BY <1>1, CountOfBoth DEF QueueInv
  <2>4. CountIn(M, Append(io_queue, current)) =
          CountIn(M, io_queue) + IF current \in M THEN 1 ELSE 0
    BY CountWithLast DEF QueueInv
  <2>5. CountIn(M, Append(io_queue \o fit, current)) =
          CountIn(M, io_queue \o fit) + IF current \in M THEN 1 ELSE 0
    BY <1>1, CountWithLast DEF QueueInv
  <2>6. Pending(e)' = CountIn(M, Append(io_queue \o fit, current))
    BY <1>2, <2>0 DEF Pending
  <2>. QED  BY <2>0, <2>1, <2>2, <2>3, <2>4, <2>5, <2>6 DEF Pending
<1>5. owed' \in [Effects -> Int]
  BY <1>3, <1>4
<1>6. AcceptedIsPending'
  BY <1>4 DEF AcceptedIsPending, QueueInv
<1>. QED  BY <1>1, <1>2, <1>5, <1>6 DEF QueueInv

LEMMA ReceiveHolds == ASSUME QueueInv, Receive PROVE QueueInv'
<1>. DEFINE h == Head(io_queue)
            t == Tail(io_queue)
<1>1. /\ io_queue \in Seq(Messages) /\ io_queue # <<>>
      /\ Len(io_queue) <= QueueLen /\ current = NoMsg
  BY DEF QueueInv, Receive
<1>2. h \in Messages /\ t \in Seq(Messages) /\ Len(t) <= QueueLen
  BY <1>1, HeadTailProperties, QueueLenAssumption
<1>3. /\ io_queue' = t /\ current' = h /\ stage' = "handle"
      /\ owed' = owed /\ lost' = lost
  BY DEF Receive
<1>. HIDE DEF h, t
<1>4. ASSUME NEW e \in Effects
      PROVE  Pending(e)' = Pending(e)
  <2>0. PICK M : M = Owing[e]
    OBVIOUS
  <2>1. CountIn(M, Append(t, h)) =
          CountIn(M, t) + IF h \in M THEN 1 ELSE 0
    BY <1>2, CountWithLast
  <2>2. CountIn(M, io_queue) = CountIn(M, t) + IF h \in M THEN 1 ELSE 0
    BY <1>1, CountWithFirst DEF h, t
  <2>3. CountIn(M, Append(io_queue, current)) = CountIn(M, io_queue) + 0
    BY <1>1, CountWithLast, NoneOwesNothing, <2>0
  <2>4. CountIn(M, io_queue) \in Nat
    BY <1>1, PlacesAreFinite
  <2>5. Pending(e)' = CountIn(M, Append(t, h))
    BY <1>3, <2>0 DEF Pending
  <2>. QED  BY <2>0, <2>1, <2>2, <2>3, <2>4, <2>5 DEF Pending
<1>5. AcceptedIsPending'
  BY <1>3, <1>4 DEF AcceptedIsPending, QueueInv
<1>6. current' # NoMsg
  BY <1>2, <1>3, MessagesAreSome
<1>. QED  BY <1>2, <1>3, <1>5, <1>6 DEF QueueInv

\* What a message owes it has at once, but the long press of the config key,
\* which leaves it to a second message.
LEMMA OwedBySecond ==
    ASSUME NEW m \in Messages, NEW e \in Effects
    PROVE  /\ m = KeyMsg(<<"config", "LONG">>) => m \notin Performing[e]
           /\ m \in Owing[e] <=>
                \/ m \in Performing[e]
                \/ e = "reset" /\ m = KeyMsg(<<"config", "LONG">>)
           /\ WifiReset \in Owing[e] <=> e = "reset"
           /\ FeedFoodStart \notin Owing[e]
<1>1. KeyMsg(<<"config", "LONG">>) # WifiReset
  BY DEF KeyMsg, WifiReset, Msg
<1>. QED
  BY <1>1 DEF Effects, Owing, Performing, KeyMsg, WifiReset, WifiState,
     BatteryCap, FeedFoodStart, Msg

LongPress == KeyMsg(<<"config", "LONG">>)

\* The handling posts a message that fits or is lost.
LEMMA HandlePosts ==
    ASSUME QueueInv, Handle
    PROVE  \E fit \in {<<>>, <<WifiReset>>, <<FeedFoodStart>>} :
             /\ fit \in Seq(Messages) /\ io_queue \o fit \in Seq(Messages)
             /\ Len(io_queue \o fit) <= QueueLen
             /\ io_queue' = io_queue \o fit
             /\ fit = <<WifiReset>> => current = LongPress
             /\ lost' = IF current = LongPress /\ fit # <<WifiReset>>
                        THEN lost + 1 ELSE lost
<1>. DEFINE own == OwnMessage(current)
            fit == Fitting(own)
            long == current = LongPress
            room == Len(io_queue) < QueueLen
<1>1. /\ io_queue \in Seq(Messages) /\ Len(io_queue) <= QueueLen
      /\ current \in Messages /\ lost \in Nat
  BY DEF QueueInv, Handle
<1>2. WifiReset \in Messages /\ FeedFoodStart \in Messages
  BY DEF Messages
<1>3. /\ io_queue' = io_queue \o fit
      /\ lost' = IF WifiReset \in ToSet(own) \ ToSet(fit)
                 THEN lost + 1 ELSE lost
  BY DEF Handle
<1>4. /\ long => own = <<WifiReset>>
      /\ ~long => own = <<>> \/ own = <<FeedFoodStart>>
      /\ own \in Seq(Messages)
  BY <1>2 DEF OwnMessage, LongPress
<1>5. /\ fit \in Seq(Messages) /\ io_queue \o fit \in Seq(Messages)
      /\ Len(io_queue \o fit) <= QueueLen
  BY <1>1, <1>4, FittingFits
<1>6. fit = IF room THEN own ELSE <<>>
  <2>. HIDE DEF own
  <2>. QED  BY <1>1, <1>2, <1>4, FittingOne
<1>7. /\ WifiReset # FeedFoodStart
      /\ <<WifiReset>> # <<FeedFoodStart>> /\ <<WifiReset>> # <<>>
  BY DEF WifiReset, FeedFoodStart, Msg
<1>8. ToSet(<<>>) = {} /\ \A m : ToSet(<<m>>) = {m}
  BY DEF ToSet
<1>. HIDE DEF own, fit, room, long
<1>9. lost' = IF long /\ fit # <<WifiReset>> THEN lost + 1 ELSE lost
  BY <1>3, <1>4, <1>6, <1>7, <1>8
<1>. QED  BY <1>3, <1>4, <1>5, <1>6, <1>7, <1>9 DEF long

LEMMA HandleHolds == ASSUME QueueInv, Handle PROVE QueueInv'
<1>. DEFINE long == current = LongPress
<1>1. /\ io_queue \in Seq(Messages) /\ Len(io_queue) <= QueueLen
      /\ current \in Messages /\ lost \in Nat
  BY DEF QueueInv, Handle
<1>2. PICK fit \in {<<>>, <<WifiReset>>, <<FeedFoodStart>>} :
        /\ fit \in Seq(Messages) /\ io_queue \o fit \in Seq(Messages)
        /\ Len(io_queue \o fit) <= QueueLen
        /\ io_queue' = io_queue \o fit
        /\ fit = <<WifiReset>> => long
        /\ lost' = IF long /\ fit # <<WifiReset>> THEN lost + 1 ELSE lost
  BY HandlePosts
<1>3. /\ owed' = [e \in Effects |->
                    IF current \in Performing[e] THEN owed[e] - 1 ELSE owed[e]]
      /\ current' = NoMsg /\ stage' = "service"
  BY DEF Handle
<1>. DEFINE second == fit = <<WifiReset>>
<1>4. (second => long) /\ lost' = IF long /\ ~second THEN lost + 1 ELSE lost
  BY <1>2
<1>. HIDE DEF long, second
<1>10. ASSUME NEW e \in Effects
       PROVE  /\ owed'[e] \in Int
              /\ owed'[e] - Pending(e)' = owed[e] - Pending(e)
                   + IF e = "reset" THEN lost' - lost ELSE 0
              /\ Pending(e) \in Nat /\ Pending(e)' \in Nat
  <2>0. PICK M : M = Owing[e]
    OBVIOUS
  <2>1. owed'[e] = IF current \in Performing[e] THEN owed[e] - 1 ELSE owed[e]
    BY <1>3
  <2>2. CountIn(M, fit) = IF second /\ e = "reset" THEN 1 ELSE 0
    <3>1. /\ CountIn(M, <<>>) = 0
          /\ CountIn(M, <<WifiReset>>) = IF e = "reset" THEN 1 ELSE 0
          /\ CountIn(M, <<FeedFoodStart>>) = 0
      BY <1>1, CountNone, CountOne, OwedBySecond, <2>0
    <3>2. <<WifiReset>> # <<FeedFoodStart>> /\ <<WifiReset>> # <<>>
      BY DEF WifiReset, FeedFoodStart, Msg
    <3>. QED  BY <1>2, <3>1, <3>2 DEF second
  <2>3. CountIn(M, io_queue \o fit) = CountIn(M, io_queue) + CountIn(M, fit)
    BY <1>1, <1>2, CountOfBoth
  <2>4. CountIn(M, Append(io_queue, current)) =
          CountIn(M, io_queue) + IF current \in M THEN 1 ELSE 0
    BY <1>1, CountWithLast
  <2>5. CountIn(M, Append(io_queue \o fit, NoMsg)) =
          CountIn(M, io_queue \o fit) + 0
    <3>1. NoMsg \notin M
      BY NoneOwesNothing, <2>0
    <3>2. CountIn(M, Append(io_queue \o fit, NoMsg)) =
            CountIn(M, io_queue \o fit) + IF NoMsg \in M THEN 1 ELSE 0
      BY <1>2, CountWithLast
    <3>. QED  BY <3>1, <3>2
  <2>6. Pending(e)' = CountIn(M, Append(io_queue \o fit, NoMsg))
    BY <1>2, <1>3, <2>0 DEF Pending
  <2>7. /\ current \in M <=>
             current \in Performing[e] \/ (e = "reset" /\ long)
        /\ long => current \notin Performing[e]
    BY <1>1, <2>0, OwedBySecond DEF long, LongPress
  <2>8. CountIn(M, io_queue) \in Nat /\ owed[e] \in Int
    BY <1>1, PlacesAreFinite DEF QueueInv
  <2>9. Pending(e) = CountIn(M, io_queue)
                       + IF current \in M THEN 1 ELSE 0
    BY <2>0, <2>4 DEF Pending
  <2>10. Pending(e)' = CountIn(M, io_queue)
                         + IF second /\ e = "reset" THEN 1 ELSE 0
    BY <2>2, <2>3, <2>5, <2>6, <2>8
  <2>. HIDE DEF Pending
  <2>. QED  BY <1>1, <1>4, <2>1, <2>7, <2>8, <2>9, <2>10
<1>11. owed' \in [Effects -> Int] /\ lost' \in Nat
  BY <1>1, <1>3, <1>4, <1>10
<1>12. AcceptedIsPending'
  <2>1. ASSUME NEW e \in Effects
        PROVE  owed'[e] = Pending(e)' + (IF e = "reset" THEN lost' ELSE 0)
    <3>1. owed[e] = Pending(e) + (IF e = "reset" THEN lost ELSE 0)
      BY DEF AcceptedIsPending, QueueInv
    <3>2. lost' \in Nat
      BY <1>11
    <3>. HIDE DEF Pending
    <3>. QED  BY <1>1, <1>10, <3>1, <3>2
  <2>. QED  BY <2>1 DEF AcceptedIsPending
<1>. QED  BY <1>2, <1>3, <1>11, <1>12 DEF QueueInv

-----------------------------------------------------------------------------
(* What a scan posts.                                                       *)

\* A set of numbers has a least one.
LEMMA HasLeast ==
    ASSUME NEW S, S \subseteq Nat, S # {}
    PROVE  \E x \in S : \A y \in S : x <= y
<1>1. PICK x \in S : \A y \in S : ~(<<y, x>> \in OpToRel(<, Nat))
  BY WFMin, NatLessThanWellFounded
<1>2. ASSUME NEW y \in S, y < x PROVE FALSE
  <2>1. <<y, x>> \in Nat \X Nat /\ <<y, x>>[1] < <<y, x>>[2]
    BY <1>2
  <2>2. <<y, x>> \in OpToRel(<, Nat)
    BY <2>1, Zenon DEF OpToRel
  <2>. QED  BY <1>1, <2>2, Zenon
<1>. QED  BY <1>2

\* A member of each rank is in its place of InOrder.
LEMMA RankExists ==
    ASSUME NEW N \in Nat, NEW S \in SUBSET (1..N), NEW i \in 1..Cardinality(S)
    PROVE  \E n \in S : Cardinality({m \in S : m <= n}) = i
<1>. DEFINE Upto(n) == {m \in S : m <= n}
            T == {n \in 0..N : Cardinality(Upto(n)) >= i}
<1>1. IsFiniteSet(S)
  <2>1. IsFiniteSet(1..N)
    BY FS_Interval
  <2>. QED  BY <2>1, FS_Subset
<1>2. \A n \in Nat : IsFiniteSet(Upto(n)) /\ Cardinality(Upto(n)) \in Nat
  <2>1. TAKE n \in Nat
  <2>2. Upto(n) \in SUBSET S
    OBVIOUS
  <2>3. IsFiniteSet(Upto(n))
    BY <1>1, <2>2, FS_Subset
  <2>. QED  BY <2>3, FS_CardinalityType
<1>3. Upto(N) = S /\ Upto(0) = {} /\ Cardinality(S) \in Nat
  <2>1. Cardinality(S) \in Nat
    BY <1>1, FS_CardinalityType
  <2>2. \A m \in S : m <= N /\ ~(m <= 0)
    OBVIOUS
  <2>3. Upto(N) = S /\ Upto(0) = {}
    BY <2>2, Zenon
  <2>. QED  BY <2>1, <2>3
<1>4. \A n \in 1..N :
        /\ Upto(n) = IF n \in S THEN Upto(n - 1) \cup {n} ELSE Upto(n - 1)
        /\ n \notin Upto(n - 1)
  <2>1. TAKE n \in 1..N
  <2>2. \A m \in S : m <= n <=> m <= n - 1 \/ m = n
    OBVIOUS
  <2>3. n \notin Upto(n - 1)
    OBVIOUS
  <2>4. \A m : m \in Upto(n) <=> m \in Upto(n - 1) \/ (m = n /\ n \in S)
    BY <2>2
  <2>. QED
    <3>. HIDE DEF Upto
    <3>. QED  BY <2>3, <2>4
<1>. HIDE DEF Upto
<1>5. N \in T /\ T \subseteq Nat
  BY <1>3
<1>6. PICK n \in T : \A y \in T : n <= y
  BY <1>5, HasLeast
<1>7. Cardinality(Upto(n)) >= i /\ n \in 0..N
  BY <1>6
<1>8. n # 0
  <2>1. Cardinality(Upto(0)) = 0
    BY <1>3, FS_EmptySet
  <2>. QED  BY <1>7, <2>1
<1>9. n \in 1..N /\ n \in Nat /\ n - 1 \in Nat /\ n - 1 \in 0..N
  BY <1>7, <1>8
<1>10. n - 1 \notin T
  <2>. HIDE DEF T
  <2>. QED  BY <1>6, <1>9
<1>11. IsFiniteSet(Upto(n - 1)) /\ Cardinality(Upto(n - 1)) \in Nat
  BY <1>2, <1>9
<1>12. Cardinality(Upto(n - 1)) < i
  BY <1>9, <1>10, <1>11
<1>13. n \in S
  BY <1>4, <1>7, <1>9, <1>11, <1>12
<1>14. Cardinality(Upto(n)) = Cardinality(Upto(n - 1)) + 1
  BY <1>4, <1>9, <1>11, <1>13, FS_AddElement
<1>15. Cardinality(Upto(n)) = i
  BY <1>7, <1>11, <1>12, <1>14
<1>. QED  BY <1>13, <1>15 DEF Upto

\* InOrder gives members of the set, each once.
LEMMA InOrderGives ==
    ASSUME NEW N \in Nat, NEW S \in SUBSET (1..N)
    PROVE  /\ InOrder(S) \in Seq(S)
           /\ \A i, j \in DOMAIN InOrder(S) :
                InOrder(S)[i] = InOrder(S)[j] => i = j
<1>. DEFINE Rank(n) == Cardinality({m \in S : m <= n})
<1>1. IsFiniteSet(S)
  <2>1. IsFiniteSet(1..N)
    BY FS_Interval
  <2>. QED  BY <2>1, FS_Subset
<1>2. Cardinality(S) \in Nat
  BY <1>1, FS_CardinalityType
<1>3. InOrder(S) = [i \in 1..Cardinality(S) |-> CHOOSE n \in S : Rank(n) = i]
  BY DEF InOrder
<1>4. \A i \in 1..Cardinality(S) : \E n \in S : Rank(n) = i
  BY RankExists
<1>. HIDE DEF Rank
<1>5. \A i \in 1..Cardinality(S) :
        InOrder(S)[i] \in S /\ Rank(InOrder(S)[i]) = i
  BY <1>3, <1>4
<1>6. DOMAIN InOrder(S) = 1..Cardinality(S)
  BY <1>3
<1>7. InOrder(S) \in [1..Cardinality(S) -> S]
  BY <1>3, <1>5
<1>. QED  BY <1>2, <1>5, <1>6, <1>7

\* What a key's machine may be, and what it can be in the midst of.
KeyState == [status : Statuses, event : Events, count : 0..KEY_EVENT_LONG_COUNT]

KeyInv ==
    /\ KeyTypeOK
    /\ \A k \in KeySet :
         /\ key[k].status = "KEY_DOWN" => key[k].count < KEY_EVENT_LONG_COUNT
         /\ key[k].status = "KEY_UP" => key[k].event # "LONG"

\* Key k may come to a long press before it is pressed again.
OnItsWay(k) ==
    \/ key[k].status \in {"KEY_SURE", "KEY_DOWN"}
    \/ k \in pressed /\ key[k].status \in {"KEY_NULL", "KEY_UP"}

LEMMA ScanKey ==
    ASSUME KeyInv, Scan, NEW k \in KeySet
    PROVE  /\ key'[k] \in KeyState
           /\ key'[k].status = "KEY_DOWN" =>
                key'[k].count < KEY_EVENT_LONG_COUNT
           /\ key'[k].status = "KEY_UP" => key'[k].event # "LONG"
           /\ OnItsWay(k)' => OnItsWay(k)
           /\ key'[k].event = "LONG" => OnItsWay(k) /\ ~OnItsWay(k)'
<1>. DEFINE c == key[k].count
            new(status, count, event) ==
              [status |-> status, count |-> count, event |-> event]
            full == c + 1 >= KEY_EVENT_LONG_COUNT
<1>1. key'[k] = Scanned(key[k], k \in pressed) /\ pressed' = pressed
  BY DEF Scan
<1>2. /\ key[k] \in KeyState
      /\ key[k].status = "KEY_DOWN" => c < KEY_EVENT_LONG_COUNT
      /\ key[k].status = "KEY_UP" => key[k].event # "LONG"
  BY DEF KeyInv, KeyTypeOK, KeyState
<1>3. /\ key[k] = new(key[k].status, c, key[k].event)
      /\ key[k].status \in Statuses /\ key[k].event \in Events
      /\ c \in 0..KEY_EVENT_LONG_COUNT
  BY <1>2 DEF KeyState
<1>4. KEY_EVENT_LONG_COUNT \in Nat /\ KEY_EVENT_LONG_COUNT >= 1
  BY CountFitsItsByte
<1>5. CASE key[k].status = "KEY_NULL"
  <2>1. key'[k] = new(IF k \in pressed THEN "KEY_SURE" ELSE "KEY_NULL",
                      c, "NULL")
    BY <1>1, <1>3, <1>5, ScannedNull DEF Laid
  <2>. QED  BY <1>1, <1>3, <1>5, <2>1 DEF KeyState, OnItsWay, Statuses, Events
<1>6. CASE key[k].status = "KEY_SURE"
  <2>1. key'[k] = IF k \in pressed THEN new("KEY_DOWN", 0, "DOWN")
                  ELSE new("KEY_NULL", c, "NULL")
    BY <1>1, <1>3, <1>6, ScannedSure DEF Laid
  <2>. QED
    BY <1>1, <1>3, <1>4, <1>6, <2>1 DEF KeyState, OnItsWay, Statuses, Events
<1>7. CASE key[k].status = "KEY_DOWN"
  <2>1. key'[k] = IF k \notin pressed THEN new("KEY_UP", c, "UP")
                  ELSE IF full THEN new("KEY_LONG", c + 1, "LONG")
                       ELSE new("KEY_DOWN", c + 1, "NULL")
    BY <1>1, <1>3, <1>7, ScannedDown DEF Laid
  <2>2. c + 1 \in 0..KEY_EVENT_LONG_COUNT
    BY <1>2, <1>3, <1>4, <1>7
  <2>3. CASE k \notin pressed
    BY <1>1, <1>3, <1>7, <2>1, <2>3 DEF KeyState, OnItsWay, Statuses, Events
  <2>4. CASE k \in pressed /\ full
    BY <1>1, <1>3, <1>7, <2>1, <2>2, <2>4
       DEF KeyState, OnItsWay, Statuses, Events
  <2>5. CASE k \in pressed /\ ~full
    BY <1>1, <1>3, <1>4, <1>7, <2>1, <2>2, <2>5
       DEF KeyState, OnItsWay, Statuses, Events
  <2>. QED  BY <2>3, <2>4, <2>5
<1>8. CASE key[k].status = "KEY_LONG"
  <2>1. key'[k] = new(IF k \in pressed THEN "KEY_LONG" ELSE "KEY_UP", c, "NULL")
    BY <1>1, <1>3, <1>8, ScannedLong DEF Laid
  <2>. QED  BY <1>1, <1>3, <1>8, <2>1 DEF KeyState, OnItsWay, Statuses, Events
<1>9. CASE key[k].status = "KEY_UP"
  <2>1. CASE k \notin pressed
    <3>1. key'[k] = new("KEY_NULL", 0, "NULL")
      BY <1>1, <1>3, <1>9, <2>1, ScannedUp DEF Laid
    <3>. QED
      BY <1>1, <1>4, <1>9, <2>1, <3>1 DEF KeyState, OnItsWay, Statuses, Events
  <2>2. CASE k \in pressed
    <3>1. key'[k] = FromUp(key[k], k \in pressed)
      BY <1>1, <1>9 DEF Scanned
    <3>2. key'[k] = key[k]
      BY <2>2, <3>1 DEF FromUp
    <3>. QED  BY <1>1, <1>2, <1>9, <3>2 DEF OnItsWay
  <2>. QED  BY <2>1, <2>2
<1>. QED  BY <1>3, <1>5, <1>6, <1>7, <1>8, <1>9 DEF Statuses

\* A scan posts the events it made, each key at most one.
Posts == KeySet \X (Events \ {"NULL"})

LEMMA PostedIs ==
    ASSUME KeyInv, Scan
    PROVE  /\ posted' \in Seq(Posts)
           /\ \A i \in DOMAIN posted' :
                posted'[i][2] = key'[posted'[i][1]].event
           /\ \A i, j \in DOMAIN posted' :
                posted'[i][1] = posted'[j][1] => i = j
<1>. DEFINE S == {n \in DOMAIN Keys : key'[Keys[n]].event # "NULL"}
            told == InOrder(S)
            N == Len(Keys)
<1>1. /\ N \in Nat /\ DOMAIN Keys = 1..N
      /\ \A n \in 1..N : Keys[n] \in KeySet
      /\ \A m, n \in 1..N : Keys[m] = Keys[n] => m = n
  BY KeysAssumption DEF KeySet
<1>2. S \in SUBSET (1..N)
  BY <1>1
<1>3. \A n \in S : /\ n \in 1..N /\ Keys[n] \in KeySet
                   /\ key'[Keys[n]].event \in Events \ {"NULL"}
  BY <1>1, ScanKey DEF KeyState
<1>4. posted' = [i \in DOMAIN told |->
                   <<Keys[told[i]], key'[Keys[told[i]]].event>>]
  BY DEF Scan
<1>. HIDE DEF S
<1>5. /\ told \in Seq(S)
      /\ \A i, j \in DOMAIN told : told[i] = told[j] => i = j
  BY <1>1, <1>2, InOrderGives
<1>. HIDE DEF told, N
<1>6. /\ DOMAIN told = 1..Len(told) /\ Len(told) \in Nat
      /\ \A i \in DOMAIN told : told[i] \in S
  BY <1>5
<1>7. \A i \in DOMAIN told :
        posted'[i] = <<Keys[told[i]], key'[Keys[told[i]]].event>>
  BY <1>4
<1>8. DOMAIN posted' = DOMAIN told
  BY <1>4
<1>9. \A i \in DOMAIN told : posted'[i] \in Posts
  <2>1. TAKE i \in DOMAIN told
  <2>2. PICK n \in S : n = told[i]
    BY <1>6
  <2>3. <<Keys[n], key'[Keys[n]].event>> \in Posts
    BY <1>3 DEF Posts
  <2>. QED  BY <1>7, <2>2, <2>3
<1>10. posted' \in [1..Len(told) -> Posts]
  BY <1>4, <1>6, <1>7, <1>9
<1>11. posted' \in Seq(Posts)
  BY <1>6, <1>10
<1>12. \A i \in DOMAIN told : posted'[i][1] = Keys[told[i]]
                           /\ posted'[i][2] = key'[Keys[told[i]]].event
  BY <1>7
<1>13. \A i, j \in DOMAIN told : posted'[i][1] = posted'[j][1] => i = j
  BY <1>1, <1>3, <1>5, <1>6, <1>12
<1>. QED  BY <1>8, <1>11, <1>12, <1>13

LEMMA ScanKeeps == ASSUME KeyInv, Scan PROVE KeyInv'
<1>1. KEY_EVENT_LONG_COUNT \in Nat /\ MinRelease \in Nat
  BY CountFitsItsByte, MinReleaseAssumption
<1>2. /\ pressed \subseteq KeySet
      /\ held \in [KeySet -> 0..KEY_EVENT_LONG_COUNT + 2]
      /\ up \in [KeySet -> 0..MinRelease] /\ last \in [KeySet -> Events]
  BY DEF KeyInv, KeyTypeOK
<1>3. pressed' \subseteq KeySet
  BY <1>2 DEF Scan
<1>4. key' \in [KeySet -> KeyState]
  BY ScanKey DEF Scan
<1>5. ToSet(posted') \subseteq Posts
  BY PostedIs DEF ToSet
<1>6. held' \in [KeySet -> 0..KEY_EVENT_LONG_COUNT + 2]
  <2>1. \A n \in 0..KEY_EVENT_LONG_COUNT + 2 :
          /\ Lesser(n + 1, KEY_EVENT_LONG_COUNT + 2) \in
               0..KEY_EVENT_LONG_COUNT + 2
          /\ 0 \in 0..KEY_EVENT_LONG_COUNT + 2
    BY <1>1 DEF Lesser
  <2>. QED  BY <1>2, <2>1 DEF Scan
<1>7. up' \in [KeySet -> 0..MinRelease]
  <2>1. \A n \in 0..MinRelease : /\ Lesser(n + 1, MinRelease) \in 0..MinRelease
                                 /\ 0 \in 0..MinRelease
    BY <1>1 DEF Lesser
  <2>. QED  BY <1>2, <2>1 DEF Scan
<1>8. last' \in [KeySet -> Events]
  BY <1>2, <1>4 DEF Scan, KeyState
<1>. QED
  BY <1>3, <1>4, <1>5, <1>6, <1>7, <1>8, ScanKey
     DEF KeyInv, KeyTypeOK, KeyState, Posts

-----------------------------------------------------------------------------
(* The two tasks together.                                                  *)

\* The messages of a scan.
ScanMsgs(events) == [n \in DOMAIN events |-> KeyMsg(events[n])]

LEMMA ScanMsgsAre ==
    ASSUME NEW events \in Seq(Posts)
    PROVE  /\ ScanMsgs(events) \in Seq(Messages)
           /\ DOMAIN ScanMsgs(events) = DOMAIN events
           /\ \A n \in DOMAIN events : ScanMsgs(events)[n] = KeyMsg(events[n])
<1>1. DOMAIN events = 1..Len(events) /\ Len(events) \in Nat
  OBVIOUS
<1>2. \A n \in DOMAIN events : KeyMsg(events[n]) \in Messages
  BY <1>1 DEF Posts, Messages
<1>3. ScanMsgs(events) \in [1..Len(events) -> Messages]
  BY <1>1, <1>2 DEF ScanMsgs
<1>. QED  BY <1>1, <1>3 DEF ScanMsgs

\* Long presses of the config key that a queue holds or the task handles, and
\* whether another is coming.
Longs(q, c) == CountIn({LongPress}, Append(q, c))
Coming == IF "config" \in KeySet /\ OnItsWay("config") THEN 1 ELSE 0

\* Every reset that was lost is of a press of its own.
LostInv ==
    /\ presses \in 0..MaxPresses /\ news \in 0..MaxNews
    /\ lost + Longs(io_queue, current) + Coming <= presses

AppInv == KeyInv /\ QueueInv /\ LostInv

\* Posting adds the long presses that fit.
LEMMA LongsAdd ==
    ASSUME NEW q \in Seq(Messages), NEW fit \in Seq(Messages),
           NEW c \in Messages \cup {NoMsg}
    PROVE  /\ Longs(q \o fit, c) = Longs(q, c) + CountIn({LongPress}, fit)
           /\ Longs(q, c) = CountIn({LongPress}, q)
                              + IF c = LongPress THEN 1 ELSE 0
           /\ Longs(q, c) \in Nat /\ CountIn({LongPress}, q) \in Nat
<1>. DEFINE M == {LongPress}
<1>1. q \o fit \in Seq(Messages)
  BY ConcatProperties
<1>2. c \in M <=> c = LongPress
  OBVIOUS
<1>. HIDE DEF M
<1>3. CountIn(M, Append(q \o fit, c)) =
        CountIn(M, q \o fit) + IF c \in M THEN 1 ELSE 0
  BY <1>1, CountWithLast
<1>4. CountIn(M, Append(q, c)) = CountIn(M, q) + IF c \in M THEN 1 ELSE 0
  BY CountWithLast
<1>5. CountIn(M, q \o fit) = CountIn(M, q) + CountIn(M, fit)
  BY CountOfBoth
<1>6. CountIn(M, q) \in Nat /\ CountIn(M, fit) \in Nat
  BY PlacesAreFinite
<1>7. /\ Longs(q \o fit, c) = CountIn(M, Append(q \o fit, c))
      /\ Longs(q, c) = CountIn(M, Append(q, c))
  BY DEF Longs, M
<1>8. /\ CountIn({LongPress}, fit) = CountIn(M, fit)
      /\ CountIn({LongPress}, q) = CountIn(M, q)
  BY DEF M
<1>. QED  BY <1>2, <1>3, <1>4, <1>5, <1>6, <1>7, <1>8

\* What fits of a scan's messages has a long press of the config key only if
\* the scan made one, and then one.
LEMMA ScanLongs ==
    ASSUME KeyInv, QueueInv, Scan
    PROVE  LET fit == Fitting(ScanMsgs(posted'))
           IN  /\ CountIn({LongPress}, fit) \in {0, 1}
               /\ CountIn({LongPress}, fit) = 1 =>
                    "config" \in KeySet /\ key'["config"].event = "LONG"
<1>. DEFINE ms == ScanMsgs(posted')
            fit == Fitting(ms)
            P == Places({LongPress}, fit)
            n == Lesser(Len(ms), QueueLen - Len(io_queue))
<1>1. /\ posted' \in Seq(Posts)
      /\ \A i \in DOMAIN posted' : posted'[i][2] = key'[posted'[i][1]].event
      /\ \A i, j \in DOMAIN posted' : posted'[i][1] = posted'[j][1] => i = j
  BY PostedIs
<1>2. /\ ms \in Seq(Messages) /\ DOMAIN ms = DOMAIN posted'
      /\ \A i \in DOMAIN posted' : ms[i] = KeyMsg(posted'[i])
  BY <1>1, ScanMsgsAre
<1>. HIDE DEF ms
<1>3. /\ Len(ms) \in Nat /\ Len(io_queue) \in Nat /\ QueueLen \in Nat
      /\ Len(io_queue) <= QueueLen /\ DOMAIN ms = 1..Len(ms)
  BY <1>2, QueueLenAssumption DEF QueueInv
<1>4. n \in 0..Len(ms)
  BY <1>3 DEF Lesser
<1>5. fit = SubSeq(ms, 1, n)
  BY DEF Fitting
<1>. HIDE DEF n
<1>6. /\ fit \in Seq(Messages) /\ DOMAIN fit = 1..n
      /\ \A i \in 1..n : fit[i] = ms[i]
  <2>. HIDE DEF fit
  <2>1. /\ SubSeq(ms, 1, n) \in Seq(Messages) /\ Len(SubSeq(ms, 1, n)) = n
        /\ \A i \in 1..n : SubSeq(ms, 1, n)[i] = ms[i]
    BY <1>2, <1>3, <1>4, SubSeqProperties
  <2>. QED  BY <1>5, <2>1
<1>. HIDE DEF fit
<1>7. ASSUME NEW i \in P
      PROVE  /\ i \in DOMAIN posted' /\ posted'[i][1] = "config"
             /\ posted'[i][2] = "LONG" /\ "config" \in KeySet
  <2>1. i \in 1..n /\ fit[i] = LongPress
    BY <1>6 DEF Places
  <2>2. i \in DOMAIN posted' /\ KeyMsg(posted'[i]) = LongPress
    BY <1>2, <1>3, <1>4, <1>6, <2>1
  <2>3. posted'[i] \in Posts
    BY <1>1, <2>2
  <2>. QED  BY <2>2, <2>3 DEF Posts, KeyMsg, LongPress, Msg
<1>8. \A i, j \in P : i = j
  BY <1>1, <1>7
<1>9. IsFiniteSet(P) /\ CountIn({LongPress}, fit) = Cardinality(P)
  BY <1>6, PlacesAreFinite
<1>10. CASE P = {}
  BY <1>9, <1>10, FS_EmptySet DEF fit, ms
<1>11. CASE P # {}
  <2>1. PICK i \in P : TRUE
    BY <1>11
  <2>2. P = {i}
    BY <1>8, <2>1
  <2>3. CountIn({LongPress}, fit) = 1
    BY <1>9, <2>2, FS_Singleton
  <2>4. "config" \in KeySet /\ key'["config"].event = "LONG"
    BY <1>1, <1>7, <2>1
  <2>. QED  BY <2>3, <2>4 DEF fit, ms
<1>. QED  BY <1>10, <1>11

LEMMA QueueStays ==
    ASSUME QueueInv, UNCHANGED <<io_queue, stage, current, owed, lost>>
    PROVE  QueueInv' /\ Longs(io_queue, current)' = Longs(io_queue, current)
BY DEF QueueInv, AcceptedIsPending, Pending, Longs

LEMMA PressKeeps ==
    ASSUME AppInv, NEW k \in KeySet, PressKey(k) \/ ReleaseKey(k)
    PROVE  AppInv'
<1>1. /\ pressed' \subseteq pressed \cup {k} /\ key' = key
      /\ UNCHANGED <<posted, held, up, last, news>>
  BY DEF PressKey, ReleaseKey, Press, Release, appVars
<1>2. KeyInv'
  BY <1>1 DEF AppInv, KeyInv, KeyTypeOK
<1>3. UNCHANGED <<io_queue, stage, current, owed, lost>>
  BY DEF PressKey, ReleaseKey, appVars
<1>4. QueueInv' /\ Longs(io_queue, current)' = Longs(io_queue, current)
  BY <1>3, QueueStays DEF AppInv
<1>5. /\ presses \in 0..MaxPresses /\ news \in 0..MaxNews
      /\ lost + Longs(io_queue, current) + Coming <= presses
      /\ lost \in Nat /\ Longs(io_queue, current) \in Nat
  BY LongsAdd DEF AppInv, LostInv, QueueInv
<1>6. Coming \in {0, 1} /\ Coming' \in {0, 1}
  BY DEF Coming
<1>. HIDE DEF Longs
<1>7. CASE PressKey(k)
  <2>1. presses' = presses + 1 /\ presses < MaxPresses
    BY <1>7 DEF PressKey
  <2>. QED
    BY <1>1, <1>2, <1>3, <1>4, <1>5, <1>6, <2>1, BoundsAssumption
       DEF AppInv, LostInv
<1>8. CASE ReleaseKey(k)
  <2>1. presses' = presses /\ pressed' \subseteq pressed
    BY <1>8 DEF ReleaseKey, Release, appVars
  <2>2. OnItsWay("config")' => OnItsWay("config")
    BY <1>1, <2>1 DEF OnItsWay
  <2>3. Coming' <= Coming
    BY <2>2 DEF Coming
  <2>. QED
    BY <1>1, <1>2, <1>3, <1>4, <1>5, <1>6, <2>1, <2>3 DEF AppInv, LostInv
<1>. QED  BY <1>7, <1>8

LEMMA ScanKeysKeeps == ASSUME AppInv, ScanKeys PROVE AppInv'
<1>. DEFINE ms == ScanMsgs(posted')
            fit == Fitting(ms)
            more == CountIn({LongPress}, fit)
<1>1. /\ Scan /\ PostNew(ms)
      /\ UNCHANGED <<stage, current, lost, presses, news>>
  BY DEF ScanKeys, ScanMsgs
<1>2. KeyInv /\ QueueInv /\ LostInv
  BY DEF AppInv
<1>3. KeyInv'
  BY <1>1, <1>2, ScanKeeps
<1>4. ms \in Seq(Messages)
  BY <1>1, <1>2, PostedIs, ScanMsgsAre
<1>5. /\ more \in {0, 1}
      /\ more = 1 => "config" \in KeySet /\ key'["config"].event = "LONG"
  BY <1>1, <1>2, ScanLongs
<1>. HIDE DEF ms
<1>6. QueueInv'
  BY <1>1, <1>2, <1>4, PostHolds
<1>7. fit \in Seq(Messages) /\ io_queue' = io_queue \o fit
  BY <1>1, <1>2, <1>4, FittingFits DEF PostNew, QueueInv
<1>. HIDE DEF fit
<1>8. /\ Longs(io_queue \o fit, current) = Longs(io_queue, current) + more
      /\ Longs(io_queue, current) \in Nat
  BY <1>2, <1>7, LongsAdd DEF QueueInv
<1>. HIDE DEF more
<1>9. Longs(io_queue, current)' = Longs(io_queue, current) + more
  BY <1>1, <1>7, <1>8 DEF Longs
<1>10. Coming' + more <= Coming /\ Coming \in {0, 1} /\ Coming' \in {0, 1}
  <2>1. CASE "config" \in KeySet
    <3>1. /\ OnItsWay("config")' => OnItsWay("config")
          /\ key'["config"].event = "LONG" =>
               OnItsWay("config") /\ ~OnItsWay("config")'
      BY <1>1, <1>2, <2>1, ScanKey
    <3>. QED  BY <1>5, <2>1, <3>1 DEF Coming
  <2>2. CASE "config" \notin KeySet
    BY <1>5, <2>2 DEF Coming
  <2>. QED  BY <2>1, <2>2
<1>11. lost \in Nat /\ lost' = lost /\ presses' = presses /\ news' = news
  BY <1>1, <1>2 DEF QueueInv
<1>12. LostInv'
  <2>1. /\ presses \in 0..MaxPresses /\ news \in 0..MaxNews
        /\ lost + Longs(io_queue, current) + Coming <= presses
    BY <1>2 DEF LostInv
  <2>2. lost' + Longs(io_queue, current)' + Coming' <= presses'
    BY <1>5, <1>8, <1>9, <1>10, <1>11, <2>1, BoundsAssumption DEF more
  <2>. QED  BY <1>11, <2>1, <2>2 DEF LostInv
<1>. QED  BY <1>3, <1>6, <1>12 DEF AppInv

\* The battery and the Wi-Fi module post no long press.
LEMMA NewsKeeps ==
    ASSUME AppInv, NEW m \in Messages, m # LongPress, PostNew(<<m>>),
           news < MaxNews, news' = news + 1,
           UNCHANGED <<keyVars, stage, current, lost, presses>>
    PROVE  AppInv'
<1>. DEFINE fit == Fitting(<<m>>)
<1>1. KeyInv /\ QueueInv /\ LostInv
  BY DEF AppInv
<1>2. <<m>> \in Seq(Messages)
  OBVIOUS
<1>3. QueueInv'
  BY <1>1, <1>2, PostHolds
<1>4. fit \in Seq(Messages) /\ io_queue' = io_queue \o fit
  BY <1>1, <1>2, FittingFits DEF PostNew, QueueInv
<1>5. fit = <<m>> \/ fit = <<>>
  BY <1>1, FittingOne DEF QueueInv
<1>. HIDE DEF fit
<1>6. CountIn({LongPress}, <<m>>) = 0 /\ CountIn({LongPress}, <<>>) = 0
  <2>1. m \notin {LongPress}
    OBVIOUS
  <2>. QED  BY <2>1, CountNone, CountOne
<1>7. CountIn({LongPress}, fit) = 0
  BY <1>5, <1>6
<1>8. /\ Longs(io_queue \o fit, current) = Longs(io_queue, current) + 0
      /\ Longs(io_queue, current) \in Nat
  BY <1>1, <1>4, <1>7, LongsAdd DEF QueueInv
<1>9. Longs(io_queue, current)' = Longs(io_queue \o fit, current)
  BY <1>4 DEF Longs
<1>10. KeyInv' /\ Coming' = Coming
  BY <1>1 DEF KeyInv, KeyTypeOK, Coming, OnItsWay, keyVars
<1>11. LostInv'
  BY <1>1, <1>8, <1>9, <1>10, BoundsAssumption DEF LostInv
<1>. QED  BY <1>3, <1>10, <1>11 DEF AppInv

LEMMA ReceiveKeeps == ASSUME AppInv, Receive PROVE AppInv'
<1>. DEFINE h == Head(io_queue)
            t == Tail(io_queue)
<1>1. KeyInv /\ QueueInv /\ LostInv
  BY DEF AppInv
<1>2. QueueInv'
  BY <1>1, ReceiveHolds
<1>3. /\ io_queue \in Seq(Messages) /\ io_queue # <<>> /\ current = NoMsg
      /\ h \in Messages /\ t \in Seq(Messages)
  BY <1>1 DEF QueueInv, Receive
<1>4. io_queue' = t /\ current' = h
  BY DEF Receive
<1>5. CountIn({LongPress}, io_queue) =
        CountIn({LongPress}, t) + IF h = LongPress THEN 1 ELSE 0
  <2>1. PICK M : M = {LongPress}
    OBVIOUS
  <2>2. CountIn(M, io_queue) = CountIn(M, t) + IF h \in M THEN 1 ELSE 0
    BY <1>3, CountWithFirst
  <2>. QED  BY <2>1, <2>2
<1>. HIDE DEF h, t
<1>6. NoMsg # LongPress
  BY DEF NoMsg, LongPress, KeyMsg, Msg
<1>7. /\ Longs(io_queue, current) = CountIn({LongPress}, io_queue) + 0
      /\ Longs(t, h) = CountIn({LongPress}, t) + IF h = LongPress THEN 1 ELSE 0
      /\ CountIn({LongPress}, io_queue) \in Nat
  BY <1>3, <1>6, LongsAdd
<1>8. Longs(io_queue, current)' = Longs(io_queue, current)
  <2>1. Longs(t, h) = Longs(io_queue, current)
    BY <1>5, <1>7
  <2>. QED  BY <1>4, <2>1 DEF Longs
<1>9. KeyInv' /\ Coming' = Coming
  BY <1>1 DEF KeyInv, KeyTypeOK, Coming, OnItsWay, keyVars, Receive
<1>10. lost' = lost /\ presses' = presses /\ news' = news
  BY DEF Receive
<1>11. LostInv'
  BY <1>1, <1>8, <1>9, <1>10 DEF LostInv
<1>. QED  BY <1>2, <1>9, <1>11 DEF AppInv

LEMMA HandleKeeps == ASSUME AppInv, Handle PROVE AppInv'
<1>. DEFINE long == current = LongPress
<1>1. KeyInv /\ QueueInv /\ LostInv
  BY DEF AppInv
<1>2. QueueInv'
  BY <1>1, HandleHolds
<1>3. PICK fit \in {<<>>, <<WifiReset>>, <<FeedFoodStart>>} :
        /\ fit \in Seq(Messages) /\ io_queue \o fit \in Seq(Messages)
        /\ Len(io_queue \o fit) <= QueueLen
        /\ io_queue' = io_queue \o fit
        /\ fit = <<WifiReset>> => long
        /\ lost' = IF long /\ fit # <<WifiReset>> THEN lost + 1 ELSE lost
  BY <1>1, HandlePosts
<1>4. /\ current' = NoMsg /\ presses' = presses /\ news' = news
      /\ UNCHANGED keyVars
  BY DEF Handle
<1>5. /\ LongPress # WifiReset /\ LongPress # FeedFoodStart /\ LongPress # NoMsg
  BY DEF LongPress, KeyMsg, WifiReset, FeedFoodStart, NoMsg, Msg
<1>6. CountIn({LongPress}, fit) = 0
  <2>1. WifiReset \notin {LongPress} /\ FeedFoodStart \notin {LongPress}
    BY <1>5
  <2>2. /\ CountIn({LongPress}, <<>>) = 0
        /\ CountIn({LongPress}, <<WifiReset>>) = 0
        /\ CountIn({LongPress}, <<FeedFoodStart>>) = 0
    BY <2>1, CountNone, CountOne
  <2>. QED  BY <1>3, <2>2
<1>7. /\ lost \in Nat /\ io_queue \in Seq(Messages)
      /\ current \in Messages \cup {NoMsg}
  BY <1>1 DEF QueueInv
<1>8. /\ Longs(io_queue, current) =
           CountIn({LongPress}, io_queue) + IF long THEN 1 ELSE 0
      /\ Longs(io_queue \o fit, NoMsg) = Longs(io_queue, NoMsg) + 0
      /\ Longs(io_queue, NoMsg) = CountIn({LongPress}, io_queue) + 0
      /\ CountIn({LongPress}, io_queue) \in Nat
  <2>1. Longs(io_queue \o fit, NoMsg) =
          Longs(io_queue, NoMsg) + CountIn({LongPress}, fit)
    BY <1>3, <1>7, LongsAdd
  <2>2. /\ Longs(io_queue, current) =
             CountIn({LongPress}, io_queue) + IF long THEN 1 ELSE 0
        /\ Longs(io_queue, NoMsg) =
             CountIn({LongPress}, io_queue) + IF NoMsg = LongPress THEN 1 ELSE 0
        /\ CountIn({LongPress}, io_queue) \in Nat
    BY <1>7, LongsAdd
  <2>. QED  BY <1>5, <1>6, <2>1, <2>2
<1>9. Longs(io_queue, current)' = Longs(io_queue \o fit, NoMsg)
  BY <1>3, <1>4 DEF Longs
<1>10. KeyInv' /\ Coming' = Coming
  BY <1>1, <1>4 DEF KeyInv, KeyTypeOK, Coming, OnItsWay, keyVars
<1>11. Coming \in {0, 1}
  BY DEF Coming
<1>. HIDE DEF long
<1>12. lost' \in Nat /\ lost' <= lost + IF long THEN 1 ELSE 0
  BY <1>3, <1>7
<1>13. LostInv'
  BY <1>1, <1>4, <1>7, <1>8, <1>9, <1>10, <1>11, <1>12 DEF LostInv
<1>. QED  BY <1>2, <1>10, <1>13 DEF AppInv

LEMMA AppInit == Init => AppInv
<1>. SUFFICES ASSUME Init PROVE AppInv
  OBVIOUS
<1>1. KeyInit /\ io_queue = <<>> /\ stage = "service" /\ current = NoMsg
      /\ owed = [e \in Effects |-> 0] /\ lost = 0 /\ presses = 0 /\ news = 0
  BY DEF Init
<1>2. KEY_EVENT_LONG_COUNT \in 1..255 /\ MinRelease \in Nat
  BY CountFitsItsByte, MinReleaseAssumption
<1>3. KeyInv
  BY <1>1, <1>2 DEF KeyInit, KeyInv, KeyTypeOK, Statuses, Events, ToSet
<1>4. <<>> \in Seq(Messages) /\ Len(<<>>) = 0 /\ 0 <= QueueLen
  BY QueueLenAssumption
<1>5. \A M : CountIn(M, <<>>) = 0
  BY CountNone
<1>6. ASSUME NEW e \in Effects PROVE Pending(e) = 0
  <2>1. CountIn(Owing[e], Append(<<>>, NoMsg)) =
          CountIn(Owing[e], <<>>) + IF NoMsg \in Owing[e] THEN 1 ELSE 0
    <3>1. NoMsg \in Messages \cup {NoMsg}
      OBVIOUS
    <3>2. PICK M : M = Owing[e]
      OBVIOUS
    <3>3. PICK q \in Seq(Messages) : q = <<>>
      BY <1>4
    <3>4. CountIn(M, Append(q, NoMsg)) =
            CountIn(M, q) + IF NoMsg \in M THEN 1 ELSE 0
      BY <3>1, CountWithLast
    <3>. QED  BY <3>2, <3>3, <3>4
  <2>2. NoMsg \notin Owing[e]
    BY NoneOwesNothing
  <2>3. CountIn(Owing[e], <<>>) = 0
    BY CountNone
  <2>4. CountIn(Owing[e], Append(<<>>, NoMsg)) = 0
    BY <2>1, <2>2, <2>3
  <2>. QED  BY <1>1, <2>4 DEF Pending
<1>7. QueueInv
  BY <1>1, <1>4, <1>6 DEF QueueInv, AcceptedIsPending
<1>8. Longs(<<>>, NoMsg) = 0
  <2>1. NoMsg # LongPress
    BY DEF NoMsg, LongPress, KeyMsg, Msg
  <2>2. Longs(<<>>, NoMsg) =
          CountIn({LongPress}, <<>>) + IF NoMsg = LongPress THEN 1 ELSE 0
    BY <1>4, LongsAdd, Zenon
  <2>3. CountIn({LongPress}, <<>>) = 0
    BY CountNone
  <2>. QED  BY <2>1, <2>2, <2>3
<1>9. Coming = 0
  BY <1>1 DEF Coming, OnItsWay, KeyInit
<1>10. LostInv
  BY <1>1, <1>8, <1>9, BoundsAssumption DEF LostInv
<1>. QED  BY <1>3, <1>7, <1>10 DEF AppInv

LEMMA AppStep == ASSUME AppInv, [Next]_vars PROVE AppInv'
<1>1. CASE \E k \in KeySet : PressKey(k) \/ ReleaseKey(k)
  BY <1>1, PressKeeps
<1>2. CASE ScanKeys
  BY <1>2, ScanKeysKeeps
<1>3. CASE SampleBattery
  <2>1. BatteryCap \in Messages /\ BatteryCap # LongPress
    BY DEF Messages, BatteryCap, LongPress, KeyMsg, Msg
  <2>. QED  BY <1>3, <2>1, NewsKeeps DEF SampleBattery
<1>4. CASE \E s \in WifiStates : ServeWifiState(s)
  <2>1. PICK s \in WifiStates : ServeWifiState(s)
    BY <1>4
  <2>2. WifiState(s) \in Messages /\ WifiState(s) # LongPress
    BY DEF Messages, WifiState, LongPress, KeyMsg, Msg
  <2>. QED  BY <2>1, <2>2, NewsKeeps DEF ServeWifiState
<1>5. CASE Receive
  BY <1>5, ReceiveKeeps
<1>6. CASE Handle
  BY <1>6, HandleKeeps
<1>7. CASE UNCHANGED vars
  <2>1. KeyInv' /\ Coming' = Coming
    BY <1>7 DEF AppInv, KeyInv, KeyTypeOK, Coming, OnItsWay, vars, keyVars
  <2>2. QueueInv' /\ Longs(io_queue, current)' = Longs(io_queue, current)
    BY <1>7, QueueStays DEF AppInv, vars, appVars
  <2>. QED  BY <1>7, <2>1, <2>2 DEF AppInv, LostInv, vars, appVars
<1>. QED
  BY <1>1, <1>2, <1>3, <1>4, <1>5, <1>6, <1>7 DEF Next

LEMMA AppInvHolds == Spec => []AppInv
BY AppInit, AppStep, PTL DEF Spec

\* app/app_task.c:72-184.  For any keys, any length of the queue and any number
\* of presses and news, every effect that is owed is owed by exactly one message
\* queued or being handled, but for the resets whose second message was refused.
THEOREM AcceptedArePending == Spec => []AcceptedIsPending
<1>1. AppInv => AcceptedIsPending
  BY DEF AppInv, QueueInv
<1>. QED  BY <1>1, AppInvHolds, PTL

\* app/app_task.c:72-228 and app/keyboard.c:105-193.  The machines of the keys
\* and the queue stay within their bounds, and no more resets are lost than keys
\* were pressed.
THEOREM AppTypeCorrect == Spec => []AppTypeOK
<1>1. AppInv => AppTypeOK
  <2>. SUFFICES ASSUME AppInv PROVE AppTypeOK
    OBVIOUS
  <2>1. /\ KeyTypeOK /\ QueueInv /\ presses \in 0..MaxPresses
        /\ news \in 0..MaxNews
        /\ lost + Longs(io_queue, current) + Coming <= presses
    <3>1. KeyInv /\ QueueInv /\ LostInv
      BY DEF AppInv
    <3>. QED  BY <3>1 DEF KeyInv, LostInv
  <2>2. Longs(io_queue, current) \in Nat /\ Coming \in {0, 1} /\ lost \in Nat
    BY <2>1, LongsAdd DEF QueueInv, Coming
  <2>3. lost \in 0..MaxPresses
    BY <2>1, <2>2, BoundsAssumption
  <2>4. owed \in [Effects -> Nat]
    <3>1. ASSUME NEW e \in Effects PROVE owed[e] \in Nat
      <4>1. Append(io_queue, current) \in Seq(Messages \cup {NoMsg})
        BY <2>1 DEF QueueInv
      <4>2. Pending(e) \in Nat
        BY <4>1, PlacesAreFinite DEF Pending
      <4>3. owed[e] = Pending(e) + (IF e = "reset" THEN lost ELSE 0)
        BY <2>1 DEF QueueInv, AcceptedIsPending
      <4>. QED  BY <2>2, <4>2, <4>3
    <3>. QED  BY <2>1, <3>1 DEF QueueInv
  <2>. QED  BY <2>1, <2>3, <2>4 DEF AppTypeOK, QueueInv
<1>. QED  BY <1>1, AppInvHolds, PTL
=============================================================================
