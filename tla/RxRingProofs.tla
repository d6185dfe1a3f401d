---------------------------- MODULE RxRingProofs ----------------------------
(***************************************************************************)
(* The task takes bytes in the order of their arrival and each at most      *)
(* once, for every size of the ring and whatever the interrupt does to the  *)
(* pointers meanwhile: also when it makes them equal.  The frame service    *)
(* uses the ring as RingSpec says and inherits this.                        *)
(*                                                                          *)
(* The inductive invariant speaks of the slots in the order they were       *)
(* written, which the write pointer alone tells, and of those the pointers  *)
(* show as unread.                                                          *)
(*                                                                          *)
(* The last part follows the frames: as long as no byte finds the ring full *)
(* it is a queue, the buffer holds the stream without a gap, and what the   *)
(* scanning loop is done with is the frames up to a position of the stream. *)
(***************************************************************************)
EXTENDS FrameService, TLAPS, SequenceTheorems

Slots == 0..N-1

\* Slot i was written before slot j: the write pointer stands between the
\* oldest slot and the newest.
Older(i, j) == \/ i >= in /\ j < in
               \/ (i >= in <=> j >= in) /\ i < j

\* Slots between the read pointer and the write pointer, all if they are equal.
Unread == {i \in Slots : IF out < in THEN out <= i /\ i < in
                                     ELSE out <= i \/ i < in}

\* Slots hold what arrived, and older slots older bytes; 0 is never written.
InOrder == /\ \A i \in Slots : buf[i] <= arrived
           /\ \A i, j \in Slots : Older(i, j) => buf[i] < buf[j] \/ buf[i] = 0

\* What the task is going to read is later than what it has read.
Ahead == pc # "check" \/ in # out => \A i \in Unread : buf[i] > last

\* The interrupt makes the pointers equal only behind a task that is reading,
\* and only one slot past the start of the array.
Places == /\ in = 0 => out = 0 /\ pc = "check"
          /\ pc # "check" /\ in = out => out = 1

RingInv == RingTypeOK /\ last <= arrived /\ InOrder /\ Places /\ Ahead

-----------------------------------------------------------------------------
LEMMA RingInitInv == RingInit => RingInv
BY NAssumption, MaxBytesAssumption
   DEF RingInit, RingInv, RingTypeOK, InOrder, Older, Places, Ahead, Slots

\* A byte is stored behind the newest slot, in the place of the oldest.
LEMMA ReceiveInv == RingInv /\ Receive => RingInv'
<1>. SUFFICES ASSUME RingInv, Receive PROVE RingInv'
    OBVIOUS
<1>. USE NAssumption, MaxBytesAssumption
<1>1. CASE Full
  <2>1. UNCHANGED <<buf, in, out, pc, stored, last>> /\ arrived' = arrived + 1
        /\ arrived' \in 0..MaxBytes
      BY <1>1 DEF Receive, RingInv, RingTypeOK
  <2>. QED
      BY <2>1 DEF RingInv, RingTypeOK, InOrder, Older, Places, Ahead, Unread, Slots
<1>2. CASE ~Full
  <2>. DEFINE w == Wrapped(in)
  <2>1. /\ buf' = [buf EXCEPT ![w] = arrived + 1]
        /\ in' = w + 1
        /\ stored' = arrived + 1
        /\ arrived' = arrived + 1
        /\ arrived' \in 0..MaxBytes
        /\ UNCHANGED <<out, pc, last>>
      BY <1>2 DEF Receive, RingInv, RingTypeOK
  <2>2. w \in Slots /\ (in < N => w = in) /\ (in = N => w = 0)
      BY DEF RingInv, RingTypeOK, Wrapped, Slots
  <2>. HIDE DEF w
  <2>3. RingTypeOK'
      BY <2>1, <2>2 DEF RingInv, RingTypeOK, Slots
  <2>4. /\ buf' \in [Slots -> Nat]
        /\ buf'[w] = arrived + 1
        /\ \A i \in Slots : i # w => buf'[i] = buf[i]
      BY <2>1, <2>2 DEF RingInv, RingTypeOK, Slots
  <2>5. InOrder'
    <3>1. \A i \in Slots : buf'[i] <= arrived'
        BY <2>1, <2>4, SMTT(60) DEF RingInv, RingTypeOK, InOrder, Slots
    <3>2. ASSUME NEW i \in Slots, NEW j \in Slots, Older(i, j)'
          PROVE  buf'[i] < buf'[j] \/ buf'[i] = 0
      <4>1. i # w
          BY <3>2, <2>1, <2>2, SMTT(60) DEF Older, Slots
      <4>2. CASE j = w
          BY <4>1, <4>2, <2>4 DEF RingInv, RingTypeOK, InOrder, Slots
      <4>3. CASE j # w
        <5>1. Older(i, j)
            BY <4>1, <4>3, <3>2, <2>1, <2>2 DEF Older, Slots, RingInv, RingTypeOK
        <5>. QED
            BY <5>1, <4>1, <4>3, <2>4 DEF RingInv, InOrder
      <4>. QED
          BY <4>2, <4>3
    <3>. QED
        BY <3>1, <3>2 DEF InOrder
  <2>6. Places'
      BY <1>2, <2>1, <2>2 DEF RingInv, RingTypeOK, Places, Full, Slots
  <2>7. Ahead'
    <3>1. ASSUME NEW i \in Slots, i \in Unread', i # w, pc # "check" \/ in' # out
          PROVE  i \in Unread /\ (pc # "check" \/ in # out)
        BY <3>1, <1>2, <2>1, <2>2
           DEF Unread, Slots, RingInv, RingTypeOK, Places, Full
    <3>2. arrived + 1 > last
        BY DEF RingInv, RingTypeOK
    <3>. QED
        BY <3>1, <3>2, <2>1, <2>4 DEF Ahead, RingInv, Unread
  <2>. QED
      BY <2>1, <2>3, <2>5, <2>6, <2>7 DEF RingInv, RingTypeOK
<1>. QED
    BY <1>1, <1>2

\* The tests and the wrap change nothing of what is unread.
LEMMA LookInv ==
    RingInv /\ (WithData \/ TakeSome \/ TakeNothing \/ WrapOut) => RingInv'
<1>1. ASSUME RingInv, WithData \/ TakeSome \/ TakeNothing PROVE RingInv'
    BY <1>1 DEF WithData, TakeSome, TakeNothing, RingInv, RingTypeOK, InOrder,
                Older, Places, Ahead, Unread, Slots
<1>2. ASSUME RingInv, WrapOut PROVE RingInv'
  <2>. USE NAssumption
  <2>1. /\ UNCHANGED <<buf, in, arrived, stored, last>>
        /\ out' = Wrapped(out) /\ pc = "wrap" /\ pc' = "read"
      BY <1>2 DEF WrapOut
  <2>2. RingTypeOK' /\ InOrder' /\ Places'
      BY <1>2, <2>1 DEF RingInv, RingTypeOK, InOrder, Older, Places, Slots, Wrapped
  <2>3. Unread' \subseteq Unread
      BY <1>2, <2>1 DEF RingInv, RingTypeOK, Places, Unread, Slots, Wrapped
  <2>. QED
      BY <1>2, <2>1, <2>2, <2>3 DEF RingInv, Ahead
<1>. QED
    BY <1>1, <1>2

\* What the task reads is older than all that is unread after it.
LEMMA TakeInv ==
    RingInv /\ TakeByte => RingInv' /\ last < last' /\ last' <= arrived
<1>. SUFFICES ASSUME RingInv, TakeByte
              PROVE  RingInv' /\ last < last' /\ last' <= arrived
    OBVIOUS
<1>. USE NAssumption
<1>1. /\ UNCHANGED <<buf, in, arrived, stored>>
      /\ out' = out + 1 /\ last' = buf[out] /\ pc = "read" /\ pc' = "check"
    BY DEF TakeByte
<1>2. out \in Slots /\ out \in Unread
    BY <1>1 DEF RingInv, RingTypeOK, Unread, Slots
<1>3. last < last' /\ last' <= arrived
    BY <1>1, <1>2 DEF RingInv, Ahead, InOrder
<1>4. RingTypeOK' /\ InOrder' /\ Places'
    BY <1>1, <1>2, <1>3, SMTT(60)
       DEF RingInv, RingTypeOK, InOrder, Older, Places, Slots
<1>5. ASSUME NEW i \in Unread', in # out + 1
      PROVE  buf[i] > buf[out]
  <2>1. i \in Slots /\ Older(out, i)
      BY <1>5, <1>1, <1>2 DEF Unread, Older, Slots, RingInv, RingTypeOK, Places
  <2>. QED
      BY <2>1, <1>1, <1>2, <1>3 DEF RingInv, RingTypeOK, InOrder, Slots
<1>. QED
    BY <1>1, <1>3, <1>4, <1>5 DEF RingInv, Ahead

LEMMA RingStepInv == RingInv /\ [RingNext]_ringVars => RingInv'
<1>1. ASSUME RingInv, UNCHANGED ringVars PROVE RingInv'
    BY <1>1 DEF ringVars, RingInv, RingTypeOK, InOrder, Older, Places, Ahead,
                Unread, Slots
<1>. QED
    BY <1>1, ReceiveInv, LookInv, TakeInv DEF RingNext, Take

-----------------------------------------------------------------------------
\* tuya/mcu_api.c:609-625.  Every reachable state of the ring is well typed:
\* the pointers stay in the array or one past its end, and the slot the task
\* reads is in it.
THEOREM RingTypeCorrect == RingSpec => []RingTypeOK
<1>1. RingInv => RingTypeOK
    BY DEF RingInv
<1>. QED
    BY <1>1, RingInitInv, RingStepInv, PTL DEF RingSpec

\* A task that finds the ring empty after it has been told of a byte has a
\* whole ring of bytes before it: every slot holds one that it has not taken.
LEMMA NothingMeansAll ==
    ASSUME RingInv, TakeNothing
    PROVE  \A i \in 0..N-1 : last < buf[i]
<1>1. pc = "take" /\ in = out /\ out = 1
    BY DEF TakeNothing, RingInv, Places
<1>2. Unread = Slots
    BY <1>1, NAssumption DEF Unread, Slots
<1>3. buf \in [Slots -> Nat] /\ last \in Nat
    BY MaxBytesAssumption DEF RingInv, RingTypeOK, Slots
<1>. QED
    BY <1>1, <1>2, <1>3 DEF RingInv, Ahead, Slots

\* tuya/mcu_api.c:609-625, system.c:775-803.  The bytes the task reads are bytes
\* that arrived, each at most once and in the order of their arrival, for every
\* size of the ring; and it is given one that did not arrive only when all the
\* slots hold bytes it has not taken.
THEOREM BytesAreTakenInOrder == RingSpec => TakenInOrder
<1>. DEFINE Read == pc = "read" /\ pc' = "check" => last < last' /\ last' <= arrived
            None == pc = "take" /\ pc' = "check" => \A i \in 0..N-1 : last < buf[i]
<1>1. ASSUME RingInv, [RingNext]_ringVars PROVE Read /\ None
  <2>1. CASE TakeByte
      BY <1>1, <2>1, TakeInv DEF TakeByte
  <2>2. CASE TakeNothing
      BY <1>1, <2>2, NothingMeansAll DEF TakeNothing
  <2>3. CASE Receive \/ WithData \/ TakeSome \/ WrapOut \/ UNCHANGED ringVars
      BY <2>3 DEF Receive, WithData, TakeSome, WrapOut, ringVars
  <2>. QED
      BY <1>1, <2>1, <2>2, <2>3 DEF RingNext, Take
<1>2. RingInv /\ [RingNext]_ringVars => [Read /\ None]_ringVars
    BY <1>1
<1>. QED
    BY <1>2, RingInitInv, RingStepInv, PTL DEF RingSpec, TakenInOrder

LEMMA StepUsesRing == [Next]_vars => [RingNext]_ringVars
<1>. SUFFICES ASSUME [Next]_vars PROVE [RingNext]_ringVars
    OBVIOUS
<1>1. CASE Arrive
    BY <1>1 DEF Arrive, RingNext
<1>2. CASE FillTest \/ FillWrap \/ FillNothing \/ FillByte
    BY <1>2 DEF FillTest, FillWrap, FillNothing, FillByte, RingNext, Take
<1>3. CASE FillEnds \/ SkipFirst \/ SkipSecond \/ SkipVersion \/ SkipLength
           \/ SkipSum \/ Handle \/ AwaitRest \/ EndPass \/ UNCHANGED vars
    BY <1>3 DEF FillEnds, SkipFirst, SkipSecond, SkipVersion, SkipLength,
                SkipSum, Skip, Handle, AwaitRest, EndPass, Compact, vars
<1>. QED
    BY <1>1, <1>2, <1>3 DEF Next, Service

\* tuya/mcu_api.c:650-662.  The service and the interrupt use the ring in no
\* other way than RingSpec allows.
THEOREM ServiceUsesTheRing == Spec => RingSpec
<1>1. Init => RingInit
    BY DEF Init
<1>. QED
    BY <1>1, StepUsesRing, PTL DEF Spec, RingSpec

\* tuya/mcu_api.c:650-662.  The service therefore gets bytes in order, however
\* fast they come.
THEOREM ServiceTakesInOrder == Spec => TakenInOrder
BY ServiceUsesTheRing, BytesAreTakenInOrder

-----------------------------------------------------------------------------
(* The buffer of the service.                                               *)

Octets == 0..255

LEMMA OctetsAreNat == \A b \in Octets : b \in Nat
BY DEF Octets

LEMMA StreamsAre ==
    ASSUME NEW s \in Streams
    PROVE  s.bytes \in Seq(Octets) /\ Len(s.bytes) \in Nat
<1>1. s.bytes \in Seq(Octets)
    BY StreamsAssumption DEF Octets
<1>. QED
    BY <1>1

\* The service takes a byte only into room it has seen; it scans only when it
\* is not at the ring, and a pass begins at the start of the buffer.
BufferInv ==
    /\ stream \in Streams
    /\ arrived <= Len(stream.bytes)
    /\ packet \in Seq(Octets) /\ Len(packet) <= BufSize
    /\ offset \in 0..Len(packet)
    /\ stage \in {"fill", "scan"}
    /\ pc # "check" => stage = "fill" /\ Len(packet) < BufSize
    /\ stage = "fill" => offset = 0
    /\ lost \subseteq 1..last
    /\ overruns \in 0..MaxOverruns

LEMMA BufSizeIsNat == BufSize \in Nat
BY LimitAssumption DEF BufSize, PROTOCOL_HEAD

LEMMA BufferInit == Init => BufferInv
<1>. SUFFICES ASSUME Init PROVE BufferInv
    OBVIOUS
<1>1. stream \in Streams /\ arrived = 0 /\ pc = "check" /\ overruns = 0
      /\ packet = << >> /\ offset = 0 /\ stage = "fill" /\ lost = {}
    BY DEF Init, RingInit
<1>2. Len(stream.bytes) \in Nat
    BY <1>1, StreamsAre
<1>3. << >> \in Seq(Octets) /\ Len(<< >>) = 0
    OBVIOUS
<1>. QED
    BY <1>1, <1>2, <1>3, BufSizeIsNat, MaxOverrunsAssumption DEF BufferInv

\* With a header in the buffer the length it claims is a number.
LEMMA ValueLenIsNat ==
    ASSUME packet \in Seq(Octets), offset \in 0..Len(packet), Scanning
    PROVE  ValueLen \in Nat
<1>. DEFINE high == Byte(LENGTH_HIGH)
            low == Byte(LENGTH_LOW)
<1>1. \A k \in 1..Len(packet) : packet[k] \in Octets
    OBVIOUS
<1>2. Len(packet) \in Nat /\ Len(packet) - offset >= 7
    BY DEF Scanning, PROTOCOL_HEAD
<1>3. offset + 4 + 1 \in 1..Len(packet) /\ offset + 5 + 1 \in 1..Len(packet)
    BY <1>2
<1>4. high \in Nat /\ low \in Nat
    BY <1>1, <1>3, OctetsAreNat DEF Byte, LENGTH_HIGH, LENGTH_LOW
<1>. HIDE DEF high, low
<1>5. high * 256 + low + 7 \in Nat
    BY <1>4
<1>6. (high * 256 + low + 7) % 65536 \in Nat
    BY <1>5
<1>. QED
    BY <1>6 DEF ValueLen, high, low, PROTOCOL_HEAD

LEMMA ScanInv ==
    ASSUME BufferInv, stage = "scan",
           NEW n \in Nat, offset + n <= Len(packet), Skip(n)
    PROVE  BufferInv'
<1>1. UNCHANGED <<ringVars, stream, packet, stage, lost, overruns>>
      /\ offset' = offset + n
    BY DEF Skip
<1>2. offset' \in 0..Len(packet)
    BY <1>1 DEF BufferInv
<1>. QED
    BY <1>1, <1>2 DEF BufferInv, ringVars

LEMMA CompactInv == BufferInv /\ stage = "scan" /\ Compact => BufferInv'
<1>. SUFFICES ASSUME BufferInv, stage = "scan", Compact PROVE BufferInv'
    OBVIOUS
<1>1. /\ UNCHANGED <<ringVars, stream, lost, overruns>>
      /\ packet' = SubSeq(packet, offset + 1, Len(packet))
      /\ offset' = 0 /\ stage' = "fill"
    BY DEF Compact
<1>2. packet' \in Seq(Octets) /\ Len(packet') = Len(packet) - offset
    BY <1>1 DEF BufferInv
<1>3. Len(packet') <= BufSize /\ offset' \in 0..Len(packet')
    BY <1>1, <1>2, BufSizeIsNat DEF BufferInv
<1>4. pc = "check"
    BY DEF BufferInv
<1>. QED
    BY <1>1, <1>2, <1>3, <1>4 DEF BufferInv, ringVars

\* Only bytes that arrived are taken, and only into room there is.
LEMMA FillByteInv == RingInv /\ BufferInv /\ FillByte => BufferInv'
<1>. SUFFICES ASSUME RingInv, BufferInv, FillByte PROVE BufferInv'
    OBVIOUS
<1>1. last < last' /\ last' <= arrived /\ last' \in Nat /\ last \in Nat
    BY TakeInv DEF FillByte, RingInv, RingTypeOK
<1>2. stream.bytes \in Seq(Octets)
    BY StreamsAre DEF BufferInv
<1>3. last' \in 1..Len(stream.bytes)
    BY <1>1, <1>2 DEF BufferInv, RingInv, RingTypeOK
<1>4. stream.bytes[last'] \in Octets
  <2>1. \A k \in 1..Len(stream.bytes) : stream.bytes[k] \in Octets
      BY <1>2
  <2>. QED
      BY <1>3, <2>1
<1>5. /\ UNCHANGED <<stream, offset, stage, overruns, arrived>>
      /\ packet' = Append(packet, stream.bytes[last'])
      /\ lost' = lost \cup ((last+1..last'-1) \cap FrameBytes)
      /\ pc = "read" /\ pc' = "check"
    BY DEF FillByte, TakeByte
<1>6. packet' \in Seq(Octets) /\ Len(packet') = Len(packet) + 1
    BY <1>4, <1>5 DEF BufferInv
<1>7. Len(packet') <= BufSize /\ offset' \in 0..Len(packet')
    BY <1>5, <1>6, BufSizeIsNat DEF BufferInv
<1>8. lost' \subseteq 1..last'
  <2>1. \A b \in lost' : b \in 1..last \/ b \in last+1..last'-1
      BY <1>5 DEF BufferInv
  <2>. QED
      BY <1>1, <2>1
<1>. QED
    BY <1>5, <1>6, <1>7, <1>8 DEF BufferInv

LEMMA ServiceInv == RingInv /\ BufferInv /\ Service => BufferInv'
<1>. SUFFICES ASSUME RingInv, BufferInv, Service PROVE BufferInv'
    OBVIOUS
<1>1. ASSUME Scanning
      PROVE  /\ stage = "scan"
             /\ \A n \in 1..3 : n \in Nat /\ offset + n <= Len(packet)
             /\ ValueLen \in Nat
             /\ Whole => offset + ValueLen <= Len(packet)
  <2>1. packet \in Seq(Octets) /\ offset \in 0..Len(packet) /\ Len(packet) \in Nat
      BY DEF BufferInv
  <2>2. ValueLen \in Nat
      BY <1>1, <2>1, ValueLenIsNat
  <2>3. stage = "scan" /\ Len(packet) - offset >= 7
      BY <1>1 DEF Scanning, PROTOCOL_HEAD
  <2>4. Whole => Len(packet) - offset >= ValueLen
      BY DEF Whole
  <2>. HIDE DEF ValueLen
  <2>. QED
      BY <2>1, <2>2, <2>3, <2>4
<1>2. CASE FillTest
    BY <1>2 DEF FillTest, WithData, serviceVars, BufferInv
<1>3. CASE FillWrap
    BY <1>3 DEF FillWrap, TakeSome, WrapOut, serviceVars, BufferInv
<1>4. CASE FillByte
    BY <1>4, FillByteInv
<1>5. CASE FillEnds
    BY <1>5 DEF FillEnds, ringVars, BufferInv
<1>6. CASE SkipFirst
    BY <1>1, <1>6, ScanInv DEF SkipFirst
<1>7. CASE SkipSecond
    BY <1>1, <1>7, ScanInv DEF SkipSecond
<1>8. CASE SkipVersion
    BY <1>1, <1>8, ScanInv DEF SkipVersion
<1>9. CASE SkipLength
    BY <1>1, <1>9, ScanInv DEF SkipLength
<1>10. CASE SkipSum
    BY <1>1, <1>10, ScanInv DEF SkipSum
<1>11. CASE Handle
  <2>1. /\ Scanning /\ Whole
        /\ UNCHANGED <<ringVars, stream, packet, stage, lost, overruns>>
        /\ offset' = offset + ValueLen
      BY <1>11 DEF Handle
  <2>2. offset' \in 0..Len(packet)
      BY <1>1, <2>1 DEF BufferInv
  <2>3. stage = "scan"
      BY <1>1, <2>1
  <2>. QED
      BY <2>1, <2>2, <2>3 DEF BufferInv, ringVars
<1>12. CASE AwaitRest
    BY <1>1, <1>12, CompactInv DEF AwaitRest
<1>13. CASE EndPass
    BY <1>13, CompactInv DEF EndPass
<1>14. CASE FillNothing
  <2>1. PICK b \in Leftovers : packet' = Append(packet, b)
      BY <1>14 DEF FillNothing
  <2>2. /\ UNCHANGED <<stream, offset, stage, lost, overruns, arrived, last>>
        /\ pc = "take" /\ pc' = "check"
      BY <1>14 DEF FillNothing, TakeNothing
  <2>3. packet' \in Seq(Octets) /\ Len(packet') = Len(packet) + 1
      BY <2>1, LeftoversAssumption DEF BufferInv, Octets
  <2>4. Len(packet') <= BufSize /\ offset' \in 0..Len(packet')
      BY <2>2, <2>3, BufSizeIsNat DEF BufferInv
  <2>. QED
      BY <2>2, <2>3, <2>4 DEF BufferInv
<1>. QED
    BY <1>2, <1>3, <1>4, <1>5, <1>6, <1>7, <1>8, <1>9, <1>10, <1>11, <1>12, <1>13,
       <1>14 DEF Service

LEMMA ArriveInv == RingInv /\ BufferInv /\ Arrive => BufferInv'
<1>. SUFFICES ASSUME RingInv, BufferInv, Arrive PROVE BufferInv'
    OBVIOUS
<1>1. /\ UNCHANGED <<stream, packet, offset, stage, lost, pc, last>>
      /\ arrived < Len(stream.bytes) /\ arrived' = arrived + 1
    BY DEF Arrive, Receive
<1>2. arrived' <= Len(stream.bytes)
  <2>1. arrived \in Nat /\ Len(stream.bytes) \in Nat
      BY StreamsAre DEF RingInv, RingTypeOK, BufferInv
  <2>. QED
      BY <1>1, <2>1
<1>3. overruns' \in 0..MaxOverruns
    BY MaxOverrunsAssumption DEF Arrive, BufferInv
<1>. QED
    BY <1>1, <1>2, <1>3 DEF BufferInv

\* tuya/mcu_api.c:650-707.  The service never stores a byte past the end of its
\* buffer and never moves on past the bytes in it, whatever lengths the frames
\* claim, for every size of the ring and of the buffer.  (It does read past
\* them: the sum of a frame whose length wraps to 0.)
THEOREM ServiceTypeCorrect == Spec => []TypeOK
<1>1. Init => RingInv /\ BufferInv
    BY RingInitInv, BufferInit DEF Init
<1>2. RingInv /\ BufferInv /\ [Next]_vars => RingInv' /\ BufferInv'
  <2>. SUFFICES ASSUME RingInv, BufferInv, [Next]_vars PROVE RingInv' /\ BufferInv'
      OBVIOUS
  <2>1. RingInv'
      BY StepUsesRing, RingStepInv
  <2>2. CASE UNCHANGED vars
    <3>1. UNCHANGED <<stream, packet, offset, stage, lost, overruns, pc, arrived,
                      last>>
        BY <2>2 DEF vars, ringVars, serviceVars
    <3>. QED
        BY <2>1, <3>1 DEF BufferInv
  <2>. QED
      BY <2>1, <2>2, ArriveInv, ServiceInv DEF Next
<1>3. RingInv /\ BufferInv => TypeOK
    BY DEF RingInv, BufferInv, TypeOK, Octets
<1>. QED
    BY <1>1, <1>2, <1>3, PTL DEF Spec

-----------------------------------------------------------------------------
(* As long as no byte finds the ring full, the frames handled are the first *)
(* that were sent.                                                          *)

\* The slot of byte b when the ring is a queue.
Place(b) == IF out + (b - last - 1) >= N THEN out + (b - last - 1) - N
                                         ELSE out + (b - last - 1)

\* What arrived and was not taken is in the ring, in its order.
Queued == /\ arrived - last <= N
          /\ in = out + (arrived - last) \/ in = out + (arrived - last) - N
          /\ in = out <=> arrived = last
          /\ pc # "check" => last < arrived
          /\ \A b \in last+1..arrived : buf[Place(b)] = b

LEMMA QueuedInit == RingInit => Queued
BY NAssumption DEF RingInit, Queued

LEMMA QueuedReceive ==
    RingInv /\ Queued /\ Receive /\ in' # in /\ in' # out => Queued'
<1>. SUFFICES ASSUME RingInv, Queued, Receive, in' # in, in' # out PROVE Queued'
    OBVIOUS
<1>. USE NAssumption
<1>1. ~Full
    BY DEF Receive
<1>2. /\ buf' = [buf EXCEPT ![Wrapped(in)] = arrived + 1]
      /\ in' = Wrapped(in) + 1 /\ arrived' = arrived + 1
      /\ UNCHANGED <<out, pc, last>>
    BY <1>1 DEF Receive
<1>3. /\ in \in 0..N /\ out \in 0..N /\ last \in Nat /\ arrived \in Nat
      /\ last <= arrived /\ buf \in [0..N-1 -> Int]
    BY MaxBytesAssumption DEF RingInv, RingTypeOK
<1>4. arrived - last < N
    BY <1>1, <1>3 DEF Queued, Full
<1>5. \/ in' = out + (arrived - last) + 1
      \/ in' = out + (arrived - last) + 1 - N
    BY <1>2, <1>3, <1>4 DEF Queued, Wrapped
<1>6. Wrapped(in) = IF out + (arrived - last) >= N
                    THEN out + (arrived - last) - N ELSE out + (arrived - last)
    BY <1>2, <1>3, <1>4 DEF Queued, Wrapped
<1>7. Wrapped(in) \in 0..N-1
    BY <1>3 DEF Wrapped
<1>8. ASSUME NEW b \in last'+1..arrived' PROVE buf'[Place(b)'] = b
  <2>1. Place(b)' = Place(b) /\ b \in Int
      BY <1>2, <1>3 DEF Place
  <2>2. CASE b = arrived + 1
      BY <2>1, <2>2, <1>2, <1>3, <1>6, <1>7 DEF Place
  <2>3. CASE b # arrived + 1
    <3>1. b \in last+1..arrived /\ b - last - 1 < arrived - last /\ b - last - 1 >= 0
        BY <2>3, <1>2, <1>3
    <3>2. Place(b) # Wrapped(in)
        BY <3>1, <1>3, <1>4, <1>6 DEF Place
    <3>3. buf[Place(b)] = b
        BY <3>1 DEF Queued
    <3>. QED
        BY <2>1, <3>2, <3>3, <1>2, <1>3, <1>7
  <2>. QED
      BY <2>2, <2>3
<1>. QED
    BY <1>2, <1>3, <1>4, <1>5, <1>8 DEF Queued

\* A byte taken is the next that arrived.
LEMMA QueuedTake ==
    RingInv /\ Queued /\ Take => Queued' /\ (last' = last \/ last' = last + 1)
<1>. SUFFICES ASSUME RingInv, Queued, Take
              PROVE  Queued' /\ (last' = last \/ last' = last + 1)
    OBVIOUS
<1>. USE NAssumption
<1>1. /\ in \in 0..N /\ out \in 0..N /\ last \in Nat /\ arrived \in Nat
      /\ last <= arrived /\ (in = 0 => out = 0 /\ pc = "check")
      /\ (pc = "read" => out < N)
    BY MaxBytesAssumption DEF RingInv, RingTypeOK, Places
<1>2. CASE WithData \/ TakeSome
  <2>1. UNCHANGED <<buf, in, out, arrived, last>> /\ in # out
      BY <1>2 DEF WithData, TakeSome
  <2>. QED
      BY <2>1, <1>1 DEF Queued, Place
<1>3. CASE WrapOut
  <2>1. /\ UNCHANGED <<buf, in, arrived, last>> /\ out' = Wrapped(out)
        /\ pc = "wrap"
      BY <1>3 DEF WrapOut
  <2>2. \A b \in last+1..arrived : Place(b)' = Place(b)
      BY <2>1, <1>1 DEF Place, Wrapped, Queued
  <2>. QED
      BY <2>1, <2>2, <1>1 DEF Queued, Wrapped
<1>4. CASE TakeByte
  <2>1. /\ UNCHANGED <<buf, in, arrived>> /\ last' = buf[out] /\ out' = out + 1
        /\ pc = "read" /\ pc' = "check" /\ out < N
      BY <1>4, <1>1 DEF TakeByte
  <2>2. last < arrived
      BY <2>1 DEF Queued
  <2>3. last' = last + 1
    <3>1. Place(last + 1) = out
        BY <2>1, <1>1 DEF Place
    <3>2. last + 1 \in last+1..arrived
        BY <2>2, <1>1
    <3>. QED
        BY <2>1, <3>1, <3>2 DEF Queued
  <2>4. \A b \in last'+1..arrived : b \in last+1..arrived /\ Place(b)' = Place(b)
      BY <2>1, <2>3, <1>1 DEF Place
  <2>. QED
      BY <2>1, <2>2, <2>3, <2>4, <1>1 DEF Queued
<1>5. ~TakeNothing
    BY <1>1 DEF TakeNothing, Queued
<1>. QED
    BY <1>2, <1>3, <1>4, <1>5 DEF Take
-----------------------------------------------------------------------------
\* The position in the stream up to which the scanning loop is done.
Position == last - Len(packet) + offset

\* The bytes in the buffer are the last the task took, without a gap.
Behind == /\ Len(packet) <= last
          /\ \A i \in 1..Len(packet) :
                packet[i] = stream.bytes[last - Len(packet) + i]

\* The frames up to there were handled and the others begin after it.
FramesDone ==
    /\ handled \in Seq(Seq(Octets)) /\ Len(handled) <= Len(stream.frames)
    /\ \A i \in 1..Len(handled) : /\ handled[i] = Content(stream.frames[i])
                                  /\ stream.frames[i].to <= Position
    /\ \A i \in Len(handled)+1..Len(stream.frames) :
          stream.frames[i].from > Position

InStep == Queued /\ Behind /\ FramesDone

FirstsInv == RingInv /\ BufferInv /\ (overruns = 0 => InStep)

\* The hypothesis of the theorem: the streams of the run are of this kind.
PlainStreams == \A s \in Streams : Plain(s)

\* What a plain stream says of its frames.
LEMMA FramesAre ==
    ASSUME PlainStreams, stream \in Streams
    PROVE  /\ Len(stream.frames) \in Nat
           /\ \A n \in 1..Len(stream.frames) :
                /\ stream.frames[n].from \in Nat \ {0}
                /\ stream.frames[n].to \in Nat
                /\ stream.frames[n].from <= stream.frames[n].to
                /\ LooksLikeFrame(stream.bytes, stream.frames[n].from - 1)
                /\ stream.frames[n].to = stream.frames[n].from - 1
                     + ClaimedLen(stream.bytes, stream.frames[n].from - 1)
           /\ \A n, m \in 1..Len(stream.frames) :
                n < m => stream.frames[n].to < stream.frames[m].from
           /\ \A p \in 0..Len(stream.bytes) : LooksLikeFrame(stream.bytes, p) =>
                \E n \in 1..Len(stream.frames) : stream.frames[n].from = p + 1
<1>. DEFINE F == {f \in [from: Nat \ {0}, to: Nat] : f.from <= f.to}
<1>1. Plain(stream)
    BY DEF PlainStreams
<1>2. stream.frames \in Seq(F)
    BY <1>1 DEF Plain
<1>3. DOMAIN stream.frames = 1..Len(stream.frames) /\ Len(stream.frames) \in Nat
      /\ \A n \in 1..Len(stream.frames) : stream.frames[n] \in F
    BY <1>2
<1>. HIDE DEF F
<1>4. \A f \in F : f.from \in Nat \ {0} /\ f.to \in Nat /\ f.from <= f.to
    BY DEF F
<1>. QED
    BY <1>1, <1>3, <1>4 DEF Plain

LEMMA FirstsInit == PlainStreams /\ Init => FirstsInv
<1>. SUFFICES ASSUME PlainStreams, Init PROVE FirstsInv
    OBVIOUS
<1>1. RingInit /\ stream \in Streams /\ packet = << >> /\ offset = 0 /\ last = 0
      /\ handled = << >>
    BY DEF Init, RingInit
<1>2. RingInv /\ BufferInv
    BY <1>1, RingInitInv, BufferInit
<1>3. Len(packet) = 0 /\ Len(handled) = 0 /\ handled \in Seq(Seq(Octets))
    BY <1>1
<1>4. Queued
    BY <1>1, QueuedInit
<1>5. FramesDone
    BY <1>1, <1>3, FramesAre DEF FramesDone, Position
<1>. QED
    BY <1>1, <1>2, <1>3, <1>4, <1>5 DEF FirstsInv, InStep, Behind

\* What the scanning loop sees is the stream.
LEMMA Seen ==
    ASSUME RingInv, BufferInv, Behind, Scanning
    PROVE  /\ Position \in 0..Len(stream.bytes)
           /\ Position + Len(packet) - offset = last
           /\ last <= Len(stream.bytes)
           /\ Position \in Nat
           /\ \A i \in 0..6 : Byte(i) = stream.bytes[Position + i + 1]
           /\ Byte(0) = stream.bytes[Position + 1]
           /\ Byte(1) = stream.bytes[Position + 2]
           /\ Byte(2) = stream.bytes[Position + 3]
           /\ ValueLen = ClaimedLen(stream.bytes, Position)
           /\ ValueLen \in Nat
<1>1. /\ packet \in Seq(Octets) /\ offset \in 0..Len(packet) /\ last \in Nat
      /\ Len(packet) \in Nat /\ Len(packet) - offset >= 7 /\ Len(packet) <= last
      /\ arrived \in Nat /\ last <= arrived /\ arrived <= Len(stream.bytes)
      /\ Len(stream.bytes) \in Nat
    BY StreamsAre, MaxBytesAssumption
       DEF RingInv, RingTypeOK, BufferInv, Behind, Scanning, PROTOCOL_HEAD
<1>2. ASSUME NEW i \in 0..6 PROVE Byte(i) = stream.bytes[Position + i + 1]
  <2>1. offset + i + 1 \in 1..Len(packet)
      BY <1>1
  <2>2. packet[offset + i + 1] = stream.bytes[last - Len(packet) + (offset + i + 1)]
      BY <2>1 DEF Behind
  <2>3. last - Len(packet) + (offset + i + 1) = Position + i + 1
      BY <1>1 DEF Position
  <2>. QED
      BY <2>2, <2>3 DEF Byte
<1>3. ValueLen = ClaimedLen(stream.bytes, Position)
  <2>1. /\ Byte(4) = stream.bytes[Position + 4 + 1]
        /\ Byte(5) = stream.bytes[Position + 5 + 1]
      BY <1>2
  <2>. QED
      BY <2>1 DEF ValueLen, ClaimedLen, LENGTH_HIGH, LENGTH_LOW
<1>4. ValueLen \in Nat
    BY <1>1, ValueLenIsNat
<1>5. /\ Position \in 0..Len(stream.bytes) /\ Position \in Nat
      /\ Position + Len(packet) - offset = last /\ last <= Len(stream.bytes)
    BY <1>1 DEF Position
<1>6. /\ Byte(0) = stream.bytes[Position + 0 + 1]
      /\ Byte(1) = stream.bytes[Position + 1 + 1]
      /\ Byte(2) = stream.bytes[Position + 2 + 1]
    BY <1>2
<1>7. Position + 0 + 1 = Position + 1 /\ Position + 1 + 1 = Position + 2
      /\ Position + 2 + 1 = Position + 3
    BY <1>5
<1>. HIDE DEF Position
<1>. QED
    BY <1>2, <1>3, <1>4, <1>5, <1>6, <1>7

\* A piece of a sequence, byte by byte.
LEMMA PieceIs ==
    ASSUME NEW s \in Seq(Octets), NEW p \in Nat, NEW v \in Nat, p + v <= Len(s)
    PROVE  /\ SubSeq(s, p + 1, p + v) \in Seq(Octets)
           /\ Len(SubSeq(s, p + 1, p + v)) = v
           /\ \A i \in 1..v : SubSeq(s, p + 1, p + v)[i] = s[p + i]
BY SMTT(30)

\* So is the frame that is tried.
LEMMA SeenPiece ==
    ASSUME RingInv, BufferInv, Behind, Scanning, Whole
    PROVE  /\ Candidate = SubSeq(stream.bytes, Position + 1, Position + ValueLen)
           /\ Position + ValueLen <= Len(stream.bytes)
           /\ Candidate \in Seq(Octets)
<1>. DEFINE v == ValueLen
            p == Position
<1>1. /\ packet \in Seq(Octets) /\ offset \in 0..Len(packet) /\ last \in Nat
      /\ Len(packet) \in Nat /\ Len(packet) <= last
      /\ stream.bytes \in Seq(Octets) /\ Len(stream.bytes) \in Nat
    BY StreamsAre DEF RingInv, RingTypeOK, BufferInv, Behind
<1>2. v \in Nat /\ p \in Nat /\ p = last - Len(packet) + offset
      /\ last <= Len(stream.bytes)
    BY Seen DEF Position
<1>3. offset + v <= Len(packet)
  <2>1. Len(packet) - offset >= v
      BY DEF Whole
  <2>. QED
      BY <2>1, <1>1, <1>2
<1>. HIDE DEF v, p
<1>4. p + v <= Len(stream.bytes)
    BY <1>1, <1>2, <1>3
<1>5. /\ SubSeq(packet, offset + 1, offset + v) \in Seq(Octets)
      /\ Len(SubSeq(packet, offset + 1, offset + v)) = v
      /\ \A i \in 1..v : SubSeq(packet, offset + 1, offset + v)[i] = packet[offset + i]
    BY <1>1, <1>2, <1>3, PieceIs
<1>6. /\ SubSeq(stream.bytes, p + 1, p + v) \in Seq(Octets)
      /\ Len(SubSeq(stream.bytes, p + 1, p + v)) = v
      /\ \A i \in 1..v : SubSeq(stream.bytes, p + 1, p + v)[i] = stream.bytes[p + i]
    BY <1>1, <1>2, <1>4, PieceIs
<1>7. \A i \in 1..v : packet[offset + i] = stream.bytes[p + i]
  <2>1. ASSUME NEW i \in 1..v PROVE packet[offset + i] = stream.bytes[p + i]
    <3>1. offset + i \in 1..Len(packet)
        BY <1>1, <1>2, <1>3
    <3>2. packet[offset + i] = stream.bytes[last - Len(packet) + (offset + i)]
        BY <3>1 DEF Behind
    <3>3. last - Len(packet) + (offset + i) = p + i
        BY <1>1, <1>2
    <3>. QED
        BY <3>2, <3>3
  <2>. QED
      BY <2>1
<1>8. SubSeq(packet, offset + 1, offset + v) = SubSeq(stream.bytes, p + 1, p + v)
  <2>. DEFINE c == SubSeq(packet, offset + 1, offset + v)
              d == SubSeq(stream.bytes, p + 1, p + v)
  <2>1. c \in Seq(Octets) /\ d \in Seq(Octets) /\ Len(c) = v /\ Len(d) = v
        /\ \A i \in 1..v : c[i] = d[i]
      BY <1>5, <1>6, <1>7
  <2>. HIDE DEF c, d
  <2>2. c = d
      BY <2>1, SeqEqual
  <2>. QED
      BY <2>2 DEF c, d
<1>. QED
    BY <1>4, <1>5, <1>8 DEF v, p, Candidate

\* A skip passes over bytes no frame begins at.
LEMMA SkipFirsts ==
    ASSUME PlainStreams, RingInv, BufferInv, InStep, Scanning,
           NEW n \in 1..3, Skip(n),
           \A k \in 0..n-1 : ~LooksLikeFrame(stream.bytes, Position + k)
    PROVE  InStep'
<1>1. /\ UNCHANGED <<ringVars, stream, packet, handled>> /\ offset' = offset + n
    BY DEF Skip
<1>2. Position \in Nat /\ Position' = Position + n
  <2>1. last \in Nat /\ Len(packet) \in Nat /\ offset \in Nat
      BY DEF RingInv, RingTypeOK, BufferInv
  <2>. QED
      BY <1>1, <2>1, Seen DEF Position, ringVars, InStep
<1>3. stream \in Streams /\ Len(handled) \in Nat
    BY DEF BufferInv, InStep, FramesDone
<1>4. ASSUME NEW i \in Len(handled)+1..Len(stream.frames)
      PROVE  stream.frames[i].from > Position'
  <2>1. stream.frames[i].from > Position
      BY DEF InStep, FramesDone
  <2>2. i \in 1..Len(stream.frames)
      BY <1>3, FramesAre
  <2>3. stream.frames[i].from \in Nat
        /\ LooksLikeFrame(stream.bytes, stream.frames[i].from - 1)
      BY <1>3, <2>2, FramesAre
  <2>. DEFINE k == stream.frames[i].from - 1 - Position
  <2>4. k \in Int /\ k >= 0 /\ Position + k = stream.frames[i].from - 1
      BY <1>2, <2>1, <2>3
  <2>5. k \notin 0..n-1
      BY <2>3, <2>4
  <2>. QED
      BY <1>2, <2>3, <2>4, <2>5
<1>5. \A i \in 1..Len(handled) : stream.frames[i].to <= Position'
  <2>1. ASSUME NEW i \in 1..Len(handled) PROVE stream.frames[i].to <= Position'
    <3>1. stream.frames[i].to <= Position /\ Len(handled) <= Len(stream.frames)
        BY DEF InStep, FramesDone
    <3>2. stream.frames[i].to \in Nat
        BY <1>3, <3>1, FramesAre
    <3>. QED
        BY <3>1, <3>2, <1>2
  <2>. QED
      BY <2>1
<1>6. FramesDone'
    BY <1>1, <1>4, <1>5 DEF FramesDone, InStep, Content
<1>7. Queued' /\ Behind'
    BY <1>1 DEF ringVars, Queued, Place, Behind, InStep
<1>. QED
    BY <1>6, <1>7 DEF InStep
-----------------------------------------------------------------------------
\* The tests of the scanning loop on what is seen of the stream.
LEMMA TestsTell ==
    ASSUME PlainStreams, RingInv, BufferInv, Behind, Scanning
    PROVE  /\ Byte(0) # 85 => ~LooksLikeFrame(stream.bytes, Position)
           /\ Byte(1) # 170 => ~LooksLikeFrame(stream.bytes, Position)
           /\ Byte(2) # 0 => ~LooksLikeFrame(stream.bytes, Position)
           /\ TooLong => ~LooksLikeFrame(stream.bytes, Position)
           /\ Whole /\ ValueLen # 0 /\ ~SumIsRight
                => ~LooksLikeFrame(stream.bytes, Position)
           /\ Byte(1) = 170 => ~LooksLikeFrame(stream.bytes, Position + 1)
           /\ Byte(2) = 0 => ~LooksLikeFrame(stream.bytes, Position + 2)
           /\ Header /\ ~TooLong /\ Whole /\ SumIsRight
                => LooksLikeFrame(stream.bytes, Position)
           /\ Header /\ ~TooLong /\ Whole => ValueLen # 0
<1>. DEFINE p == Position
            b == stream.bytes
            v == ValueLen
<1>. USE DEF HEAD_FIRST, HEAD_SECOND, PROTOCOL_VERSION, FRAME_FIRST,
             FRAME_SECOND, MCU_RX_VER, PROTOCOL_HEAD
<1>1. /\ p \in 0..Len(b) /\ v = ClaimedLen(b, p) /\ v \in Nat
      /\ Byte(0) = b[p + 1] /\ Byte(1) = b[p + 2] /\ Byte(2) = b[p + 3]
    BY Seen
<1>2. p + 7 <= Len(b)
  <2>1. last \in Nat /\ Len(packet) \in Nat /\ offset \in Nat /\ Len(b) \in Nat
        /\ Len(packet) - offset >= 7 /\ last <= Len(b)
        /\ p = last - Len(packet) + offset
      BY Seen, StreamsAre
         DEF RingInv, RingTypeOK, BufferInv, Position, Scanning
  <2>. QED
      BY <2>1
<1>3. Whole => /\ p + v <= Len(b)
               /\ Candidate = SubSeq(b, p + 1, p + v)
    BY SeenPiece
<1>4. SumIsRight <=> get_check_sum(Front(Candidate)) = Last(Candidate)
    BY DEF SumIsRight
<1>5. TooLong <=> ~(v <= BufSize + 7)
    BY <1>1, BufSizeIsNat DEF TooLong
<1>6. LooksLikeFrame(b, p) <=>
        /\ p + 7 <= Len(b)
        /\ b[p + 1] = 85 /\ b[p + 2] = 170 /\ b[p + 3] = 0
        /\ v <= BufSize + 7
        /\ p + v <= Len(b)
        /\ \/ v = 0
           \/ get_check_sum(Front(SubSeq(b, p + 1, p + v)))
                = Last(SubSeq(b, p + 1, p + v))
  <2>1. p \in Nat /\ p + 0 + 1 = p + 1 /\ p + 1 + 1 = p + 2 /\ p + 2 + 1 = p + 3
      BY Seen, StreamsAre DEF BufferInv
  <2>. HIDE DEF p, b, v
  <2>. QED
      BY <1>1, <2>1 DEF LooksLikeFrame
<1>7. \A q \in Nat : LooksLikeFrame(b, q) => b[q + 1] = 85
  <2>1. \A q \in Nat : q + 0 + 1 = q + 1
      OBVIOUS
  <2>. HIDE DEF b
  <2>. QED
      BY <2>1 DEF LooksLikeFrame
<1>8. p \in Nat /\ p + 1 \in Nat /\ p + 2 \in Nat
      /\ p + 1 + 1 = p + 2 /\ p + 2 + 1 = p + 3
  <2>1. p \in Nat
      BY Seen
  <2>. HIDE DEF p
  <2>. QED
      BY <2>1
<1>9. Header <=> Byte(0) = 85 /\ Byte(1) = 170 /\ Byte(2) = 0
    BY DEF Header
<1>10. /\ LooksLikeFrame(b, p + 1) => b[p + 1 + 1] = 85
       /\ LooksLikeFrame(b, p + 2) => b[p + 2 + 1] = 85
    BY <1>7, <1>8
<1>0. LooksLikeFrame(b, p) => v # 0
  <2>1. ASSUME LooksLikeFrame(b, p), v = 0 PROVE FALSE
    <3>1. PICK n \in 1..Len(stream.frames) : stream.frames[n].from = p + 1
        BY <1>1, <2>1, FramesAre DEF BufferInv
    <3>2. /\ stream.frames[n].from <= stream.frames[n].to
          /\ stream.frames[n].to = stream.frames[n].from - 1
               + ClaimedLen(stream.bytes, stream.frames[n].from - 1)
        BY FramesAre DEF BufferInv
    <3>3. stream.frames[n].from - 1 = p
        BY <3>1, <1>8
    <3>4. stream.frames[n].to = p
        BY <3>2, <3>3, <2>1, <1>1, <1>8
    <3>. QED
        BY <3>1, <3>2, <3>4, <1>8
  <2>. QED
      BY <2>1
<1>. HIDE DEF p, b, v
<1>11. /\ b[p + 2] = 170 => ~LooksLikeFrame(b, p + 1)
       /\ b[p + 3] = 0 => ~LooksLikeFrame(b, p + 2)
    BY <1>8, <1>10
<1>12. /\ Byte(0) # 85 => ~LooksLikeFrame(b, p)
       /\ Byte(1) # 170 => ~LooksLikeFrame(b, p)
       /\ Byte(2) # 0 => ~LooksLikeFrame(b, p)
       /\ TooLong => ~LooksLikeFrame(b, p)
       /\ Whole /\ v # 0 /\ ~SumIsRight => ~LooksLikeFrame(b, p)
       /\ Header /\ ~TooLong /\ Whole /\ SumIsRight => LooksLikeFrame(b, p)
       /\ Header /\ ~TooLong /\ Whole => v # 0
    BY <1>0, <1>1, <1>2, <1>3, <1>4, <1>5, <1>6, <1>9
<1>. QED
    BY <1>1, <1>11, <1>12 DEF p, b, v

\* Each skip of the loop is of such bytes.
LEMMA SkipsAreFirsts ==
    ASSUME PlainStreams, RingInv, BufferInv, InStep,
           SkipFirst \/ SkipSecond \/ SkipVersion \/ SkipLength \/ SkipSum
    PROVE  InStep'
<1>. USE DEF HEAD_FIRST, HEAD_SECOND, PROTOCOL_VERSION, FRAME_FIRST,
             FRAME_SECOND, MCU_RX_VER
<1>. DEFINE L(k) == LooksLikeFrame(stream.bytes, Position + k)
<1>1. Scanning /\ Behind
    BY DEF SkipFirst, SkipSecond, SkipVersion, SkipLength, SkipSum, InStep
<1>2. Position \in Int /\ Position + 0 = Position
    BY <1>1, Seen, StreamsAre DEF BufferInv
<1>3. /\ Byte(0) # 85 => ~L(0)
      /\ Byte(1) # 170 => ~L(0)
      /\ Byte(2) # 0 => ~L(0)
      /\ TooLong => ~L(0)
      /\ Whole /\ ValueLen # 0 /\ ~SumIsRight => ~L(0)
      /\ Header /\ ~TooLong /\ Whole => ValueLen # 0
      /\ Byte(1) = 170 => ~L(1)
      /\ Byte(2) = 0 => ~L(2)
    BY <1>1, <1>2, TestsTell
<1>4. ASSUME NEW n \in 1..3, Skip(n), \A k \in 0..n-1 : ~L(k) PROVE InStep'
    BY <1>1, <1>4, SkipFirsts
<1>. HIDE DEF L
<1>5. CASE SkipFirst \/ SkipSecond
  <2>1. Skip(1) /\ ~L(0)
      BY <1>3, <1>5 DEF SkipFirst, SkipSecond
  <2>2. 1 \in 1..3 /\ \A k \in 0..1-1 : k = 0
      OBVIOUS
  <2>. QED
      BY <1>4, <2>1, <2>2
<1>6. CASE SkipVersion
  <2>1. Skip(2) /\ ~L(0) /\ ~L(1)
      BY <1>3, <1>6 DEF SkipVersion
  <2>2. 2 \in 1..3 /\ \A k \in 0..2-1 : k = 0 \/ k = 1
      OBVIOUS
  <2>. QED
      BY <1>4, <2>1, <2>2
<1>7. CASE SkipLength \/ SkipSum
  <2>1. Skip(3) /\ ~L(0) /\ ~L(1) /\ ~L(2)
    <3>1. Skip(3) /\ Byte(1) = 170 /\ Byte(2) = 0
        BY <1>7 DEF SkipLength, SkipSum, Header
    <3>2. CASE SkipLength
        BY <3>1, <3>2, <1>3 DEF SkipLength
    <3>3. CASE SkipSum
        BY <3>1, <3>3, <1>3 DEF SkipSum, SumMayFail
    <3>. QED
        BY <1>7, <3>2, <3>3
  <2>2. 3 \in 1..3 /\ \A k \in 0..3-1 : k = 0 \/ k = 1 \/ k = 2
      OBVIOUS
  <2>. QED
      BY <1>4, <2>1, <2>2
<1>. QED
    BY <1>5, <1>6, <1>7

\* What is handled is the next frame of the stream.
LEMMA HandleFirsts ==
    ASSUME PlainStreams, RingInv, BufferInv, InStep, Handle
    PROVE  InStep'
<1>. DEFINE m == Len(handled) + 1
            F == stream.frames
<1>1. /\ Scanning /\ Header /\ ~TooLong /\ Whole /\ SumIsRight /\ Behind
      /\ handled' = Append(handled, Candidate)
      /\ offset' = offset + ValueLen
      /\ UNCHANGED <<ringVars, stream, packet>>
  <2>1. Scanning /\ Header /\ ~TooLong /\ Whole /\ SumMayPass /\ Behind
      BY DEF Handle, InStep
  <2>2. ValueLen # 0
      BY <2>1, TestsTell
  <2>. QED
      BY <2>1, <2>2 DEF Handle, SumMayPass
<1>2. LooksLikeFrame(stream.bytes, Position)
    BY <1>1, TestsTell
<1>3. /\ Position \in 0..Len(stream.bytes) /\ Position \in Nat
      /\ ValueLen = ClaimedLen(stream.bytes, Position) /\ ValueLen \in Nat
      /\ Candidate = SubSeq(stream.bytes, Position + 1, Position + ValueLen)
      /\ Candidate \in Seq(Octets)
    BY <1>1, Seen, SeenPiece, StreamsAre DEF BufferInv
<1>4. stream \in Streams /\ Len(handled) \in Nat /\ handled \in Seq(Seq(Octets))
      /\ Len(handled) <= Len(F) /\ Len(F) \in Nat
    BY FramesAre DEF BufferInv, InStep, FramesDone
<1>5. PICK n \in 1..Len(F) : F[n].from = Position + 1
    BY <1>2, <1>3, <1>4, FramesAre
<1>6. n > Len(handled)
  <2>1. \A i \in 1..Len(handled) : F[i].to <= Position
      BY DEF InStep, FramesDone
  <2>2. F[n].from <= F[n].to /\ F[n].to \in Nat
      BY <1>4, FramesAre
  <2>3. ~(F[n].to <= Position)
      BY <1>3, <1>5, <2>2
  <2>4. n \notin 1..Len(handled)
      BY <2>1, <2>3
  <2>. QED
      BY <1>4, <2>4
<1>7. n = m
  <2>1. m \in 1..Len(F) /\ m \in Len(handled)+1..Len(F)
      BY <1>4, <1>6
  <2>2. F[m].from > Position /\ F[m].from <= F[m].to /\ F[m].to \in Nat
        /\ F[m].from \in Nat
      BY <1>4, <2>1, FramesAre DEF InStep, FramesDone
  <2>3. m < n => F[m].to < F[n].from
      BY <1>4, <2>1, FramesAre
  <2>4. ~(m < n)
    <3>1. Position \in Nat
        BY <1>3
    <3>2. ~(F[m].to < Position + 1)
        BY <3>1, <2>2
    <3>. QED
        BY <1>5, <2>3, <3>2
  <2>. QED
      BY <1>4, <1>6, <2>4
<1>8. F[n].to = Position + ValueLen /\ Candidate = Content(F[n])
  <2>1. F[n].from - 1 = Position
      BY <1>3, <1>5
  <2>2. F[n].to = F[n].from - 1 + ClaimedLen(stream.bytes, F[n].from - 1)
      BY <1>4, FramesAre
  <2>3. F[n].to = Position + ValueLen
      BY <2>1, <2>2, <1>3
  <2>. QED
      BY <2>3, <1>3, <1>5 DEF Content
<1>9. Position' = Position + ValueLen
  <2>1. last \in Nat /\ Len(packet) \in Nat /\ offset \in Nat
      BY DEF RingInv, RingTypeOK, BufferInv
  <2>. QED
      BY <1>1, <1>3, <2>1 DEF Position, ringVars
<1>10. /\ handled' \in Seq(Seq(Octets)) /\ Len(handled') = m
       /\ \A i \in 1..Len(handled) : handled'[i] = handled[i]
       /\ handled'[m] = Candidate
    BY <1>1, <1>3, <1>4
<1>11. ASSUME NEW i \in 1..Len(handled')
       PROVE  handled'[i] = Content(F[i]) /\ F[i].to <= Position'
  <2>1. CASE i = m
      BY <2>1, <1>3, <1>7, <1>8, <1>9, <1>10
  <2>2. CASE i # m
    <3>1. i \in 1..Len(handled) /\ i \in 1..Len(F)
        BY <2>2, <1>4, <1>10
    <3>2. handled[i] = Content(F[i]) /\ F[i].to <= Position /\ F[i].to \in Nat
        BY <3>1, <1>4, FramesAre DEF InStep, FramesDone
    <3>. QED
      <4>3. handled'[i] = handled[i]
          BY <3>1, <1>10
      <4>1. Position \in Nat /\ ValueLen \in Nat
          BY <1>3
      <4>2. F[i].to <= Position + ValueLen
          BY <3>2, <4>1
      <4>. QED
          BY <3>2, <4>2, <4>3, <1>9
  <2>. QED
      BY <2>1, <2>2
<1>12. ASSUME NEW i \in Len(handled')+1..Len(F) PROVE F[i].from > Position'
  <2>1. i \in 1..Len(F) /\ n < i
      BY <1>4, <1>7, <1>10
  <2>2. F[n].to < F[i].from
      BY <2>1, <1>4, FramesAre
  <2>. QED
      BY <2>2, <1>8, <1>9
<1>13. FramesDone'
  <2>1. stream' = stream /\ \A f : Content(f)' = Content(f)
      BY <1>1 DEF Content
  <2>2. Len(handled') <= Len(F)
      BY <1>7, <1>10
  <2>. HIDE DEF m
  <2>. QED
      BY <2>1, <2>2, <1>10, <1>11, <1>12 DEF FramesDone, Content
<1>14. Queued' /\ Behind'
    BY <1>1 DEF ringVars, Queued, Place, Behind, InStep
<1>. QED
    BY <1>13, <1>14 DEF InStep

\* What is left over moves to the front of the buffer.
LEMMA CompactFirsts ==
    ASSUME RingInv, BufferInv, InStep, stage = "scan", Compact
    PROVE  InStep'
<1>. DEFINE n == Len(packet)
<1>1. /\ packet' = SubSeq(packet, offset + 1, n) /\ offset' = 0
      /\ UNCHANGED <<ringVars, stream, handled>>
    BY DEF Compact
<1>2. /\ packet \in Seq(Octets) /\ n \in Nat /\ offset \in 0..n /\ last \in Nat
      /\ n <= last
    BY DEF RingInv, RingTypeOK, BufferInv, InStep, Behind
<1>3. /\ Len(packet') = n - offset
      /\ \A i \in 1..n - offset : packet'[i] = packet[offset + i]
  <2>. DEFINE v == n - offset
  <2>1. offset \in Nat /\ v \in Nat /\ offset + v = n
      BY <1>2
  <2>2. packet' = SubSeq(packet, offset + 1, offset + v)
      BY <1>1, <2>1
  <2>. HIDE DEF v
  <2>3. Len(packet') = v /\ \A i \in 1..v : packet'[i] = packet[offset + i]
    <3>1. offset + v <= Len(packet)
        BY <1>2, <2>1
    <3>. HIDE DEF n
    <3>. QED
        BY <1>2, <2>1, <2>2, <3>1, PieceIs
  <2>. QED
      BY <2>3 DEF v
<1>4. Position' = Position
  <2>1. last' = last /\ offset' = 0 /\ Len(packet') = n - offset
      BY <1>1, <1>3 DEF ringVars
  <2>2. last - (n - offset) + 0 = last - n + offset
      BY <1>2
  <2>. QED
      BY <2>1, <2>2 DEF Position
<1>5. Behind'
  <2>1. ASSUME NEW i \in 1..n - offset
        PROVE  packet[offset + i] = stream.bytes[last - (n - offset) + i]
    <3>1. offset + i \in 1..n
        BY <1>2
    <3>2. packet[offset + i] = stream.bytes[last - n + (offset + i)]
        BY <3>1 DEF InStep, Behind
    <3>3. last - n + (offset + i) = last - (n - offset) + i
        BY <1>2
    <3>. QED
        BY <3>2, <3>3
  <2>2. n - offset <= last
      BY <1>2
  <2>. QED
      BY <2>1, <2>2, <1>1, <1>3 DEF Behind, ringVars
<1>6. Queued'
    BY <1>1 DEF ringVars, Queued, Place, InStep
<1>7. FramesDone'
    BY <1>1, <1>4 DEF InStep, FramesDone, Content
<1>. QED
    BY <1>5, <1>6, <1>7 DEF InStep

\* A byte that comes out of the ring is the next of the stream.
LEMMA FillFirsts ==
    ASSUME RingInv, BufferInv, InStep, FillByte
    PROVE  InStep'
<1>. DEFINE n == Len(packet)
<1>1. /\ packet' = Append(packet, stream.bytes[last'])
      /\ UNCHANGED <<stream, offset, handled>> /\ pc = "read"
    BY DEF FillByte, TakeByte
<1>2. Queued' /\ last' = last + 1
  <2>1. Take /\ last < last'
      BY TakeInv DEF FillByte, Take
  <2>2. last \in Nat
      BY DEF RingInv, RingTypeOK
  <2>. QED
      BY <2>1, <2>2, QueuedTake DEF InStep
<1>3. /\ packet \in Seq(Octets) /\ n \in Nat /\ offset \in 0..n /\ last \in Nat
      /\ n <= last
    BY DEF RingInv, RingTypeOK, BufferInv, InStep, Behind
<1>4. packet' \in Seq(Octets)
    BY FillByteInv DEF BufferInv
<1>5. /\ Len(packet') = n + 1
      /\ \A i \in 1..n : packet'[i] = packet[i]
      /\ packet'[n + 1] = stream.bytes[last']
    BY <1>1, <1>3
<1>6. Position' = Position
    BY <1>1, <1>2, <1>3, <1>5 DEF Position
<1>7. ASSUME NEW i \in 1..Len(packet')
      PROVE  packet'[i] = stream.bytes[last' - Len(packet') + i]
  <2>1. i \in Int /\ last' - Len(packet') + i = last - n + i
        /\ (i = n + 1 => last - n + i = last')
      BY <1>2, <1>3, <1>5
  <2>2. CASE i = n + 1
      BY <2>1, <2>2, <1>5
  <2>3. CASE i # n + 1
    <3>1. i \in 1..n
        BY <2>3, <1>3, <1>5
    <3>2. packet[i] = stream.bytes[last - n + i]
        BY <3>1 DEF InStep, Behind
    <3>. QED
        BY <3>1, <3>2, <2>1, <1>5
  <2>. QED
      BY <2>2, <2>3
<1>8. Behind'
  <2>1. Len(packet') <= last'
      BY <1>2, <1>3, <1>5
  <2>. QED
      BY <2>1, <1>7, <1>1 DEF Behind
<1>9. FramesDone'
    BY <1>1, <1>6 DEF InStep, FramesDone, Content
<1>. QED
    BY <1>2, <1>8, <1>9 DEF InStep

\* A byte that does not find the ring full waits in it.
LEMMA ArriveFirsts ==
    ASSUME RingInv, BufferInv, overruns = 0 => InStep, Arrive, overruns' = 0
    PROVE  InStep'
<1>1. UNCHANGED <<stream, packet, offset, handled>> /\ Receive
    BY DEF Arrive
<1>2. overruns = 0 /\ in' # in /\ in' # out
  <2>1. overruns \in Nat /\ out' = out
      BY MaxOverrunsAssumption DEF BufferInv, Arrive, Receive
  <2>. QED
      BY <2>1 DEF Arrive
<1>3. Queued' /\ last' = last
    BY <1>1, <1>2, QueuedReceive DEF InStep, Receive
<1>4. Behind' /\ FramesDone'
    BY <1>1, <1>2, <1>3 DEF InStep, Behind, FramesDone, Position, Content
<1>. QED
    BY <1>3, <1>4 DEF InStep

LEMMA NextFirsts == PlainStreams /\ FirstsInv /\ [Next]_vars => FirstsInv'
<1>. SUFFICES ASSUME PlainStreams, FirstsInv, [Next]_vars PROVE FirstsInv'
    OBVIOUS
<1>1. RingInv /\ BufferInv /\ (overruns = 0 => InStep)
    BY DEF FirstsInv
<1>2. RingInv' /\ BufferInv'
  <2>1. RingInv'
      BY <1>1, StepUsesRing, RingStepInv
  <2>2. CASE UNCHANGED vars
    <3>1. UNCHANGED <<stream, packet, offset, stage, lost, overruns, pc, arrived,
                      last>>
        BY <2>2 DEF vars, ringVars, serviceVars
    <3>. QED
        BY <1>1, <2>1, <3>1 DEF BufferInv
  <2>. QED
      BY <1>1, <2>1, <2>2, ArriveInv, ServiceInv DEF Next
<1>3. ASSUME overruns' = 0 PROVE InStep'
  <2>1. CASE Arrive
      BY <1>1, <1>3, <2>1, ArriveFirsts
  <2>. SUFFICES ASSUME ~Arrive PROVE InStep'
      BY <2>1
  <2>2. overruns = 0
      BY <1>3 DEF Next, Service, FillTest, FillWrap, FillNothing, FillByte, FillEnds,
         SkipFirst, SkipSecond, SkipVersion, SkipLength, SkipSum, Skip, Handle,
         AwaitRest, EndPass, Compact, vars, serviceVars
  <2>3. InStep
      BY <1>1, <2>2
  <2>4. CASE FillTest \/ FillWrap
    <3>1. Take /\ UNCHANGED <<stream, packet, offset, handled, last>>
        BY <2>4 DEF FillTest, FillWrap, WithData, TakeSome, WrapOut, Take,
                    serviceVars
    <3>2. Queued'
        BY <1>1, <2>3, <3>1, QueuedTake DEF InStep
    <3>. QED
        BY <2>3, <3>1, <3>2 DEF InStep, Behind, FramesDone, Position, Content
  <2>5. CASE FillByte
      BY <1>1, <2>3, <2>5, FillFirsts
  <2>10. ~FillNothing
      BY <1>1, <2>3 DEF FillNothing, TakeNothing, InStep, Queued, RingInv, RingTypeOK
  <2>6. CASE FillEnds \/ UNCHANGED vars
    <3>1. UNCHANGED <<ringVars, stream, packet, offset, handled>>
        BY <2>6 DEF FillEnds, vars, serviceVars
    <3>. QED
        BY <2>3, <3>1 DEF InStep, Queued, Place, Behind, FramesDone, Position,
                          Content, ringVars
  <2>7. CASE SkipFirst \/ SkipSecond \/ SkipVersion \/ SkipLength \/ SkipSum
      BY <1>1, <2>3, <2>7, SkipsAreFirsts
  <2>8. CASE Handle
      BY <1>1, <2>3, <2>8, HandleFirsts
  <2>9. CASE AwaitRest \/ EndPass
    <3>1. stage = "scan" /\ Compact
        BY <2>9 DEF AwaitRest, EndPass, Scanning
    <3>. QED
        BY <1>1, <2>3, <3>1, CompactFirsts
  <2>. QED
      BY <2>4, <2>5, <2>6, <2>7, <2>8, <2>9, <2>10 DEF Next, Service
<1>. QED
    BY <1>2, <1>3 DEF FirstsInv

\* Frames done are a beginning of the frames sent.
LEMMA FirstsAreSent ==
    ASSUME PlainStreams, FirstsInv, overruns = 0
    PROVE  HandledAsSent
<1>. DEFINE c == Contents(stream.frames)
            h == Len(handled)
<1>1. /\ stream \in Streams /\ handled \in Seq(Seq(Octets)) /\ h \in Nat
      /\ h <= Len(stream.frames) /\ Len(stream.frames) \in Nat
      /\ \A i \in 1..h : handled[i] = Content(stream.frames[i])
    BY FramesAre DEF FirstsInv, BufferInv, InStep, FramesDone
<1>2. DOMAIN stream.frames = 1..Len(stream.frames)
    BY <1>1 DEF PlainStreams, Plain
<1>3. /\ DOMAIN c = 1..Len(stream.frames) /\ DOMAIN handled = 1..h
      /\ \A i \in 1..h : handled[i] = c[i]
    BY <1>1, <1>2 DEF Contents
<1>4. Len(c) = Len(stream.frames)
    BY <1>1, <1>3
<1>5. Within(handled, c)
  <2>. DEFINE f == [i \in DOMAIN handled |-> i]
  <2>1. f \in [DOMAIN handled -> DOMAIN c]
      BY <1>1, <1>3
  <2>2. \A n \in DOMAIN handled : handled[n] = c[f[n]]
      BY <1>1, <1>3
  <2>3. \A n \in DOMAIN handled : n > 1 => f[n - 1] < f[n]
      BY <1>1, <1>3
  <2>. HIDE DEF f, c
  <2>. QED
      BY <2>1, <2>2, <2>3 DEF Within
<1>6. SubSeq(handled, 1, h) = SubSeq(c, 1, h)
  <2>1. \A i \in 1..h : handled[i] = c[i]
      BY <1>3
  <2>2. h \in Int /\ 1 \in Int
      BY <1>1
  <2>. HIDE DEF c, h
  <2>. QED
      BY <2>1, <2>2
<1>7. IsPrefix(handled, c)
    BY <1>1, <1>4, <1>6 DEF IsPrefix
<1>. QED
    BY <1>5, <1>7 DEF HandledAsSent

\* mcu_api.c:650-707.  However the stream is cut into passes, whatever noise
\* stands between the frames and for every size of ring and buffer: as long as
\* no byte finds the ring full, data_handle gets the frames that were sent from
\* the first on, each once and in order, and nothing else, if what looks like a
\* frame in the stream is one.
THEOREM FramesAreHandledAsSent ==
    ASSUME PlainStreams
    PROVE  Spec => [](overruns = 0 => HandledAsSent)
<1>1. Init => FirstsInv
    BY FirstsInit
<1>2. FirstsInv /\ [Next]_vars => FirstsInv'
    BY NextFirsts
<1>3. FirstsInv => (overruns = 0 => HandledAsSent)
    BY FirstsAreSent
<1>. QED
    BY <1>1, <1>2, <1>3, PTL DEF Spec
=============================================================================
