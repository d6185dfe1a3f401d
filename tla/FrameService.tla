---------------------------- MODULE FrameService ----------------------------
(***************************************************************************)
(* wifi_uart_service (tuya/mcu_api.c) at the end of the receive ring: one   *)
(* pass moves bytes from the ring into wifi_data_process_buf, finds the     *)
(* frames in it, hands each whole frame to data_handle and keeps the rest   *)
(* for the next pass.  The interrupt stores bytes meanwhile.                *)
(*                                                                          *)
(* The wire carries a stream of the Wi-Fi module's frames mixed with noise, *)
(* at any speed: a byte is known by the number of its arrival, and the ring *)
(* may lose it.  Every iteration of the service's loops is an action.       *)
(***************************************************************************)
EXTENDS RxRing, Integers, Sequences, SequencesExt

CONSTANTS
    Limit,    \* WIFI_DATA_PROCESS_LMT, 24 in the code
    Streams,  \* the streams: records of the bytes, and of the frames in them
              \* as the numbers of their first and last byte
    MaxOverruns,  \* bound of the model: bytes that find the ring full
    MaxEmpty,     \* bound of the model: frames of no length that are handled
    Leftovers     \* what the local variable of take_byte_rxbuff may hold unset

ASSUME LimitAssumption == Limit \in Nat
ASSUME MaxOverrunsAssumption == MaxOverruns \in Nat
ASSUME MaxEmptyAssumption == MaxEmpty \in Nat
ASSUME LeftoversAssumption == Leftovers \subseteq 0..255
ASSUME StreamsAssumption ==
    \A s \in Streams : s.bytes \in Seq(0..255) /\ Len(s.bytes) <= MaxBytes

VARIABLES
    stream,   \* what is sent over the wire
    packet,   \* wifi_data_process_buf, the rx_in bytes in use
    offset,   \* where the scanning loop is
    stage,    \* "fill" in the first loop or between two passes, "scan"
    handled,  \* frames given to data_handle
    lost,     \* bytes of the frames that never came out of the ring
    overruns  \* bytes that found the ring full

serviceVars == <<stream, packet, offset, stage, handled, lost, overruns>>
vars == <<ringVars, serviceVars>>
-----------------------------------------------------------------------------
PROTOCOL_HEAD == 7
FRAME_FIRST == 85
FRAME_SECOND == 170
MCU_RX_VER == 0
HEAD_FIRST == 0
HEAD_SECOND == 1
PROTOCOL_VERSION == 2
LENGTH_HIGH == 4
LENGTH_LOW == 5

BufSize == PROTOCOL_HEAD + Limit

get_check_sum(pack) == FoldLeft(+, 0, pack) % 256

\* A frame of the Wi-Fi module: header, command, length, data, checksum.
Frame(cmd, data) ==
    LET body == <<FRAME_FIRST, FRAME_SECOND, MCU_RX_VER, cmd,
                  Len(data) \div 256, Len(data) % 256>> \o data
    IN Append(body, get_check_sum(body))

Init ==
    /\ RingInit
    /\ stream \in Streams
    /\ packet = << >>
    /\ offset = 0
    /\ stage = "fill"
    /\ handled = << >>
    /\ lost = {}
    /\ overruns = 0

-----------------------------------------------------------------------------
\* The interrupt, whatever the task is doing.
Arrive ==
    /\ arrived < Len(stream.bytes)
    /\ Receive
    /\ IF in' = in \/ in' = out
       THEN /\ overruns < MaxOverruns
            /\ overruns' = overruns + 1
       ELSE UNCHANGED overruns
    /\ UNCHANGED <<stream, packet, offset, stage, handled, lost>>

FrameBytes == UNION {f.from..f.to : f \in ToSet(stream.frames)}

\* Mutant of FillTest: the loop does not look at the room left.
FillTestUnbounded ==
    /\ stage = "fill"
    /\ WithData
    /\ UNCHANGED serviceVars

\* The condition of the first loop.
FillTest ==
    /\ stage = "fill"
    /\ Len(packet) < BufSize
    /\ WithData
    /\ UNCHANGED serviceVars

FillWrap == (TakeSome \/ WrapOut) /\ UNCHANGED serviceVars

\* The ring has become empty in the task's eyes: the buffer gets a byte that
\* was never sent.
FillNothing ==
    /\ TakeNothing
    /\ \E b \in Leftovers : packet' = Append(packet, b)
    /\ UNCHANGED <<stream, offset, stage, handled, lost, overruns>>

\* Its body: bytes the ring skipped are lost.
FillByte ==
    /\ TakeByte
    /\ packet' = Append(packet, stream.bytes[last'])
    /\ lost' = lost \cup ((last+1..last'-1) \cap FrameBytes)
    /\ UNCHANGED <<stream, offset, stage, handled, overruns>>

\* The end of the first loop; with too few bytes the pass is over as well.
FillEnds ==
    /\ stage = "fill"
    /\ pc = "check"
    /\ Len(packet) = BufSize \/ in = out
    /\ Len(packet) >= PROTOCOL_HEAD
    /\ stage' = "scan"
    /\ UNCHANGED <<ringVars, stream, packet, offset, handled, lost, overruns>>

Byte(i) == packet[offset + i + 1]

\* rx_value_len, an unsigned short.
ValueLen == (Byte(LENGTH_HIGH) * 256 + Byte(LENGTH_LOW) + PROTOCOL_HEAD) % 65536

Scanning == stage = "scan" /\ Len(packet) - offset >= PROTOCOL_HEAD

Header == /\ Byte(HEAD_FIRST) = FRAME_FIRST
          /\ Byte(HEAD_SECOND) = FRAME_SECOND
          /\ Byte(PROTOCOL_VERSION) = MCU_RX_VER

\* The limit the length is compared with: sizeof already counts the header.
TooLong == ValueLen > BufSize + PROTOCOL_HEAD

Whole == Len(packet) - offset >= ValueLen

Candidate == SubSeq(packet, offset + 1, offset + ValueLen)

SumIsRight == get_check_sum(Front(Candidate)) = Last(Candidate)

\* A length that wraps to 0 has 65535 bytes from here summed, far past the end
\* of the buffer, and compared with the byte before: either way is possible.
EmptyHandled == Cardinality({n \in DOMAIN handled : handled[n] = << >>})

SumMayFail == ValueLen # 0 => ~SumIsRight
SumMayPass == IF ValueLen = 0 THEN EmptyHandled < MaxEmpty ELSE SumIsRight

Skip(n) ==
    /\ offset' = offset + n
    /\ UNCHANGED <<ringVars, stream, packet, stage, handled, lost, overruns>>

SkipFirst == Scanning /\ Byte(HEAD_FIRST) # FRAME_FIRST /\ Skip(1)

SkipSecond ==
    /\ Scanning
    /\ Byte(HEAD_FIRST) = FRAME_FIRST
    /\ Byte(HEAD_SECOND) # FRAME_SECOND
    /\ Skip(1)

SkipVersion ==
    /\ Scanning
    /\ Byte(HEAD_FIRST) = FRAME_FIRST
    /\ Byte(HEAD_SECOND) = FRAME_SECOND
    /\ Byte(PROTOCOL_VERSION) # MCU_RX_VER
    /\ Skip(2)

SkipLength == Scanning /\ Header /\ TooLong /\ Skip(3)

\* Mutant of SkipSum: a damaged frame is dropped with the length it claims.
SkipSumWhole ==
    /\ Scanning /\ Header /\ ~TooLong /\ Whole
    /\ SumMayFail
    /\ Skip(ValueLen)

SkipSum ==
    /\ Scanning /\ Header /\ ~TooLong /\ Whole
    /\ SumMayFail
    /\ Skip(3)

\* data_handle(offset).  With no length the loop stays where it is.
Handle ==
    /\ Scanning /\ Header /\ ~TooLong /\ Whole
    /\ SumMayPass
    /\ handled' = Append(handled, Candidate)
    /\ offset' = offset + ValueLen
    /\ UNCHANGED <<ringVars, stream, packet, stage, lost, overruns>>

\* Mutant of Compact: the bytes left over are not moved to the front.
CompactNothing ==
    /\ offset' = 0
    /\ stage' = "fill"
    /\ UNCHANGED <<ringVars, stream, packet, handled, lost, overruns>>

\* The end of a pass: rx_in -= offset and the move of what is left.
Compact ==
    /\ packet' = SubSeq(packet, offset + 1, Len(packet))
    /\ offset' = 0
    /\ stage' = "fill"
    /\ UNCHANGED <<ringVars, stream, handled, lost, overruns>>

AwaitRest == Scanning /\ Header /\ ~TooLong /\ ~Whole /\ Compact

EndPass == stage = "scan" /\ Len(packet) - offset < PROTOCOL_HEAD /\ Compact

Service == \/ FillTest \/ FillWrap \/ FillNothing \/ FillByte \/ FillEnds
           \/ SkipFirst \/ SkipSecond \/ SkipVersion \/ SkipLength \/ SkipSum
           \/ Handle \/ AwaitRest \/ EndPass

Next == Arrive \/ Service

\* The task calls the service on every loop, and bytes that were sent arrive.
Spec == Init /\ [][Next]_vars /\ WF_vars(Arrive) /\ WF_vars(Service)

-----------------------------------------------------------------------------
TypeOK ==
    /\ RingTypeOK
    /\ packet \in Seq(0..255) /\ Len(packet) <= BufSize
    /\ offset \in 0..Len(packet)
    /\ stage \in {"fill", "scan"}
    /\ lost \subseteq 1..last
    /\ overruns \in 0..MaxOverruns

Content(f) == SubSeq(stream.bytes, f.from, f.to)

Contents(frames) == [n \in DOMAIN frames |-> Content(frames[n])]

\* The length claimed by what follows the first p bytes of b.
ClaimedLen(b, p) ==
    (b[p + LENGTH_HIGH + 1] * 256 + b[p + LENGTH_LOW + 1] + PROTOCOL_HEAD) % 65536

\* A frame the service would handle follows the first p bytes of b.
LooksLikeFrame(b, p) ==
    LET len == ClaimedLen(b, p)
        piece == SubSeq(b, p + 1, p + len)
        right == get_check_sum(Front(piece)) = Last(piece)
    IN  /\ p + PROTOCOL_HEAD <= Len(b)
        /\ b[p + HEAD_FIRST + 1] = FRAME_FIRST
        /\ b[p + HEAD_SECOND + 1] = FRAME_SECOND
        /\ b[p + PROTOCOL_VERSION + 1] = MCU_RX_VER
        /\ len <= BufSize + PROTOCOL_HEAD
        /\ p + len <= Len(b)
        /\ len = 0 \/ right

\* What looks like a frame in a stream is one, and the frames do not overlap.
Plain(s) ==
    /\ s.frames \in Seq({f \in [from: Nat \ {0}, to: Nat] : f.from <= f.to})
    /\ \A n \in DOMAIN s.frames :
          LET p == s.frames[n].from - 1
          IN  /\ LooksLikeFrame(s.bytes, p)
              /\ s.frames[n].to = p + ClaimedLen(s.bytes, p)
    /\ \A p \in 0..Len(s.bytes) : LooksLikeFrame(s.bytes, p) =>
          \E n \in DOMAIN s.frames : s.frames[n].from = p + 1
    /\ \A n, m \in DOMAIN s.frames :
          n < m => s.frames[n].to < s.frames[m].from

\* Undamaged frames whose bytes the task has all got.
Received == Contents(SelectSeq(stream.frames,
                LAMBDA f : f.to <= last /\ f.from..f.to \cap lost = {}))

\* s is t without some of its elements.
Within(s, t) ==
    \E f \in [DOMAIN s -> DOMAIN t] :
        \A n \in DOMAIN s : /\ s[n] = t[f[n]]
                            /\ n > 1 => f[n-1] < f[n]

\* The service waits for a frame that is longer than its buffer.
Stuck == /\ Len(packet) = BufSize
         /\ offset = 0
         /\ Header /\ ~TooLong /\ ~Whole

\* A piece of a frame from which bytes are lost may have the right checksum.
Misled == \E h \in ToSet(handled) : h \notin ToSet(Contents(stream.frames))

\* A length that wraps to 0 has passed the comparison of sums by chance.
Chance == EmptyHandled > 0

\* mcu_api.c:650-707.  However the stream is cut into passes, whatever noise
\* stands between the frames and whichever bytes the ring loses, data_handle
\* gets frames that were sent, each once and in order; if no byte is lost it
\* gets them from the first on, and nothing else.
HandledAsSent == /\ Misled \/ Within(handled, Contents(stream.frames))
                 /\ overruns = 0 /\ ~Chance => IsPrefix(handled, Contents(stream.frames))

\* And it gets all of them: noise, damaged frames and lost bytes cost no frame
\* that came whole after them, unless the service waits for ever.
AllHandled == <>[](Misled \/ Stuck \/ Within(Received, handled))
=============================================================================
