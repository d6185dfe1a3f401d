--------------------------- MODULE TxFrameProofs ---------------------------
(***************************************************************************)
(* What a call of wifi_uart_write_frame sends is its frame, if no other     *)
(* task was in a call meanwhile: for any tasks, any frames that fit and any *)
(* number of calls.                                                         *)
(***************************************************************************)
EXTENDS TxFrame, SequenceTheorems, WellFoundedInduction, TLAPS

-----------------------------------------------------------------------------
(* Frames.                                                                  *)

LEMMA RangeIs ==
    ASSUME NEW m \in Int, NEW n \in Int
    PROVE  \A x : x \in m..n <=> x \in Int /\ m <= x /\ x <= n
OBVIOUS

LEMMA ByteIs == \A x : x \in Byte <=> x \in Int /\ 0 <= x /\ x <= 255
<1>1. PICK m \in Int, n \in Int : m = 0 /\ n = 255
  OBVIOUS
<1>2. \A x : x \in m..n <=> x \in Int /\ m <= x /\ x <= n
  BY RangeIs
<1>3. Byte = m..n
  BY <1>1, Zenon DEF Byte
<1>. QED  BY <1>1, <1>2, <1>3

\* A frame is made of bytes and fits into the buffer.
Fits(r) == /\ r = Request(r.type, r.data)
           /\ r.type \in Byte
           /\ r.data \in Seq(Byte) /\ Len(r.data) <= WIFIR_UART_SEND_BUF_LMT

Sendable(t) == Requests[t] \cup {Plain(0)} \cup {HeartBeat(b) : b \in BOOLEAN}

LEMMA SendableFits ==
    ASSUME NEW t \in Tasks, NEW r \in Sendable(t)
    PROVE  Fits(r)
<1>1. CASE r \in Requests[t]
  BY <1>1, RequestsAssumption DEF Fits
<1>2. CASE r = Plain(0)
  <2>1. r.type = 0 /\ r.data = <<>>
    BY <1>2 DEF Plain, Request
  <2>2. r = Request(r.type, r.data)
    BY <1>2 DEF Plain, Request
  <2>3. 0 \in Byte /\ <<>> \in Seq(Byte) /\ Len(<<>>) = 0
    BY ByteIs
  <2>. QED  BY <2>1, <2>2, <2>3, LimitAssumption DEF Fits
<1>3. CASE \E b \in BOOLEAN : r = HeartBeat(b)
  <2>1. PICK x \in {0, 1} : r = Request(HEAT_BEAT_CMD, <<x>>)
    BY <1>3 DEF HeartBeat
  <2>2. r.type = 0 /\ r.data = <<x>>
    BY <2>1 DEF Request, HEAT_BEAT_CMD
  <2>3. r = Request(r.type, r.data)
    BY <2>1, <2>2 DEF Request, HEAT_BEAT_CMD
  <2>4. <<x>> \in Seq(Byte) /\ Len(<<x>>) = 1
    BY ByteIs
  <2>. QED  BY <2>2, <2>3, <2>4, LimitAssumption, ByteIs DEF Fits
<1>. QED  BY <1>1, <1>2, <1>3 DEF Sendable

LEMMA FrameIs ==
    ASSUME NEW r, Fits(r)
    PROVE  LET n == Len(r.data)
           IN  /\ n \in Nat /\ FrameLen(r) = n + 7 /\ FrameLen(r) <= BufLen
               /\ n + 7 <= BufLen /\ BufLen \in Nat
               /\ Header(r) \in Seq(Byte) /\ Len(Header(r)) = 6
               /\ Body(r) \in Seq(Byte) /\ Len(Body(r)) = n + 6
               /\ \A i \in 1..6 :
                    Body(r)[i] = Header(r)[i] /\ Header(r)[i] \in Byte
               /\ \A i \in 1..n :
                    Body(r)[i + 6] = r.data[i] /\ r.data[i] \in Byte
<1>. DEFINE n == Len(r.data)
<1>1. /\ n \in Nat /\ n <= 65535 /\ r.data \in Seq(Byte)
      /\ r.type \in Byte
  <2>1. WIFIR_UART_SEND_BUF_LMT \in Int /\ WIFIR_UART_SEND_BUF_LMT <= 65535
    BY LimitAssumption
  <2>. QED  BY <2>1 DEF Fits
<1>2. FrameLen(r) = n + 7 /\ n + 7 <= BufLen /\ BufLen \in Nat
  <2>1. WIFIR_UART_SEND_BUF_LMT \in Nat
    BY LimitAssumption
  <2>. QED  BY <1>1, <2>1 DEF Fits, FrameLen, PROTOCOL_HEAD, BufLen
<1>. HIDE DEF n
<1>3. n \div 256 \in Byte /\ n % 256 \in Byte
  BY <1>1, ByteIs
<1>4. Header(r) = <<85, 170, 3, r.type, n \div 256, n % 256>>
  BY DEF Header, MCU_TX_VER, n
<1>5. Header(r) \in Seq(Byte) /\ Len(Header(r)) = 6
  <2>1. 85 \in Byte /\ 170 \in Byte /\ 3 \in Byte
    BY ByteIs
  <2>. QED  BY <1>1, <1>3, <1>4, <2>1
<1>6. \A i \in 1..6 : Header(r)[i] \in Byte
  BY <1>5, ElementOfSeq
<1>7. /\ Body(r) \in Seq(Byte) /\ Len(Body(r)) = n + 6
      /\ \A i \in 1..n + 6 :
           Body(r)[i] = IF i <= 6 THEN Header(r)[i] ELSE r.data[i - 6]
  <2>1. r.data \in Seq(Byte) /\ Len(r.data) = n
    BY <1>1 DEF n
  <2>2. /\ Header(r) \o r.data \in Seq(Byte)
        /\ Len(Header(r) \o r.data) = Len(Header(r)) + Len(r.data)
        /\ \A i \in 1..Len(Header(r)) + Len(r.data) :
             (Header(r) \o r.data)[i] = IF i <= Len(Header(r)) THEN Header(r)[i]
                                       ELSE r.data[i - Len(Header(r))]
    BY <1>5, <2>1, ConcatProperties
  <2>. QED  BY <1>1, <1>5, <2>1, <2>2 DEF Body
<1>8. \A i \in 1..6 : Body(r)[i] = Header(r)[i]
  BY <1>1, <1>7
<1>9. \A i \in 1..n : Body(r)[i + 6] = r.data[i] /\ r.data[i] \in Byte
  BY <1>1, <1>7 DEF n
<1>. QED  BY <1>1, <1>2, <1>5, <1>6, <1>7, <1>8, <1>9 DEF n

-----------------------------------------------------------------------------
(* Sums of bytes.                                                           *)

\* A set of numbers has a least one.
LEMMA HasLeast ==
    ASSUME NEW S, S \subseteq Nat, S # {}
    PROVE  \E x \in S : \A y \in S : x <= y
<1>1. PICK x \in S : \A y \in S : ~(<<y, x>> \in OpToRel(<, Nat))
  BY WFMin, NatLessThanWellFounded
<1>2. ASSUME NEW y \in S, y < x PROVE FALSE
  <2>1. <<y, x>> \in Nat \X Nat /\ <<y, x>>[1] < <<y, x>>[2]
    BY <1>2
  <2>2. <<y, x>> \in OpToRel(<, Nat)
    BY <2>1, Zenon DEF OpToRel
  <2>. QED  BY <1>1, <2>2, Zenon
<1>. QED  BY <1>2

\* p has the sums of the first 0, 1, ... n bytes.
AreSums(p, bytes, n) ==
    /\ p \in [0..n -> Byte]
    /\ p[0] = 0
    /\ \A m \in 1..n : p[m] = (p[m - 1] + bytes[m]) % 256

\* There are such sums, for any number of bytes: the least number without them
\* would have them by those of the number before.
LEMMA SumsExist ==
    ASSUME NEW bytes \in Seq(Byte), NEW N \in 0..Len(bytes)
    PROVE  \E p : AreSums(p, bytes, N)
<1>. DEFINE T == {n \in 0..Len(bytes) : ~\E p : AreSums(p, bytes, n)}
<1>. SUFFICES ASSUME T # {} PROVE FALSE
  OBVIOUS
<1>1. Len(bytes) \in Nat /\ \A i \in 1..Len(bytes) : bytes[i] \in Int
  BY ByteIs
<1>2. T \subseteq Nat
  BY <1>1
<1>3. PICK n \in T : \A y \in T : n <= y
  BY <1>2, HasLeast
<1>4. n \in 0..Len(bytes) /\ ~\E p : AreSums(p, bytes, n)
  BY <1>3
<1>5. n # 0
  <2>1. AreSums([m \in 0..0 |-> 0], bytes, 0)
    BY ByteIs DEF AreSums
  <2>. QED  BY <1>4, <2>1
<1>6. n - 1 \in 0..Len(bytes) /\ n \in Nat /\ n - 1 \in Nat
  BY <1>1, <1>4, <1>5
<1>7. n - 1 \notin T
  <2>. HIDE DEF T
  <2>. QED  BY <1>3, <1>6
<1>8. PICK p : AreSums(p, bytes, n - 1)
  BY <1>6, <1>7
<1>. DEFINE last == (p[n - 1] + bytes[n]) % 256
            q == [m \in 0..n |-> IF m = n THEN last ELSE p[m]]
<1>9. last \in Byte
  <2>1. p[n - 1] \in Byte /\ bytes[n] \in Int
    BY <1>1, <1>4, <1>5, <1>6, <1>8 DEF AreSums
  <2>2. p[n - 1] \in Int
    BY <2>1, ByteIs
  <2>3. last \in Int /\ 0 <= last /\ last <= 255
    BY <2>1, <2>2
  <2>. QED
    <3>. HIDE DEF last
    <3>. QED  BY <2>3, ByteIs
<1>10. AreSums(q, bytes, n)
  <2>1. q \in [0..n -> Byte]
    BY <1>6, <1>8, <1>9 DEF AreSums
  <2>2. q[0] = 0
    BY <1>5, <1>6, <1>8 DEF AreSums
  <2>3. \A m \in 1..n : q[m] = (q[m - 1] + bytes[m]) % 256
    BY <1>6, <1>8 DEF AreSums
  <2>. QED  BY <2>1, <2>2, <2>3 DEF AreSums
<1>. QED  BY <1>4, <1>10

LEMMA SumsAreSums ==
    ASSUME NEW bytes \in Seq(Byte)
    PROVE  /\ Sums(bytes)[0] = 0
           /\ \A n \in 1..Len(bytes) :
                Sums(bytes)[n] = (Sums(bytes)[n - 1] + bytes[n]) % 256
<1>. DEFINE N == Len(bytes)
            s == CHOOSE f : f = [n \in 0..N |->
                   IF n = 0 THEN 0 ELSE (f[n - 1] + bytes[n]) % 256]
<1>1. N \in Nat
  OBVIOUS
<1>2. PICK p : AreSums(p, bytes, N)
  BY <1>1, SumsExist
<1>3. p = [n \in 0..N |-> IF n = 0 THEN 0 ELSE (p[n - 1] + bytes[n]) % 256]
  BY <1>1, <1>2 DEF AreSums
<1>4. s = [n \in 0..N |-> IF n = 0 THEN 0 ELSE (s[n - 1] + bytes[n]) % 256]
  BY <1>3
<1>5. Sums(bytes) = s
  BY DEF Sums
<1>. HIDE DEF s
<1>. QED  BY <1>1, <1>4, <1>5

-----------------------------------------------------------------------------
(* A call.                                                                  *)

Buffers == [0..BufLen-1 -> Byte]

\* The first k bytes of the data, of the header, and of both, are in place.
DataPlaced(b, r, k) == \A i \in 0..k-1 : b[i + 6] = r.data[i + 1]
HeadPlaced(b, r, k) == \A i \in 0..k-1 : b[i] = Header(r)[i + 1]
Placed(b, r) == \A i \in 0..Len(r.data)+5 : b[i] = Body(r)[i + 1]

\* Where a call of r can be, with sum c and s sent: at byte n of stage p.
Control(r, p, n, c, s) ==
    /\ p = "data" => n \in 0..Len(r.data)-1
    /\ p = "head" => n \in 0..5
    /\ p = "sum" => n \in 0..Len(r.data)+5
    /\ p \in {"store", "idle"} => n = 0
    /\ p = "send" => n \in 0..Len(r.data)+6 /\ Len(s) = n
    /\ p \in {"data", "head"} => c = 0
    /\ p \in {"data", "head", "sum", "store"} => s = <<>>
    /\ p = "idle" => Len(s) <= Len(r.data) + 7

\* What it has done there, if no other call wrote to the buffer b.
Built(b, r, p, n, c, s) ==
    /\ p = "data" => DataPlaced(b, r, n)
    /\ p = "head" => DataPlaced(b, r, Len(r.data)) /\ HeadPlaced(b, r, n)
    /\ p \in {"sum", "store", "send"} => Placed(b, r)
    /\ p = "sum" => c = Sums(Body(r))[n]
    /\ p = "store" => c = CheckSum(Body(r))
    /\ p = "send" => /\ b[Len(r.data) + 6] = CheckSum(Body(r))
                     /\ \A i \in 1..n : s[i] = Frame(r)[i]
    /\ p = "idle" => s = Frame(r)

LEMMA DataIsPlaced ==
    ASSUME NEW r, Fits(r), NEW b \in Buffers, NEW n \in 0..Len(r.data)-1
    PROVE  LET b2 == [b EXCEPT ![DATA_START + n] = r.data[n + 1]]
           IN  /\ b2 \in Buffers
               /\ DataPlaced(b, r, n) => DataPlaced(b2, r, n + 1)
<1>. DEFINE b2 == [b EXCEPT ![DATA_START + n] = r.data[n + 1]]
            L == Len(r.data)
<1>1. /\ L \in Nat /\ L + 7 <= BufLen /\ BufLen \in Nat
      /\ \A i \in 1..L : r.data[i] \in Byte
  BY FrameIs
<1>2. b2 = [b EXCEPT ![n + 6] = r.data[n + 1]]
  <2>1. DATA_START + n = n + 6
    BY <1>1 DEF DATA_START
  <2>. QED  BY <2>1
<1>3. n + 1 \in 1..L /\ n + 6 \in 0..BufLen-1 /\ n \in Nat
  BY <1>1
<1>. HIDE DEF b2, L
<1>4. b2 \in Buffers
  BY <1>1, <1>2, <1>3 DEF Buffers
<1>5. ASSUME DataPlaced(b, r, n) PROVE DataPlaced(b2, r, n + 1)
  BY <1>2, <1>3, <1>5 DEF DataPlaced, Buffers
<1>. QED  BY <1>4, <1>5 DEF b2

LEMMA HeadIsPlaced ==
    ASSUME NEW r, Fits(r), NEW b \in Buffers, NEW n \in 0..5
    PROVE  LET b2 == [b EXCEPT ![n] = Header(r)[n + 1]]
           IN  /\ b2 \in Buffers
               /\ DataPlaced(b, r, Len(r.data)) /\ HeadPlaced(b, r, n) =>
                    /\ DataPlaced(b2, r, Len(r.data))
                    /\ HeadPlaced(b2, r, n + 1)
                    /\ n = 5 => Placed(b2, r)
<1>. DEFINE b2 == [b EXCEPT ![n] = Header(r)[n + 1]]
            L == Len(r.data)
<1>1. /\ L \in Nat /\ L + 7 <= BufLen /\ BufLen \in Nat
      /\ \A i \in 1..6 : Body(r)[i] = Header(r)[i] /\ Header(r)[i] \in Byte
      /\ \A i \in 1..L : Body(r)[i + 6] = r.data[i]
  BY FrameIs
<1>2. n \in Nat /\ n + 1 \in 1..6 /\ n \in 0..BufLen-1
  BY <1>1
<1>. HIDE DEF L
<1>3. b2 \in Buffers
  BY <1>1, <1>2 DEF Buffers
<1>4. ASSUME DataPlaced(b, r, L), HeadPlaced(b, r, n)
      PROVE  /\ DataPlaced(b2, r, L) /\ HeadPlaced(b2, r, n + 1)
             /\ n = 5 => Placed(b2, r)
  <2>1. DataPlaced(b2, r, L)
    BY <1>1, <1>2, <1>4 DEF DataPlaced, Buffers
  <2>2. HeadPlaced(b2, r, n + 1)
    BY <1>1, <1>2, <1>4 DEF HeadPlaced, Buffers
  <2>3. ASSUME n = 5 PROVE Placed(b2, r)
    <3>. SUFFICES ASSUME NEW i \in 0..L+5 PROVE b2[i] = Body(r)[i + 1]
      BY DEF Placed, L
    <3>. HIDE DEF b2
    <3>1. CASE i <= 5
      <4>1. b2[i] = Header(r)[i + 1] /\ i + 1 \in 1..6
        BY <1>1, <2>2, <2>3, <3>1 DEF HeadPlaced
      <4>. QED  BY <1>1, <4>1
    <3>2. CASE ~(i <= 5)
      <4>1. i - 6 \in 0..L-1 /\ i - 5 \in 1..L
        BY <1>1, <3>2
      <4>2. b2[i - 6 + 6] = r.data[i - 6 + 1]
        BY <2>1, <4>1 DEF DataPlaced
      <4>3. Body(r)[i - 5 + 6] = r.data[i - 5]
        BY <1>1, <4>1
      <4>4. i - 6 + 6 = i /\ i - 6 + 1 = i - 5 /\ i - 5 + 6 = i + 1
        BY <1>1
      <4>. QED  BY <4>2, <4>3, <4>4
    <3>. QED  BY <3>1, <3>2
  <2>. QED  BY <2>1, <2>2, <2>3
<1>. QED  BY <1>3, <1>4 DEF L

LEMMA ByteIsAdded ==
    ASSUME NEW r, Fits(r), NEW b \in Buffers, NEW n \in 0..Len(r.data)+5,
           NEW c \in Byte
    PROVE  LET c2 == (c + b[n]) % 256
           IN  /\ c2 \in Byte
               /\ Placed(b, r) /\ c = Sums(Body(r))[n] =>
                    /\ c2 = Sums(Body(r))[n + 1]
                    /\ n = Len(r.data) + 5 => c2 = CheckSum(Body(r))
<1>. DEFINE L == Len(r.data)
<1>1. /\ L \in Nat /\ L + 7 <= BufLen /\ BufLen \in Nat
      /\ Body(r) \in Seq(Byte) /\ Len(Body(r)) = L + 6
  BY FrameIs
<1>. HIDE DEF L
<1>2. n \in 0..L+5
  BY DEF L
<1>3. n \in 0..BufLen-1 /\ n + 1 \in 1..L+6 /\ n \in Nat
  BY <1>1, <1>2
<1>4. b[n] \in Byte
  BY <1>3 DEF Buffers
<1>5. (c + b[n]) % 256 \in Byte
  <2>1. c \in Int /\ b[n] \in Int
    BY <1>4, ByteIs
  <2>2. PICK x \in Int : x = (c + b[n]) % 256 /\ 0 <= x /\ x <= 255
    BY <2>1
  <2>. QED  BY <2>2, ByteIs
<1>6. ASSUME Placed(b, r), c = Sums(Body(r))[n]
      PROVE  /\ (c + b[n]) % 256 = Sums(Body(r))[n + 1]
             /\ n = L + 5 => (c + b[n]) % 256 = CheckSum(Body(r))
  <2>1. b[n] = Body(r)[n + 1]
    BY <1>2, <1>6 DEF Placed, L
  <2>2. Sums(Body(r))[n + 1] =
          (Sums(Body(r))[n + 1 - 1] + Body(r)[n + 1]) % 256
    BY <1>1, <1>3, SumsAreSums
  <2>3. n + 1 - 1 = n
    BY <1>3
  <2>4. (c + b[n]) % 256 = Sums(Body(r))[n + 1]
    BY <1>6, <2>1, <2>2, <2>3
  <2>5. n = L + 5 => n + 1 = Len(Body(r))
    BY <1>1
  <2>. QED  BY <2>4, <2>5 DEF CheckSum
<1>. QED  BY <1>5, <1>6 DEF L

LEMMA SumIsPlaced ==
    ASSUME NEW r, Fits(r), NEW b \in Buffers, NEW c \in Byte
    PROVE  LET b2 == [b EXCEPT ![FrameLen(r) - 1] = c]
           IN  /\ b2 \in Buffers
               /\ Placed(b, r) => Placed(b2, r) /\ b2[Len(r.data) + 6] = c
<1>. DEFINE L == Len(r.data)
<1>1. /\ L \in Nat /\ L + 7 <= BufLen /\ BufLen \in Nat /\ FrameLen(r) = L + 7
  BY FrameIs
<1>2. [b EXCEPT ![FrameLen(r) - 1] = c] = [b EXCEPT ![L + 6] = c]
  BY <1>1
<1>. DEFINE b2 == [b EXCEPT ![L + 6] = c]
<1>. HIDE DEF L
<1>3. b2 \in Buffers /\ b2[L + 6] = c
  BY <1>1 DEF Buffers
<1>4. ASSUME Placed(b, r) PROVE Placed(b2, r)
  BY <1>1, <1>4 DEF Placed, L, Buffers
<1>. QED  BY <1>2, <1>3, <1>4 DEF L

LEMMA ByteIsSent ==
    ASSUME NEW r, Fits(r), NEW b \in Buffers, NEW n \in 0..Len(r.data)+6,
           NEW s \in Seq(Byte), Len(s) = n
    PROVE  LET s2 == Append(s, b[n])
           IN  /\ s2 \in Seq(Byte) /\ Len(s2) = n + 1
               /\ Built(b, r, "send", n, 0, s) =>
                    /\ \A i \in 1..n + 1 : s2[i] = Frame(r)[i]
                    /\ n = Len(r.data) + 6 => s2 = Frame(r)
<1>. DEFINE L == Len(r.data)
            s2 == Append(s, b[n])
<1>1. /\ L \in Nat /\ L + 7 <= BufLen /\ BufLen \in Nat
      /\ Body(r) \in Seq(Byte) /\ Len(Body(r)) = L + 6
  BY FrameIs
<1>. HIDE DEF L
<1>2. n \in 0..L+6 /\ n \in Nat /\ n \in 0..BufLen-1
  BY <1>1 DEF L
<1>3. b[n] \in Byte
  BY <1>2 DEF Buffers
<1>4. /\ s2 \in Seq(Byte) /\ Len(s2) = n + 1
      /\ \A i \in 1..n : s2[i] = s[i]
      /\ s2[n + 1] = b[n]
  BY <1>2, <1>3, AppendProperties
<1>. HIDE DEF s2
<1>5. ASSUME Built(b, r, "send", n, 0, s)
      PROVE  /\ \A i \in 1..n + 1 : s2[i] = Frame(r)[i]
             /\ n = L + 6 => s2 = Frame(r)
  <2>1. /\ Placed(b, r) /\ b[L + 6] = CheckSum(Body(r))
        /\ \A i \in 1..n : s[i] = Frame(r)[i]
    BY <1>5 DEF Built, L
  <2>2. CheckSum(Body(r)) \in Byte
    BY <1>1, <2>1 DEF Buffers
  <2>3. /\ Frame(r) \in Seq(Byte) /\ Len(Frame(r)) = L + 7
        /\ \A i \in 1..L + 6 : Frame(r)[i] = Body(r)[i]
        /\ Frame(r)[L + 7] = CheckSum(Body(r))
    BY <1>1, <2>2, AppendProperties DEF Frame
  <2>4. b[n] = Frame(r)[n + 1]
    <3>1. CASE n = L + 6
      BY <1>1, <2>1, <2>3, <3>1
    <3>2. CASE n # L + 6
      <4>1. n \in 0..L+5 /\ n + 1 \in 1..L+6
        BY <1>1, <1>2, <3>2
      <4>2. b[n] = Body(r)[n + 1]
        BY <2>1, <4>1 DEF Placed, L
      <4>. QED  BY <2>3, <4>1, <4>2
    <3>. QED  BY <3>1, <3>2
  <2>5. \A i \in 1..n + 1 : s2[i] = Frame(r)[i]
    BY <1>2, <1>4, <2>1, <2>4
  <2>6. ASSUME n = L + 6 PROVE s2 = Frame(r)
    <3>1. Len(s2) = Len(Frame(r)) /\ Len(s2) = n + 1
      BY <1>1, <1>4, <2>3, <2>6
    <3>. QED  BY <1>4, <2>3, <2>5, <3>1, SeqEqual
  <2>. QED  BY <2>5, <2>6
<1>. QED  BY <1>4, <1>5 DEF L, s2

-----------------------------------------------------------------------------
(* The tasks and their buffer.                                              *)

Types ==
    /\ buf \in Buffers
    /\ mcu_reset_state \in BOOLEAN
    /\ pc \in [Tasks -> Stages]
    /\ at \in [Tasks -> Nat]
    /\ check_sum \in [Tasks -> Byte]
    /\ request = [t \in Tasks |-> request[t]]
    /\ \A t \in Tasks : request[t] \in Sendable(t)
    /\ calls \in [Tasks -> Nat]
    /\ \A t \in Tasks : calls[t] <= MaxCalls[t]
    /\ sent \in [Tasks -> Seq(Byte)]
    /\ alone \in [Tasks -> BOOLEAN]

ControlOf(t) == Control(request[t], pc[t], at[t], check_sum[t], sent[t])

\* A task that is alone finds what it has built; others are not in a call.
Lone(t) ==
    alone[t] =>
      /\ pc[t] # "idle" => \A o \in Others(t) : pc[o] = "idle"
      /\ pc[t] # "idle" \/ calls[t] > 0 =>
           Built(buf, request[t], pc[t], at[t], check_sum[t], sent[t])

\* The inductive invariant.
TxInv == Types /\ \A t \in Tasks : ControlOf(t) /\ Lone(t)

\* A step inside the call of t, who is at byte n of stage p, with sum c and s
\* sent after it, in buffer b.
Goes(t, b, p, n, c, s) ==
    /\ pc[t] # "idle"
    /\ buf' = b
    /\ pc' = [pc EXCEPT ![t] = p]
    /\ at' = [at EXCEPT ![t] = n]
    /\ check_sum' = [check_sum EXCEPT ![t] = c]
    /\ sent' = [sent EXCEPT ![t] = s]
    /\ UNCHANGED <<mcu_reset_state, request, calls, alone>>

\* Another task is not in a call of its own, or knows that it is not alone.
LEMMA GoesOn ==
    ASSUME TxInv, NEW t \in Tasks, NEW b \in Buffers, NEW p \in Stages,
           NEW n \in Nat, NEW c \in Byte, NEW s \in Seq(Byte),
           Goes(t, b, p, n, c, s),
           Control(request[t], p, n, c, s),
           Built(buf, request[t], pc[t], at[t], check_sum[t], sent[t]) =>
             Built(b, request[t], p, n, c, s)
    PROVE  TxInv'
<1>1. Types'
  BY DEF TxInv, Types, Goes
<1>2. /\ pc'[t] = p /\ at'[t] = n /\ check_sum'[t] = c /\ sent'[t] = s
      /\ buf' = b /\ request' = request /\ calls' = calls /\ alone' = alone
  BY DEF TxInv, Types, Goes
<1>3. ASSUME NEW o \in Tasks, o # t
      PROVE  /\ pc'[o] = pc[o] /\ at'[o] = at[o] /\ sent'[o] = sent[o]
             /\ check_sum'[o] = check_sum[o]
  BY <1>3 DEF TxInv, Types, Goes
<1>4. ControlOf(t)'
  BY <1>2 DEF ControlOf
<1>5. Lone(t)'
  <2>1. pc[t] # "idle" /\ Lone(t)
    BY DEF Goes, TxInv
  <2>2. \A o \in Others(t) : pc'[o] = pc[o]
    BY <1>3 DEF Others
  <2>. QED  BY <1>2, <2>1, <2>2 DEF Lone
<1>6. ASSUME NEW o \in Tasks, o # t PROVE ControlOf(o)' /\ Lone(o)'
  <2>1. /\ pc'[o] = pc[o] /\ at'[o] = at[o] /\ sent'[o] = sent[o]
        /\ check_sum'[o] = check_sum[o]
    BY <1>3, <1>6
  <2>2. ControlOf(o)'
    BY <1>2, <2>1 DEF TxInv, ControlOf
  <2>3. t \in Others(o) /\ pc[t] # "idle" /\ Lone(o)
    BY <1>6 DEF Others, Goes, TxInv
  <2>4. alone[o] => pc[o] = "idle"
    BY <2>3 DEF Lone
  <2>5. ASSUME alone[o], calls[o] > 0 PROVE sent[o] = Frame(request[o])
    BY <2>3, <2>4, <2>5 DEF Lone, Built
  <2>6. ASSUME alone[o], calls[o] > 0
        PROVE  Built(buf, request[o], pc[o], at[o], check_sum[o], sent[o])'
    BY <1>2, <2>1, <2>4, <2>5, <2>6 DEF Built
  <2>. QED  BY <1>2, <2>1, <2>2, <2>4, <2>6 DEF Lone
<1>. QED  BY <1>1, <1>4, <1>5, <1>6 DEF TxInv

\* What is known of a task that works.
LEMMA TaskIs ==
    ASSUME TxInv, NEW t \in Tasks
    PROVE  /\ Fits(request[t]) /\ Len(request[t].data) \in Nat
           /\ FrameLen(request[t]) = Len(request[t].data) + 7
           /\ buf \in Buffers /\ at[t] \in Nat /\ check_sum[t] \in Byte
           /\ sent[t] \in Seq(Byte) /\ pc[t] \in Stages
           /\ Control(request[t], pc[t], at[t], check_sum[t], sent[t])
<1>1. /\ request[t] \in Sendable(t) /\ buf \in Buffers /\ at[t] \in Nat
      /\ check_sum[t] \in Byte /\ sent[t] \in Seq(Byte) /\ pc[t] \in Stages
      /\ ControlOf(t)
  BY DEF TxInv, Types
<1>2. Fits(request[t])
  BY <1>1, SendableFits
<1>. QED  BY <1>1, <1>2, FrameIs DEF ControlOf

LEMMA AdvanceIs ==
    ASSUME TxInv, NEW t \in Tasks, NEW last, NEW next, Advance(t, last, next)
    PROVE  /\ pc' = [pc EXCEPT ![t] = IF at[t] = last THEN next ELSE pc[t]]
           /\ at' = [at EXCEPT ![t] = IF at[t] = last THEN 0 ELSE at[t] + 1]
<1>1. pc \in [Tasks -> Stages]
  BY DEF TxInv, Types
<1>2. pc = [pc EXCEPT ![t] = pc[t]]
  BY <1>1
<1>. QED  BY <1>2 DEF Advance

\* What a step leaves alone it may be said to set.
LEMMA StaysIs ==
    ASSUME TxInv, NEW t \in Tasks
    PROVE  /\ check_sum' = check_sum =>
                check_sum' = [check_sum EXCEPT ![t] = check_sum[t]]
           /\ sent' = sent => sent' = [sent EXCEPT ![t] = sent[t]]
           /\ at' = at => at' = [at EXCEPT ![t] = at[t]]
<1>1. /\ check_sum \in [Tasks -> Byte] /\ sent \in [Tasks -> Seq(Byte)]
      /\ at \in [Tasks -> Nat]
  BY DEF TxInv, Types
<1>. QED  BY <1>1

LEMMA StoreDataKeeps ==
    ASSUME TxInv, NEW t \in Tasks, StoreData(t) PROVE TxInv'
<1>. DEFINE r == request[t]
            L == Len(r.data)
            n == at[t]
            b == [buf EXCEPT ![DATA_START + n] = r.data[n + 1]]
            p2 == IF n = L - 1 THEN "head" ELSE "data"
            n2 == IF n = L - 1 THEN 0 ELSE n + 1
<1>1. /\ Fits(r) /\ L \in Nat /\ buf \in Buffers /\ n \in Nat
      /\ check_sum[t] \in Byte /\ sent[t] \in Seq(Byte)
      /\ Control(r, "data", n, check_sum[t], sent[t]) /\ pc[t] = "data"
  BY TaskIs DEF StoreData
<1>2. n \in 0..L-1 /\ check_sum[t] = 0 /\ sent[t] = <<>>
  BY <1>1 DEF Control
<1>3. b \in Buffers /\ (DataPlaced(buf, r, n) => DataPlaced(b, r, n + 1))
  BY <1>1, <1>2, DataIsPlaced
<1>4. Goes(t, b, p2, n2, check_sum[t], sent[t])
  BY <1>1, AdvanceIs, StaysIs DEF StoreData, Goes
<1>. HIDE DEF b, r, n
<1>5. Control(r, p2, n2, check_sum[t], sent[t])
  BY <1>1, <1>2 DEF Control
<1>6. ASSUME Built(buf, r, "data", n, check_sum[t], sent[t])
      PROVE  Built(b, r, p2, n2, check_sum[t], sent[t])
  <2>1. DataPlaced(b, r, n + 1)
    BY <1>3, <1>6 DEF Built
  <2>2. n = L - 1 => DataPlaced(b, r, L) /\ HeadPlaced(b, r, 0)
    BY <1>1, <2>1 DEF HeadPlaced
  <2>. QED  BY <2>1, <2>2 DEF Built
<1>7. p2 \in Stages /\ n2 \in Nat
  BY <1>1 DEF Stages
<1>. QED  BY <1>1, <1>3, <1>4, <1>5, <1>6, <1>7, GoesOn DEF r, n

LEMMA StoreHeadKeeps ==
    ASSUME TxInv, NEW t \in Tasks, StoreHead(t) PROVE TxInv'
<1>. DEFINE r == request[t]
            L == Len(r.data)
            n == at[t]
            b == [buf EXCEPT ![n] = Header(r)[n + 1]]
            p2 == IF n = 5 THEN "sum" ELSE "head"
            n2 == IF n = 5 THEN 0 ELSE n + 1
<1>1. /\ Fits(r) /\ L \in Nat /\ buf \in Buffers /\ n \in Nat
      /\ check_sum[t] \in Byte /\ sent[t] \in Seq(Byte)
      /\ Control(r, "head", n, check_sum[t], sent[t]) /\ pc[t] = "head"
  BY TaskIs DEF StoreHead
<1>2. n \in 0..5 /\ check_sum[t] = 0 /\ sent[t] = <<>>
  BY <1>1 DEF Control
<1>3. /\ b \in Buffers
      /\ DataPlaced(buf, r, L) /\ HeadPlaced(buf, r, n) =>
           /\ DataPlaced(b, r, L) /\ HeadPlaced(b, r, n + 1)
           /\ n = 5 => Placed(b, r)
  BY <1>1, <1>2, HeadIsPlaced
<1>4. Goes(t, b, p2, n2, check_sum[t], sent[t])
  <2>1. DATA_START - 1 = 5
    BY DEF DATA_START
  <2>2. Advance(t, 5, "sum")
    BY <2>1 DEF StoreHead
  <2>. QED  BY <1>1, <2>2, AdvanceIs, StaysIs DEF StoreHead, Goes
<1>. HIDE DEF b, r, n, L
<1>5. Control(r, p2, n2, check_sum[t], sent[t])
  BY <1>1, <1>2 DEF Control, L
<1>6. ASSUME Built(buf, r, "head", n, check_sum[t], sent[t])
      PROVE  Built(b, r, p2, n2, check_sum[t], sent[t])
  <2>1. /\ DataPlaced(b, r, L) /\ HeadPlaced(b, r, n + 1)
        /\ n = 5 => Placed(b, r)
    BY <1>3, <1>6 DEF Built, L
  <2>2. Sums(Body(r))[0] = 0
    BY <1>1, FrameIs, SumsAreSums
  <2>. QED  BY <1>2, <2>1, <2>2 DEF Built, L
<1>7. p2 \in Stages /\ n2 \in Nat
  BY <1>1 DEF Stages
<1>. QED  BY <1>1, <1>3, <1>4, <1>5, <1>6, <1>7, GoesOn DEF r, n

LEMMA AddByteKeeps ==
    ASSUME TxInv, NEW t \in Tasks, AddByte(t) PROVE TxInv'
<1>. DEFINE r == request[t]
            L == Len(r.data)
            n == at[t]
            c == (check_sum[t] + buf[n]) % 256
            p2 == IF n = L + 5 THEN "store" ELSE "sum"
            n2 == IF n = L + 5 THEN 0 ELSE n + 1
<1>1. /\ Fits(r) /\ L \in Nat /\ buf \in Buffers /\ n \in Nat
      /\ check_sum[t] \in Byte /\ sent[t] \in Seq(Byte)
      /\ Control(r, "sum", n, check_sum[t], sent[t]) /\ pc[t] = "sum"
      /\ FrameLen(r) = L + 7
  BY TaskIs DEF AddByte
<1>2. n \in 0..L+5 /\ sent[t] = <<>>
  BY <1>1 DEF Control
<1>3. /\ c \in Byte
      /\ Placed(buf, r) /\ check_sum[t] = Sums(Body(r))[n] =>
           /\ c = Sums(Body(r))[n + 1]
           /\ n = L + 5 => c = CheckSum(Body(r))
  BY <1>1, <1>2, ByteIsAdded
<1>4. Goes(t, buf, p2, n2, c, sent[t])
  <2>1. FrameLen(r) - 2 = L + 5
    BY <1>1
  <2>2. Advance(t, L + 5, "store")
    BY <2>1 DEF AddByte
  <2>3. pc' = [pc EXCEPT ![t] = p2] /\ at' = [at EXCEPT ![t] = n2]
    <3>. HIDE DEF L
    <3>. QED  BY <1>1, <2>2, AdvanceIs
  <2>4. /\ check_sum' = [check_sum EXCEPT ![t] = c]
        /\ sent' = [sent EXCEPT ![t] = sent[t]]
    BY StaysIs DEF AddByte
  <2>5. UNCHANGED <<buf, mcu_reset_state, request, calls, alone>>
    BY DEF AddByte
  <2>. QED  BY <1>1, <2>3, <2>4, <2>5 DEF Goes
<1>. HIDE DEF c, r, n, L
<1>5. Control(r, p2, n2, c, sent[t])
  BY <1>1, <1>2 DEF Control, L
<1>6. ASSUME Built(buf, r, "sum", n, check_sum[t], sent[t])
      PROVE  Built(buf, r, p2, n2, c, sent[t])
  BY <1>3, <1>6 DEF Built
<1>7. p2 \in Stages /\ n2 \in Nat
  BY <1>1 DEF Stages
<1>. QED  BY <1>1, <1>3, <1>4, <1>5, <1>6, <1>7, GoesOn DEF r, n

LEMMA StoreSumKeeps ==
    ASSUME TxInv, NEW t \in Tasks, StoreSum(t) PROVE TxInv'
<1>. DEFINE r == request[t]
            L == Len(r.data)
            n == at[t]
            c == check_sum[t]
            b == [buf EXCEPT ![FrameLen(r) - 1] = c]
<1>1. /\ Fits(r) /\ L \in Nat /\ buf \in Buffers /\ n \in Nat
      /\ c \in Byte /\ sent[t] \in Seq(Byte)
      /\ Control(r, "store", n, c, sent[t]) /\ pc[t] = "store"
  BY TaskIs DEF StoreSum
<1>2. n = 0 /\ sent[t] = <<>>
  BY <1>1 DEF Control
<1>3. b \in Buffers /\ (Placed(buf, r) => Placed(b, r) /\ b[L + 6] = c)
  BY <1>1, SumIsPlaced
<1>4. Goes(t, b, "send", n, c, sent[t])
  BY <1>1, StaysIs DEF StoreSum, Goes
<1>. HIDE DEF b, c, r, n, L
<1>5. Control(r, "send", n, c, sent[t])
  BY <1>1, <1>2 DEF Control, L
<1>6. ASSUME Built(buf, r, "store", n, c, sent[t])
      PROVE  Built(b, r, "send", n, c, sent[t])
  BY <1>2, <1>3, <1>6 DEF Built, L
<1>7. "send" \in Stages
  BY DEF Stages
<1>. QED  BY <1>1, <1>3, <1>4, <1>5, <1>6, <1>7, GoesOn DEF r, n, c

LEMMA SendByteKeeps ==
    ASSUME TxInv, NEW t \in Tasks, SendByte(t) PROVE TxInv'
<1>. DEFINE r == request[t]
            L == Len(r.data)
            n == at[t]
            c == check_sum[t]
            s == sent[t]
            s2 == Append(s, buf[n])
            p2 == IF n = L + 6 THEN "idle" ELSE "send"
            n2 == IF n = L + 6 THEN 0 ELSE n + 1
<1>1. /\ Fits(r) /\ L \in Nat /\ buf \in Buffers /\ n \in Nat
      /\ c \in Byte /\ s \in Seq(Byte)
      /\ Control(r, "send", n, c, s) /\ pc[t] = "send"
      /\ FrameLen(r) = L + 7
  BY TaskIs DEF SendByte
<1>2. n \in 0..L+6 /\ Len(s) = n
  BY <1>1 DEF Control
<1>3. /\ s2 \in Seq(Byte) /\ Len(s2) = n + 1
      /\ Built(buf, r, "send", n, 0, s) =>
           /\ \A i \in 1..n + 1 : s2[i] = Frame(r)[i]
           /\ n = L + 6 => s2 = Frame(r)
  BY <1>1, <1>2, ByteIsSent
<1>4. Goes(t, buf, p2, n2, c, s2)
  <2>1. FrameLen(r) - 1 = L + 6
    BY <1>1
  <2>2. Advance(t, L + 6, "idle")
    BY <2>1 DEF SendByte
  <2>3. pc' = [pc EXCEPT ![t] = p2] /\ at' = [at EXCEPT ![t] = n2]
    <3>. HIDE DEF L
    <3>. QED  BY <1>1, <2>2, AdvanceIs
  <2>4. /\ check_sum' = [check_sum EXCEPT ![t] = c]
        /\ sent' = [sent EXCEPT ![t] = s2]
    BY StaysIs DEF SendByte
  <2>5. UNCHANGED <<buf, mcu_reset_state, request, calls, alone>>
    BY DEF SendByte
  <2>. QED  BY <1>1, <2>3, <2>4, <2>5 DEF Goes
<1>. HIDE DEF c, r, n, s, s2, L
<1>5. Control(r, p2, n2, c, s2)
  BY <1>1, <1>2, <1>3 DEF Control, L
<1>6. ASSUME Built(buf, r, "send", n, c, s)
      PROVE  Built(buf, r, p2, n2, c, s2)
  <2>1. Built(buf, r, "send", n, 0, s)
    BY <1>6 DEF Built
  <2>. QED  BY <1>3, <1>6, <2>1 DEF Built
<1>7. p2 \in Stages /\ n2 \in Nat
  BY <1>1 DEF Stages
<1>. QED  BY <1>1, <1>3, <1>4, <1>5, <1>6, <1>7, GoesOn DEF r, n, c, s

LEMMA CallKeeps ==
    ASSUME TxInv, NEW t \in Tasks, NEW r \in Sendable(t), Call(t, r),
           mcu_reset_state' \in BOOLEAN
    PROVE  TxInv'
<1>. DEFINE p == IF r.data = <<>> THEN "head" ELSE "data"
            L == Len(r.data)
<1>1. /\ buf \in Buffers /\ pc \in [Tasks -> Stages] /\ at \in [Tasks -> Nat]
      /\ check_sum \in [Tasks -> Byte]
      /\ request = [u \in Tasks |-> request[u]]
      /\ \A u \in Tasks : request[u] \in Sendable(u)
      /\ calls \in [Tasks -> Nat] /\ sent \in [Tasks -> Seq(Byte)]
      /\ \A u \in Tasks : calls[u] <= MaxCalls[u]
  BY DEF TxInv, Types
<1>2. /\ pc[t] = "idle" /\ calls[t] < MaxCalls[t]
      /\ calls' = [calls EXCEPT ![t] = @ + 1]
      /\ pc' = [pc EXCEPT ![t] = p]
      /\ at' = [at EXCEPT ![t] = 0]
      /\ request' = [request EXCEPT ![t] = r]
      /\ check_sum' = [check_sum EXCEPT ![t] = 0]
      /\ sent' = [sent EXCEPT ![t] = <<>>]
      /\ buf' = buf
  BY DEF Call
<1>3. alone' = [u \in Tasks |->
                   IF u = t THEN \A o \in Others(t) : pc[o] = "idle"
                   ELSE alone[u] /\ pc[u] = "idle"]
  BY DEF Call
<1>4. Fits(r) /\ L \in Nat /\ (r.data = <<>> <=> L = 0)
  <2>1. Fits(r)
    BY SendableFits
  <2>2. r.data \in Seq(Byte)
    BY <2>1 DEF Fits
  <2>. QED  BY <2>1, <2>2, EmptySeq
<1>5. p \in Stages /\ 0 \in Byte /\ <<>> \in Seq(Byte) /\ Len(<<>>) = 0
  BY ByteIs DEF Stages
<1>. HIDE DEF p
<1>6. alone' \in [Tasks -> BOOLEAN]
  BY <1>3, Zenon
<1>7. Types'
  <2>1. \A u \in Tasks : calls'[u] \in Nat /\ calls'[u] <= MaxCalls[u]
    <3>1. TAKE u \in Tasks
    <3>2. MaxCalls[u] \in Nat /\ MaxCalls[t] \in Nat
      BY TasksAssumption
    <3>3. calls'[u] = IF u = t THEN calls[t] + 1 ELSE calls[u]
      BY <1>1, <1>2
    <3>4. calls[u] \in Nat /\ calls[t] \in Nat /\ calls[u] <= MaxCalls[u]
      BY <1>1
    <3>. QED  BY <1>2, <3>2, <3>3, <3>4
  <2>2. calls' \in [Tasks -> Nat]
    BY <1>1, <1>2, <2>1
  <2>3. /\ request' = [u \in Tasks |-> request'[u]]
        /\ \A u \in Tasks : request'[u] \in Sendable(u)
    BY <1>1, <1>2
  <2>4. /\ pc' \in [Tasks -> Stages] /\ at' \in [Tasks -> Nat]
        /\ check_sum' \in [Tasks -> Byte] /\ sent' \in [Tasks -> Seq(Byte)]
    BY <1>1, <1>2, <1>5
  <2>. QED  BY <1>1, <1>2, <1>6, <2>1, <2>2, <2>3, <2>4 DEF Types, Sendable
<1>8. /\ pc'[t] = p /\ at'[t] = 0 /\ check_sum'[t] = 0 /\ sent'[t] = <<>>
      /\ request'[t] = r
  BY <1>1, <1>2
<1>9. ASSUME NEW o \in Tasks, o # t
      PROVE  /\ pc'[o] = pc[o] /\ at'[o] = at[o] /\ sent'[o] = sent[o]
             /\ check_sum'[o] = check_sum[o] /\ request'[o] = request[o]
             /\ calls'[o] = calls[o]
  BY <1>1, <1>2, <1>9
<1>10. ControlOf(t)'
  <2>1. Control(r, p, 0, 0, <<>>)
    BY <1>4 DEF Control, p
  <2>. QED  BY <1>8, <2>1 DEF ControlOf
<1>11. Lone(t)'
  <2>1. Built(buf, r, p, 0, 0, <<>>)
    BY <1>4 DEF Built, DataPlaced, HeadPlaced, p
  <2>2. ASSUME alone'[t] PROVE \A o \in Others(t) : pc'[o] = "idle"
    <3>1. \A o \in Others(t) : pc[o] = "idle"
      BY <1>3, <2>2, Zenon
    <3>. QED  BY <1>9, <3>1 DEF Others
  <2>. QED  BY <1>2, <1>8, <2>1, <2>2 DEF Lone
<1>12. ASSUME NEW o \in Tasks, o # t PROVE ControlOf(o)' /\ Lone(o)'
  <2>1. /\ pc'[o] = pc[o] /\ at'[o] = at[o] /\ sent'[o] = sent[o]
        /\ check_sum'[o] = check_sum[o] /\ request'[o] = request[o]
        /\ calls'[o] = calls[o]
    BY <1>9, <1>12
  <2>2. ControlOf(o)'
    BY <2>1 DEF TxInv, ControlOf
  <2>3. ASSUME alone'[o] PROVE alone[o] /\ pc[o] = "idle"
    BY <1>3, <1>12, <2>3, Zenon
  <2>4. ASSUME alone'[o], calls[o] > 0
        PROVE  Built(buf, request[o], pc[o], at[o], check_sum[o], sent[o])
    BY <2>3, <2>4 DEF TxInv, Lone
  <2>. QED  BY <1>2, <2>1, <2>2, <2>3, <2>4 DEF Lone
<1>. QED  BY <1>7, <1>10, <1>11, <1>12 DEF TxInv

LEMMA TxInit == Init => TxInv
<1>. SUFFICES ASSUME Init PROVE TxInv
  OBVIOUS
<1>1. 0 \in Byte /\ <<>> \in Seq(Byte) /\ Len(<<>>) = 0 /\ BufLen \in Nat
  BY ByteIs, LimitAssumption DEF BufLen, PROTOCOL_HEAD
<1>2. Types
  <2>1. alone \in [Tasks -> BOOLEAN] /\ mcu_reset_state \in BOOLEAN
    BY DEF Init
  <2>. QED
    BY <1>1, <2>1, TasksAssumption DEF Init, Types, Buffers, Stages, Sendable
<1>3. ASSUME NEW t \in Tasks PROVE ControlOf(t)
  <2>1. /\ request[t] = Plain(0) /\ pc[t] = "idle" /\ at[t] = 0
        /\ sent[t] = <<>>
    BY DEF Init
  <2>2. Fits(Plain(0))
    BY SendableFits DEF Sendable
  <2>3. Len(request[t].data) \in Nat
    BY <2>1, <2>2, FrameIs
  <2>. QED  BY <1>1, <2>1, <2>3 DEF ControlOf, Control
<1>4. \A t \in Tasks : ~alone[t]
  BY DEF Init
<1>. QED  BY <1>2, <1>3, <1>4 DEF TxInv, Lone

LEMMA TxStep == ASSUME TxInv, [Next]_vars PROVE TxInv'
<1>1. CASE \E t \in Tasks : Update(t)
  <2>0. PICK t \in Tasks : Update(t)
    BY <1>1
  <2>1. PICK r \in Requests[t] : Call(t, r)
    BY <2>0 DEF Update
  <2>2. mcu_reset_state' \in BOOLEAN
    BY <1>1 DEF Update, TxInv, Types
  <2>3. r \in Sendable(t)
    BY <2>1 DEF Sendable
  <2>. QED  BY <2>1, <2>2, <2>3, CallKeeps
<1>2. CASE AnswerHeartBeat("app")
  <2>1. HeartBeat(mcu_reset_state) \in Sendable("app")
    BY DEF Sendable, TxInv, Types
  <2>2. Call("app", HeartBeat(mcu_reset_state)) /\ mcu_reset_state' \in BOOLEAN
    BY <1>2 DEF AnswerHeartBeat
  <2>. QED  BY <2>1, <2>2, CallKeeps, TasksAssumption
<1>3. CASE \E t \in Tasks : Work(t)
  BY <1>3, StoreDataKeeps, StoreHeadKeeps, AddByteKeeps, StoreSumKeeps,
     SendByteKeeps DEF Work
<1>4. CASE UNCHANGED vars
  <2>1. Types'
    BY <1>4 DEF TxInv, Types, vars
  <2>2. \A t \in Tasks : ControlOf(t)' /\ Lone(t)'
    BY <1>4 DEF TxInv, ControlOf, Lone, vars
  <2>. QED  BY <2>1, <2>2 DEF TxInv
<1>. QED  BY <1>1, <1>2, <1>3, <1>4 DEF Next

LEMMA TxInvHolds == Spec => []TxInv
BY TxInit, TxStep, PTL DEF Spec

\* tuya/system.c:106-122.  For any tasks, any frames that fit and any number of
\* calls: what a call sends is its frame, header, data and checksum, whatever an
\* earlier one left in the buffer, if no other task was in a call meanwhile.
THEOREM LoneFramesAreSentWhole == Spec => []LoneFramesAreWhole
<1>1. TxInv => LoneFramesAreWhole
  BY DEF TxInv, Lone, Built, LoneFramesAreWhole, Ended
<1>. QED  BY <1>1, TxInvHolds, PTL

\* tuya/system.c:36-122.  Whatever the tasks do to each other's frames, they
\* write within the buffer, and send as many bytes as their frames have.
THEOREM TxTypeCorrect == Spec => []TypeOK
<1>1. TxInv => TypeOK
  <2>. SUFFICES ASSUME TxInv PROVE TypeOK
    OBVIOUS
  <2>1. Types
    BY DEF TxInv
  <2>2. ASSUME NEW t \in Tasks
        PROVE  /\ at[t] \in 0..FrameLen(request[t]) - 1
               /\ Len(sent[t]) <= FrameLen(request[t])
    <3>1. /\ Len(request[t].data) \in Nat /\ at[t] \in Nat /\ pc[t] \in Stages
          /\ FrameLen(request[t]) = Len(request[t].data) + 7
          /\ Control(request[t], pc[t], at[t], check_sum[t], sent[t])
      BY TaskIs
    <3>2. Len(<<>>) = 0
      OBVIOUS
    <3>. QED  BY <3>1, <3>2 DEF Control, Stages
  <2>3. \A t \in Tasks : calls[t] \in 0..MaxCalls[t]
    <3>1. TAKE t \in Tasks
    <3>2. MaxCalls[t] \in Nat
      BY TasksAssumption
    <3>3. calls[t] \in Nat /\ calls[t] <= MaxCalls[t]
      BY <2>1 DEF Types
    <3>. QED  BY <3>2, <3>3
  <2>. QED  BY <2>1, <2>2, <2>3 DEF TypeOK, Types, Buffers, Sendable
<1>. QED  BY <1>1, TxInvHolds, PTL
=============================================================================
