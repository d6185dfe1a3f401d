-------------------------- MODULE DataPointsProofs --------------------------
(***************************************************************************)
(* Whatever points the frames of the cloud carry, data_handle reads them as *)
(* they were sent and answers each that it handles once and in order, and   *)
(* no more portions are fed than are answered.                              *)
(***************************************************************************)
EXTENDS DataPoints, SequenceTheorems, WellFoundedInduction, TLAPS

-----------------------------------------------------------------------------
(* Recursion and induction on numbers.                                      *)

\* A set of numbers has a least one.
LEMMA HasLeast ==
    ASSUME NEW S, S \subseteq Nat, S # {}
    PROVE  \E x \in S : \A y \in S : x <= y
<1>1. PICK x \in S : \A y \in S : ~(<<y, x>> \in OpToRel(<, Nat))
    BY WFMin, NatLessThanWellFounded
<1>2. ASSUME NEW y \in S, y < x PROVE FALSE
  <2>1. <<y, x>> \in Nat \X Nat /\ <<y, x>>[1] < <<y, x>>[2]
      BY <1>2
  <2>2. <<y, x>> \in OpToRel(<, Nat)
      BY <2>1, Zenon DEF OpToRel
  <2>. QED
      BY <1>1, <2>2, Zenon
<1>. QED
    BY <1>2

\* p goes from base by the steps of g, n times.
Goes(p, S, base, g, n) ==
    p \in [0..n -> S] /\ p[0] = base /\ \A m \in 1..n : p[m] = g[m][p[m - 1]]

\* There is such a p: the least number of steps without one would have one by
\* that of the number before.
LEMMA Recursion ==
    ASSUME NEW S, NEW base \in S, NEW N \in Nat, NEW g,
           \A n \in 1..N : \A x \in S : g[n][x] \in S
    PROVE  \E p : Goes(p, S, base, g, N)
<1>. DEFINE T == {n \in 0..N : ~\E p : Goes(p, S, base, g, n)}
<1>. SUFFICES ASSUME T # {} PROVE FALSE
    OBVIOUS
<1>1. T \subseteq Nat
    OBVIOUS
<1>2. PICK n \in T : \A y \in T : n <= y
    BY <1>1, HasLeast
<1>3. n \in 0..N /\ ~\E p : Goes(p, S, base, g, n)
    BY <1>2
<1>4. n # 0
  <2>1. Goes([m \in 0..0 |-> base], S, base, g, 0)
      BY DEF Goes
  <2>. QED
      BY <1>3, <2>1
<1>5. n - 1 \in 0..N /\ n \in Nat /\ n - 1 \in Nat /\ n \in 1..N
    BY <1>3, <1>4
<1>6. n - 1 \notin T
  <2>. HIDE DEF T
  <2>. QED
      BY <1>2, <1>5
<1>7. PICK p : Goes(p, S, base, g, n - 1)
    BY <1>5, <1>6
<1>. DEFINE q == [m \in 0..n |-> IF m = n THEN g[n][p[n - 1]] ELSE p[m]]
<1>8. g[n][p[n - 1]] \in S
  <2>1. p[n - 1] \in S
      BY <1>5, <1>7 DEF Goes
  <2>. QED
      BY <1>5, <2>1
<1>9. Goes(q, S, base, g, n)
  <2>1. q \in [0..n -> S]
      BY <1>5, <1>7, <1>8 DEF Goes
  <2>2. q[0] = base
      BY <1>4, <1>5, <1>7 DEF Goes
  <2>3. ASSUME NEW m \in 1..n PROVE q[m] = g[m][q[m - 1]]
    <3>1. m \in 0..n /\ m - 1 \in 0..n /\ m - 1 # n
        BY <1>5
    <3>2. q[m - 1] = p[m - 1]
        BY <3>1
    <3>3. CASE m = n
        BY <3>1, <3>2, <3>3
    <3>4. CASE m # n
      <4>1. m \in 1..n - 1
          BY <1>5, <3>4
      <4>2. q[m] = p[m] /\ p[m] = g[m][p[m - 1]]
          BY <1>7, <3>1, <3>4, <4>1 DEF Goes
      <4>. QED
          BY <3>2, <4>2
    <3>. QED
        BY <3>3, <3>4
  <2>. QED
      BY <2>1, <2>2, <2>3 DEF Goes
<1>. QED
    BY <1>3, <1>9

-----------------------------------------------------------------------------
(* Sequences joined.                                                        *)

LEMMA JoinedIs ==
    ASSUME NEW S, NEW s \in Seq(Seq(S))
    PROVE  /\ Joined(s) \in [0..Len(s) -> Seq(S)]
           /\ Joined(s)[0] = <<>>
           /\ \A n \in 1..Len(s) : Joined(s)[n] = Joined(s)[n - 1] \o s[n]
<1>. DEFINE N == Len(s)
            g == [n \in 1..N |-> [x \in Seq(S) |-> x \o s[n]]]
            j == CHOOSE f : f = [n \in 0..N |->
                    IF n = 0 THEN <<>> ELSE f[n - 1] \o s[n]]
<1>1. N \in Nat /\ \A n \in 1..N : s[n] \in Seq(S)
    BY LenProperties, ElementOfSeq
<1>2. \A n \in 1..N : \A x \in Seq(S) : g[n][x] = x \o s[n] /\ g[n][x] \in Seq(S)
    BY <1>1, ConcatProperties
<1>3. <<>> \in Seq(S)
    OBVIOUS
<1>. HIDE DEF g
<1>4. PICK p : Goes(p, Seq(S), <<>>, g, N)
    BY <1>1, <1>2, <1>3, Recursion
<1>5. p = [n \in 0..N |-> IF n = 0 THEN <<>> ELSE p[n - 1] \o s[n]]
  <2>1. /\ p = [n \in 0..N |-> p[n]] /\ p[0] = <<>>
        /\ \A n \in 0..N : p[n] \in Seq(S)
      BY <1>4 DEF Goes
  <2>2. ASSUME NEW n \in 0..N, n # 0 PROVE p[n] = p[n - 1] \o s[n]
    <3>1. n \in 1..N /\ n - 1 \in 0..N
        BY <1>1, <2>2
    <3>. QED
        BY <1>2, <1>4, <2>1, <3>1 DEF Goes
  <2>. QED
      BY <2>1, <2>2
<1>6. j = [n \in 0..N |-> IF n = 0 THEN <<>> ELSE j[n - 1] \o s[n]]
    BY <1>5
<1>7. Joined(s) = j
    BY DEF Joined
<1>. HIDE DEF j
<1>8. /\ j[0] = <<>>
      /\ \A n \in 1..N : j[n] = j[n - 1] \o s[n]
  <2>1. 0 \in 0..N /\ \A n \in 1..N : n \in 0..N /\ n # 0
      BY <1>1
  <2>2. \A n \in 0..N : j[n] = IF n = 0 THEN <<>> ELSE j[n - 1] \o s[n]
      BY <1>6
  <2>. HIDE DEF N
  <2>. QED
      BY <2>1, <2>2
<1>9. \A n \in 0..N : j[n] \in Seq(S)
  <2>. DEFINE T == {n \in 0..N : j[n] \notin Seq(S)}
  <2>. SUFFICES ASSUME T # {} PROVE FALSE
      OBVIOUS
  <2>1. T \subseteq Nat
      BY <1>1
  <2>2. PICK n \in T : \A y \in T : n <= y
      BY <2>1, HasLeast
  <2>3. n \in 1..N /\ n - 1 \in 0..N /\ n - 1 \notin T
    <3>1. n \in 0..N /\ j[n] \notin Seq(S)
        BY <2>2
    <3>2. n # 0
        BY <1>3, <1>8, <3>1
    <3>3. n \in 1..N /\ n - 1 \in 0..N /\ n \in Nat /\ n - 1 \in Nat
        BY <1>1, <3>1, <3>2
    <3>. HIDE DEF T, N
    <3>. QED
        BY <2>2, <3>3
  <2>4. j[n - 1] \in Seq(S) /\ s[n] \in Seq(S)
      BY <1>1, <2>3
  <2>5. j[n] \in Seq(S)
      BY <1>8, <2>3, <2>4, ConcatProperties
  <2>. QED
      BY <2>2, <2>5
<1>. QED
    BY <1>6, <1>7, <1>8, <1>9

\* What was joined first stays where it is.
LEMMA JoinedGrows ==
    ASSUME NEW S, NEW s \in Seq(Seq(S)), NEW N \in 0..Len(s), NEW m \in 0..N
    PROVE  /\ Len(Joined(s)[m]) <= Len(Joined(s)[N])
           /\ \A k \in 1..Len(Joined(s)[m]) : Joined(s)[N][k] = Joined(s)[m][k]
<1>. DEFINE j == Joined(s)
            Grown(n) == /\ Len(j[m]) <= Len(j[n])
                        /\ \A k \in 1..Len(j[m]) : j[n][k] = j[m][k]
            T == {n \in m..Len(s) : ~Grown(n)}
<1>1. /\ \A n \in 0..Len(s) : j[n] \in Seq(S) /\ Len(j[n]) \in Nat
      /\ \A n \in 1..Len(s) : j[n] = j[n - 1] \o s[n] /\ s[n] \in Seq(S)
      /\ Len(s) \in Nat
  <2>1. /\ j \in [0..Len(s) -> Seq(S)]
        /\ \A n \in 1..Len(s) : j[n] = j[n - 1] \o s[n]
      BY JoinedIs
  <2>2. \A n \in 0..Len(s) : j[n] \in Seq(S)
      BY <2>1
  <2>3. \A n \in 1..Len(s) : s[n] \in Seq(S)
      BY ElementOfSeq
  <2>. HIDE DEF j
  <2>. QED
      BY <2>1, <2>2, <2>3, LenProperties
<1>. SUFFICES T = {}
  <2>1. N \in m..Len(s)
      BY <1>1
  <2>. QED
      BY <2>1
<1>. SUFFICES ASSUME T # {} PROVE FALSE
    OBVIOUS
<1>2. T \subseteq Nat
    BY <1>1
<1>3. PICK n \in T : \A y \in T : n <= y
    BY <1>2, HasLeast
<1>. HIDE DEF j
<1>4. n # m
  <2>1. Grown(m)
      BY <1>1
  <2>. QED
      BY <1>3, <2>1
<1>5. n \in 1..Len(s) /\ n - 1 \in m..Len(s) /\ n - 1 \in 0..Len(s) /\ n \in 0..Len(s)
    BY <1>1, <1>3, <1>4
<1>6. Grown(n - 1)
  <2>1. n - 1 \notin T
    <3>. HIDE DEF T
    <3>. QED
        BY <1>1, <1>3, <1>5
  <2>. QED
      BY <1>5, <2>1
<1>7. /\ Len(j[n]) = Len(j[n - 1]) + Len(s[n])
      /\ \A k \in 1..Len(j[n - 1]) : j[n][k] = j[n - 1][k]
  <2>1. /\ j[n - 1] \in Seq(S) /\ s[n] \in Seq(S)
        /\ Len(j[n - 1]) \in Nat /\ Len(s[n]) \in Nat
      BY <1>1, <1>5, LenProperties
  <2>2. /\ Len(j[n - 1] \o s[n]) = Len(j[n - 1]) + Len(s[n])
        /\ \A k \in 1..Len(j[n - 1]) + Len(s[n]) :
              (j[n - 1] \o s[n])[k] = IF k <= Len(j[n - 1]) THEN j[n - 1][k]
                                      ELSE s[n][k - Len(j[n - 1])]
      BY <2>1, ConcatProperties
  <2>3. j[n] = j[n - 1] \o s[n]
      BY <1>1, <1>5
  <2>4. \A k \in 1..Len(j[n - 1]) : k \in 1..Len(j[n - 1]) + Len(s[n])
    <3>1. \A a, b \in Nat : \A k \in 1..a : k \in 1..a + b
        OBVIOUS
    <3>. QED
        BY <2>1, <3>1, Zenon
  <2>5. \A k \in 1..Len(j[n - 1]) : k <= Len(j[n - 1])
      BY <2>1
  <2>. QED
      BY <2>2, <2>3, <2>4, <2>5, Zenon
<1>8. Grown(n)
  <2>1. /\ Len(j[m]) \in Nat /\ Len(j[n - 1]) \in Nat
        /\ Len(j[n]) \in Nat /\ Len(s[n]) \in Nat
      BY <1>1, <1>5, LenProperties
  <2>2. Len(j[m]) <= Len(j[n])
    <3>1. \A a, b, c, d \in Nat : a <= b /\ d = b + c => a <= d
        OBVIOUS
    <3>2. Len(j[m]) <= Len(j[n - 1]) /\ Len(j[n]) = Len(j[n - 1]) + Len(s[n])
        BY <1>6, <1>7
    <3>. QED
        BY <2>1, <3>1, <3>2, Zenon
  <2>3. ASSUME NEW k \in 1..Len(j[m]) PROVE j[n][k] = j[m][k]
    <3>1. k \in 1..Len(j[n - 1])
        BY <1>6, <2>1
    <3>2. j[n - 1][k] = j[m][k]
        BY <1>6
    <3>3. j[n][k] = j[n - 1][k]
        BY <1>7, <3>1
    <3>. QED
        BY <3>2, <3>3
  <2>. QED
      BY <2>2, <2>3
<1>. QED
    BY <1>3, <1>8

-----------------------------------------------------------------------------
(* The data of a frame.                                                     *)

Points == [dpid : Nat, type : Nat, value : Nat]

\* A value takes four bytes or one.
IsSent(p) == IF p.type = DP_TYPE_VALUE THEN p.value \div 16777216 <= 255
             ELSE p.value <= 255

Received == Frames \cup {<<>>}

LEMMA FramesAre ==
    ASSUME NEW f \in Received
    PROVE  /\ f \in Seq(Points) /\ Len(f) \in Nat
           /\ \A n \in 1..Len(f) : f[n] \in Points /\ IsSent(f[n])
<1>. DEFINE Octet == 0..255
            P == [dpid : Octet, type : Octet, value : Nat]
<1>1. CASE f \in Frames
  <2>1. f \in Seq(P)
      BY <1>1, FramesAssumption, SMT
  <2>2. \A n \in DOMAIN f : IsSent(f[n])
      BY <1>1, FramesAssumption, SMT DEF IsSent
  <2>3. Octet \subseteq Nat
      OBVIOUS
  <2>. HIDE DEF Octet
  <2>4. P \subseteq Points
      BY <2>3 DEF Points
  <2>. HIDE DEF P
  <2>5. f \in Seq(Points)
      BY <2>1, <2>4, SeqMonotonic
  <2>. QED
      BY <2>2, <2>5, LenProperties, ElementOfSeq
<1>2. CASE f = <<>>
    BY <1>2
<1>. QED
    BY <1>1, <1>2 DEF Received

\* Four bytes make the number they were made of.
LEMMA FourBytes ==
    ASSUME NEW v \in Nat, v \div 16777216 <= 255
    PROVE  (v \div 16777216) * 16777216 + ((v \div 65536) % 256) * 65536
             + ((v \div 256) % 256) * 256 + (v % 256) = v
<1>. DEFINE a == v \div 256
            b == a \div 256
            c == b \div 256
<1>1. v \div 65536 = b /\ v \div 16777216 = c
    BY SMT
<1>2. v = 256 * a + (v % 256)
    BY SMT
<1>3. a = 256 * b + (a % 256)
    BY SMT
<1>4. b = 256 * c + (b % 256)
    BY SMT
<1>5. /\ a \in Int /\ b \in Int /\ c \in Int
      /\ v % 256 \in Int /\ a % 256 \in Int /\ b % 256 \in Int
    BY SMT
<1>6. \A x, r1, r2, r3, y1, y2, y3 \in Int :
        /\ x = 256 * y1 + r1 /\ y1 = 256 * y2 + r2 /\ y2 = 256 * y3 + r3
        => y3 * 16777216 + r3 * 65536 + r2 * 256 + r1 = x
    BY SMT
<1>. HIDE DEF a, b, c
<1>7. c * 16777216 + (b % 256) * 65536 + (a % 256) * 256 + (v % 256) = v
    BY <1>2, <1>3, <1>4, <1>5, <1>6, SMT
<1>. QED
    BY <1>1, <1>7, SMT DEF a

LEMMA BytesAre ==
    ASSUME NEW p \in Points, IsSent(p)
    PROVE  /\ Bytes(p) \in Seq(Nat)
           /\ Len(Bytes(p)) = IF p.type = DP_TYPE_VALUE THEN 4 ELSE 1
           /\ IF p.type = DP_TYPE_VALUE THEN byte_to_int(Bytes(p)) = p.value
              ELSE Bytes(p)[1] = p.value
<1>1. p.value \in Nat
    BY DEF Points
<1>2. CASE p.type = DP_TYPE_VALUE
  <2>. DEFINE v == p.value
  <2>1. /\ v \in Nat /\ v \div 16777216 \in Nat /\ (v \div 65536) % 256 \in Nat
        /\ (v \div 256) % 256 \in Nat /\ v % 256 \in Nat
      BY <1>1, SMT
  <2>2. Bytes(p) = <<v \div 16777216, (v \div 65536) % 256, (v \div 256) % 256, v % 256>>
      BY <1>2, SMT DEF Bytes
  <2>3. v \div 16777216 <= 255
      BY <1>2, SMT DEF IsSent
  <2>4. byte_to_int(Bytes(p)) = v
    <3>. HIDE DEF v
    <3>. DEFINE w == v \div 16777216
                x == (v \div 65536) % 256
                y == (v \div 256) % 256
                z == v % 256
    <3>1. w * 16777216 + x * 65536 + y * 256 + z = v
        BY <2>1, <2>3, FourBytes, SMT
    <3>. HIDE DEF w, x, y, z
    <3>2. byte_to_int(<<w, x, y, z>>) = w * 16777216 + x * 65536 + y * 256 + z
        BY SMT DEF byte_to_int
    <3>. QED
        BY <2>2, <3>1, <3>2, SMT DEF w, x, y, z
  <2>. HIDE DEF v
  <2>5. Bytes(p) \in Seq(Nat) /\ Len(Bytes(p)) = 4
      BY <2>1, <2>2, SMT
  <2>. QED
      BY <1>2, <2>4, <2>5, SMT DEF v
<1>3. CASE p.type # DP_TYPE_VALUE
    BY <1>1, <1>3, SMT DEF Bytes
<1>. QED
    BY <1>2, <1>3

\* A point after those before it.
LEMMA PointBytesAre ==
    ASSUME NEW p \in Points, IsSent(p)
    PROVE  /\ PointBytes(p) \in Seq(Nat)
           /\ Len(PointBytes(p)) = Len(Bytes(p)) + 4
           /\ PointBytes(p)[1] = p.dpid /\ PointBytes(p)[2] = p.type
           /\ PointBytes(p)[3] = 0 /\ PointBytes(p)[4] = Len(Bytes(p))
           /\ \A k \in 1..Len(Bytes(p)) : PointBytes(p)[k + 4] = Bytes(p)[k]
<1>. DEFINE h == <<p.dpid, p.type, 0, Len(Bytes(p))>>
            b == Bytes(p)
<1>1. b \in Seq(Nat) /\ Len(b) \in {1, 4}
    BY BytesAre
<1>2. PointBytes(p) = h \o b
    BY DEF PointBytes
<1>3. h \in Seq(Nat) /\ Len(h) = 4
      /\ h[1] = p.dpid /\ h[2] = p.type /\ h[3] = 0 /\ h[4] = Len(b)
  <2>1. p.dpid \in Nat /\ p.type \in Nat /\ Len(b) \in Nat
      BY <1>1 DEF Points
  <2>. HIDE DEF b
  <2>. QED
      BY <2>1 DEF b
<1>. HIDE DEF h, b
<1>4. /\ h \o b \in Seq(Nat)
      /\ Len(h \o b) = 4 + Len(b)
      /\ \A k \in 1..4 + Len(b) :
            (h \o b)[k] = IF k <= 4 THEN h[k] ELSE b[k - 4]
  <2>1. /\ h \o b \in Seq(Nat)
        /\ Len(h \o b) = Len(h) + Len(b)
        /\ \A k \in 1..Len(h) + Len(b) :
              (h \o b)[k] = IF k <= Len(h) THEN h[k] ELSE b[k - Len(h)]
      BY <1>1, <1>3, ConcatProperties
  <2>. QED
      BY <1>3, <2>1
<1>5. (h \o b)[1] = h[1] /\ (h \o b)[2] = h[2] /\ (h \o b)[3] = h[3]
      /\ (h \o b)[4] = h[4]
  <2>1. Len(b) \in Nat
      BY <1>1
  <2>2. 1 \in 1..4 + Len(b) /\ 2 \in 1..4 + Len(b) /\ 3 \in 1..4 + Len(b)
        /\ 4 \in 1..4 + Len(b)
      BY <2>1
  <2>. QED
      BY <1>4, <2>2
<1>6. \A k \in 1..Len(b) : (h \o b)[k + 4] = b[k]
  <2>1. Len(b) \in Nat
      BY <1>1
  <2>2. ASSUME NEW k \in 1..Len(b) PROVE (h \o b)[k + 4] = b[k]
    <3>1. k + 4 \in 1..4 + Len(b) /\ ~(k + 4 <= 4) /\ k + 4 - 4 = k
        BY <2>1
    <3>. QED
        BY <1>4, <3>1
  <2>. QED
      BY <2>2
<1>7. Len(h \o b) = Len(b) + 4
    BY <1>1, <1>4
<1>. QED
    BY <1>2, <1>3, <1>4, <1>5, <1>6, <1>7 DEF b

LEMMA EncodedIs ==
    ASSUME NEW f \in Received, NEW n \in 0..Len(f), NEW m \in 0..n
    PROVE  /\ EncodedTo(f, n) \in Seq(Nat)
           /\ EncodedTo(f, 0) = <<>>
           /\ n # 0 => EncodedTo(f, n) = EncodedTo(f, n - 1) \o PointBytes(f[n])
           /\ Len(EncodedTo(f, m)) <= Len(EncodedTo(f, n))
           /\ \A k \in 1..Len(EncodedTo(f, m)) : EncodedTo(f, n)[k] = EncodedTo(f, m)[k]
<1>. DEFINE s == [l \in 1..Len(f) |-> PointBytes(f[l])]
<1>1. Len(f) \in Nat /\ \A l \in 1..Len(f) : s[l] \in Seq(Nat)
    BY FramesAre, PointBytesAre
<1>2. s \in Seq(Seq(Nat)) /\ Len(s) = Len(f)
  <2>. DEFINE SN == Seq(Nat)
              PB(x) == PointBytes(f[x])
  <2>1. \A l \in 1..Len(f) : PB(l) \in SN
      BY <1>1
  <2>. HIDE DEF SN, PB
  <2>2. [l \in 1..Len(f) |-> PB(l)] \in Seq(SN) /\ Len([l \in 1..Len(f) |-> PB(l)]) = Len(f)
      BY <1>1, <2>1
  <2>. QED
      BY <2>2 DEF SN, PB
<1>3. \A l \in 0..Len(f) : EncodedTo(f, l) = Joined(s)[l]
    BY DEF EncodedTo
<1>4. n # 0 => s[n] = PointBytes(f[n]) /\ n \in 1..Len(f) /\ n - 1 \in 0..Len(f)
    BY <1>1
<1>5. 0 \in 0..Len(f) /\ m \in 0..Len(f)
    BY <1>1
<1>. HIDE DEF s
<1>6. /\ Joined(s)[n] \in Seq(Nat)
      /\ Joined(s)[0] = <<>>
      /\ n # 0 => Joined(s)[n] = Joined(s)[n - 1] \o s[n]
    BY <1>2, <1>4, JoinedIs
<1>7. /\ Len(Joined(s)[m]) <= Len(Joined(s)[n])
      /\ \A k \in 1..Len(Joined(s)[m]) : Joined(s)[n][k] = Joined(s)[m][k]
  <2>1. n \in 0..Len(s)
      BY <1>2
  <2>. QED
      BY <1>2, <2>1, JoinedGrows
<1>. QED
    BY <1>3, <1>4, <1>5, <1>6, <1>7

LEMMA EncodedStep ==
    ASSUME NEW f \in Received, NEW n \in 0..Len(f) - 1
    PROVE  EncodedTo(f, n + 1) = EncodedTo(f, n) \o PointBytes(f[n + 1])
<1>. DEFINE m == n + 1
<1>1. m \in 0..Len(f) /\ 0 \in 0..m /\ m # 0 /\ m - 1 = n
    BY FramesAre
<1>. HIDE DEF m
<1>2. EncodedTo(f, m) = EncodedTo(f, m - 1) \o PointBytes(f[m])
    BY <1>1, EncodedIs
<1>. QED
    BY <1>1, <1>2 DEF m

\* At the place where the first n points end, data_handle finds the next as it
\* was sent, and steps to where it ends.
LEMMA PointIsRead ==
    ASSUME frame \in Received, data = Encoded(frame),
           NEW n \in 0..Len(frame) - 1, i = Len(EncodedTo(frame, n))
    PROVE  /\ dp_id = frame[n + 1].dpid /\ dp_type = frame[n + 1].type
           /\ Value = frame[n + 1].value
           /\ Step = Len(EncodedTo(frame, n + 1))
           /\ i < Len(data) /\ Step <= Len(data)
<1>. DEFINE p == frame[n + 1]
            b == PointBytes(p)
            e == EncodedTo(frame, n)
            l == Len(Bytes(p))
<1>1. Len(frame) \in Nat /\ n \in Nat /\ n + 1 \in 1..Len(frame) /\ n \in 0..Len(frame)
      /\ n + 1 \in 0..Len(frame) /\ n + 1 # 0 /\ n + 1 - 1 = n
      /\ Len(frame) \in 0..Len(frame) /\ n + 1 \in 0..Len(frame)
    BY FramesAre
<1>2. p \in Points /\ IsSent(p)
    BY <1>1, FramesAre
<1>3. /\ l = IF p.type = DP_TYPE_VALUE THEN 4 ELSE 1
      /\ b \in Seq(Nat) /\ Len(b) = l + 4
      /\ b[1] = p.dpid /\ b[2] = p.type /\ b[3] = 0 /\ b[4] = l
      /\ \A k \in 1..l : b[k + 4] = Bytes(p)[k]
    BY <1>2, BytesAre, PointBytesAre
<1>4. e \in Seq(Nat) /\ i = Len(e) /\ i \in Nat
    BY <1>1, EncodedIs
<1>5. EncodedTo(frame, n + 1) = e \o b
  <2>1. EncodedTo(frame, n + 1) = EncodedTo(frame, n) \o PointBytes(frame[n + 1])
      BY EncodedStep
  <2>. QED
      BY <2>1
<1>6. /\ Len(e \o b) <= Len(data)
      /\ \A k \in 1..Len(e \o b) : data[k] = (e \o b)[k]
      /\ data \in Seq(Nat)
  <2>1. /\ Len(EncodedTo(frame, n + 1)) <= Len(EncodedTo(frame, Len(frame)))
        /\ \A k \in 1..Len(EncodedTo(frame, n + 1)) :
             EncodedTo(frame, Len(frame))[k] = EncodedTo(frame, n + 1)[k]
        /\ EncodedTo(frame, Len(frame)) \in Seq(Nat)
      BY <1>1, EncodedIs
  <2>. QED
      BY <1>5, <2>1 DEF Encoded
<1>. HIDE DEF b, e, l
<1>7. /\ Len(e \o b) = i + l + 4
      /\ \A k \in 1..i + l + 4 : (e \o b)[k] = IF k <= i THEN e[k] ELSE b[k - i]
  <2>1. /\ Len(e \o b) = i + (l + 4)
        /\ \A k \in 1..i + (l + 4) : (e \o b)[k] = IF k <= i THEN e[k] ELSE b[k - i]
    <3>1. /\ e \o b \in Seq(Nat)
          /\ Len(e \o b) = Len(e) + Len(b)
          /\ \A k \in 1..Len(e) + Len(b) :
                (e \o b)[k] = IF k <= Len(e) THEN e[k] ELSE b[k - Len(e)]
      <4>1. e \in Seq(Nat) /\ b \in Seq(Nat)
          BY <1>3, <1>4
      <4>. QED
          BY <4>1, ConcatProperties
    <3>. QED
        BY <1>3, <1>4, <3>1
  <2>2. i + (l + 4) = i + l + 4
      BY <1>3, <1>4
  <2>. QED
      BY <2>1, <2>2
<1>8. l \in {1, 4}
    BY <1>3
<1>9. ASSUME NEW k \in 1..l + 4 PROVE data[i + k] = b[k]
  <2>1. i + k \in 1..i + l + 4 /\ ~(i + k <= i) /\ i + k - i = k
      BY <1>4, <1>8
  <2>. QED
    <3>1. i + k \in 1..Len(e \o b)
        BY <1>7, <2>1
    <3>2. (e \o b)[i + k] = b[i + k - i]
        BY <1>7, <2>1
    <3>. QED
        BY <1>6, <2>1, <3>1, <3>2
<1>10. dp_id = p.dpid /\ dp_type = p.type /\ dp_len = l
  <2>1. data[i + 1] = b[1] /\ data[i + 2] = b[2] /\ data[i + 3] = b[3]
        /\ data[i + 4] = b[4]
      BY <1>8, <1>9
  <2>. QED
      BY <1>3, <1>8, <2>1 DEF dp_id, dp_type, dp_len
<1>11. Value = p.value
  <2>1. CASE p.type = DP_TYPE_VALUE
    <3>1. l = 4
        BY <1>3, <2>1
    <3>. DEFINE v == SubSeq(data, i + 5, i + 8)
                w == Bytes(p)
    <3>2. data[i + 5] = w[1] /\ data[i + 6] = w[2] /\ data[i + 7] = w[3]
          /\ data[i + 8] = w[4]
      <4>1. \A k \in 1..4 : data[i + (k + 4)] = w[k]
        <5>1. \A k \in 1..4 : k \in 1..l /\ k + 4 \in 1..l + 4
            BY <3>1
        <5>. QED
            BY <1>3, <1>9, <5>1
      <4>. QED
          BY <1>4, <4>1
    <3>3. \A k \in 1..4 : v[k] = data[i + 4 + k]
      <4>1. i + 8 <= Len(data) /\ Len(data) \in Nat
          BY <1>4, <1>6, <1>7, <3>1
      <4>2. \A k \in (i + 5)..(i + 8) : data[k] \in Nat
        <5>1. \A k \in (i + 5)..(i + 8) : k \in 1..Len(data)
            BY <1>4, <4>1
        <5>. QED
            BY <1>6, <5>1, ElementOfSeq
      <4>3. \A k \in 1..(i + 8) - (i + 5) + 1 : v[k] = data[(i + 5) + k - 1]
          BY <1>4, <4>2, SubSeqProperties
      <4>. QED
          BY <1>4, <4>3
    <3>4. v[1] = w[1] /\ v[2] = w[2] /\ v[3] = w[3] /\ v[4] = w[4]
        BY <1>4, <3>2, <3>3
    <3>. HIDE DEF v, w
    <3>5. byte_to_int(v) = byte_to_int(w)
        BY <3>4, SMT DEF byte_to_int
    <3>6. byte_to_int(w) = p.value
        BY <1>2, <2>1, BytesAre DEF w
    <3>. QED
        BY <1>10, <2>1, <3>5, <3>6 DEF Value, v
  <2>2. CASE p.type # DP_TYPE_VALUE
    <3>1. l = 1 /\ Bytes(p)[1] = p.value
        BY <1>2, <1>3, <2>2, BytesAre
    <3>2. data[i + 5] = b[5] /\ b[5] = Bytes(p)[1]
        BY <1>3, <1>9, <3>1
    <3>. QED
        BY <1>10, <2>2, <3>1, <3>2 DEF Value
  <2>. QED
      BY <2>1, <2>2
<1>12. Step = Len(e \o b)
    BY <1>4, <1>7, <1>8, <1>10 DEF Step
<1>13. i < Len(data) /\ Step <= Len(data)
  <2>1. Len(data) \in Nat
      BY <1>6
  <2>. QED
      BY <1>4, <1>6, <1>7, <1>8, <1>12, <2>1
<1>. QED
    BY <1>5, <1>10, <1>11, <1>12, <1>13 DEF e
-----------------------------------------------------------------------------
(* The answers a frame is to have.                                          *)

Sendings == (Nat \X Nat) \cup {<<"record">>, <<"stop">>}

LEMMA AnswersAre ==
    ASSUME NEW p \in Points
    PROVE  AnswersTo(p) \in Seq(Sendings)
<1>1. /\ Answer(p.dpid, ToldOf(p)) \in Sendings
      /\ <<"record">> \in Sendings /\ <<"stop">> \in Sendings
  <2>1. p.dpid \in Nat /\ ToldOf(p) \in Nat
      BY DEF ToldOf, Points
  <2>. QED
      BY <2>1 DEF Answer, Sendings
<1>2. \A x, y \in Sendings : /\ <<>> \in Seq(Sendings) /\ <<x>> \in Seq(Sendings)
                             /\ <<x, y>> \in Seq(Sendings)
    OBVIOUS
<1>. QED
    BY <1>1, <1>2 DEF AnswersTo

LEMMA ExpectedIs ==
    ASSUME NEW f \in Received
    PROVE  /\ ExpectedTo(f, 0) = <<>>
           /\ \A n \in 0..Len(f) : ExpectedTo(f, n) \in Seq(Sendings)
           /\ \A n \in 0..Len(f) - 1 :
                ExpectedTo(f, n + 1) = ExpectedTo(f, n) \o AnswersTo(f[n + 1])
<1>. DEFINE s == [l \in 1..Len(f) |-> AnswersTo(f[l])]
            SS == Seq(Sendings)
<1>1. Len(f) \in Nat /\ \A l \in 1..Len(f) : s[l] \in SS
    BY FramesAre, AnswersAre
<1>2. s \in Seq(SS) /\ Len(s) = Len(f)
  <2>. DEFINE A(x) == AnswersTo(f[x])
  <2>1. \A l \in 1..Len(f) : A(l) \in SS
      BY <1>1
  <2>. HIDE DEF SS, A
  <2>2. [l \in 1..Len(f) |-> A(l)] \in Seq(SS) /\ Len([l \in 1..Len(f) |-> A(l)]) = Len(f)
      BY <1>1, <2>1
  <2>. QED
      BY <2>2 DEF A
<1>3. \A l : ExpectedTo(f, l) = Joined(s)[l]
    BY DEF ExpectedTo
<1>4. \A l \in 1..Len(f) : s[l] = AnswersTo(f[l])
    OBVIOUS
<1>. HIDE DEF s
<1>5. /\ Joined(s) \in [0..Len(s) -> SS]
      /\ Joined(s)[0] = <<>>
      /\ \A n \in 1..Len(s) : Joined(s)[n] = Joined(s)[n - 1] \o s[n]
    BY <1>2, JoinedIs
<1>6. \A n \in 0..Len(f) : ExpectedTo(f, n) \in SS
    BY <1>2, <1>3, <1>5
<1>7. ASSUME NEW n \in 0..Len(f) - 1
      PROVE  ExpectedTo(f, n + 1) = ExpectedTo(f, n) \o AnswersTo(f[n + 1])
  <2>. DEFINE m == n + 1
  <2>1. m \in 1..Len(s) /\ m \in 1..Len(f) /\ m - 1 = n
      BY <1>1, <1>2
  <2>. HIDE DEF m
  <2>2. Joined(s)[m] = Joined(s)[m - 1] \o s[m]
      BY <1>5, <2>1
  <2>3. ExpectedTo(f, m) = ExpectedTo(f, n) \o AnswersTo(f[m])
      BY <1>3, <1>4, <2>1, <2>2, Zenon
  <2>. QED
      BY <2>3 DEF m
<1>. QED
    BY <1>3, <1>5, <1>6, <1>7

-----------------------------------------------------------------------------
(* Portions in the queue.                                                   *)

Messages == [subtype : {"FEEDFOOD_START", "FEEDWATER", "PLAY_VOICE"}, param : Nat]

LEMMA RequestedIs ==
    ASSUME NEW m \in Messages
    PROVE  Requested(m) \in Nat /\ Requested(m) <= Run(m.param)
BY DEF Requested, Run, Messages

LEMMA TotalsAre ==
    ASSUME NEW q \in Seq(Messages)
    PROVE  /\ Totals(q)[0] = 0
           /\ \A n \in 1..Len(q) : Totals(q)[n] = Totals(q)[n - 1] + Requested(q[n])
           /\ \A n \in 0..Len(q) : Totals(q)[n] \in Nat
<1>. DEFINE N == Len(q)
            g == [n \in 1..N |-> [x \in Nat |-> x + Requested(q[n])]]
            t == CHOOSE f : f = [n \in 0..N |->
                    IF n = 0 THEN 0 ELSE f[n - 1] + Requested(q[n])]
<1>1. N \in Nat /\ \A n \in 1..N : Requested(q[n]) \in Nat
    BY RequestedIs, LenProperties, ElementOfSeq
<1>2. \A n \in 1..N : \A x \in Nat : g[n][x] = x + Requested(q[n]) /\ g[n][x] \in Nat
    BY <1>1
<1>. HIDE DEF g
<1>3. PICK p : Goes(p, Nat, 0, g, N)
    BY <1>1, <1>2, Recursion
<1>4. p = [n \in 0..N |-> IF n = 0 THEN 0 ELSE p[n - 1] + Requested(q[n])]
  <2>1. /\ p = [n \in 0..N |-> p[n]] /\ p[0] = 0
        /\ \A n \in 0..N : p[n] \in Nat
      BY <1>3 DEF Goes
  <2>2. ASSUME NEW n \in 0..N, n # 0 PROVE p[n] = p[n - 1] + Requested(q[n])
    <3>1. n \in 1..N /\ n - 1 \in 0..N
        BY <1>1, <2>2
    <3>. QED
        BY <1>2, <1>3, <2>1, <3>1 DEF Goes
  <2>. QED
      BY <2>1, <2>2
<1>5. t = [n \in 0..N |-> IF n = 0 THEN 0 ELSE t[n - 1] + Requested(q[n])]
    BY <1>4
<1>6. Totals(q) = t
    BY DEF Totals
<1>. HIDE DEF t
<1>7. t[0] = 0 /\ \A n \in 1..N : t[n] = t[n - 1] + Requested(q[n])
  <2>1. 0 \in 0..N /\ \A n \in 1..N : n \in 0..N /\ n # 0
      BY <1>1
  <2>2. \A n \in 0..N : t[n] = IF n = 0 THEN 0 ELSE t[n - 1] + Requested(q[n])
      BY <1>5
  <2>. HIDE DEF N
  <2>. QED
      BY <2>1, <2>2
<1>8. \A n \in 0..N : t[n] \in Nat
  <2>. DEFINE T == {n \in 0..N : t[n] \notin Nat}
  <2>. SUFFICES ASSUME T # {} PROVE FALSE
      OBVIOUS
  <2>1. T \subseteq Nat
      BY <1>1
  <2>2. PICK n \in T : \A y \in T : n <= y
      BY <2>1, HasLeast
  <2>3. n \in 0..N /\ t[n] \notin Nat
      BY <2>2
  <2>4. n # 0
      BY <1>7, <2>3
  <2>5. n \in 1..N /\ n - 1 \in 0..N /\ n \in Nat /\ n - 1 \in Nat
      BY <1>1, <2>3, <2>4
  <2>6. t[n - 1] \in Nat
    <3>1. n - 1 \notin T
      <4>. HIDE DEF T
      <4>. QED
          BY <2>2, <2>5
    <3>. QED
        BY <2>5, <3>1
  <2>. QED
      BY <1>1, <1>7, <2>3, <2>5, <2>6
<1>. QED
    BY <1>6, <1>7, <1>8

\* Sums that grow by the same differ by what they began with.
LEMMA SameSteps ==
    ASSUME NEW N \in Nat, NEW p, NEW q, NEW d \in Int,
           \A n \in 0..N : p[n] \in Int /\ q[n] \in Int,
           p[0] = q[0] + d,
           \A n \in 1..N : p[n] - p[n - 1] = q[n] - q[n - 1]
    PROVE  p[N] = q[N] + d
<1>. DEFINE T == {n \in 0..N : p[n] # q[n] + d}
<1>. SUFFICES ASSUME T # {} PROVE FALSE
    OBVIOUS
<1>1. T \subseteq Nat
    OBVIOUS
<1>2. PICK n \in T : \A y \in T : n <= y
    BY <1>1, HasLeast
<1>3. n \in 1..N /\ n - 1 \in 0..N /\ n \in 0..N /\ p[n] # q[n] + d
    BY <1>2
<1>4. p[n - 1] = q[n - 1] + d
  <2>1. n - 1 \notin T
    <3>. HIDE DEF T
    <3>. QED
        BY <1>2, <1>3
  <2>. QED
      BY <1>3, <2>1
<1>5. p[n] - p[n - 1] = q[n] - q[n - 1]
    BY <1>3
<1>6. p[n] \in Int /\ q[n] \in Int /\ p[n - 1] \in Int /\ q[n - 1] \in Int
    BY <1>3
<1>. QED
    BY <1>3, <1>4, <1>5, <1>6

Sum(q) == Totals(q)[Len(q)]

LEMMA SumAppend ==
    ASSUME NEW q \in Seq(Messages), NEW m \in Messages
    PROVE  Sum(Append(q, m)) = Sum(q) + Requested(m)
<1>. DEFINE a == Append(q, m)
            N == Len(q)
<1>1. /\ a \in Seq(Messages) /\ Len(a) = N + 1 /\ N \in Nat
      /\ a[N + 1] = m /\ \A n \in 1..N : a[n] = q[n]
    BY AppendProperties, LenProperties
<1>. HIDE DEF a
<1>2. /\ Totals(a)[0] = 0 /\ Totals(q)[0] = 0
      /\ \A n \in 1..N + 1 : Totals(a)[n] = Totals(a)[n - 1] + Requested(a[n])
      /\ \A n \in 1..N : Totals(q)[n] = Totals(q)[n - 1] + Requested(q[n])
      /\ \A n \in 0..N + 1 : Totals(a)[n] \in Nat
      /\ \A n \in 0..N : Totals(q)[n] \in Nat
    BY <1>1, TotalsAre
<1>3. \A n \in 1..N : Requested(q[n]) \in Nat
    BY RequestedIs, ElementOfSeq
<1>. HIDE DEF N
<1>4. ASSUME NEW n \in 1..N
      PROVE  Totals(a)[n] - Totals(a)[n - 1] = Totals(q)[n] - Totals(q)[n - 1]
  <2>1. n \in 1..N + 1 /\ n - 1 \in 0..N /\ n - 1 \in 0..N + 1
      BY <1>1
  <2>2. Totals(a)[n - 1] \in Nat /\ Totals(q)[n - 1] \in Nat
      BY <1>2, <2>1
  <2>. QED
      BY <1>1, <1>2, <1>3, <2>1, <2>2
<1>5. Totals(a)[N] = Totals(q)[N] + 0
  <2>1. \A n \in 0..N : Totals(a)[n] \in Int /\ Totals(q)[n] \in Int
      BY <1>1, <1>2
  <2>2. Totals(a)[0] = Totals(q)[0] + 0
      BY <1>2
  <2>. QED
    <3>. DEFINE x == Totals(a)
                y == Totals(q)
    <3>1. \A n \in 1..N : x[n] - x[n - 1] = y[n] - y[n - 1]
        BY <1>4
    <3>2. N \in Nat /\ 0 \in Int
        BY <1>1
    <3>3. x[0] = y[0] + 0 /\ \A n \in 0..N : x[n] \in Int /\ y[n] \in Int
        BY <2>1, <2>2
    <3>. HIDE DEF x, y
    <3>4. x[N] = y[N] + 0
        BY <3>1, <3>2, <3>3, SameSteps
    <3>. QED
        BY <3>4 DEF x, y
<1>6. Totals(a)[N + 1] = Totals(a)[N] + Requested(m)
  <2>1. N + 1 \in 1..N + 1 /\ N + 1 - 1 = N
      BY <1>1
  <2>. QED
      BY <1>1, <1>2, <2>1
<1>7. Totals(q)[N] \in Nat
    BY <1>1, <1>2
<1>. QED
    BY <1>1, <1>5, <1>6, <1>7 DEF Sum, a, N

LEMMA SumTail ==
    ASSUME NEW q \in Seq(Messages), q # <<>>
    PROVE  /\ Head(q) \in Messages /\ Tail(q) \in Seq(Messages)
           /\ Len(Tail(q)) = Len(q) - 1 /\ Len(q) \in Nat
           /\ Sum(q) = Sum(Tail(q)) + Requested(Head(q))
<1>. DEFINE t == Tail(q)
            N == Len(q) - 1
            s == [n \in 0..N |-> Totals(q)[n + 1]]
            d == Requested(Head(q))
<1>1. /\ t \in Seq(Messages) /\ Len(t) = N /\ N \in Nat /\ Len(q) = N + 1
      /\ Head(q) = q[1] /\ Head(q) \in Messages
      /\ \A n \in 1..N : t[n] = q[n + 1]
    BY HeadTailProperties, EmptySeq
<1>2. d \in Nat
    BY <1>1, RequestedIs
<1>. HIDE DEF t, d
<1>3. /\ Totals(t)[0] = 0 /\ Totals(q)[0] = 0
      /\ \A n \in 1..N + 1 : Totals(q)[n] = Totals(q)[n - 1] + Requested(q[n])
      /\ \A n \in 1..N : Totals(t)[n] = Totals(t)[n - 1] + Requested(t[n])
      /\ \A n \in 0..N + 1 : Totals(q)[n] \in Nat
      /\ \A n \in 0..N : Totals(t)[n] \in Nat
  <2>1. 0..N + 1 = 0..Len(q) /\ 1..N + 1 = 1..Len(q)
      BY <1>1
  <2>. QED
      BY <1>1, <2>1, TotalsAre
<1>. HIDE DEF N
<1>4. \A n \in 0..N : s[n] = Totals(q)[n + 1] /\ s[n] \in Nat
    BY <1>1, <1>3
<1>. HIDE DEF s
<1>5. s[0] = Totals(t)[0] + d
  <2>1. 0 \in 0..N /\ 1 \in 1..N + 1
      BY <1>1
  <2>2. Totals(q)[1] = Totals(q)[0] + Requested(q[1])
      BY <1>3, <2>1
  <2>. QED
      BY <1>1, <1>2, <1>3, <1>4, <2>1, <2>2 DEF d
<1>6. ASSUME NEW n \in 1..N
      PROVE  s[n] - s[n - 1] = Totals(t)[n] - Totals(t)[n - 1]
  <2>1. /\ n \in 0..N /\ n - 1 \in 0..N /\ n + 1 \in 1..N + 1
        /\ n + 1 - 1 = n /\ n - 1 + 1 = n
      BY <1>1
  <2>2. s[n] = Totals(q)[n + 1] /\ s[n - 1] = Totals(q)[n]
      BY <1>4, <2>1
  <2>3. Totals(q)[n + 1] = Totals(q)[n] + Requested(q[n + 1])
      BY <1>3, <2>1
  <2>4. Totals(t)[n] = Totals(t)[n - 1] + Requested(q[n + 1])
      BY <1>1, <1>3
  <2>5. s[n] \in Nat /\ s[n - 1] \in Nat
      BY <1>4, <2>1
  <2>6. Totals(t)[n] \in Nat /\ Totals(t)[n - 1] \in Nat
      BY <1>3, <2>1
  <2>7. Requested(q[n + 1]) \in Nat
    <3>1. n + 1 \in 1..Len(q)
        BY <1>1, <2>1
    <3>. QED
        BY <3>1, RequestedIs, ElementOfSeq
  <2>. QED
      BY <2>2, <2>3, <2>4, <2>5, <2>6, <2>7
<1>7. s[N] = Totals(t)[N] + d
  <2>1. \A n \in 0..N : s[n] \in Int /\ Totals(t)[n] \in Int
      BY <1>3, <1>4
  <2>. QED
    <3>. DEFINE y == Totals(t)
    <3>1. \A n \in 1..N : s[n] - s[n - 1] = y[n] - y[n - 1]
        BY <1>6
    <3>2. N \in Nat /\ d \in Int
        BY <1>1, <1>2
    <3>3. s[0] = y[0] + d /\ \A n \in 0..N : s[n] \in Int /\ y[n] \in Int
        BY <1>5, <2>1
    <3>. HIDE DEF y
    <3>4. s[N] = y[N] + d
        BY <3>1, <3>2, <3>3, SameSteps
    <3>. QED
        BY <3>4 DEF y
<1>8. s[N] = Totals(q)[N + 1]
    BY <1>1, <1>4
<1>. QED
    BY <1>1, <1>7, <1>8 DEF Sum, t, d, N

LEMMA SumIsNat ==
    ASSUME NEW q \in Seq(Messages)
    PROVE  Sum(q) \in Nat
<1>1. Len(q) \in 0..Len(q)
    BY LenProperties
<1>. QED
    BY <1>1, TotalsAre DEF Sum
-----------------------------------------------------------------------------
(* The walk of a frame, and the count of portions.                          *)

\* The first n points are behind data_handle, which has answered them, and a
\* command it is in the middle of is that of the next.
Walk(n) ==
    /\ i = Len(EncodedTo(frame, n))
    /\ answers = ExpectedTo(frame, n)
    /\ stage = "idle" => n = Len(frame)
    /\ stage \in {"prompt", "answer"} =>
         n < Len(frame) /\ IsListed /\ dp_id \in {DPID_FEED_NUM, DPID_WATER_NUM}

WalkInv ==
    /\ frame \in Received
    /\ data = Encoded(frame)
    /\ stage \in {"idle", "point", "prompt", "answer"}
    /\ \E n \in 0..Len(frame) : Walk(n)

QueueInv ==
    /\ queue \in Seq(Messages) /\ Len(queue) <= QLen
    /\ autoFeed \in BOOLEAN
    /\ portions \in 0..255 /\ timer \in BOOLEAN
    /\ fed \in Nat /\ answered \in Nat /\ zeros \in Nat
    /\ frames \in 0..MaxFrames

DataInv == WalkInv /\ QueueInv /\ FedIsAnswered

\* What the cloud was told may be fed.
Told == answered + 256 * zeros

LEMMA FedIs ==
    /\ FedIsAnswered <=> fed + Owed + Queued <= Told + Unanswered
    /\ FedIsAnswered' <=> fed' + Owed' + Queued' <= Told' + Unanswered'
BY DEF FedIsAnswered, Told

LEMMA CountsAre ==
    ASSUME QueueInv
    PROVE  fed \in Nat /\ Owed \in Nat /\ Told \in Nat
<1>1. zeros \in Nat => 256 * zeros \in Nat
    OBVIOUS
<1>. QED
    BY <1>1 DEF QueueInv, Owed, Run, Told

LEMMA CountsStay ==
    /\ UNCHANGED feedVars => UNCHANGED <<portions, timer, fed>> /\ Owed' = Owed
    /\ UNCHANGED toldVars => UNCHANGED <<answered, zeros>> /\ Told' = Told
BY DEF feedVars, toldVars, Owed, Told

\* While data_handle is at a point, or in the middle of its command.
LEMMA PointIs ==
    ASSUME WalkInv, NEW n \in 0..Len(frame), Walk(n),
           AtPoint \/ stage \in {"prompt", "answer"}
    PROVE  /\ n \in 0..Len(frame) - 1
           /\ frame[n + 1] \in Points
           /\ dp_id = frame[n + 1].dpid /\ dp_type = frame[n + 1].type
           /\ Value = frame[n + 1].value /\ Value \in Nat
           /\ Step = Len(EncodedTo(frame, n + 1))
<1>1. Len(frame) \in Nat
    BY FramesAre DEF WalkInv
<1>2. n # Len(frame)
  <2>1. CASE stage \in {"prompt", "answer"}
      BY <1>1, <2>1 DEF Walk
  <2>2. CASE AtPoint
    <3>1. i < Len(data) /\ i = Len(EncodedTo(frame, n))
          /\ data = EncodedTo(frame, Len(frame))
        BY <2>2 DEF AtPoint, WalkInv, Walk, Encoded
    <3>2. ASSUME n = Len(frame) PROVE FALSE
      <4>1. i < i /\ i = Len(data)
          BY <3>1, <3>2
      <4>2. Len(frame) \in 0..Len(frame) /\ 0 \in 0..Len(frame)
          BY <1>1
      <4>3. data \in Seq(Nat)
          BY <3>1, <4>2, EncodedIs DEF WalkInv
      <4>4. Len(data) \in Nat
          BY <4>3
      <4>. QED
          BY <4>1, <4>4
    <3>. QED
        BY <3>2
  <2>. QED
      BY <2>1, <2>2
<1>3. n \in 0..Len(frame) - 1 /\ n + 1 \in 1..Len(frame)
    BY <1>1, <1>2
<1>4. frame[n + 1] \in Points
    BY <1>3, FramesAre DEF WalkInv
<1>5. frame[n + 1].value \in Nat
    BY <1>4 DEF Points
<1>6. frame \in Received /\ data = Encoded(frame) /\ i = Len(EncodedTo(frame, n))
    BY DEF WalkInv, Walk
<1>. QED
    BY <1>3, <1>4, <1>5, <1>6, PointIsRead

\* A point is done with when what it asks for has been answered.
LEMMA PointIsDone ==
    ASSUME WalkInv, NEW n \in 0..Len(frame) - 1,
           answers = ExpectedTo(frame, n), UNCHANGED <<frame, data>>,
           i' = Len(EncodedTo(frame, n + 1)),
           answers' = answers \o AnswersTo(frame[n + 1]), stage' = "point"
    PROVE  WalkInv'
<1>1. Len(frame) \in Nat /\ n + 1 \in 0..Len(frame)
    BY FramesAre DEF WalkInv
<1>2. answers' = ExpectedTo(frame, n + 1)
    BY ExpectedIs DEF WalkInv
<1>3. Walk(n + 1)'
    BY <1>2 DEF Walk
<1>. QED
    BY <1>1, <1>3 DEF WalkInv

\* With no command in the middle nothing is queued that is not answered.
LEMMA CountStays ==
    ASSUME DataInv, UNCHANGED <<queue, feedVars, toldVars, frames>>,
           stage \in {"idle", "point"}, stage' \in {"idle", "point"},
           autoFeed' \in BOOLEAN
    PROVE  QueueInv' /\ FedIsAnswered'
<1>1. QueueInv'
    BY CountsStay DEF DataInv, QueueInv
<1>2. Queued' = Queued
    BY DEF Queued
<1>3. Unanswered = 0 /\ Unanswered' = 0
    BY DEF Unanswered
<1>4. fed' = fed /\ Owed' = Owed /\ Told' = Told
    BY CountsStay
<1>. QED
    BY <1>1, <1>2, <1>3, <1>4, FedIs DEF DataInv

LEMMA PassOverInv == DataInv /\ PassOver => DataInv'
<1>. SUFFICES ASSUME DataInv, PassOver PROVE DataInv'
    OBVIOUS
<1>1. PICK n \in 0..Len(frame) : Walk(n)
    BY DEF DataInv, WalkInv
<1>2. /\ AtPoint /\ stage = "point" /\ ~ (IsListed /\ dp_id \in Handled)
      /\ i' = Step
      /\ UNCHANGED <<frame, data, stage, answers, queue, autoFeed, feedVars,
                     toldVars, frames>>
    BY DEF PassOver, AtPoint
<1>3. /\ n \in 0..Len(frame) - 1
      /\ dp_id = frame[n + 1].dpid /\ dp_type = frame[n + 1].type
      /\ Step = Len(EncodedTo(frame, n + 1))
    BY <1>1, <1>2, PointIs DEF DataInv
<1>4. AnswersTo(frame[n + 1]) = <<>>
    BY <1>2, <1>3 DEF AnswersTo, IsListed
<1>5. answers = ExpectedTo(frame, n)
    BY <1>1 DEF Walk
<1>6. answers' = answers \o AnswersTo(frame[n + 1])
  <2>1. n \in 0..Len(frame)
      BY <1>1
  <2>2. answers \in Seq(Sendings)
      BY <1>5, <2>1, ExpectedIs DEF DataInv, WalkInv
  <2>3. answers \o <<>> = answers
      BY <2>2
  <2>. QED
      BY <1>2, <1>4, <2>3
<1>7. WalkInv'
    BY <1>2, <1>3, <1>5, <1>6, PointIsDone DEF DataInv
<1>8. QueueInv' /\ FedIsAnswered'
    BY <1>2, CountStays DEF DataInv, QueueInv
<1>. QED
    BY <1>7, <1>8 DEF DataInv

\* The cloud is told of a value what it is to be told.
LEMMA ReportedIs ==
    ASSUME NEW p \in Points, dp_id = p.dpid, dp_type = p.type, Value = p.value
    PROVE  /\ Reported = ToldOf(p) /\ Answer(dp_id, Reported) \in Sendings
           /\ <<"record">> \in Sendings /\ <<"stop">> \in Sendings
<1>1. p.dpid \in Nat /\ ToldOf(p) \in Nat
    BY DEF ToldOf, Points
<1>2. Reported = ToldOf(p)
    BY DEF Reported, ToldOf
<1>. QED
    BY <1>1, <1>2 DEF Answer, Sendings

\* The handlers that answer at once.
LEMMA AnswerInv ==
    ASSUME DataInv, HandleHistory \/ HandleVoiceRecord \/ HandleUsageMode
    PROVE  DataInv'
<1>. DEFINE sent == IF dp_id = DPID_FEED_VOICE_RECORD
                    THEN <<IF Value # 0 THEN <<"record">> ELSE <<"stop">>>> ELSE <<>>
<1>1. PICK n \in 0..Len(frame) : Walk(n)
    BY DEF DataInv, WalkInv
<1>2. /\ AtPoint /\ stage = "point" /\ IsListed /\ dp_id \in Handled
      /\ AnswerAndStep(sent)
      /\ autoFeed' \in BOOLEAN
      /\ UNCHANGED <<frame, data, queue, feedVars, toldVars, frames>>
  <2>1. autoFeed \in BOOLEAN
      BY DEF DataInv, QueueInv
  <2>2. CASE HandleHistory
      BY <2>1, <2>2 DEF HandleHistory, Is, AtPoint, Handled, DPID_HISTORY_DATA,
                        DPID_FEED_VOICE_RECORD
  <2>3. CASE HandleVoiceRecord
      BY <2>1, <2>3 DEF HandleVoiceRecord, Is, AtPoint, Handled
  <2>4. CASE HandleUsageMode
    <3>1. autoFeed' \in BOOLEAN
        BY <2>4 DEF HandleUsageMode
    <3>. QED
        BY <3>1, <2>4 DEF HandleUsageMode, Is, AtPoint, Handled,
                          DPID_IPC_USAGE_MODE, DPID_FEED_VOICE_RECORD
  <2>. QED
      BY <2>2, <2>3, <2>4
<1>3. /\ n \in 0..Len(frame) - 1 /\ frame[n + 1] \in Points
      /\ dp_id = frame[n + 1].dpid /\ dp_type = frame[n + 1].type
      /\ Value = frame[n + 1].value
      /\ Step = Len(EncodedTo(frame, n + 1))
    BY <1>1, <1>2, PointIs DEF DataInv
<1>4. answers = ExpectedTo(frame, n) /\ answers \in Seq(Sendings)
  <2>1. answers = ExpectedTo(frame, n)
      BY <1>1 DEF Walk
  <2>. QED
      BY <1>1, <2>1, ExpectedIs DEF DataInv, WalkInv
<1>5. /\ Answer(dp_id, Reported) \in Sendings /\ Reported = ToldOf(frame[n + 1])
      /\ \A x \in {<<"record">>, <<"stop">>} : x \in Sendings
    BY <1>3, ReportedIs
<1>6. answers' = Append(answers \o sent, Answer(dp_id, Reported))
      /\ i' = Step /\ stage' = "point"
    BY <1>2 DEF AnswerAndStep
<1>7. answers' = answers \o AnswersTo(frame[n + 1])
  <2>1. \A a \in Seq(Sendings), x, y \in Sendings :
           /\ Append(a \o <<>>, y) = a \o <<y>>
           /\ Append(a \o <<x>>, y) = a \o <<x, y>>
      OBVIOUS
  <2>2. CASE dp_id = DPID_FEED_VOICE_RECORD
    <3>1. AnswersTo(frame[n + 1]) =
            <<IF Value # 0 THEN <<"record">> ELSE <<"stop">>, Answer(dp_id, Reported)>>
        BY <1>2, <1>3, <1>5, <2>2 DEF AnswersTo, IsListed
    <3>. QED
        BY <1>4, <1>5, <1>6, <2>1, <2>2, <3>1
  <2>3. CASE dp_id # DPID_FEED_VOICE_RECORD
    <3>1. AnswersTo(frame[n + 1]) = <<Answer(dp_id, Reported)>>
        BY <1>2, <1>3, <1>5, <2>3 DEF AnswersTo, IsListed
    <3>. QED
        BY <1>4, <1>5, <1>6, <2>1, <2>3, <3>1
  <2>. QED
      BY <2>2, <2>3
<1>8. WalkInv'
    BY <1>2, <1>3, <1>4, <1>6, <1>7, PointIsDone DEF DataInv
<1>9. QueueInv' /\ FedIsAnswered'
    BY <1>2, <1>6, CountStays
<1>. QED
    BY <1>8, <1>9 DEF DataInv

LEMMA NothingYet ==
    ASSUME NEW f \in Received
    PROVE  /\ 0 \in 0..Len(f) /\ EncodedTo(f, 0) = <<>> /\ ExpectedTo(f, 0) = <<>>
           /\ Len(f) = 0 => Encoded(f) = <<>>
<1>1. Len(f) \in Nat /\ 0 \in 0..Len(f) /\ 0 \in 0..0
    BY FramesAre
<1>. QED
    BY <1>1, EncodedIs, ExpectedIs DEF Encoded

LEMMA InitInv == Init => DataInv
<1>. SUFFICES ASSUME Init PROVE DataInv
    OBVIOUS
<1>1. /\ frame = <<>> /\ data = <<>> /\ i = 0 /\ stage = "idle" /\ answers = <<>>
      /\ queue = <<>> /\ autoFeed = TRUE /\ portions = 0 /\ timer = FALSE
      /\ fed = 0 /\ answered = 0 /\ zeros = 0 /\ frames = 0
    BY DEF Init
<1>2. frame \in Received /\ Len(frame) = 0 /\ Len(<<>>) = 0
    BY <1>1 DEF Received
<1>3. /\ 0 \in 0..Len(frame) /\ EncodedTo(frame, 0) = <<>> /\ ExpectedTo(frame, 0) = <<>>
      /\ Encoded(frame) = <<>>
    BY <1>2, NothingYet
<1>4. Walk(0)
    BY <1>1, <1>2, <1>3 DEF Walk
<1>5. WalkInv
    BY <1>1, <1>2, <1>3, <1>4 DEF WalkInv
<1>6. queue \in Seq(Messages) /\ Len(queue) = 0
    BY <1>1
<1>7. QueueInv
  <2>1. queue \in Seq(Messages) /\ Len(queue) <= QLen /\ frames \in 0..MaxFrames
      BY <1>1, <1>6, QLenAssumption, MaxFramesAssumption
  <2>2. autoFeed \in BOOLEAN /\ timer \in BOOLEAN
      BY <1>1
  <2>. QED
      BY <1>1, <2>1, <2>2 DEF QueueInv
<1>8. Queued = 0
    BY <1>6, TotalsAre DEF Queued
<1>9. Unanswered = 0
    BY <1>1 DEF Unanswered
<1>. QED
    BY <1>1, <1>5, <1>7, <1>8, <1>9 DEF DataInv, FedIsAnswered, Owed

\* A frame is taken when nothing of the last is left.
LEMMA ReceiveInv == DataInv /\ Receive => DataInv'
<1>. SUFFICES ASSUME DataInv, Receive PROVE DataInv'
    OBVIOUS
<1>1. /\ stage = "idle" /\ stage' = "point" /\ i' = 0 /\ answers' = <<>>
      /\ frame' \in Frames /\ data' = Encoded(frame')
      /\ frames < MaxFrames /\ frames' = frames + 1
      /\ UNCHANGED <<queue, autoFeed, feedVars, toldVars>>
    BY DEF Receive
<1>2. frame' \in Received /\ Len(<<>>) = 0
    BY <1>1 DEF Received
<1>3. 0 \in 0..Len(frame') /\ EncodedTo(frame', 0) = <<>> /\ ExpectedTo(frame', 0) = <<>>
    BY <1>2, NothingYet
<1>4. Walk(0)'
    BY <1>1, <1>2, <1>3 DEF Walk
<1>5. WalkInv'
    BY <1>1, <1>2, <1>3, <1>4 DEF WalkInv
<1>6. QueueInv'
    BY <1>1, CountsStay, MaxFramesAssumption DEF DataInv, QueueInv
<1>7. Queued' = Queued /\ Unanswered = 0 /\ Unanswered' = 0
    BY <1>1 DEF Queued, Unanswered
<1>8. FedIsAnswered'
  <2>1. fed' = fed /\ Owed' = Owed /\ Told' = Told
      BY <1>1, CountsStay
  <2>. QED
      BY <1>7, <2>1, FedIs DEF DataInv
<1>. QED
    BY <1>5, <1>6, <1>8 DEF DataInv

\* At the end of the data every point of the frame is behind.
LEMMA FrameEndsInv == DataInv /\ FrameEnds => DataInv'
<1>. SUFFICES ASSUME DataInv, FrameEnds PROVE DataInv'
    OBVIOUS
<1>1. /\ stage = "point" /\ stage' = "idle" /\ i >= Len(data)
      /\ UNCHANGED <<frame, data, i, answers, queue, autoFeed, feedVars,
                     toldVars, frames>>
    BY DEF FrameEnds
<1>2. frame \in Received /\ data = Encoded(frame)
    BY DEF DataInv, WalkInv
<1>3. PICK n \in 0..Len(frame) : Walk(n)
    BY DEF DataInv, WalkInv
<1>4. i = Len(EncodedTo(frame, n)) /\ answers = ExpectedTo(frame, n)
    BY <1>3 DEF Walk
<1>5. n = Len(frame)
  <2>1. SUFFICES ASSUME n # Len(frame) PROVE FALSE
      OBVIOUS
  <2>2. n \in 0..Len(frame) - 1 /\ Len(frame) \in Nat
      BY <1>2, <2>1, FramesAre
  <2>3. i < Len(data)
      BY <1>2, <1>4, <2>2, PointIsRead
  <2>4. i \in Nat /\ Len(data) \in Nat
    <3>1. Len(frame) \in 0..Len(frame) /\ n \in 0..Len(frame) /\ 0 \in 0..n
          /\ 0 \in 0..Len(frame)
        BY <2>2
    <3>2. EncodedTo(frame, n) \in Seq(Nat) /\ EncodedTo(frame, Len(frame)) \in Seq(Nat)
        BY <1>2, <3>1, EncodedIs
    <3>. QED
        BY <1>2, <1>4, <3>2, LenProperties DEF Encoded
  <2>. QED
      BY <1>1, <2>3, <2>4
<1>6. Walk(n)'
    BY <1>1, <1>4, <1>5 DEF Walk
<1>7. WalkInv'
    BY <1>1, <1>2, <1>3, <1>6 DEF WalkInv
<1>8. autoFeed' \in BOOLEAN
    BY <1>1 DEF DataInv, QueueInv
<1>9. QueueInv' /\ FedIsAnswered'
    BY <1>1, <1>8, CountStays
<1>. QED
    BY <1>7, <1>9 DEF DataInv

\* A message sent is queued or lost.
LEMMA SendIs ==
    ASSUME QueueInv, NEW m \in Messages, Send(m)
    PROVE  /\ queue' \in Seq(Messages) /\ Len(queue') <= QLen
           /\ Queued \in Nat /\ Queued' \in Nat /\ Queued' <= Queued + Requested(m)
<1>1. queue \in Seq(Messages) /\ Len(queue) \in Nat /\ Len(queue) <= QLen /\ QLen \in Nat
    BY QLenAssumption, LenProperties DEF QueueInv
<1>2. Queued = Sum(queue) /\ Queued' = Sum(queue') /\ Queued \in Nat /\ Requested(m) \in Nat
    BY <1>1, SumIsNat, RequestedIs DEF Queued, Sum
<1>3. CASE Len(queue) < QLen
  <2>1. queue' = Append(queue, m)
      BY <1>3 DEF Send
  <2>2. queue' \in Seq(Messages) /\ Len(queue') = Len(queue) + 1
      BY <1>1, <2>1, AppendProperties
  <2>3. Queued' = Queued + Requested(m)
      BY <1>1, <1>2, <2>1, SumAppend
  <2>. QED
      BY <1>1, <1>2, <1>3, <2>2, <2>3
<1>4. CASE ~(Len(queue) < QLen)
  <2>1. queue' = queue
      BY <1>4 DEF Send
  <2>2. Queued' = Queued
      BY <1>2, <2>1
  <2>. QED
      BY <1>1, <1>2, <2>1, <2>2
<1>. QED
    BY <1>3, <1>4

\* A command is queued before it is answered: until then what it asks for is
\* held against the point at hand.
LEMMA CommandInv ==
    ASSUME DataInv, HandleFeedNum \/ HandleWaterNum
    PROVE  DataInv'
<1>. DEFINE m == Command(IF dp_id = DPID_FEED_NUM THEN "FEEDFOOD_START" ELSE "FEEDWATER",
                         Value)
<1>1. PICK n \in 0..Len(frame) : Walk(n)
    BY DEF DataInv, WalkInv
<1>2. DPID_FEED_NUM # DPID_WATER_NUM
    BY DEF DPID_FEED_NUM, DPID_WATER_NUM
<1>3. /\ AtPoint /\ stage = "point" /\ IsListed
      /\ dp_id \in {DPID_FEED_NUM, DPID_WATER_NUM}
      /\ Send(m) /\ stage' = "prompt"
      /\ UNCHANGED <<frame, data, i, answers, autoFeed, feedVars, toldVars, frames>>
  <2>1. CASE HandleFeedNum
      BY <2>1 DEF HandleFeedNum, Is, AtPoint
  <2>2. CASE HandleWaterNum
      BY <1>2, <2>2 DEF HandleWaterNum, Is, AtPoint
  <2>. QED
      BY <2>1, <2>2
<1>4. /\ n \in 0..Len(frame) - 1 /\ Value \in Nat /\ Len(frame) \in Nat
      /\ i = Len(EncodedTo(frame, n)) /\ answers = ExpectedTo(frame, n)
  <2>1. frame \in Received
      BY DEF DataInv, WalkInv
  <2>. QED
      BY <1>1, <1>3, <2>1, PointIs, FramesAre DEF DataInv, Walk
<1>5. IsListed' = IsListed /\ dp_id' = dp_id /\ Value' = Value
    BY <1>3 DEF IsListed, dp_id, dp_type, Value
<1>6. Walk(n)'
    BY <1>3, <1>4, <1>5 DEF Walk
<1>7. WalkInv'
    BY <1>3, <1>4, <1>6 DEF DataInv, WalkInv
<1>8. m \in Messages
    BY <1>4 DEF Messages, Command
<1>9. Requested(m) \in Nat /\ Requested(m) <= Unanswered'
  <2>1. CASE dp_id = DPID_FEED_NUM
    <3>1. Unanswered' = Run(Value)
        BY <1>3, <1>5, <2>1 DEF Unanswered, Run
    <3>2. Requested(m) \in Nat /\ Requested(m) <= Run(m.param) /\ m.param = Value
        BY <1>8, RequestedIs DEF Command
    <3>. QED
        BY <3>1, <3>2
  <2>2. CASE dp_id # DPID_FEED_NUM
    <3>1. Unanswered' = 0
        BY <1>5, <2>2 DEF Unanswered
    <3>2. Requested(m) = 0
        BY <2>2 DEF Requested, Command
    <3>. QED
        BY <3>1, <3>2
  <2>. QED
      BY <2>1, <2>2
<1>. HIDE DEF m
<1>10. /\ queue' \in Seq(Messages) /\ Len(queue') <= QLen
       /\ Queued \in Nat /\ Queued' \in Nat /\ Queued' <= Queued + Requested(m)
    BY <1>3, <1>8, SendIs DEF DataInv
<1>11. QueueInv'
    BY <1>3, <1>10, CountsStay DEF DataInv, QueueInv
<1>12. FedIsAnswered'
  <2>1. Unanswered = 0
      BY <1>3 DEF Unanswered
  <2>2. Unanswered' \in Nat
      BY <1>4, <1>5 DEF Unanswered, Run
  <2>4. fed \in Nat /\ Owed \in Nat /\ Told \in Nat
      BY CountsAre DEF DataInv
  <2>3. fed + Owed + Queued <= Told
      BY <2>1, <2>4, FedIs DEF DataInv
  <2>5. fed' = fed /\ Owed' = Owed /\ Told' = Told
      BY <1>3, CountsStay
  <2>. QED
    <3>1. \A f, p, q, r, a, u, s \in Nat :
             f + p + q <= a /\ s <= q + r /\ r <= u => f + p + s <= a + u
        OBVIOUS
    <3>2. fed + Owed + Queued' <= Told + Unanswered'
        BY <1>9, <1>10, <2>2, <2>3, <2>4, <3>1
    <3>. QED
        BY <2>5, <3>2, FedIs
<1>. QED
    BY <1>7, <1>11, <1>12 DEF DataInv

LEMMA PromptInv == DataInv /\ Prompt => DataInv'
<1>. SUFFICES ASSUME DataInv, Prompt PROVE DataInv'
    OBVIOUS
<1>. DEFINE m == Command("PLAY_VOICE", 1)
<1>1. PICK n \in 0..Len(frame) : Walk(n)
    BY DEF DataInv, WalkInv
<1>2. /\ stage = "prompt" /\ stage' = "answer" /\ Send(m)
      /\ UNCHANGED <<frame, data, i, answers, autoFeed, feedVars, toldVars, frames>>
    BY DEF Prompt
<1>3. IsListed' = IsListed /\ dp_id' = dp_id /\ Value' = Value
    BY <1>2 DEF IsListed, dp_id, dp_type, Value
<1>4. Walk(n)'
    BY <1>1, <1>2, <1>3 DEF Walk
<1>5. WalkInv'
    BY <1>1, <1>2, <1>4 DEF DataInv, WalkInv
<1>6. m \in Messages /\ Requested(m) = 0
    BY DEF Messages, Command, Requested
<1>. HIDE DEF m
<1>7. /\ queue' \in Seq(Messages) /\ Len(queue') <= QLen
      /\ Queued \in Nat /\ Queued' \in Nat /\ Queued' <= Queued + 0
    BY <1>2, <1>6, SendIs DEF DataInv
<1>8. QueueInv'
    BY <1>2, <1>7, CountsStay DEF DataInv, QueueInv
<1>9. FedIsAnswered'
  <2>1. Value \in Nat
      BY <1>1, <1>2, PointIs DEF DataInv
  <2>2. Unanswered' = Unanswered /\ Unanswered \in Nat
      BY <1>2, <1>3, <2>1 DEF Unanswered, Run
  <2>3. fed \in Nat /\ Owed \in Nat /\ Told \in Nat
      BY CountsAre DEF DataInv
  <2>4. fed' = fed /\ Owed' = Owed /\ Told' = Told
      BY <1>2, CountsStay
  <2>. QED
    <3>1. fed + Owed + Queued <= Told + Unanswered
        BY FedIs DEF DataInv
    <3>2. Queued' <= Queued
        BY <1>7
    <3>3. \A f, p, q, a, u, s \in Nat : f + p + q <= a + u /\ s <= q => f + p + s <= a + u
        OBVIOUS
    <3>5. fed + Owed + Queued' <= Told + Unanswered
        BY <1>7, <2>2, <2>3, <3>1, <3>2, <3>3
    <3>. QED
        BY <2>2, <2>4, <3>5, FedIs
<1>. QED
    BY <1>5, <1>8, <1>9 DEF DataInv

LEMMA AnswerCommandInv == DataInv /\ AnswerCommand => DataInv'
<1>. SUFFICES ASSUME DataInv, AnswerCommand PROVE DataInv'
    OBVIOUS
<1>1. PICK n \in 0..Len(frame) : Walk(n)
    BY DEF DataInv, WalkInv
<1>2. /\ stage = "answer" /\ stage' = "point" /\ i' = Step
      /\ answers' = Append(answers \o <<>>, Answer(dp_id, Reported))
      /\ answered' = IF dp_id = DPID_FEED_NUM THEN answered + Value ELSE answered
      /\ zeros' = IF dp_id = DPID_FEED_NUM /\ Value = 0 THEN zeros + 1 ELSE zeros
      /\ UNCHANGED <<frame, data, queue, autoFeed, feedVars, frames>>
    BY DEF AnswerCommand, AnswerAndStep
<1>3. /\ n \in 0..Len(frame) - 1 /\ frame[n + 1] \in Points
      /\ dp_id = frame[n + 1].dpid /\ dp_type = frame[n + 1].type
      /\ Value = frame[n + 1].value /\ Value \in Nat
      /\ Step = Len(EncodedTo(frame, n + 1))
    BY <1>1, <1>2, PointIs DEF DataInv
<1>4. IsListed /\ dp_id \in {DPID_FEED_NUM, DPID_WATER_NUM}
    BY <1>1, <1>2 DEF Walk
<1>5. answers = ExpectedTo(frame, n) /\ answers \in Seq(Sendings)
  <2>1. answers = ExpectedTo(frame, n)
      BY <1>1 DEF Walk
  <2>. QED
      BY <1>1, <2>1, ExpectedIs DEF DataInv, WalkInv
<1>6. answers' = answers \o AnswersTo(frame[n + 1])
  <2>1. Answer(dp_id, Reported) \in Sendings /\ Reported = ToldOf(frame[n + 1])
      BY <1>3, ReportedIs
  <2>2. \A a \in Seq(Sendings), y \in Sendings : Append(a \o <<>>, y) = a \o <<y>>
      OBVIOUS
  <2>3. dp_id \in Handled /\ dp_id # DPID_FEED_VOICE_RECORD
      BY <1>4 DEF Handled, DPID_FEED_NUM, DPID_WATER_NUM, DPID_FEED_VOICE_RECORD
  <2>4. AnswersTo(frame[n + 1]) = <<Answer(dp_id, Reported)>>
      BY <1>3, <1>4, <2>1, <2>3 DEF AnswersTo, IsListed
  <2>. QED
      BY <1>2, <1>5, <2>1, <2>2, <2>4
<1>7. WalkInv'
    BY <1>2, <1>3, <1>5, <1>6, PointIsDone DEF DataInv
<1>8. QueueInv'
  <2>1. QueueInv /\ UNCHANGED <<queue, autoFeed, portions, timer, fed, frames>>
      BY <1>2, CountsStay DEF DataInv
  <2>2. answered' \in Nat
    <3>1. answered \in Nat /\ Value \in Nat
        BY <1>3, <2>1 DEF QueueInv
    <3>2. answered' = answered + Value \/ answered' = answered
        BY <1>2
    <3>. HIDE DEF Value
    <3>. QED
        BY <3>1, <3>2
  <2>3. zeros' \in Nat
    <3>1. zeros \in Nat
        BY <2>1 DEF QueueInv
    <3>2. zeros' = zeros + 1 \/ zeros' = zeros
        BY <1>2
    <3>. QED
        BY <3>1, <3>2
  <2>. QED
      BY <2>1, <2>2, <2>3 DEF QueueInv
<1>9. FedIsAnswered'
  <2>1. Told' + Unanswered' = Told + Unanswered
    <3>1. answered \in Nat /\ zeros \in Nat
        BY DEF DataInv, QueueInv
    <3>2. Unanswered' = 0
        BY <1>2 DEF Unanswered
    <3>3. Unanswered = IF dp_id = DPID_FEED_NUM THEN Run(Value) ELSE 0
        BY <1>2 DEF Unanswered
    <3>4. Told = answered + 256 * zeros /\ Told' = answered' + 256 * zeros'
        BY DEF Told
    <3>5. /\ answered' = IF dp_id = DPID_FEED_NUM THEN answered + Value ELSE answered
          /\ zeros' = IF dp_id = DPID_FEED_NUM /\ Value = 0 THEN zeros + 1 ELSE zeros
        BY <1>2
    <3>6. Value \in Nat
        BY <1>3
    <3>. HIDE DEF Value, dp_id, Unanswered, Told
    <3>7. CASE dp_id # DPID_FEED_NUM
        BY <3>2, <3>3, <3>4, <3>5, <3>7
    <3>8. CASE dp_id = DPID_FEED_NUM /\ Value = 0
      <4>1. Unanswered = 256 /\ answered' = answered + 0 /\ zeros' = zeros + 1
          BY <3>3, <3>5, <3>8 DEF Run
      <4>. QED
          BY <3>1, <3>2, <3>4, <4>1
    <3>9. CASE dp_id = DPID_FEED_NUM /\ Value # 0
      <4>1. Unanswered = Value /\ answered' = answered + Value /\ zeros' = zeros
          BY <3>3, <3>5, <3>9 DEF Run
      <4>. QED
          BY <3>1, <3>2, <3>4, <3>6, <4>1
    <3>. QED
        BY <3>7, <3>8, <3>9
  <2>2. Queued' = Queued /\ fed' = fed /\ Owed' = Owed
      BY <1>2, CountsStay DEF Queued
  <2>. QED
      BY <2>1, <2>2, FedIs DEF DataInv
<1>. QED
    BY <1>7, <1>8, <1>9 DEF DataInv

\* What the control task does leaves the walk alone.
LEMMA WalkStays ==
    ASSUME WalkInv, UNCHANGED <<frame, data, i, stage, answers>>
    PROVE  WalkInv' /\ Unanswered' = Unanswered
<1>1. /\ frame' = frame /\ data' = data /\ i' = i /\ stage' = stage
      /\ answers' = answers
    OBVIOUS
<1>2. IsListed' = IsListed /\ dp_id' = dp_id /\ Value' = Value
    BY <1>1 DEF IsListed, dp_id, dp_type, Value
<1>3. PICK n \in 0..Len(frame) : Walk(n)
    BY DEF WalkInv
<1>4. Walk(n)'
    BY <1>1, <1>2, <1>3 DEF Walk
<1>5. WalkInv'
    BY <1>1, <1>3, <1>4 DEF WalkInv
<1>. QED
    BY <1>1, <1>2, <1>5 DEF Unanswered

LEMMA TakeCommandInv == DataInv /\ TakeCommand => DataInv'
<1>. SUFFICES ASSUME DataInv, TakeCommand PROVE DataInv'
    OBVIOUS
<1>1. /\ queue # <<>> /\ queue' = Tail(queue)
      /\ portions' = IF Head(queue).subtype = "FEEDFOOD_START" /\ portions = 0
                     THEN Head(queue).param % 256 ELSE portions
      /\ timer' = IF Head(queue).subtype = "FEEDFOOD_START" /\ portions = 0
                  THEN TRUE ELSE timer
      /\ UNCHANGED <<frame, data, i, stage, answers, autoFeed, fed, toldVars, frames>>
    BY DEF TakeCommand, feed_food
<1>2. /\ Head(queue) \in Messages /\ queue' \in Seq(Messages)
      /\ Len(queue') = Len(queue) - 1 /\ Len(queue) \in Nat
      /\ Queued = Queued' + Requested(Head(queue))
      /\ Queued' \in Nat /\ Requested(Head(queue)) \in Nat
  <2>1. queue \in Seq(Messages)
      BY DEF DataInv, QueueInv
  <2>2. /\ Head(queue) \in Messages /\ Tail(queue) \in Seq(Messages)
        /\ Len(Tail(queue)) = Len(queue) - 1 /\ Len(queue) \in Nat
        /\ Sum(queue) = Sum(Tail(queue)) + Requested(Head(queue))
      BY <1>1, <2>1, SumTail
  <2>3. Sum(Tail(queue)) \in Nat /\ Requested(Head(queue)) \in Nat
      BY <2>2, SumIsNat, RequestedIs
  <2>4. Queued = Sum(queue) /\ Queued' = Sum(Tail(queue))
      BY <1>1 DEF Queued, Sum
  <2>. QED
      BY <1>1, <2>2, <2>3, <2>4
<1>3. WalkInv' /\ Unanswered' = Unanswered
    BY <1>1, WalkStays DEF DataInv
<1>4. portions \in 0..255 /\ portions' \in 0..255
  <2>1. portions \in 0..255
      BY DEF DataInv, QueueInv
  <2>2. Head(queue).param \in Nat
      BY <1>2 DEF Messages
  <2>3. \A v \in Nat : v % 256 \in 0..255
      OBVIOUS
  <2>4. Head(queue).param % 256 \in 0..255
      BY <2>2, <2>3, Zenon
  <2>. QED
      BY <1>1, <2>1, <2>4, Zenon
<1>5. QueueInv'
  <2>1. timer' \in BOOLEAN
      BY <1>1 DEF DataInv, QueueInv
  <2>. QED
    <3>1. autoFeed' \in BOOLEAN /\ fed' \in Nat /\ frames' \in 0..MaxFrames
        BY <1>1 DEF DataInv, QueueInv
    <3>2. answered' \in Nat /\ zeros' \in Nat
        BY <1>1, CountsStay DEF DataInv, QueueInv
    <3>3. Len(queue') <= QLen
        BY <1>2, QLenAssumption DEF DataInv, QueueInv
    <3>. QED
        BY <1>2, <1>4, <2>1, <3>1, <3>2, <3>3 DEF QueueInv
<1>6. Owed' <= Owed + Requested(Head(queue)) /\ Owed' \in Nat
  <2>1. Owed \in Nat /\ Owed' \in Nat
    <3>1. Owed' \in Nat
        BY <1>4 DEF Owed, Run
    <3>. QED
        BY <3>1, CountsAre DEF DataInv
  <2>2. CASE Head(queue).subtype = "FEEDFOOD_START" /\ portions = 0
    <3>1. portions' = Head(queue).param % 256 /\ timer' = TRUE
        BY <1>1, <2>2
    <3>2. Owed' = Requested(Head(queue))
        BY <2>2, <3>1 DEF Owed, Requested
    <3>. QED
        BY <1>2, <2>1, <3>2
  <2>3. CASE ~(Head(queue).subtype = "FEEDFOOD_START" /\ portions = 0)
    <3>1. portions' = portions /\ timer' = timer
        BY <1>1, <2>3
    <3>2. Owed' = Owed
        BY <3>1 DEF Owed
    <3>. QED
        BY <1>2, <2>1, <3>2
  <2>. QED
      BY <2>2, <2>3
<1>7. FedIsAnswered'
  <2>1. fed + Owed + Queued <= Told + Unanswered
      BY FedIs DEF DataInv
  <2>2. fed + Owed' + Queued' <= fed + Owed + Queued
    <3>1. \A f, p, q, r, s \in Nat : s <= p + r => f + s + q <= f + p + (q + r)
        OBVIOUS
    <3>2. fed \in Nat /\ Owed \in Nat /\ Owed' \in Nat
        BY <1>6, CountsAre DEF DataInv
    <3>. QED
        BY <1>2, <1>6, <3>1, <3>2
  <2>3. /\ fed + Owed' + Queued' \in Int /\ fed + Owed + Queued \in Int
        /\ Told + Unanswered \in Int
    <3>1. Queued \in Nat
        BY <1>2
    <3>2. Unanswered \in Nat
      <4>1. CASE stage \in {"prompt", "answer"} /\ dp_id = DPID_FEED_NUM
        <5>1. PICK n \in 0..Len(frame) : Walk(n)
            BY DEF DataInv, WalkInv
        <5>2. Value \in Nat
            BY <4>1, <5>1, PointIs DEF DataInv
        <5>. QED
            BY <4>1, <5>2 DEF Unanswered, Run
      <4>2. CASE ~(stage \in {"prompt", "answer"} /\ dp_id = DPID_FEED_NUM)
          BY <4>2 DEF Unanswered
      <4>. QED
          BY <4>1, <4>2
    <3>3. fed \in Nat /\ Owed \in Nat /\ Told \in Nat
        BY CountsAre DEF DataInv
    <3>. QED
        BY <1>2, <1>6, <3>1, <3>2, <3>3
  <2>4. fed' = fed /\ Told' = Told
      BY <1>1, CountsStay
  <2>5. \A x, y, z \in Int : x <= y /\ y <= z => x <= z
      OBVIOUS
  <2>6. fed + Owed' + Queued' <= Told + Unanswered
      BY <2>1, <2>2, <2>3, <2>5, Zenon
  <2>. QED
      BY <1>3, <2>4, <2>6, FedIs
<1>. QED
    BY <1>3, <1>5, <1>7 DEF DataInv

LEMMA PortionInv == DataInv /\ Portion => DataInv'
<1>. SUFFICES ASSUME DataInv, Portion PROVE DataInv'
    OBVIOUS
<1>1. /\ timer /\ portions' = (portions + 255) % 256 /\ timer' = (portions' # 0)
      /\ fed' = fed + 1
      /\ UNCHANGED <<frame, data, i, stage, answers, queue, autoFeed, toldVars, frames>>
    BY DEF Portion
<1>2. WalkInv' /\ Unanswered' = Unanswered
    BY <1>1, WalkStays DEF DataInv
<1>3. portions \in 0..255 /\ fed \in Nat
    BY DEF DataInv, QueueInv
<1>4. portions' = IF portions = 0 THEN 255 ELSE portions - 1
    BY <1>1, <1>3
<1>5. QueueInv'
    BY <1>1, <1>3, <1>4, CountsStay DEF DataInv, QueueInv
<1>6. fed' + Owed' = fed + Owed
  <2>1. Owed = Run(portions) /\ Owed' = IF portions' # 0 THEN Run(portions') ELSE 0
      BY <1>1 DEF Owed, Run
  <2>. QED
      BY <1>1, <1>3, <1>4, <2>1 DEF Run
<1>7. Queued' = Queued /\ Told' = Told
    BY <1>1, CountsStay DEF Queued
<1>. QED
    BY <1>2, <1>5, <1>6, <1>7, FedIs DEF DataInv

LEMMA NextInv == DataInv /\ [Next]_vars => DataInv'
<1>. SUFFICES ASSUME DataInv, [Next]_vars PROVE DataInv'
    OBVIOUS
<1>1. CASE Receive
    BY <1>1, ReceiveInv
<1>2. CASE PassOver
    BY <1>2, PassOverInv
<1>3. CASE HandleFeedNum \/ HandleWaterNum
    BY <1>3, CommandInv
<1>4. CASE Prompt
    BY <1>4, PromptInv
<1>5. CASE AnswerCommand
    BY <1>5, AnswerCommandInv
<1>6. CASE HandleHistory \/ HandleVoiceRecord \/ HandleUsageMode
    BY <1>6, AnswerInv
<1>7. CASE FrameEnds
    BY <1>7, FrameEndsInv
<1>8. CASE TakeCommand
    BY <1>8, TakeCommandInv
<1>9. CASE Portion
    BY <1>9, PortionInv
<1>10. CASE UNCHANGED vars
  <2>1. /\ frame' = frame /\ data' = data /\ i' = i /\ stage' = stage
        /\ answers' = answers /\ queue' = queue /\ autoFeed' = autoFeed
        /\ UNCHANGED feedVars /\ UNCHANGED toldVars /\ frames' = frames
      BY <1>10 DEF vars
  <2>2. WalkInv' /\ Unanswered' = Unanswered
      BY <2>1, WalkStays DEF DataInv
  <2>3. Queued' = Queued
      BY <2>1 DEF Queued
  <2>. QED
      BY <2>1, <2>2, <2>3, FedIs, CountsStay DEF DataInv, QueueInv
<1>. QED
    BY <1>1, <1>2, <1>3, <1>4, <1>5, <1>6, <1>7, <1>8, <1>9, <1>10
    DEF Next, HandlePoint

\* data_handle never steps past the data of a frame, and the queue of the
\* control task never holds more than its capacity (tuya/system.c:498-517,
\* app/control_task.c:169-189).
THEOREM DataTypeCorrect == Spec => []TypeOK
<1>1. DataInv => TypeOK
  <2>. SUFFICES ASSUME DataInv PROVE TypeOK
      OBVIOUS
  <2>1. i \in 0..Len(data)
    <3>1. PICK n \in 0..Len(frame) : Walk(n)
        BY DEF DataInv, WalkInv
    <3>2. frame \in Received /\ Len(frame) \in Nat
        BY FramesAre DEF DataInv, WalkInv
    <3>3. Len(frame) \in 0..Len(frame)
        BY <3>2
    <3>. DEFINE l == Len(frame)
    <3>4. /\ EncodedTo(frame, l) \in Seq(Nat) /\ EncodedTo(frame, n) \in Seq(Nat)
          /\ Len(EncodedTo(frame, n)) <= Len(EncodedTo(frame, l))
      <4>1. l \in 0..Len(frame) /\ n \in 0..l /\ 0 \in 0..n
          BY <3>2, <3>3
      <4>. HIDE DEF l
      <4>. QED
          BY <3>1, <3>2, <4>1, EncodedIs
    <3>5. i = Len(EncodedTo(frame, n)) /\ data = EncodedTo(frame, l)
        BY <3>1 DEF Walk, DataInv, WalkInv, Encoded
    <3>. QED
        BY <3>4, <3>5, LenProperties
  <2>2. frame \in Frames \cup {<<>>}
      BY DEF DataInv, WalkInv, Received
  <2>. QED
      BY <2>1, <2>2 DEF TypeOK, DataInv, WalkInv, QueueInv
<1>. QED
    BY <1>1, InitInv, NextInv, PTL DEF Spec

\* A frame that was handled has had the answers it is to have: every point the
\* device handles once, in the order sent, with the value it was sent with (a
\* BOOL as 0 or 1), whatever points it passes over lie between (tuya/system.c:498-517,
\* tuya/protocol.c:167-365).
THEOREM EveryPointIsAnswered == Spec => []PointsAreAnswered
<1>1. DataInv => PointsAreAnswered
    BY DEF DataInv, WalkInv, Walk, PointsAreAnswered, Expected
<1>. QED
    BY <1>1, InitInv, NextInv, PTL DEF Spec

\* No more portions are fed, under way or queued than the cloud was told of and
\* the point at hand asks for, however commands are refused, dropped and cut to
\* a byte, but for 256 portions of every request for none
\* (app/control_task.c:169-189, hal/control.c:158-206).
THEOREM FedPortionsAreAnswered == Spec => []FedIsAnswered
<1>1. DataInv => FedIsAnswered
    BY DEF DataInv
<1>. QED
    BY <1>1, InitInv, NextInv, PTL DEF Spec
=============================================================================
