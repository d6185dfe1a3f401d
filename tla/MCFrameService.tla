--------------------------- MODULE MCFrameService ---------------------------
(* Streams of two or three items, frames or noise, for TLC. *)
EXTENDS FrameService

HEAT_BEAT_CMD == 0
WIFI_STATE_CMD == 3
DATA_QUERT_CMD == 6

Heartbeat == Frame(HEAT_BEAT_CMD, << >>)
WifiState == Frame(WIFI_STATE_CMD, <<0>>)
\* Data that looks like the beginning of a frame.
Tricky == Frame(DATA_QUERT_CMD, <<16, 85, 170>>)

Good(f) == [bytes |-> f, good |-> TRUE]
Noise(b) == [bytes |-> b, good |-> FALSE]

Damaged(f) == [f EXCEPT ![Len(f)] = (@ + 1) % 256]

Frames == {Good(Heartbeat), Good(WifiState), Good(Tricky)}

Pieces == {Noise(<<85>>), Noise(<<85, 170>>), Noise(<<85, 170, 1>>),
           Noise(<<85, 170, 0, 3, 0, 2>>),      \* a header without its data
           Noise(<<85, 170, 0, 6, 2, 0>>),      \* a length beyond the limit
           Noise(<<85, 170, 0, 6, 255, 250>>),  \* a length that wraps to 1
           Noise(<<85, 170, 0, 6, 255, 249>>),  \* and one that wraps to 0
           Noise(Damaged(WifiState)),
           Noise(SubSeq(Tricky, 1, 8))}         \* a frame cut short

\* Silence long enough to complete any header left open by the noise.
Silence == Noise([i \in 1..5 |-> 0])

Joined(s, item) ==
    LET n == Len(s.bytes)
    IN [bytes  |-> s.bytes \o item.bytes,
        frames |-> IF item.good
                   THEN Append(s.frames, [from |-> n+1, to |-> n+Len(item.bytes)])
                   ELSE s.frames]

Join(items) == FoldLeft(Joined, [bytes |-> << >>, frames |-> << >>], items)

\* Any two items, and any piece of noise between two frames.
Orders == BoundedSeq(Frames \cup Pieces, 2)
          \cup {<<f, p, g>> : f \in Frames, p \in Pieces, g \in Frames}

MCStreams == {Join(Append(s, Silence)) : s \in Orders}

\* The hypothesis of the proof about these frames: it holds of the streams in
\* which no length wraps to 0.
ASSUME StreamsArePlain ==
    \A s \in MCStreams :
        Plain(s) \/ \E p \in 0..Len(s.bytes) : LooksLikeFrame(s.bytes, p) /\ ClaimedLen(s.bytes, p) = 0

\* What take_byte_rxbuff may return unset: nothing special, and a header's byte.
MCLeftovers == {0, 85}
=============================================================================
