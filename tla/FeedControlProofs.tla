------------------------- MODULE FeedControlProofs -------------------------
(***************************************************************************)
(* Proofs about FeedControl for every queue length, every set of requests   *)
(* and every set of detectors.                                              *)
(***************************************************************************)
EXTENDS FeedControl, TLAPS

USE DEF feedVars, waterVars, writeVars, tareVars, portVars, isrVars

-----------------------------------------------------------------------------
(* The queue. *)

\* A message that is posted is a message.
LEMMA MsgType ==
    ASSUME NEW s \in Subtypes, NEW n \in Nat
    PROVE  Msg(s, n) \in Messages
BY DEF Msg, Messages

\* os_msg_send keeps the queue a queue of messages within its capacity.
LEMMA SendType ==
    ASSUME NEW S, NEW q \in Seq(S), Len(q) <= QLen, NEW m \in S
    PROVE  Send(q, m) \in Seq(S) /\ Len(Send(q, m)) <= QLen
<1>1. Len(q) \in Nat /\ QLen \in Nat
  BY QLenAssumption
<1>2. CASE Len(q) < QLen
  <2>1. Append(q, m) \in Seq(S) /\ Len(Append(q, m)) = Len(q) + 1
    OBVIOUS
  <2> QED BY <1>1, <1>2, <2>1 DEF Send
<1>3. CASE ~(Len(q) < QLen)
  BY <1>1, <1>3 DEF Send
<1> QED BY <1>2, <1>3

\* A message of the queue after os_msg_send is the new one or was there before.
LEMMA SendContents ==
    ASSUME NEW S, NEW q \in Seq(S), NEW m \in S,
           NEW i \in 1..Len(Send(q, m))
    PROVE  \/ Send(q, m)[i] = m
           \/ i \in 1..Len(q) /\ Send(q, m)[i] = q[i]
BY DEF Send

\* What is left of a queue after os_msg_recv was in it before.
LEMMA ReceiveContents ==
    ASSUME NEW S, NEW q \in Seq(S), q # << >>
    PROVE  /\ Head(q) \in S
           /\ Head(q) = q[1] /\ 1 \in 1..Len(q)
           /\ Tail(q) \in Seq(S)
           /\ Len(Tail(q)) = Len(q) - 1
           /\ \A i \in 1..Len(Tail(q)) : i + 1 \in 1..Len(q) /\ Tail(q)[i] = q[i + 1]
OBVIOUS

-----------------------------------------------------------------------------
(* Type correctness. *)

\* What a handler that takes the head of the queue finds and leaves.
LEMMA ReceivedType ==
    ASSUME TypeOK, NEW s, Received(s)
    PROVE  /\ queue' \in Seq(Messages) /\ Len(queue') <= QLen
           /\ Head(queue) \in Messages
           /\ Head(queue).param \in Nat
<1>1. queue \in Seq(Messages) /\ Len(queue) <= QLen /\ queue # << >> /\ queue' = Tail(queue)
  BY DEF TypeOK, Received
<1>2. /\ Head(queue) \in Messages
      /\ Tail(queue) \in Seq(Messages) /\ Len(Tail(queue)) = Len(queue) - 1
      /\ Len(queue) \in Nat /\ QLen \in Nat
  BY <1>1, ReceiveContents, QLenAssumption
<1>3. Head(queue).param \in Nat
  BY <1>2 DEF Messages
<1> QED BY <1>1, <1>2, <1>3

\* What a poster leaves.
LEMMA PostedType ==
    ASSUME TypeOK, NEW s \in Subtypes, NEW n \in Nat
    PROVE  Send(queue, Msg(s, n)) \in Seq(Messages) /\ Len(Send(queue, Msg(s, n))) <= QLen
BY MsgType, SendType DEF TypeOK

\* A portion counted off the eight-bit counter.
LEMMA CountsDown ==
    ASSUME NEW n \in Nat, 1 <= n, n <= 255
    PROVE  (n + 255) % 256 = n - 1
BY SMT

\* The conversion to uint8_t yields a byte.
LEMMA Uint8Type == \A n \in Nat : Uint8(n) \in 0..255
BY DEF Uint8

\* The pin writes of every handler are writes.
LEMMA WritesType ==
    /\ MotoOnWrites \in Seq(Writes)
    /\ \A on \in BOOLEAN : PumpWrites(on) \in Seq(Writes)
    /\ << >> \in Seq(Writes)
BY DEF MotoOnWrites, PumpWrites, Write, Writes, Pins

\* The initial state is well typed.
LEMMA TypeInit == Init => TypeOK
<1> SUFFICES ASSUME Init PROVE TypeOK
  OBVIOUS
<1>1. queue \in Seq(Messages) /\ Len(queue) <= QLen
  BY QLenAssumption DEF Init
<1>2. ctl \in Stages /\ todo \in Seq(Writes)
  BY WritesType DEF Init, Stages
<1>3. feedNum \in 0..255 /\ guard \subseteq Detectors
  BY DEF Init
<1>4. pins \subseteq Pins /\ latch \subseteq Pins /\ appLatch \subseteq Pins /\ written \subseteq Pins
  BY DEF Init
<1>5. /\ inited \in BOOLEAN /\ statusBak \in BOOLEAN /\ feedTimer \in BOOLEAN
      /\ waterTimer \in BOOLEAN /\ loaded \in BOOLEAN /\ autoFeed \in BOOLEAN
      /\ appLoaded \in BOOLEAN /\ app \in {"idle", "voice", "tare"}
  BY DEF Init
<1> QED BY <1>1, <1>2, <1>3, <1>4, <1>5 DEF TypeOK

\* Every action keeps the state well typed.
LEMMA TypeNext == TypeOK /\ [Next]_vars => TypeOK'
<1> SUFFICES ASSUME TypeOK, [Next]_vars PROVE TypeOK'
  OBVIOUS
<1>1. CASE UNCHANGED vars
  BY <1>1 DEF vars, TypeOK
<1>2. CASE CloudConnected
  BY <1>2, PostedType DEF CloudConnected, TypeOK, Subtypes
<1>3. CASE DpFeedNum
  <2>1. PICK n \in Portions : DpRequest("FEEDFOOD_START", n)
    BY <1>3 DEF DpFeedNum
  <2> QED BY <2>1, PostedType, PortionsAssumption DEF DpRequest, TypeOK, Subtypes
<1>4. CASE DpWaterNum
  <2>1. PICK w \in WaterParams : DpRequest("FEEDWATER", w)
    BY <1>4 DEF DpWaterNum
  <2>2. w \in Nat
    BY WaterAssumption
  <2> QED BY <2>1, <2>2, PostedType DEF DpRequest, TypeOK, Subtypes
<1>5. CASE DpVoice
  BY <1>5, PostedType DEF DpVoice, TypeOK, Subtypes
<1>6. CASE DpUsageMode
  BY <1>6 DEF DpUsageMode, TypeOK
<1>7. CASE HandleInit
  BY <1>7, ReceivedType DEF HandleInit, WriteBit, Write, TypeOK, Pins
<1>8. CASE HandleFeedFood
  <2>1. /\ queue' \in Seq(Messages) /\ Len(queue') <= QLen
        /\ Uint8(Head(queue).param) \in 0..255
    BY <1>8, ReceivedType, Uint8Type DEF HandleFeedFood
  <2>2. feedNum' \in 0..255 /\ ctl' \in Stages
    BY <1>8, <2>1 DEF HandleFeedFood, TypeOK, Stages
  <2> QED BY <1>8, <2>1, <2>2 DEF HandleFeedFood, TypeOK
<1>9. CASE StartFeedTimer
  BY <1>9, WritesType DEF StartFeedTimer, TypeOK, Stages
<1>10. CASE HandleFeedWater
  <2>1. queue' \in Seq(Messages) /\ Len(queue') <= QLen
    BY <1>10, ReceivedType DEF HandleFeedWater
  <2>2. statusBak' \in BOOLEAN /\ ctl' \in Stages /\ todo' \in Seq(Writes)
    BY <1>10, WritesType DEF HandleFeedWater, TypeOK, Stages
  <2> QED BY <1>10, <2>1, <2>2 DEF HandleFeedWater, TypeOK
<1>11. CASE StartWaterTimer
  BY <1>11, WritesType DEF StartWaterTimer, TypeOK, Stages
<1>12. CASE HandleReport
  BY <1>12, ReceivedType DEF HandleReport, TypeOK
<1>13. CASE PortLoad
  BY <1>13 DEF PortLoad, TypeOK
<1>14. CASE PortStore
  <2>1. Head(todo) \in Writes /\ Tail(todo) \in Seq(Writes)
    BY <1>14, ReceiveContents DEF PortStore, TypeOK
  <2>2. WriteBit(latch, Head(todo)) \subseteq Pins /\ WriteBit(written, Head(todo)) \subseteq Pins
    BY <2>1 DEF WriteBit, Writes, TypeOK
  <2> QED BY <1>14, <2>1, <2>2 DEF PortStore, TypeOK, Stages
<1>15. CASE FeedTimerExpires
  <2>1. (feedNum + 255) % 256 \in 0..255
    BY DEF TypeOK
  <2> QED BY <1>15, <2>1 DEF FeedTimerExpires, MotoOff, TypeOK
<1>16. CASE WaterTimerExpires
  BY <1>16 DEF WaterTimerExpires, PumpOff, TypeOK
<1>17. CASE TimerReport
  BY <1>17, PostedType DEF TimerReport, TypeOK, Subtypes
<1>18. ASSUME NEW d, NEW s \in Subtypes, Detected(d, s)
       PROVE  TypeOK'
  <2>1. Msg("PLAY_VOICE", 1) \in Messages
    BY MsgType DEF Subtypes
  <2>2. queue' \in Seq(Messages) /\ Len(queue') <= QLen
    BY <1>18, <2>1, PostedType, SendType DEF Detected
  <2> QED BY <1>18, <2>2 DEF Detected, TypeOK
<1>19. CASE FeedFoodDet \/ FeedWaterDet
  BY <1>18, <1>19 DEF FeedFoodDet, FeedWaterDet, Subtypes
<1>20. CASE HoldoffEnds
  BY <1>20 DEF HoldoffEnds, TypeOK
<1>21. CASE TareBegins
  BY <1>21 DEF TareBegins, TypeOK
<1>22. CASE TareLoad
  BY <1>22 DEF TareLoad, TypeOK
<1>23. CASE TareStore
  BY <1>23 DEF TareStore, TypeOK
<1> QED
  BY <1>1, <1>2, <1>3, <1>4, <1>5, <1>6, <1>7, <1>8, <1>9, <1>10, <1>11, <1>12,
     <1>13, <1>14, <1>15, <1>16, <1>17, <1>19, <1>20,
     <1>21, <1>22, <1>23
  DEF Next, AppStep, ControlStep, TimerStep, IsrStep

\* Every part of the state keeps its type, and the control queue never
\* exceeds its capacity (control_task.c:146 and the os_msg_send calls).
THEOREM TypeCorrect == Spec => []TypeOK
<1> QED BY TypeInit, TypeNext, PTL DEF Spec

-----------------------------------------------------------------------------
(* The timers. *)

\* A queued request, while the cloud keeps its order, was posted after the
\* initialisation, and a feed asks for at least one portion.
Orderly(m) ==
    /\ m.subtype \in {"FEEDFOOD_START", "FEEDWATER"} => inited
    /\ m.subtype = "FEEDFOOD_START" => Uint8(m.param) # 0

\* The inductive invariant behind FeedIsTimed and PumpIsTimed.  Between the
\* assignment of g_feed_food_num and os_timer_start the run is owed but not
\* timed, so the invariant must say where the handler is; and it must say what
\* is queued, because a handler trusts its message.
TimersInv ==
    /\ TypeOK
    /\ \A i \in 1..Len(queue) : Orderly(queue[i])
    /\ ctl # "idle" => inited
    /\ todo # << >> => ctl \in {"feed_pins", "water_on", "water_off"}
    /\ FeedIsTimed
    /\ ctl = "feed_timer" => feedNum > 0 /\ ~feedTimer
    /\ PumpIsTimed

\* Posting an orderly message leaves an orderly queue.
LEMMA PostedOrderly ==
    ASSUME TypeOK, \A i \in 1..Len(queue) : Orderly(queue[i]),
           NEW s \in Subtypes, NEW n \in Nat, Orderly(Msg(s, n))
    PROVE  \A i \in 1..Len(Send(queue, Msg(s, n))) : Orderly(Send(queue, Msg(s, n))[i])
BY MsgType, SendContents DEF TypeOK

\* So does taking the head, which is orderly itself.
LEMMA ReceivedOrderly ==
    ASSUME TypeOK, \A i \in 1..Len(queue) : Orderly(queue[i]), NEW s, Received(s)
    PROVE  /\ Orderly(Head(queue))
           /\ \A i \in 1..Len(queue') : Orderly(queue'[i])
BY ReceiveContents DEF TypeOK, Received

\* Initially the queue is empty and nothing is running.
LEMMA TimersInit == Init => TimersInv
<1> SUFFICES ASSUME Init PROVE TimersInv
  OBVIOUS
<1>1. TypeOK
  BY TypeInit
<1>2. \A i \in 1..Len(queue) : Orderly(queue[i])
  BY DEF Init
<1> QED BY <1>1, <1>2 DEF Init, TimersInv, FeedIsTimed, PumpIsTimed

\* Every action keeps the invariant if the cloud sends nothing before the
\* initialisation and no feed request whose low byte is zero.
LEMMA TimersNext ==
    ASSUME DpAfterInit, \A n \in Portions : Uint8(n) # 0,
           TimersInv, [Next]_vars
    PROVE  TimersInv'
<1>1. TypeOK'
  BY TypeNext DEF TimersInv
<1>2. inited => inited'
  BY DEF Next, vars, AppStep, ControlStep, TimerStep, IsrStep, CloudConnected,
         DpFeedNum, DpWaterNum, DpRequest, DpVoice, DpUsageMode, TareBegins, TareLoad, TareStore,
        HandleInit,
         HandleFeedFood, StartFeedTimer, HandleFeedWater, StartWaterTimer,
         HandleReport, PortLoad, PortStore, FeedTimerExpires, WaterTimerExpires,
         TimerReport, FeedFoodDet, FeedWaterDet, Detected, HoldoffEnds
<1>3. \A i \in 1..Len(queue') : Orderly(queue'[i])
  <2>1. TypeOK /\ \A i \in 1..Len(queue) : Orderly(queue[i])
    BY DEF TimersInv
  <2>2. CASE \/ UNCHANGED vars \/ DpUsageMode \/ TareBegins \/ TareLoad \/ TareStore
              \/ StartFeedTimer \/ StartWaterTimer
             \/ PortLoad \/ PortStore \/ FeedTimerExpires \/ WaterTimerExpires
             \/ HoldoffEnds
    <3>1. queue' = queue
      BY <2>2 DEF vars, DpUsageMode, TareBegins, TareLoad, TareStore,
        StartFeedTimer, StartWaterTimer, PortLoad,
             PortStore, FeedTimerExpires, WaterTimerExpires, HoldoffEnds
    <3> QED BY <2>1, <3>1
  <2>3. CASE HandleInit \/ HandleFeedFood \/ HandleFeedWater \/ HandleReport
    <3>1. \E s : Received(s)
      BY <2>3 DEF HandleInit, HandleFeedFood, HandleFeedWater, HandleReport
    <3> QED BY <2>1, <3>1, ReceivedOrderly
  <2>4. CASE CloudConnected
    <3>1. Orderly(Msg("INIT", 0)) /\ "INIT" \in Subtypes
      BY DEF Orderly, Msg, Subtypes
    <3> QED BY <2>1, <2>4, <3>1, PostedOrderly DEF CloudConnected
  <2>5. CASE DpFeedNum
    <3>1. PICK n \in Portions : DpRequest("FEEDFOOD_START", n)
      BY <2>5 DEF DpFeedNum
    <3>2. /\ Orderly(Msg("FEEDFOOD_START", n))
          /\ "FEEDFOOD_START" \in Subtypes /\ n \in Nat
      BY <3>1, PortionsAssumption DEF DpRequest, Orderly, Msg, Subtypes
    <3> QED BY <2>1, <3>1, <3>2, PostedOrderly DEF DpRequest
  <2>6. CASE DpWaterNum
    <3>1. PICK w \in WaterParams : DpRequest("FEEDWATER", w)
      BY <2>6 DEF DpWaterNum
    <3>2. Orderly(Msg("FEEDWATER", w)) /\ "FEEDWATER" \in Subtypes
      BY <3>1 DEF DpRequest, Orderly, Msg, Subtypes
    <3>3. w \in Nat
      BY WaterAssumption
    <3> QED BY <2>1, <3>1, <3>2, <3>3, PostedOrderly DEF DpRequest
  <2>7. Orderly(Msg("PLAY_VOICE", 1)) /\ "PLAY_VOICE" \in Subtypes
    BY DEF Orderly, Msg, Subtypes
  <2>8. CASE DpVoice
    BY <2>1, <2>7, <2>8, PostedOrderly DEF DpVoice
  <2>9. CASE TimerReport
    <3>1. PICK s \in Exceptions : queue' = Send(queue, Msg(s, 0))
      BY <2>9 DEF TimerReport
    <3>2. Orderly(Msg(s, 0)) /\ s \in Subtypes
      BY ExceptionsAssumption DEF Orderly, Msg, Subtypes
    <3> QED BY <2>1, <3>1, <3>2, PostedOrderly
  <2>10. CASE FeedFoodDet \/ FeedWaterDet
    <3>1. PICK s \in {"FEEDFOOD_START", "FEEDWATER"} : \E d : Detected(d, s)
      BY <2>10 DEF FeedFoodDet, FeedWaterDet
    <3> DEFINE q == Send(queue, Msg(s, 1))
    <3>2. Orderly(Msg(s, 1)) /\ s \in Subtypes
      BY <3>1 DEF Detected, Orderly, Msg, Subtypes, Uint8
    <3>3. q \in Seq(Messages) /\ \A i \in 1..Len(q) : Orderly(q[i])
      BY <2>1, <3>2, PostedType, PostedOrderly
    <3>4. Msg("PLAY_VOICE", 1) \in Messages
      BY <2>7, MsgType
    <3>5. queue' = Send(q, Msg("PLAY_VOICE", 1))
      BY <3>1 DEF Detected
    <3> HIDE DEF q
    <3> QED BY <2>7, <3>3, <3>4, <3>5, SendContents
  <2> QED
    BY <2>2, <2>3, <2>4, <2>5, <2>6, <2>8, <2>9, <2>10
    DEF Next, AppStep, ControlStep, TimerStep, IsrStep
<1>4. \A i \in 1..Len(queue') : Orderly(queue[i])'
  BY <1>2, <1>3 DEF Orderly
<1>5. \A s \in {"FEEDFOOD_START", "FEEDWATER"} :
         Received(s) => inited /\ todo = << >>
  <2>1. \A s : Received(s) => Orderly(Head(queue))
    BY ReceivedOrderly DEF TimersInv
  <2> QED BY <2>1 DEF Received, Orderly, TimersInv
<1>6. \A s : Received(s) /\ s = "FEEDFOOD_START" => Uint8(Head(queue).param) # 0
  <2>1. \A s : Received(s) => Orderly(Head(queue))
    BY ReceivedOrderly DEF TimersInv
  <2> QED BY <2>1 DEF Received, Orderly
<1>7. CASE HandleFeedFood
  <2>1. /\ inited /\ inited' /\ ctl = "idle" /\ todo' = << >>
        /\ Uint8(Head(queue).param) # 0
    BY <1>5, <1>6, <1>7 DEF HandleFeedFood, Received
  <2> QED
    BY <1>1, <1>4, <1>7, <2>1 DEF HandleFeedFood, TimersInv, FeedIsTimed, PumpIsTimed, TypeOK
<1>8. CASE HandleFeedWater
  <2>1. inited /\ inited' /\ ctl = "idle" /\ todo = << >>
    BY <1>5, <1>8 DEF HandleFeedWater, Received
  <2> QED
    BY <1>1, <1>4, <1>8, <2>1 DEF HandleFeedWater, TimersInv, FeedIsTimed, PumpIsTimed
<1>9. CASE StartFeedTimer
  BY <1>1, <1>4, <1>9 DEF StartFeedTimer, TimersInv, FeedIsTimed, PumpIsTimed
<1>10. CASE StartWaterTimer
  BY <1>1, <1>4, <1>10 DEF StartWaterTimer, TimersInv, FeedIsTimed, PumpIsTimed
<1>11. CASE PortStore
  <2>1. ctl \in {"feed_pins", "water_on", "water_off"}
    BY <1>11 DEF PortStore, TimersInv
  <2>2. Len(todo) = 1 => todo' = << >>
    BY <1>11 DEF PortStore, TimersInv, TypeOK
  <2> QED
    BY <1>1, <1>4, <1>11, <2>1, <2>2 DEF PortStore, TimersInv, FeedIsTimed, PumpIsTimed
<1>12. CASE FeedTimerExpires
  <2>1. feedNum > 0 /\ ctl # "feed_timer"
    BY <1>12 DEF FeedTimerExpires, TimersInv, FeedIsTimed
  <2>2. feedNum' = feedNum - 1
    <3>1. feedNum \in Nat /\ 1 <= feedNum /\ feedNum <= 255
      BY <2>1 DEF TimersInv, TypeOK
    <3>2. (feedNum + 255) % 256 = feedNum - 1
      BY <3>1, CountsDown
    <3> QED BY <1>12, <3>2 DEF FeedTimerExpires
  <2>3. FeedIsTimed'
    <3>1. CASE feedNum' = 0
      <4>1. ~feedTimer'
        BY <1>12, <3>1 DEF FeedTimerExpires
      <4>2. ~(feedNum' > 0)
        BY <3>1
      <4> QED BY <4>1, <4>2 DEF FeedIsTimed
    <3>2. CASE feedNum' # 0
      <4>1. feedTimer' = feedTimer /\ feedTimer
        BY <1>12, <3>2 DEF FeedTimerExpires
      <4>2. feedNum' > 0
        BY <1>1, <3>2 DEF TypeOK
      <4> QED BY <4>1, <4>2 DEF FeedIsTimed
    <3> QED BY <3>1, <3>2
  <2>4. PumpIsTimed'
    BY <1>12 DEF FeedTimerExpires, TimersInv, PumpIsTimed
  <2> QED
    BY <1>1, <1>4, <1>12, <2>1, <2>3, <2>4 DEF FeedTimerExpires, TimersInv
<1>13. CASE WaterTimerExpires
  BY <1>1, <1>4, <1>13 DEF WaterTimerExpires, TimersInv, FeedIsTimed, PumpIsTimed
<1>14. CASE \/ UNCHANGED vars \/ AppStep \/ IsrStep \/ TimerReport
            \/ HandleInit \/ HandleReport \/ PortLoad
  <2>1. UNCHANGED <<feedNum, statusBak, feedTimer, waterTimer, ctl, todo>>
    BY <1>14 DEF vars, AppStep, IsrStep, CloudConnected, DpFeedNum, DpWaterNum,
       DpRequest, DpVoice, DpUsageMode, TareBegins, TareLoad, TareStore,
        FeedFoodDet, FeedWaterDet, Detected,
       HoldoffEnds, TimerReport, HandleInit, HandleReport, PortLoad
  <2> QED
    BY <1>1, <1>2, <1>4, <2>1 DEF TimersInv, FeedIsTimed, PumpIsTimed
<1> QED
  BY <1>7, <1>8, <1>9, <1>10, <1>11, <1>12, <1>13, <1>14 DEF Next, ControlStep, TimerStep

\* Under the same two assumptions about the cloud, a run of the motor always
\* has the timer that will count it down, and the counter never wraps.
THEOREM FeedRunsAreTimed ==
    ASSUME DpAfterInit, \A n \in Portions : Uint8(n) # 0
    PROVE  Spec => []FeedIsTimed
<1>1. TimersInv => FeedIsTimed
  BY DEF TimersInv
<1>2. TimersInv /\ [Next]_vars => TimersInv'
  BY TimersNext
<1> QED BY <1>1, <1>2, TimersInit, PTL DEF Spec

\* And while feed_water believes the pump is on, its timer is running.
THEOREM PumpRunsAreTimed ==
    ASSUME DpAfterInit, \A n \in Portions : Uint8(n) # 0
    PROVE  Spec => []PumpIsTimed
<1>1. TimersInv => PumpIsTimed
  BY DEF TimersInv
<1>2. TimersInv /\ [Next]_vars => TimersInv'
  BY TimersNext
<1> QED BY <1>1, <1>2, TimersInit, PTL DEF Spec

-----------------------------------------------------------------------------
(* What is written to the port.  The application task's tare writes none of *)
(* the pins below, so in "written" it does not appear.                      *)

\* The steps that neither move a handler or a timer on nor write a pin.
Elsewhere == \/ UNCHANGED vars \/ AppStep \/ IsrStep \/ TimerReport
             \/ HandleReport \/ PortLoad

LEMMA ElsewhereWritesNothing ==
    Elsewhere => UNCHANGED <<feedNum, feedTimer, statusBak, waterTimer, written, ctl, todo>>
BY DEF Elsewhere, vars, AppStep, IsrStep, CloudConnected, DpFeedNum, DpWaterNum,
   DpRequest, DpVoice, DpUsageMode, TareBegins, TareLoad, TareStore, FeedFoodDet,
   FeedWaterDet, Detected, HoldoffEnds, TimerReport, HandleReport, PortLoad

\* Every step is one of these or one of the eight that matter.
LEMMA NextCases ==
    ASSUME [Next]_vars
    PROVE  \/ HandleInit \/ HandleFeedFood \/ StartFeedTimer
           \/ HandleFeedWater \/ StartWaterTimer \/ PortStore
           \/ FeedTimerExpires \/ WaterTimerExpires \/ Elsewhere
BY DEF Next, ControlStep, TimerStep, Elsewhere

\* Writes of the motor's pins, and of the pump's.
MotorWrites(s) == \A i \in 1..Len(s) : s[i].pin \in {"MOTO_EN", "MOTO_CTL1", "MOTO_CTL2"}
OnlyPump(s) == \A i \in 1..Len(s) : s[i].pin \in {"PUMP_EN", "PUMP_LED"}

\* What is left of a sequence of writes of some pins are writes of those pins.
LEMMA WritesLeft ==
    ASSUME NEW s \in Seq(Writes), s # << >>
    PROVE  /\ Head(s) \in Writes /\ Tail(s) \in Seq(Writes)
           /\ Len(Tail(s)) = Len(s) - 1 /\ Len(s) \in Nat \ {0}
           /\ Len(s) = 1 => Tail(s) = << >>
           /\ MotorWrites(s) => /\ Head(s).pin \in {"MOTO_EN", "MOTO_CTL1", "MOTO_CTL2"}
                                /\ MotorWrites(Tail(s))
           /\ OnlyPump(s) => /\ Head(s).pin \in {"PUMP_EN", "PUMP_LED"}
                             /\ OnlyPump(Tail(s))
<1>1. /\ 1 \in 1..Len(s) /\ Head(s) = s[1]
      /\ \A i \in 1..Len(Tail(s)) : i + 1 \in 1..Len(s) /\ Tail(s)[i] = s[i + 1]
      /\ Head(s) \in Writes /\ Tail(s) \in Seq(Writes) /\ Len(Tail(s)) = Len(s) - 1
  BY ReceiveContents
<1>2. Len(s) \in Nat \ {0} /\ (Len(s) = 1 => Tail(s) = << >>)
  BY <1>1
<1> QED BY <1>1, <1>2 DEF MotorWrites, OnlyPump

\* The writes of the handlers.
LEMMA HandlerWrites ==
    /\ MotorWrites(MotoOnWrites) /\ MotoOnWrites # << >> /\ MotoOnWrites \in Seq(Writes)
    /\ MotorWrites(<< >>) /\ OnlyPump(<< >>) /\ << >> \in Seq(Writes)
    /\ \A on \in BOOLEAN : /\ PumpWrites(on) \in Seq(Writes) /\ PumpWrites(on) # << >>
                           /\ OnlyPump(PumpWrites(on))
BY WritesType DEF MotoOnWrites, PumpWrites, MotorWrites, OnlyPump, Write

-----------------------------------------------------------------------------
(* The lamp. *)

\* Pump and lamp at the same level in a value of the port.
Alike(port) == "PUMP_EN" \in port <=> "PUMP_LED" \in port

\* The inductive invariant behind LampShowsPump.  A switch has both writes
\* before it or its second, and the pump is then already at the new level.
LampInv ==
    /\ todo \in Seq(Writes)
    /\ todo # << >> => ctl \in {"feed_pins", "water_on", "water_off"}
    /\ ctl = "feed_pins" => MotorWrites(todo)
    /\ ctl \notin {"water_on", "water_off"} => Alike(written)
    /\ ctl = "water_on" =>
         \/ todo = PumpWrites(TRUE)
         \/ todo = <<Write("PUMP_LED", TRUE)>> /\ "PUMP_EN" \in written
    /\ ctl = "water_off" =>
         \/ todo = PumpWrites(FALSE)
         \/ todo = <<Write("PUMP_LED", FALSE)>> /\ "PUMP_EN" \notin written

LEMMA LampInit == Init => LampInv
BY WritesType DEF Init, LampInv, Alike

\* Storing the port keeps pump and lamp alike, or on their way to it.
LEMMA StoreLamp == LampInv /\ PortStore => LampInv'
<1> SUFFICES ASSUME LampInv, PortStore PROVE LampInv'
  OBVIOUS
<1>1. /\ todo \in Seq(Writes) /\ todo # << >> /\ todo' = Tail(todo)
      /\ written' = WriteBit(written, Head(todo))
      /\ ctl' = IF Len(todo) = 1 THEN "idle" ELSE ctl
      /\ ctl \in {"feed_pins", "water_on", "water_off"}
  BY DEF LampInv, PortStore
<1>2. /\ todo' \in Seq(Writes) /\ Len(todo') = Len(todo) - 1 /\ Len(todo) \in Nat \ {0}
      /\ Len(todo) = 1 => todo' = << >>
  BY <1>1, WritesLeft
<1>3. CASE ctl = "feed_pins"
  <2>1. Head(todo).pin \in {"MOTO_EN", "MOTO_CTL1", "MOTO_CTL2"} /\ MotorWrites(todo')
    BY <1>1, <1>3, WritesLeft DEF LampInv
  <2>2. Alike(written')
    BY <1>1, <1>3, <2>1 DEF LampInv, Alike, WriteBit
  <2>3. ctl' \in {"idle", "feed_pins"} /\ (todo' # << >> => ctl' = "feed_pins")
    BY <1>1, <1>2, <1>3
  <2> QED BY <1>2, <2>1, <2>2, <2>3 DEF LampInv, Alike
<1>4. ASSUME NEW on \in BOOLEAN, ctl = IF on THEN "water_on" ELSE "water_off"
      PROVE  LampInv'
  <2>1. CASE todo = PumpWrites(on)
    <3>1. /\ Head(todo) = Write("PUMP_EN", on) /\ Len(todo) = 2
          /\ todo' = <<Write("PUMP_LED", on)>>
      BY <1>1, <2>1 DEF PumpWrites
    <3>2. ctl' = ctl /\ ("PUMP_EN" \in written' <=> on)
      BY <1>1, <3>1 DEF WriteBit, Write
    <3> QED BY <1>2, <1>4, <3>1, <3>2 DEF LampInv
  <2>2. CASE /\ todo = <<Write("PUMP_LED", on)>>
             /\ "PUMP_EN" \in written <=> on
    <3>1. Head(todo) = Write("PUMP_LED", on) /\ Len(todo) = 1 /\ todo' = << >>
      BY <1>1, <2>2
    <3>2. ctl' = "idle" /\ Alike(written')
      BY <1>1, <2>2, <3>1 DEF WriteBit, Write, Alike
    <3> QED BY <1>2, <3>1, <3>2 DEF LampInv, Alike
  <2> QED BY <1>1, <1>4, <2>1, <2>2 DEF LampInv
<1> QED BY <1>1, <1>3, <1>4

\* The callbacks turn off both or neither; the motor's pins are others.
LEMMA LampNext == LampInv /\ [Next]_vars => LampInv'
<1> SUFFICES ASSUME LampInv, [Next]_vars PROVE LampInv'
  OBVIOUS
<1>1. CASE HandleInit
  BY <1>1 DEF HandleInit, Received, LampInv, Alike, WriteBit, Write
<1>2. CASE HandleFeedFood
  BY <1>2 DEF HandleFeedFood, Received, LampInv, Alike
<1>3. CASE StartFeedTimer
  BY <1>3, HandlerWrites DEF StartFeedTimer, LampInv, Alike
<1>4. CASE HandleFeedWater
  BY <1>4, HandlerWrites DEF HandleFeedWater, Received, LampInv, Alike
<1>5. CASE StartWaterTimer
  BY <1>5, HandlerWrites DEF StartWaterTimer, LampInv, Alike
<1>6. CASE PortStore
  BY <1>6, StoreLamp
<1>7. CASE FeedTimerExpires
  <2>1. \A p \in {"PUMP_EN", "PUMP_LED"} : p \in written' <=> p \in written
    BY <1>7 DEF FeedTimerExpires, MotoOff
  <2> QED BY <1>7, <2>1 DEF FeedTimerExpires, LampInv, Alike
<1>8. CASE WaterTimerExpires
  BY <1>8 DEF WaterTimerExpires, PumpOff, LampInv, Alike
<1>9. CASE Elsewhere
  BY <1>9, ElsewhereWritesNothing DEF LampInv, Alike, MotorWrites
<1> QED BY <1>1, <1>2, <1>3, <1>4, <1>5, <1>6, <1>7, <1>8, <1>9, NextCases

\* hal/control.c:230-250.  Whatever is fed, watered and weighed at the same time,
\* between messages the pump and its lamp show the same level, unless the port
\* has lost a write of one of them.
THEOREM LampIsRight == Spec => []LampShowsPump
<1>1. LampInv => LampShowsPump
  BY DEF LampInv, LampShowsPump, Alike, Lost, Pins
<1> QED BY <1>1, LampInit, LampNext, PTL DEF Spec

-----------------------------------------------------------------------------
(* The motor, whatever else the device does. *)

\* The cloud keeps its order.
CloudIsOrderly == DpAfterInit /\ \A n \in Portions : Uint8(n) # 0

MotorOff(port) == "MOTO_EN" \notin port /\ "MOTO_CTL1" \notin port
MotorOn(port) == "MOTO_EN" \in port /\ "MOTO_CTL1" \in port

\* What is left of MotoOnWrites after its first write, and its second.
MotoSecond == <<Write("MOTO_CTL1", TRUE), Write("MOTO_CTL2", FALSE)>>
MotoThird == <<Write("MOTO_CTL2", FALSE)>>

\* The last levels of the motor's pins tell where its run is: no timer that
\* ends the run expires between its start and its last pin.
MotorInv ==
    /\ TimersInv
    /\ \/ /\ ctl \notin {"feed_timer", "feed_pins"} /\ OnlyPump(todo)
          /\ IF feedNum = 0 THEN MotorOff(written) ELSE MotorOn(written)
       \/ ctl = "feed_timer" /\ todo = << >> /\ MotorOff(written)
       \/ /\ ctl = "feed_pins" /\ feedNum > 0
          /\ \/ todo = MotoOnWrites /\ MotorOff(written)
             \/ /\ todo = MotoSecond
                /\ "MOTO_EN" \in written /\ "MOTO_CTL1" \notin written
             \/ todo = MotoThird /\ MotorOn(written)

\* The three writes of MotoOnWrites, one after the other.
LEMMA MotoWritesLeft ==
    /\ Head(MotoOnWrites) = Write("MOTO_EN", TRUE)
    /\ Tail(MotoOnWrites) = MotoSecond /\ Len(MotoOnWrites) = 3
    /\ Head(MotoSecond) = Write("MOTO_CTL1", TRUE)
    /\ Tail(MotoSecond) = MotoThird /\ Len(MotoSecond) = 2
    /\ Head(MotoThird) = Write("MOTO_CTL2", FALSE)
    /\ Tail(MotoThird) = << >> /\ Len(MotoThird) = 1
    /\ MotoOnWrites # MotoSecond /\ MotoOnWrites # MotoThird /\ MotoSecond # MotoThird
    /\ MotoOnWrites # << >> /\ MotoSecond # << >> /\ MotoThird # << >>
<1> DEFINE a == Write("MOTO_EN", TRUE)
           b == Write("MOTO_CTL1", TRUE)
           c == Write("MOTO_CTL2", FALSE)
<1>1. MotoOnWrites = <<a, b, c>> /\ MotoSecond = <<b, c>> /\ MotoThird = <<c>>
  BY DEF MotoOnWrites, MotoSecond, MotoThird
<1> HIDE DEF a, b, c
<1>2. Head(MotoOnWrites) = a /\ Tail(MotoOnWrites) = MotoSecond /\ Len(MotoOnWrites) = 3
  BY <1>1
<1>3. Head(MotoSecond) = b /\ Tail(MotoSecond) = MotoThird /\ Len(MotoSecond) = 2
  BY <1>1
<1>4. Head(MotoThird) = c /\ Tail(MotoThird) = << >> /\ Len(MotoThird) = 1
  BY <1>1
<1>5. /\ MotoOnWrites # MotoSecond /\ MotoOnWrites # MotoThird /\ MotoSecond # MotoThird
      /\ MotoOnWrites # << >> /\ MotoSecond # << >> /\ MotoThird # << >>
  BY <1>2, <1>3, <1>4
<1> QED BY <1>2, <1>3, <1>4, <1>5 DEF a, b, c

LEMMA MotorInit == Init => MotorInv
BY TimersInit, HandlerWrites DEF Init, MotorInv, MotorOff

\* A write of the motor's start brings the pins one further; a write of the
\* pump's pins leaves the motor as it is.
LEMMA MotorStore ==
    ASSUME MotorInv, PortStore, TimersInv'
    PROVE  MotorInv'
<1>1. /\ todo # << >> /\ todo' = Tail(todo) /\ todo \in Seq(Writes)
      /\ written' = WriteBit(written, Head(todo))
      /\ ctl' = IF Len(todo) = 1 THEN "idle" ELSE ctl
      /\ feedNum' = feedNum
  BY DEF MotorInv, TimersInv, TypeOK, PortStore, feedVars
<1>2. CASE ctl = "feed_pins" /\ todo = MotoOnWrites /\ feedNum > 0 /\ MotorOff(written)
  <2>1. todo' = MotoSecond /\ ctl' = "feed_pins"
    BY <1>1, <1>2, MotoWritesLeft
  <2>2. "MOTO_EN" \in written' /\ "MOTO_CTL1" \notin written'
    BY <1>1, <1>2, MotoWritesLeft DEF WriteBit, Write, MotorOff
  <2> QED BY <1>1, <1>2, <2>1, <2>2 DEF MotorInv
<1>3. CASE /\ ctl = "feed_pins" /\ todo = MotoSecond /\ feedNum > 0
           /\ "MOTO_EN" \in written
  <2>1. todo' = MotoThird /\ ctl' = "feed_pins"
    BY <1>1, <1>3, MotoWritesLeft
  <2>2. MotorOn(written')
    BY <1>1, <1>3, MotoWritesLeft DEF WriteBit, Write, MotorOn
  <2> QED BY <1>1, <1>3, <2>1, <2>2 DEF MotorInv
<1>4. CASE ctl = "feed_pins" /\ todo = MotoThird /\ feedNum > 0 /\ MotorOn(written)
  <2>1. todo' = << >> /\ ctl' = "idle"
    BY <1>1, <1>4, MotoWritesLeft
  <2>2. MotorOn(written')
    BY <1>1, <1>4, MotoWritesLeft DEF WriteBit, Write, MotorOn
  <2>3. feedNum' # 0
    BY <1>1, <1>4
  <2>4. OnlyPump(todo')
    BY <2>1, HandlerWrites
  <2> QED BY <2>1, <2>2, <2>3, <2>4 DEF MotorInv
<1>5. CASE /\ ctl \notin {"feed_timer", "feed_pins"} /\ OnlyPump(todo)
           /\ IF feedNum = 0 THEN MotorOff(written) ELSE MotorOn(written)
  <2>1. Head(todo).pin \in {"PUMP_EN", "PUMP_LED"} /\ OnlyPump(todo')
    BY <1>1, <1>5, WritesLeft
  <2>2. (MotorOff(written') <=> MotorOff(written)) /\ (MotorOn(written') <=> MotorOn(written))
    BY <1>1, <2>1 DEF WriteBit, MotorOff, MotorOn
  <2>3. ctl' \notin {"feed_timer", "feed_pins"}
    BY <1>1, <1>5
  <2> QED BY <1>1, <1>5, <2>1, <2>2, <2>3 DEF MotorInv, MotorOff, MotorOn
<1> QED BY <1>1, <1>2, <1>3, <1>4, <1>5 DEF MotorInv

LEMMA MotorNext ==
    ASSUME CloudIsOrderly, MotorInv, [Next]_vars
    PROVE  MotorInv'
<1>1. TimersInv' /\ TimersInv /\ TypeOK
  BY TimersNext DEF CloudIsOrderly, MotorInv, TimersInv
<1>2. CASE HandleInit
  <2>1. \A p \in {"MOTO_EN", "MOTO_CTL1"} : p \in written' <=> p \in written
    BY <1>2 DEF HandleInit, WriteBit, Write
  <2> QED BY <1>1, <1>2, <2>1 DEF HandleInit, Received, MotorInv, MotorOff, MotorOn
<1>3. CASE HandleFeedFood
  BY <1>1, <1>3 DEF HandleFeedFood, Received, MotorInv, TimersInv, MotorOff, MotorOn
<1>4. CASE StartFeedTimer
  <2>1. feedNum > 0 /\ MotoOnWrites # << >>
    BY <1>1, <1>4, MotoWritesLeft DEF StartFeedTimer, TimersInv
  <2> QED BY <1>1, <1>4, <2>1 DEF StartFeedTimer, MotorInv, MotorOff
<1>5. CASE HandleFeedWater
  <2>1. OnlyPump(todo') /\ ctl' \notin {"feed_timer", "feed_pins"}
    BY <1>1, <1>5, HandlerWrites DEF HandleFeedWater, Received, MotorInv, TimersInv
  <2> QED BY <1>1, <1>5, <2>1 DEF HandleFeedWater, Received, MotorInv, MotorOff, MotorOn
<1>6. CASE StartWaterTimer
  <2>1. OnlyPump(todo') /\ ctl' \notin {"feed_timer", "feed_pins"}
    BY <1>6, HandlerWrites DEF StartWaterTimer
  <2> QED BY <1>1, <1>6, <2>1 DEF StartWaterTimer, MotorInv, MotorOff, MotorOn
<1>7. CASE PortStore
  BY <1>1, <1>7, MotorStore
<1>8. CASE FeedTimerExpires
  <2>1. /\ ctl \notin {"feed_timer", "feed_pins"} /\ OnlyPump(todo) /\ feedNum > 0
        /\ MotorOn(written)
    BY <1>1, <1>8 DEF FeedTimerExpires, MotorInv, TimersInv, FeedIsTimed
  <2>2. CASE feedNum' = 0
    BY <1>1, <1>8, <2>1, <2>2 DEF FeedTimerExpires, MotoOff, MotorOff, MotorInv
  <2>3. CASE feedNum' # 0
    BY <1>1, <1>8, <2>1, <2>3 DEF FeedTimerExpires, MotorInv
  <2> QED BY <2>2, <2>3
<1>9. CASE WaterTimerExpires
  <2>1. (MotorOff(written') <=> MotorOff(written)) /\ (MotorOn(written') <=> MotorOn(written))
    BY <1>9 DEF WaterTimerExpires, PumpOff, MotorOff, MotorOn
  <2>2. "MOTO_EN" \in written' <=> "MOTO_EN" \in written
    BY <1>9 DEF WaterTimerExpires, PumpOff
  <2>3. "MOTO_CTL1" \in written' <=> "MOTO_CTL1" \in written
    BY <1>9 DEF WaterTimerExpires, PumpOff
  <2> QED BY <1>1, <1>9, <2>1, <2>2, <2>3 DEF WaterTimerExpires, MotorInv
<1>10. CASE Elsewhere
  BY <1>1, <1>10, ElsewhereWritesNothing DEF MotorInv
<1> QED
  BY <1>2, <1>3, <1>4, <1>5, <1>6, <1>7, <1>8, <1>9, <1>10, NextCases

\* hal/control.c:140-172.  Whatever else the device does, the motor is driven
\* only for a portion that is owed, unless the port has lost the write that
\* turned it off.
THEOREM MotorRunsForPortions ==
    ASSUME CloudIsOrderly
    PROVE  Spec => []MotorOnlyForPortions
<1>1. MotorInv => MotorOnlyForPortions
  BY DEF MotorInv, TimersInv, TypeOK, MotorOff, MotorOnlyForPortions, Lost, Pins
<1>2. MotorInv /\ [Next]_vars => MotorInv'
  BY MotorNext
<1> QED BY <1>1, <1>2, MotorInit, PTL DEF Spec

\* Every step maps to a step of the abstract feeder, or to none.
LEMMA StepFeeds ==
    ASSUME MotorInv, MotorInv', [Next]_vars
    PROVE  [Delivery!Next]_(Delivery!vars)
<1> DEFINE motor == {"MOTO_EN", "MOTO_CTL1"} \subseteq written
<1>1. feedNum \in 0..255 /\ feedNum' \in 0..255 /\ TimersInv /\ TimersInv'
  BY DEF MotorInv, TimersInv, TypeOK
<1>2. (MotorOn(written) => motor) /\ (MotorOff(written) => ~motor)
      /\ (MotorOn(written)' => motor') /\ (MotorOff(written)' => ~motor')
  BY DEF MotorOn, MotorOff
<1>3. CASE feedNum' = feedNum /\ (motor' <=> motor)
  BY <1>3 DEF Delivery!vars
<1>4. CASE HandleFeedFood
  <2>1. UNCHANGED written
    BY <1>4 DEF HandleFeedFood
  <2>2. CASE feedNum = 0
    <3>1. feedNum' > 0
      BY <1>1, <1>4, <2>2 DEF HandleFeedFood, TimersInv
    <3> QED BY <1>1, <2>1, <2>2, <3>1 DEF Delivery!Next, Delivery!Accept
  <2>3. CASE feedNum # 0
    BY <1>3, <1>4, <2>1, <2>3 DEF HandleFeedFood
  <2> QED BY <2>2, <2>3
<1>5. CASE PortStore
  <2>1. /\ feedNum' = feedNum /\ todo # << >> /\ todo \in Seq(Writes)
        /\ written' = WriteBit(written, Head(todo))
    BY <1>5 DEF PortStore, MotorInv, TimersInv, TypeOK
  <2>2. CASE ctl = "feed_pins"
    <3>1. feedNum > 0
      BY <2>2 DEF MotorInv
    <3>2. CASE motor
      <4>1. todo = MotoThird
        BY <2>2, <3>2 DEF MotorInv, MotorOff
      <4>2. motor'
        BY <2>1, <3>2, <4>1, MotoWritesLeft DEF WriteBit, Write
      <4> QED BY <1>3, <2>1, <3>2, <4>2
    <3>3. CASE ~motor /\ motor'
      BY <2>1, <3>1, <3>3 DEF Delivery!Next, Delivery!Start
    <3> QED BY <1>3, <2>1, <3>2, <3>3
  <2>3. CASE ctl # "feed_pins"
    <3>1. OnlyPump(todo)
      BY <2>1, <2>3 DEF MotorInv
    <3>2. Head(todo).pin \in {"PUMP_EN", "PUMP_LED"}
      BY <2>1, <3>1, WritesLeft
    <3>3. motor' <=> motor
      BY <2>1, <3>2 DEF WriteBit
    <3> QED BY <1>3, <2>1, <3>3
  <2> QED BY <2>2, <2>3
<1>6. CASE FeedTimerExpires
  <2>1. motor /\ feedNum > 0 /\ feedNum' = (feedNum + 255) % 256
    BY <1>1, <1>2, <1>6 DEF FeedTimerExpires, MotorInv, TimersInv, FeedIsTimed
  <2>2. feedNum' = feedNum - 1
    <3>1. feedNum \in Nat /\ 1 <= feedNum /\ feedNum <= 255
      BY <1>1, <2>1
    <3>2. (feedNum + 255) % 256 = feedNum - 1
      BY <3>1, CountsDown
    <3> QED BY <2>1, <3>2
  <2>3. CASE feedNum' = 0
    <3>1. ~motor'
      BY <1>6, <2>3 DEF FeedTimerExpires, MotoOff
    <3> QED BY <1>1, <2>1, <2>2, <2>3, <3>1 DEF Delivery!Next, Delivery!Finish
  <2>4. CASE feedNum' # 0
    <3>1. motor'
      BY <1>6, <2>1, <2>4 DEF FeedTimerExpires
    <3> QED BY <1>1, <2>1, <2>2, <2>4, <3>1 DEF Delivery!Next, Delivery!Portion
  <2> QED BY <2>3, <2>4
<1>7. CASE HandleInit
  <2>1. feedNum' = feedNum /\ (motor' <=> motor)
    BY <1>7 DEF HandleInit, WriteBit, Write
  <2> QED BY <1>3, <2>1
<1>8. CASE HandleFeedWater \/ StartWaterTimer \/ WaterTimerExpires
  <2>1. feedNum' = feedNum /\ (motor' <=> motor)
    BY <1>8 DEF HandleFeedWater, StartWaterTimer, WaterTimerExpires, PumpOff
  <2> QED BY <1>3, <2>1
<1>9. CASE Elsewhere \/ StartFeedTimer
  <2>1. UNCHANGED <<feedNum, written>>
    BY <1>9, ElsewhereWritesNothing DEF StartFeedTimer
  <2> QED BY <1>3, <2>1
<1> QED BY <1>4, <1>5, <1>6, <1>7, <1>8, <1>9, NextCases

\* hal/control.c:158-206.  In what it writes to the motor's pins the device
\* implements the abstract feeder, whatever else it does: one start for a run,
\* one period of the motor for a portion, and the stop with the last.
THEOREM FeedingIsAFeeder ==
    ASSUME CloudIsOrderly
    PROVE  Spec => Delivery!SafeSpec
<1>1. Init => Delivery!Init
  BY DEF Init, Delivery!Init
<1>2. MotorInv /\ [Next]_vars => MotorInv'
  BY MotorNext
<1>3. MotorInv /\ MotorInv' /\ [Next]_vars => [Delivery!Next]_(Delivery!vars)
  BY StepFeeds
<1> QED BY <1>1, <1>2, <1>3, MotorInit, PTL DEF Spec, Delivery!SafeSpec

-----------------------------------------------------------------------------
(* What is queued. *)

\* Messages that are no water request, no feed request, and no request to turn
\* the pump off.
FeedMessages == {m \in Messages : m.subtype # "FEEDWATER"}
WaterMessages == {m \in Messages : m.subtype # "FEEDFOOD_START"}
OnMessages == {m \in Messages : m.subtype = "FEEDWATER" => m.param # 0}

\* A queue holds only what is posted to it.
LEMMA Queued ==
    ASSUME NEW A, queue \in Seq(A), [Next]_vars,
           \A s \in {"INIT", "PLAY_VOICE"} \cup Exceptions, n \in {0, 1} : Msg(s, n) \in A,
           \A n \in Portions : Msg("FEEDFOOD_START", n) \in A,
           \A w \in WaterParams : Msg("FEEDWATER", w) \in A,
           "food" \in Detectors => Msg("FEEDFOOD_START", 1) \in A,
           "water" \in Detectors => Msg("FEEDWATER", 1) \in A
    PROVE  queue' \in Seq(A)
<1>1. \A q \in Seq(A), m \in A : Send(q, m) \in Seq(A)
  BY DEF Send
<1>2. CASE \/ UNCHANGED vars \/ DpUsageMode \/ TareBegins \/ TareLoad \/ TareStore
           \/ StartFeedTimer \/ StartWaterTimer
           \/ PortLoad \/ PortStore \/ FeedTimerExpires \/ WaterTimerExpires
           \/ HoldoffEnds
  <2>1. queue' = queue
    BY <1>2 DEF vars, DpUsageMode, TareBegins,
       TareLoad, TareStore, StartFeedTimer, StartWaterTimer, PortLoad,
       PortStore, FeedTimerExpires, WaterTimerExpires, HoldoffEnds
  <2> QED BY <2>1
<1>3. CASE HandleInit \/ HandleFeedFood \/ HandleFeedWater \/ HandleReport
  <2>1. queue # << >> /\ queue' = Tail(queue)
    BY <1>3 DEF HandleInit, HandleFeedFood, HandleFeedWater, HandleReport, Received
  <2> QED BY <2>1
<1>4. CASE CloudConnected \/ DpVoice \/ TimerReport
  BY <1>1, <1>4 DEF CloudConnected, DpVoice, TimerReport
<1>5. CASE DpFeedNum \/ DpWaterNum
  BY <1>1, <1>5 DEF DpFeedNum, DpWaterNum, DpRequest
<1>6. CASE FeedFoodDet \/ FeedWaterDet
  <2>1. PICK m \in A : queue' = Send(Send(queue, m), Msg("PLAY_VOICE", 1))
    BY <1>6 DEF FeedFoodDet, FeedWaterDet, Detected
  <2> QED BY <1>1, <2>1
<1> QED
  BY <1>2, <1>3, <1>4, <1>5, <1>6 DEF Next, AppStep, ControlStep, TimerStep, IsrStep

\* What the others post is neither a water request nor a feed request.
LEMMA Reports ==
    \A s \in {"INIT", "PLAY_VOICE"} \cup Exceptions, n \in {0, 1} :
       Msg(s, n) \in FeedMessages \cap WaterMessages \cap OnMessages
<1>1. \A s \in {"INIT", "PLAY_VOICE"} \cup Exceptions :
         s \in Subtypes /\ s \notin {"FEEDWATER", "FEEDFOOD_START"}
  BY ExceptionsAssumption DEF Subtypes
<1> QED BY <1>1 DEF Msg, Messages, FeedMessages, WaterMessages, OnMessages

\* A request for food, and one that turns the pump on.
LEMMA Requests ==
    /\ \A n \in Nat : Msg("FEEDFOOD_START", n) \in FeedMessages \cap OnMessages
    /\ \A n \in Nat : Msg("FEEDWATER", n) \in WaterMessages
    /\ Msg("FEEDWATER", 1) \in OnMessages
BY DEF Msg, Messages, Subtypes, FeedMessages, WaterMessages, OnMessages

\* What is taken from such a queue.
LEMMA Taken ==
    /\ queue \in Seq(FeedMessages) => ~Received("FEEDWATER")
    /\ queue \in Seq(WaterMessages) => ~Received("FEEDFOOD_START")
    /\ queue \in Seq(OnMessages) /\ Received("FEEDWATER") => Head(queue).param # 0
BY ReceiveContents DEF Received, FeedMessages, WaterMessages, OnMessages

-----------------------------------------------------------------------------
(* The pump, on a device that is only ever told to turn it on. *)

OnlyOn == CloudIsOrderly /\ WaterParams \subseteq {1}

\* PumpWrites(TRUE), and what is left of it after its first write.
PumpFirst == PumpWrites(TRUE)
PumpSecond == <<Write("PUMP_LED", TRUE)>>

\* status_bak, the timer and the pump agree between messages; at a timer's
\* start the pump is still off, and at its pins the timer is running.
PumpInv ==
    /\ TimersInv
    /\ queue \in Seq(OnMessages)
    /\ \/ /\ ctl \in {"idle", "feed_timer", "feed_pins"} /\ MotorWrites(todo)
          /\ statusBak <=> waterTimer
          /\ "PUMP_EN" \in written <=> waterTimer
       \/ /\ ctl = "water_timer" /\ todo = << >>
          /\ statusBak /\ ~waterTimer /\ "PUMP_EN" \notin written
       \/ /\ ctl = "water_on" /\ statusBak /\ waterTimer
          /\ \/ todo = PumpFirst
             \/ todo = PumpSecond /\ "PUMP_EN" \in written

\* The two writes of PumpWrites, one after the other.
LEMMA PumpWritesLeft ==
    /\ Head(PumpFirst) = Write("PUMP_EN", TRUE)
    /\ Tail(PumpFirst) = PumpSecond /\ Len(PumpFirst) = 2
    /\ Head(PumpSecond) = Write("PUMP_LED", TRUE)
    /\ Tail(PumpSecond) = << >> /\ Len(PumpSecond) = 1
    /\ PumpFirst # << >> /\ PumpSecond # << >>
<1> DEFINE a == Write("PUMP_EN", TRUE)
           b == Write("PUMP_LED", TRUE)
<1>1. PumpFirst = <<a, b>> /\ PumpSecond = <<b>>
  BY DEF PumpFirst, PumpWrites, PumpSecond
<1> HIDE DEF a, b
<1>2. Head(PumpFirst) = a /\ Tail(PumpFirst) = PumpSecond /\ Len(PumpFirst) = 2
  BY <1>1
<1>3. Head(PumpSecond) = b /\ Tail(PumpSecond) = << >> /\ Len(PumpSecond) = 1
  BY <1>1
<1>4. PumpFirst # << >> /\ PumpSecond # << >>
  BY <1>2, <1>3
<1> QED BY <1>2, <1>3, <1>4 DEF a, b

\* Nobody asks for the pump to be turned off.
LEMMA OnlyOnQueued ==
    ASSUME OnlyOn, queue \in Seq(OnMessages), [Next]_vars
    PROVE  queue' \in Seq(OnMessages)
<1>1. \A s \in {"INIT", "PLAY_VOICE"} \cup Exceptions, n \in {0, 1} : Msg(s, n) \in OnMessages
  BY Reports
<1>2. /\ \A w \in WaterParams : Msg("FEEDWATER", w) \in OnMessages
      /\ Msg("FEEDWATER", 1) \in OnMessages
  BY Requests DEF OnlyOn
<1>3. /\ \A n \in Portions : Msg("FEEDFOOD_START", n) \in OnMessages
      /\ Msg("FEEDFOOD_START", 1) \in OnMessages
  BY Requests, PortionsAssumption
<1> QED BY <1>1, <1>2, <1>3, Queued

LEMMA PumpInit == Init => PumpInv
BY TimersInit, HandlerWrites DEF Init, PumpInv

\* A write of the pump's switch brings its pins one further; a write of the
\* motor's pins leaves the pump as it is.
LEMMA PumpStore ==
    ASSUME PumpInv, PortStore, TimersInv', queue' \in Seq(OnMessages)
    PROVE  PumpInv'
<1>1. /\ written' = WriteBit(written, Head(todo)) /\ todo' = Tail(todo)
      /\ todo # << >> /\ todo \in Seq(Writes)
      /\ ctl' = IF Len(todo) = 1 THEN "idle" ELSE ctl
      /\ statusBak' = statusBak /\ waterTimer' = waterTimer
  BY DEF PortStore, PumpInv, TimersInv, TypeOK
<1>2. CASE ctl = "water_on" /\ todo = PumpFirst /\ statusBak /\ waterTimer
  <2>1. todo' = PumpSecond /\ ctl' = "water_on"
    BY <1>1, <1>2, PumpWritesLeft
  <2>2. "PUMP_EN" \in written'
    BY <1>1, <1>2, PumpWritesLeft DEF WriteBit, Write
  <2> QED BY <1>1, <1>2, <2>1, <2>2 DEF PumpInv
<1>3. CASE /\ ctl = "water_on" /\ todo = PumpSecond /\ statusBak /\ waterTimer
           /\ "PUMP_EN" \in written
  <2>1. todo' = << >> /\ ctl' = "idle"
    BY <1>1, <1>3, PumpWritesLeft
  <2>2. "PUMP_EN" \in written'
    BY <1>1, <1>3, PumpWritesLeft DEF WriteBit, Write
  <2> QED BY <1>1, <1>3, <2>1, <2>2, HandlerWrites DEF PumpInv
<1>4. CASE /\ ctl \in {"idle", "feed_timer", "feed_pins"} /\ MotorWrites(todo)
           /\ statusBak <=> waterTimer
           /\ "PUMP_EN" \in written <=> waterTimer
  <2>1. Head(todo).pin \in {"MOTO_EN", "MOTO_CTL1", "MOTO_CTL2"} /\ MotorWrites(todo')
    BY <1>1, <1>4, WritesLeft
  <2>2. "PUMP_EN" \in written' <=> "PUMP_EN" \in written
    BY <1>1, <2>1 DEF WriteBit
  <2>3. ctl' \in {"idle", "feed_timer", "feed_pins"}
    BY <1>1, <1>4
  <2> QED BY <1>1, <1>4, <2>1, <2>2, <2>3 DEF PumpInv
<1> QED BY <1>1, <1>2, <1>3, <1>4 DEF PumpInv

LEMMA PumpNext ==
    ASSUME OnlyOn, PumpInv, [Next]_vars
    PROVE  PumpInv'
<1>1. TimersInv' /\ TimersInv /\ TypeOK /\ queue' \in Seq(OnMessages)
  BY TimersNext, OnlyOnQueued DEF OnlyOn, CloudIsOrderly, PumpInv, TimersInv
<1>2. CASE HandleInit
  <2>1. "PUMP_EN" \in written' <=> "PUMP_EN" \in written
    BY <1>2 DEF HandleInit, WriteBit, Write
  <2> QED BY <1>1, <1>2, <2>1 DEF HandleInit, Received, PumpInv
<1>3. CASE HandleFeedFood
  BY <1>1, <1>3 DEF HandleFeedFood, Received, PumpInv
<1>4. CASE StartFeedTimer
  <2>1. MotorWrites(todo') /\ ctl' = "feed_pins"
    BY <1>4, HandlerWrites DEF StartFeedTimer
  <2> QED BY <1>1, <1>4, <2>1 DEF StartFeedTimer, PumpInv
<1>5. CASE HandleFeedWater
  <2>1. /\ Head(queue).param # 0 /\ ctl = "idle" /\ todo = << >>
        /\ statusBak <=> waterTimer
        /\ "PUMP_EN" \in written <=> waterTimer
        /\ written' = written /\ waterTimer' = waterTimer
    BY <1>1, <1>5, Taken DEF HandleFeedWater, Received, PumpInv, TimersInv
  <2>2. statusBak \in BOOLEAN
    BY <1>1 DEF TypeOK
  <2>3. CASE statusBak
    <3>1. UNCHANGED <<statusBak, ctl, todo>>
      BY <1>5, <2>1, <2>2, <2>3 DEF HandleFeedWater
    <3> QED BY <1>1, <2>1, <3>1, HandlerWrites DEF PumpInv
  <2>4. CASE ~statusBak
    <3>1. statusBak' /\ ctl' = "water_timer" /\ todo' = << >>
      BY <1>5, <2>1, <2>2, <2>4 DEF HandleFeedWater
    <3> QED BY <1>1, <2>1, <2>4, <3>1 DEF PumpInv
  <2> QED BY <2>3, <2>4
<1>6. CASE StartWaterTimer
  <2>1. inited /\ ctl = "water_timer" /\ statusBak
    BY <1>1, <1>6 DEF StartWaterTimer, TimersInv, PumpInv
  <2>2. /\ ctl' = "water_on" /\ todo' = PumpFirst
        /\ statusBak' /\ waterTimer'
    BY <1>6, <2>1 DEF StartWaterTimer, PumpFirst
  <2> QED BY <1>1, <2>2 DEF PumpInv
<1>7. CASE PortStore
  BY <1>1, <1>7, PumpStore
<1>8. CASE FeedTimerExpires
  <2>1. "PUMP_EN" \in written' <=> "PUMP_EN" \in written
    BY <1>8 DEF FeedTimerExpires, MotoOff
  <2> QED BY <1>1, <1>8, <2>1 DEF FeedTimerExpires, PumpInv
<1>9. CASE WaterTimerExpires
  <2>1. /\ ctl \in {"idle", "feed_timer", "feed_pins"} /\ MotorWrites(todo)
        /\ statusBak /\ waterTimer
    BY <1>9 DEF WaterTimerExpires, PumpInv
  <2>2. "PUMP_EN" \notin written' /\ ~statusBak' /\ ~waterTimer'
    BY <1>9, <2>1 DEF WaterTimerExpires, PumpOff
  <2> QED BY <1>1, <1>9, <2>1, <2>2 DEF WaterTimerExpires, PumpInv
<1>10. CASE Elsewhere
  BY <1>1, <1>10, ElsewhereWritesNothing DEF PumpInv
<1> QED
  BY <1>2, <1>3, <1>4, <1>5, <1>6, <1>7, <1>8, <1>9, <1>10, NextCases

\* hal/control.c:230-250.  On a device that is only ever told to turn the pump
\* on, the pump is driven between messages exactly while the timer that bounds
\* its portion is running, unless the port has lost the pump's last write.
THEOREM PumpRunsAsItsTimer ==
    ASSUME OnlyOn
    PROVE  Spec => []PumpRunsWithTimer
<1>1. PumpInv => PumpRunsWithTimer
  BY DEF PumpInv, PumpRunsWithTimer, Lost, Pins
<1>2. PumpInv /\ [Next]_vars => PumpInv'
  BY PumpNext
<1> QED BY <1>1, <1>2, PumpInit, PTL DEF Spec

-----------------------------------------------------------------------------
(* A device that uses one side only, and nobody tares its balance: then the *)
(* port loses nothing, so that pins and written are the same.               *)

FeedsOnly == CloudIsOrderly /\ ~Tares /\ WaterParams = {} /\ Detectors \subseteq {"food"}

WatersOnly == CloudIsOrderly /\ ~Tares /\ Portions = {} /\ Detectors \subseteq {"water"}

\* Whose handlers and timers are at work.
OneSide ==
    \/ FeedsOnly /\ queue \in Seq(FeedMessages) /\ ~waterTimer
       /\ ctl \in {"idle", "feed_timer", "feed_pins"}
    \/ WatersOnly /\ queue \in Seq(WaterMessages) /\ ~feedTimer
       /\ ctl \in {"idle", "water_timer", "water_on", "water_off"}

\* While a copy of the port is held nobody else writes it: the timer of the
\* handler's own run is not due, and an older one finds status_bak cleared.
WholeInv ==
    /\ TimersInv
    /\ OneSide
    /\ app # "tare"
    /\ pins = written
    /\ loaded => todo # << >> /\ latch = pins
    /\ ctl = "water_off" => ~statusBak

LEMMA WholeInit == (FeedsOnly \/ WatersOnly) /\ Init => WholeInv
BY TimersInit DEF Init, WholeInv, OneSide

\* Nobody asks for the other side.
LEMMA OneSideQueued ==
    ASSUME OneSide, [Next]_vars
    PROVE  \/ FeedsOnly /\ queue \in Seq(FeedMessages) /\ queue' \in Seq(FeedMessages)
              /\ ~waterTimer /\ ctl \in {"idle", "feed_timer", "feed_pins"}
           \/ WatersOnly /\ queue \in Seq(WaterMessages) /\ queue' \in Seq(WaterMessages)
              /\ ~feedTimer /\ ctl \in {"idle", "water_timer", "water_on", "water_off"}
<1>1. \A s \in {"INIT", "PLAY_VOICE"} \cup Exceptions, n \in {0, 1} :
         Msg(s, n) \in FeedMessages /\ Msg(s, n) \in WaterMessages
  BY Reports
<1>2. CASE /\ FeedsOnly /\ queue \in Seq(FeedMessages)
           /\ ~waterTimer /\ ctl \in {"idle", "feed_timer", "feed_pins"}
  <2>1. /\ \A n \in Portions : Msg("FEEDFOOD_START", n) \in FeedMessages
        /\ Msg("FEEDFOOD_START", 1) \in FeedMessages
    BY Requests, PortionsAssumption
  <2>2. WaterParams = {} /\ "water" \notin Detectors
    BY <1>2 DEF FeedsOnly
  <2>3. queue' \in Seq(FeedMessages)
    BY <1>1, <1>2, <2>1, <2>2, Queued
  <2> QED BY <1>2, <2>3
<1>3. CASE /\ WatersOnly /\ queue \in Seq(WaterMessages)
           /\ ~feedTimer /\ ctl \in {"idle", "water_timer", "water_on", "water_off"}
  <2>1. /\ \A w \in WaterParams : Msg("FEEDWATER", w) \in WaterMessages
        /\ Msg("FEEDWATER", 1) \in WaterMessages
    BY Requests, WaterAssumption
  <2>2. Portions = {} /\ "food" \notin Detectors
    BY <1>3 DEF WatersOnly
  <2>3. queue' \in Seq(WaterMessages)
    BY <1>1, <1>3, <2>1, <2>2, Queued
  <2> QED BY <1>3, <2>3
<1> QED BY <1>2, <1>3 DEF OneSide

LEMMA OneSideNext ==
    ASSUME TimersInv, OneSide, [Next]_vars
    PROVE  OneSide'
<1>1. ASSUME FeedsOnly, queue \in Seq(FeedMessages), queue' \in Seq(FeedMessages),
             ~waterTimer, ctl \in {"idle", "feed_timer", "feed_pins"}
      PROVE  OneSide'
  <2>1. ~Received("FEEDWATER")
    BY <1>1, Taken
  <2>2. ~HandleFeedWater /\ ~StartWaterTimer /\ ~WaterTimerExpires
    BY <1>1, <2>1 DEF HandleFeedWater, StartWaterTimer, WaterTimerExpires
  <2>3. CASE HandleInit \/ HandleFeedFood \/ StartFeedTimer \/ PortStore \/ FeedTimerExpires
    <3>1. waterTimer' = waterTimer /\ ctl' \in {"idle", "feed_timer", "feed_pins"}
      BY <1>1, <2>3 DEF HandleInit, HandleFeedFood, StartFeedTimer, PortStore, FeedTimerExpires
    <3> QED BY <1>1, <3>1 DEF OneSide
  <2>4. CASE Elsewhere
    BY <1>1, <2>4, ElsewhereWritesNothing DEF OneSide
  <2> QED BY <2>2, <2>3, <2>4, NextCases
<1>2. ASSUME WatersOnly, queue \in Seq(WaterMessages), queue' \in Seq(WaterMessages),
             ~feedTimer, ctl \in {"idle", "water_timer", "water_on", "water_off"}
      PROVE  OneSide'
  <2>1. ~Received("FEEDFOOD_START")
    BY <1>2, Taken
  <2>2. ~HandleFeedFood /\ ~StartFeedTimer /\ ~FeedTimerExpires
    BY <1>2, <2>1 DEF HandleFeedFood, StartFeedTimer, FeedTimerExpires
  <2>3. CASE HandleInit \/ HandleFeedWater \/ StartWaterTimer \/ PortStore \/ WaterTimerExpires
    <3>1. feedTimer' = feedTimer /\ ctl' \in {"idle", "water_timer", "water_on", "water_off"}
      BY <1>2, <2>3 DEF HandleInit, HandleFeedWater, StartWaterTimer, PortStore, WaterTimerExpires
    <3> QED BY <1>2, <3>1 DEF OneSide
  <2>4. CASE Elsewhere
    BY <1>2, <2>4, ElsewhereWritesNothing DEF OneSide
  <2> QED BY <2>2, <2>3, <2>4, NextCases
<1> QED BY <1>1, <1>2, OneSideQueued

LEMMA WholeNext ==
    ASSUME WholeInv, [Next]_vars
    PROVE  WholeInv'
<1>1. /\ TimersInv /\ TypeOK /\ OneSide /\ CloudIsOrderly /\ ~Tares
      /\ app # "tare" /\ pins = written
      /\ loaded => todo # << >> /\ latch = pins
      /\ ctl = "water_off" => ~statusBak
      /\ loaded => ctl \in {"feed_pins", "water_on", "water_off"}
  BY DEF WholeInv, OneSide, FeedsOnly, WatersOnly, TimersInv
<1>2. TimersInv' /\ OneSide'
  BY <1>1, TimersNext, OneSideNext DEF CloudIsOrderly
<1>3. CASE HandleInit
  <2>1. pins' = written'
    BY <1>1, <1>3 DEF HandleInit
  <2>2. UNCHANGED <<statusBak, ctl, todo, loaded, app>> /\ ~loaded
    BY <1>1, <1>3 DEF HandleInit, Received
  <2> QED BY <1>1, <1>2, <2>1, <2>2 DEF WholeInv
<1>4. CASE HandleFeedFood \/ StartFeedTimer \/ StartWaterTimer
  <2>1. UNCHANGED <<statusBak, pins, written, loaded, app>> /\ ~loaded /\ ctl' # "water_off"
    BY <1>1, <1>4 DEF HandleFeedFood, StartFeedTimer, StartWaterTimer, Received
  <2> QED BY <1>1, <1>2, <2>1 DEF WholeInv
<1>5. CASE HandleFeedWater
  BY <1>1, <1>2, <1>5 DEF HandleFeedWater, Received, WholeInv
<1>6. CASE PortStore
  BY <1>1, <1>2, <1>6 DEF PortStore, WholeInv
<1>7. CASE FeedTimerExpires
  <2>1. ~loaded
    BY <1>1, <1>7 DEF FeedTimerExpires, OneSide
  <2>2. pins' = written'
    BY <1>1, <1>7 DEF FeedTimerExpires
  <2>3. UNCHANGED <<statusBak, ctl, todo, loaded, app>>
    BY <1>7 DEF FeedTimerExpires
  <2> QED BY <1>1, <1>2, <2>1, <2>2, <2>3 DEF WholeInv
<1>8. CASE WaterTimerExpires
  <2>1. ~loaded \/ ~statusBak
    BY <1>1, <1>8 DEF WaterTimerExpires, OneSide
  <2> QED BY <1>1, <1>2, <1>8, <2>1 DEF WaterTimerExpires, WholeInv
<1>9. CASE PortLoad
  BY <1>1, <1>2, <1>9 DEF PortLoad, WholeInv
<1>10. CASE UNCHANGED vars \/ AppStep \/ IsrStep \/ TimerReport \/ HandleReport
  <2>1. UNCHANGED <<statusBak, pins, written, ctl, todo, loaded, latch>> /\ app' # "tare"
    BY <1>1, <1>10 DEF vars, AppStep, IsrStep, CloudConnected, DpFeedNum, DpWaterNum,
       DpRequest, DpVoice, DpUsageMode, TareBegins, TareLoad, TareStore, FeedFoodDet,
       FeedWaterDet, Detected, HoldoffEnds, TimerReport, HandleReport
  <2> QED BY <1>1, <1>2, <2>1 DEF WholeInv
<1> QED
  BY <1>3, <1>4, <1>5, <1>6, <1>7, <1>8, <1>9, <1>10, NextCases DEF Elsewhere

\* inc/peripheral/rtl876x_gpio.h:478-492 with hal/control.c:140-250.  On a
\* device that only feeds, or only waters, and whose balance is not tared, the
\* port loses no write: every callback that writes it comes when the control
\* task holds no copy of it.
THEOREM OneSideLosesNothing ==
    ASSUME FeedsOnly \/ WatersOnly
    PROVE  Spec => []NoWriteIsLost
<1>1. WholeInv => NoWriteIsLost
  BY DEF WholeInv, NoWriteIsLost, Lost
<1>2. WholeInv /\ [Next]_vars => WholeInv'
  BY WholeNext
<1>3. Init => WholeInv
  BY WholeInit
<1> QED BY <1>1, <1>2, <1>3, PTL DEF Spec
=============================================================================
