----------------------------- MODULE DataPoints -----------------------------
(***************************************************************************)
(* What the device does with a frame of data points: data_handle walks the  *)
(* frame, data_point_handle looks each point up, its dp_download handler in *)
(* tuya/protocol.c has app/control_task.c post commands to the control task *)
(* and answers the cloud.  The control task (FeedControl in full) takes the *)
(* commands meanwhile; here it is a count of portions.                      *)
(***************************************************************************)
EXTENDS Integers, Sequences

CONSTANTS
    Frames,    \* the data of the frames the cloud sends, as points
    QLen,      \* capacity of the control queue, 32 in the code
    MaxFrames  \* bound of the model: frames the cloud sends

ASSUME QLenAssumption == QLen \in Nat \ {0}
ASSUME MaxFramesAssumption == MaxFrames \in Nat

DP_TYPE_BOOL == 1
DP_TYPE_VALUE == 2
DP_TYPE_ENUM == 4

DPID_FEED_NUM == 231
DPID_FEED_WEIGHT == 232
DPID_HISTORY_DATA == 233
DPID_FEED_VOICE_RECORD == 234
DPID_REALTIME_DATA == 235
DPID_WATER_NUM == 236
DPID_FEED_REMAINING == 237
DPID_IPC_USAGE_MODE == 238

\* The table of points and their types.
download_cmd == {<<DPID_FEED_NUM, DP_TYPE_VALUE>>,
                 <<DPID_FEED_WEIGHT, DP_TYPE_VALUE>>,
                 <<DPID_HISTORY_DATA, DP_TYPE_BOOL>>,
                 <<DPID_FEED_VOICE_RECORD, DP_TYPE_ENUM>>,
                 <<DPID_REALTIME_DATA, DP_TYPE_ENUM>>,
                 <<DPID_WATER_NUM, DP_TYPE_BOOL>>,
                 <<DPID_FEED_REMAINING, DP_TYPE_VALUE>>,
                 <<DPID_IPC_USAGE_MODE, DP_TYPE_ENUM>>}

\* The points dp_download_handle has a case for.
Handled == {DPID_FEED_NUM, DPID_HISTORY_DATA, DPID_FEED_VOICE_RECORD,
            DPID_WATER_NUM, DPID_IPC_USAGE_MODE}

Point(dpid, type, value) == [dpid |-> dpid, type |-> type, value |-> value]

\* The bytes of a value: four, high byte first, or one.
Bytes(p) == IF p.type = DP_TYPE_VALUE
            THEN <<p.value \div 16777216, (p.value \div 65536) % 256,
                   (p.value \div 256) % 256, p.value % 256>>
            ELSE <<p.value>>

\* What a frame carries: bytes, of which a value takes four or one.
ASSUME FramesAssumption ==
    \A points \in Frames :
        /\ points \in Seq([dpid : 0..255, type : 0..255, value : Nat])
        /\ \A n \in DOMAIN points :
              IF points[n].type = DP_TYPE_VALUE
              THEN points[n].value \div 16777216 <= 255
              ELSE points[n].value <= 255

\* The first n of some sequences in one, for every n.
Joined(seqs) ==
    LET joined[n \in 0..Len(seqs)] ==
            IF n = 0 THEN <<>> ELSE joined[n - 1] \o seqs[n]
    IN joined

\* Id, type, two bytes of length and the value.
PointBytes(p) == <<p.dpid, p.type, 0, Len(Bytes(p))>> \o Bytes(p)

\* The data of the first n points of a frame, and of all.
EncodedTo(points, n) == Joined([m \in 1..Len(points) |-> PointBytes(points[m])])[n]
Encoded(points) == EncodedTo(points, Len(points))

byte_to_int(v) == v[1] * 16777216 + v[2] * 65536 + v[3] * 256 + v[4]

Command(subtype, param) == [subtype |-> subtype, param |-> param]

Answer(dpid, value) == <<dpid, value>>

VARIABLES
    frame,    \* the points of the frame being handled
    data,     \* wifi_data_process_buf from offset + DATA_START
    i,        \* data_handle's index into it
    stage,    \* where the app task is in the frame
    answers,  \* frames sent since: an answer, or the start or stop of a record
    queue,    \* msg_queue_handle of the control task
    autoFeed, \* g_auto_feed_flag
    portions, \* g_feed_food_num
    timer,    \* feedfood_timer_handle has been started
    fed,      \* portions delivered
    answered, \* portions the cloud was told of
    zeros,    \* times it was told of none
    frames    \* frames received

feedVars == <<portions, timer, fed>>
toldVars == <<answered, zeros>>

vars == <<frame, data, i, stage, answers, queue, autoFeed, feedVars, toldVars,
          frames>>

Init == /\ frame = <<>>
        /\ data = <<>>
        /\ i = 0
        /\ stage = "idle"
        /\ answers = <<>>
        /\ queue = <<>>
        /\ autoFeed = TRUE
        /\ portions = 0
        /\ timer = FALSE
        /\ fed = 0
        /\ answered = 0
        /\ zeros = 0
        /\ frames = 0

\* Mutant of Send: the sender does not stop at the capacity.
SendUnbounded(m) == queue' = Append(queue, m)

\* os_msg_send(msg_queue_handle, &msg, 0): no wait, the result is ignored.
Send(m) == queue' = IF Len(queue) < QLen THEN Append(queue, m) ELSE queue

-----------------------------------------------------------------------------
(* The app task: data_handle, case DATA_QUERT_CMD.                         *)

\* wifi_uart_service has found a frame of data points.
Receive == /\ stage = "idle"
           /\ frames < MaxFrames
           /\ \E f \in Frames : frame' = f /\ data' = Encoded(f)
           /\ i' = 0
           /\ answers' = <<>>
           /\ stage' = "point"
           /\ frames' = frames + 1
           /\ UNCHANGED <<queue, autoFeed, feedVars, toldVars>>

\* The point at i.
dp_id == data[i + 1]
dp_type == data[i + 2]
dp_len == data[i + 3] * 256 + data[i + 4]
Value == IF dp_type = DP_TYPE_VALUE
         THEN byte_to_int(SubSeq(data, i + 5, i + 8)) ELSE data[i + 5]

AtPoint == stage = "point" /\ i < Len(data)

\* Mutant of IsListed: the type is not looked at.
IsListedAnyType == \E t \in 0..5 : <<dp_id, t>> \in download_cmd

\* data_point_handle finds the point and its type in the table.
IsListed == <<dp_id, dp_type>> \in download_cmd

\* i += (dp_len + 4).
Step == i + dp_len + 4

\* mcu_dp_bool_update sends 0 or 1, the others send the value.
Reported == IF dp_type = DP_TYPE_BOOL /\ Value # 0 THEN 1 ELSE Value

\* The end of a handler: the answer to the cloud, and on to the next point.
AnswerAndStep(sent) ==
    /\ answers' = Append(answers \o sent, Answer(dp_id, Reported))
    /\ i' = Step
    /\ stage' = "point"

\* A point of another type, or one that is only reported, is passed over.
PassOver == /\ AtPoint
            /\ ~ (IsListed /\ dp_id \in Handled)
            /\ i' = Step
            /\ UNCHANGED <<frame, data, stage, answers, queue, autoFeed,
                           feedVars, toldVars, frames>>

Is(dpid) == AtPoint /\ IsListed /\ dp_id = dpid

\* control_feed_num and control_feed_water: first the command.
HandleFeedNum == /\ Is(DPID_FEED_NUM)
                 /\ Send(Command("FEEDFOOD_START", Value))
                 /\ stage' = "prompt"
                 /\ UNCHANGED <<frame, data, i, answers, autoFeed, feedVars,
                                toldVars, frames>>

HandleWaterNum == /\ Is(DPID_WATER_NUM)
                  /\ Send(Command("FEEDWATER", Value))
                  /\ stage' = "prompt"
                  /\ UNCHANGED <<frame, data, i, answers, autoFeed, feedVars,
                                 toldVars, frames>>

\* Then the voice prompt.
Prompt == /\ stage = "prompt"
          /\ Send(Command("PLAY_VOICE", 1))
          /\ stage' = "answer"
          /\ UNCHANGED <<frame, data, i, answers, autoFeed, feedVars, toldVars,
                         frames>>

\* And mcu_dp_value_update or mcu_dp_bool_update.
AnswerCommand ==
    /\ stage = "answer"
    /\ AnswerAndStep(<<>>)
    /\ answered' = IF dp_id = DPID_FEED_NUM THEN answered + Value ELSE answered
    /\ zeros' = IF dp_id = DPID_FEED_NUM /\ Value = 0 THEN zeros + 1 ELSE zeros
    /\ UNCHANGED <<frame, data, queue, autoFeed, feedVars, frames>>

HandleHistory == /\ Is(DPID_HISTORY_DATA)
                 /\ AnswerAndStep(<<>>)
                 /\ UNCHANGED <<frame, data, queue, autoFeed, feedVars, toldVars,
                                frames>>

\* module_record sends a frame of its own.
HandleVoiceRecord ==
    /\ Is(DPID_FEED_VOICE_RECORD)
    /\ AnswerAndStep(<<IF Value # 0 THEN <<"record">> ELSE <<"stop">>>>)
    /\ UNCHANGED <<frame, data, queue, autoFeed, feedVars, toldVars, frames>>

\* control_set_auto_feed takes a bool.
HandleUsageMode == /\ Is(DPID_IPC_USAGE_MODE)
                   /\ autoFeed' = (Value # 0)
                   /\ AnswerAndStep(<<>>)
                   /\ UNCHANGED <<frame, data, queue, feedVars, toldVars, frames>>

FrameEnds == /\ stage = "point"
             /\ i >= Len(data)
             /\ stage' = "idle"
             /\ UNCHANGED <<frame, data, i, answers, queue, autoFeed, feedVars,
                            toldVars, frames>>

-----------------------------------------------------------------------------
(* The control task and its timer.                                         *)

\* feed_food: a number of portions, cut to a byte, unless some are left; the
\* timer is started for none as well.
feed_food(num) == IF portions = 0
                  THEN portions' = num % 256 /\ timer' = TRUE
                  ELSE UNCHANGED <<portions, timer>>

\* Mutant of TakeCommand: a command is looked at but left in the queue while
\* it is carried out.
TakeCommandPeek ==
    /\ queue # <<>>
    /\ IF Head(queue).subtype = "FEEDFOOD_START" /\ portions = 0
       THEN feed_food(Head(queue).param) /\ UNCHANGED queue
       ELSE queue' = Tail(queue) /\ UNCHANGED <<portions, timer>>
    /\ UNCHANGED <<frame, data, i, stage, answers, autoFeed, fed, toldVars, frames>>

\* control_handle_io_msg.
TakeCommand ==
    /\ queue # <<>>
    /\ queue' = Tail(queue)
    /\ IF Head(queue).subtype = "FEEDFOOD_START" THEN feed_food(Head(queue).param)
       ELSE UNCHANGED <<portions, timer>>
    /\ UNCHANGED <<frame, data, i, stage, answers, autoFeed, fed, toldVars, frames>>

\* feedfood_timer_callback: of no portions, 255 are left after one.
Portion == /\ timer
           /\ portions' = (portions + 255) % 256
           /\ timer' = (portions' # 0)
           /\ fed' = fed + 1
           /\ UNCHANGED <<frame, data, i, stage, answers, queue, autoFeed, toldVars,
                          frames>>

HandlePoint == \/ PassOver \/ HandleFeedNum \/ HandleWaterNum \/ Prompt
               \/ AnswerCommand \/ HandleHistory \/ HandleVoiceRecord
               \/ HandleUsageMode \/ FrameEnds

Next == Receive \/ HandlePoint \/ TakeCommand \/ Portion

Spec == /\ Init
        /\ [][Next]_vars
        /\ WF_vars(HandlePoint)
        /\ WF_vars(TakeCommand)
        /\ WF_vars(Portion)

-----------------------------------------------------------------------------
TypeOK ==
    /\ frame \in Frames \cup {<<>>}
    /\ data = Encoded(frame)
    /\ i \in 0..Len(data)
    /\ stage \in {"idle", "point", "prompt", "answer"}
    /\ Len(queue) <= QLen
    /\ autoFeed \in BOOLEAN
    /\ portions \in 0..255
    /\ timer \in BOOLEAN
    /\ fed \in Nat
    /\ answered \in Nat
    /\ zeros \in Nat
    /\ frames \in 0..MaxFrames

\* What the cloud is to be told of a value: of a BOOL, whether it is set.
ToldOf(p) == IF p.type # DP_TYPE_BOOL THEN p.value
             ELSE IF p.value = 0 THEN 0 ELSE 1

\* What a frame of points is to be answered with: every point the device
\* handles, once and in order, and a record of voice started or stopped before
\* its answer.
AnswersTo(p) ==
    IF ~ (<<p.dpid, p.type>> \in download_cmd /\ p.dpid \in Handled) THEN <<>>
    ELSE IF p.dpid = DPID_FEED_VOICE_RECORD
    THEN <<IF p.value # 0 THEN <<"record">> ELSE <<"stop">>,
           Answer(p.dpid, ToldOf(p))>>
    ELSE <<Answer(p.dpid, ToldOf(p))>>

ExpectedTo(points, n) == Joined([m \in 1..Len(points) |-> AnswersTo(points[m])])[n]
Expected(points) == ExpectedTo(points, Len(points))

\* tuya/system.c:498-517, tuya/protocol.c:167-365.  A frame that was handled
\* has had the answers it is to have, whatever lies between its points.
PointsAreAnswered == stage = "idle" => answers = Expected(frame)

\* The portions a run gives that is begun with a counter of n.
Run(n) == IF n = 0 THEN 256 ELSE n

\* The portions a command in the queue is for, at most.
Requested(m) == IF m.subtype = "FEEDFOOD_START" THEN Run(m.param % 256) ELSE 0

Totals(q) ==
    LET total[n \in 0..Len(q)] == IF n = 0 THEN 0 ELSE total[n - 1] + Requested(q[n])
    IN total

\* Portions in commands that are still queued.
Queued == Totals(queue)[Len(queue)]

\* Portions still to come of the run that is under way.
Owed == IF timer THEN Run(portions) ELSE 0

\* Portions of the command that is queued but not answered yet.
Unanswered == IF stage \in {"prompt", "answer"} /\ dp_id = DPID_FEED_NUM
              THEN Run(Value) ELSE 0

\* app/control_task.c:169-189, hal/control.c:158-206.  No portion is fed that
\* was not asked for: however commands are refused and dropped and numbers cut
\* to a byte, what was fed and what is under way is never more than what was
\* answered, but for the 256 portions of every request for none.
FedIsAnswered ==
    fed + Owed + Queued <= answered + 256 * zeros + Unanswered

\* tuya/protocol.h:260-262.  Portions the cloud was told of have been fed, or
\* are being fed, or are queued to be.
AnsweredIsFed == stage = "point" => answered <= fed + Owed + Queued
=============================================================================
