------------------------------ MODULE TxFrame ------------------------------
(***************************************************************************)
(* How a frame reaches the Wi-Fi module: tuya/system.c's                    *)
(* set_wifi_uart_byte, wifi_uart_write_frame and wifi_uart_write_data, and  *)
(* the mcu_dp_*_update functions of tuya/mcu_api.c that fill the frame.     *)
(* wifi_uart_tx_buf is one buffer for the whole program and has no lock;    *)
(* the app task and the control task, of equal priority, both send frames.  *)
(* A step is one access to the buffer.                                      *)
(***************************************************************************)
EXTENDS Integers, Sequences

CONSTANTS
    Tasks,    \* the tasks that send frames
    Requests, \* what a task may send: a function from tasks to sets of Frames
    WIFIR_UART_SEND_BUF_LMT, \* room for data in the buffer, 48 in the code
    MaxCalls  \* bound of the model: a function from tasks to the frames they send

MCU_TX_VER == 3
PROTOCOL_HEAD == 7
DATA_START == 6

HEAT_BEAT_CMD == 0
STATE_UPLOAD_CMD == 7
VOICE_PLAY_RECORD_CMD == 162

Byte == 0..255

\* What a caller asks wifi_uart_write_frame for: a frame type, and the data it
\* has set_wifi_uart_byte put into the buffer first.
Request(fr_type, data) == [type |-> fr_type, data |-> data]

\* Frames without data: the replies to WORK_MODE_CMD and WIFI_STATE_CMD, and
\* WIFI_RESET_CMD.
Plain(fr_type) == Request(fr_type, <<>>)

mcu_dp_bool_update(dpid, value) ==
    Request(STATE_UPLOAD_CMD, <<dpid, 1, 0, 1, IF value THEN 1 ELSE 0>>)

mcu_dp_enum_update(dpid, value) ==
    Request(STATE_UPLOAD_CMD, <<dpid, 4, 0, 1, value>>)

mcu_dp_value_update(dpid, value) ==
    Request(STATE_UPLOAD_CMD, <<dpid, 2, 0, 4>> \o
        <<(value \div 16777216) % 256, (value \div 65536) % 256,
          (value \div 256) % 256, value % 256>>)

module_play_voice(num) == Request(VOICE_PLAY_RECORD_CMD, <<num>>)

\* The data byte tells the module whether the MCU has just restarted.
HeartBeat(reset) == Request(HEAT_BEAT_CMD, <<IF reset THEN 1 ELSE 0>>)

\* The bytes before the data, in the order they are stored.
Header(r) == <<85, 170, MCU_TX_VER, r.type,
               Len(r.data) \div 256, Len(r.data) % 256>>

FrameLen(r) == Len(r.data) + PROTOCOL_HEAD

\* The sums of the first bytes, for every number of them.
Sums(bytes) ==
    LET sum[n \in 0..Len(bytes)] ==
          IF n = 0 THEN 0 ELSE (sum[n - 1] + bytes[n]) % 256
    IN sum

CheckSum(bytes) == Sums(bytes)[Len(bytes)]

\* The frame format of the Wi-Fi module, for reference.
Body(r) == Header(r) \o r.data
Frame(r) == Append(Body(r), CheckSum(Body(r)))

BufLen == PROTOCOL_HEAD + WIFIR_UART_SEND_BUF_LMT

\* The length of the data goes into two bytes.
ASSUME LimitAssumption ==
    WIFIR_UART_SEND_BUF_LMT \in Nat \ {0} /\ WIFIR_UART_SEND_BUF_LMT < 65536

\* A frame is made of bytes and fits into the buffer.
ASSUME RequestsAssumption ==
    \A t \in Tasks : \A r \in Requests[t] :
        /\ r = Request(r.type, r.data)
        /\ r.type \in Byte
        /\ r.data \in Seq(Byte) /\ Len(r.data) <= WIFIR_UART_SEND_BUF_LMT

ASSUME TasksAssumption == "app" \in Tasks /\ MaxCalls \in [Tasks -> Nat]

VARIABLES
    buf,             \* wifi_uart_tx_buf, from 0
    mcu_reset_state, \* heat_beat_check's static: a heartbeat was answered
    pc,              \* where each task is in its call
    at,              \* index of the byte a task is about to access
    check_sum,       \* the local of each call
    request,         \* the frame of each task's last call
    calls,           \* calls each task has made
    sent,            \* bytes each task put on the wire in its last call
    alone            \* no other task was in a call during it

vars == <<buf, mcu_reset_state, pc, at, check_sum, request, calls, sent, alone>>

Stages == {"idle", "data", "head", "sum", "store", "send"}

Init == /\ buf = [k \in 0..BufLen-1 |-> 0]
        /\ mcu_reset_state = FALSE
        /\ pc = [t \in Tasks |-> "idle"]
        /\ at = [t \in Tasks |-> 0]
        /\ check_sum = [t \in Tasks |-> 0]
        /\ request = [t \in Tasks |-> Plain(0)]
        /\ calls = [t \in Tasks |-> 0]
        /\ sent = [t \in Tasks |-> <<>>]
        /\ alone = [t \in Tasks |-> FALSE]

Others(t) == Tasks \ {t}

\* A task sends r: mcu_dp_*_update, module_play_voice, a reply of data_handle.
Call(t, r) ==
    /\ pc[t] = "idle"
    /\ calls[t] < MaxCalls[t]
    /\ calls' = [calls EXCEPT ![t] = @ + 1]
    /\ pc' = [pc EXCEPT ![t] = IF r.data = <<>> THEN "head" ELSE "data"]
    /\ at' = [at EXCEPT ![t] = 0]
    /\ request' = [request EXCEPT ![t] = r]
    /\ check_sum' = [check_sum EXCEPT ![t] = 0]
    /\ sent' = [sent EXCEPT ![t] = <<>>]
    /\ alone' = [u \in Tasks |->
                    IF u = t THEN \A o \in Others(t) : pc[o] = "idle"
                    ELSE alone[u] /\ pc[u] = "idle"]
    /\ UNCHANGED buf

\* heat_beat_check answers the first heartbeat after a restart with 0.
AnswerHeartBeat(t) ==
    /\ Call(t, HeartBeat(mcu_reset_state))
    /\ mcu_reset_state' = TRUE

\* One of the task's other frames.
Update(t) ==
    /\ \E r \in Requests[t] : Call(t, r)
    /\ UNCHANGED mcu_reset_state

\* Go on to byte n of this stage, or to the next stage when it was the last.
Advance(t, last, next) ==
    IF at[t] = last
    THEN /\ pc' = [pc EXCEPT ![t] = next]
         /\ at' = [at EXCEPT ![t] = 0]
    ELSE /\ at' = [at EXCEPT ![t] = @ + 1]
         /\ UNCHANGED pc

\* set_wifi_uart_byte.
StoreData(t) ==
    /\ pc[t] = "data"
    /\ buf' = [buf EXCEPT ![DATA_START + at[t]] = request[t].data[at[t] + 1]]
    /\ Advance(t, Len(request[t].data) - 1, "head")
    /\ UNCHANGED <<mcu_reset_state, check_sum, request, calls, sent, alone>>

\* wifi_uart_write_frame: HEAD_FIRST to LENGTH_LOW.
StoreHead(t) ==
    /\ pc[t] = "head"
    /\ buf' = [buf EXCEPT ![at[t]] = Header(request[t])[at[t] + 1]]
    /\ Advance(t, DATA_START - 1, "sum")
    /\ UNCHANGED <<mcu_reset_state, check_sum, request, calls, sent, alone>>

\* Mutant of AddByte: the sum runs over the place of the checksum as well.
AddByteToo(t) ==
    /\ pc[t] = "sum"
    /\ check_sum' = [check_sum EXCEPT ![t] = (@ + buf[at[t]]) % 256]
    /\ Advance(t, FrameLen(request[t]) - 1, "store")
    /\ UNCHANGED <<buf, mcu_reset_state, request, calls, sent, alone>>

\* Mutant of AddByte: the sum is kept in more than a byte.
AddByteWide(t) ==
    /\ pc[t] = "sum"
    /\ check_sum' = [check_sum EXCEPT ![t] = @ + buf[at[t]]]
    /\ Advance(t, FrameLen(request[t]) - 2, "store")
    /\ UNCHANGED <<buf, mcu_reset_state, request, calls, sent, alone>>

\* get_check_sum over all but the last byte.
AddByte(t) ==
    /\ pc[t] = "sum"
    /\ check_sum' = [check_sum EXCEPT ![t] = (@ + buf[at[t]]) % 256]
    /\ Advance(t, FrameLen(request[t]) - 2, "store")
    /\ UNCHANGED <<buf, mcu_reset_state, request, calls, sent, alone>>

StoreSum(t) ==
    /\ pc[t] = "store"
    /\ buf' = [buf EXCEPT ![FrameLen(request[t]) - 1] = check_sum[t]]
    /\ pc' = [pc EXCEPT ![t] = "send"]
    /\ UNCHANGED <<mcu_reset_state, at, check_sum, request, calls, sent, alone>>

\* wifi_uart_write_data: uart_transmit_output of one byte.
SendByte(t) ==
    /\ pc[t] = "send"
    /\ sent' = [sent EXCEPT ![t] = Append(@, buf[at[t]])]
    /\ Advance(t, FrameLen(request[t]) - 1, "idle")
    /\ UNCHANGED <<buf, mcu_reset_state, check_sum, request, calls, alone>>

Work(t) == \/ StoreData(t)
           \/ StoreHead(t)
           \/ AddByte(t)
           \/ StoreSum(t)
           \/ SendByte(t)

Next == \/ \E t \in Tasks : Update(t) \/ Work(t)
        \/ AnswerHeartBeat("app")

Spec == Init /\ [][Next]_vars

-----------------------------------------------------------------------------
TypeOK ==
    /\ buf \in [0..BufLen-1 -> Byte]
    /\ mcu_reset_state \in BOOLEAN
    /\ pc \in [Tasks -> Stages]
    /\ \A t \in Tasks :
         /\ request[t] \in Requests[t] \cup {Plain(0)} \cup
                           {HeartBeat(b) : b \in BOOLEAN}
         /\ at[t] \in 0..FrameLen(request[t]) - 1
    /\ check_sum \in [Tasks -> Byte]
    /\ \A t \in Tasks : calls[t] \in 0..MaxCalls[t]
    /\ \A t \in Tasks : /\ sent[t] \in Seq(Byte)
                        /\ Len(sent[t]) <= FrameLen(request[t])
    /\ alone \in [Tasks -> BOOLEAN]

Ended(t) == pc[t] = "idle" /\ calls[t] > 0

\* tuya/system.c:106-122.  What a call sends is its frame, whatever an
\* earlier one left in the buffer, if no other task was in a call meanwhile.
LoneFramesAreWhole ==
    \A t \in Tasks : Ended(t) /\ alone[t] => sent[t] = Frame(request[t])
=============================================================================
