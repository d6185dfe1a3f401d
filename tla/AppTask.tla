------------------------------ MODULE AppTask ------------------------------
(***************************************************************************)
(* The app task, app/app_task.c: each pass of app_main_task serves the      *)
(* Wi-Fi module's frames, takes one message off the queue and handles it.   *)
(* Messages come from the task itself, which a frame or a message may make  *)
(* post another, and from the timer task: the scan of the keys (Keyboard)   *)
(* and the battery timer of drivers/battery.c.  A full queue refuses a      *)
(* message and app_send_msg does not look.                                  *)
(***************************************************************************)
EXTENDS Keyboard

CONSTANTS
    QueueLen,    \* MAX_NUMBER_OF_IO_MESSAGE, 32 in the code
    MaxPresses,  \* bound of the model: presses of all keys
    MaxNews      \* bound of the model: changes of the Wi-Fi state, and samples

ASSUME QueueLenAssumption == QueueLen \in Nat \ {0}
ASSUME BoundsAssumption == MaxPresses \in Nat /\ MaxNews \in Nat

VARIABLES
    io_queue, \* the message queue of the task
    stage,    \* where a pass of app_main_task is
    current,  \* the message taken off the queue, while it is handled
    owed,     \* per effect: messages accepted that have not had it yet
    lost,     \* resets whose second message was refused
    presses,  \* presses of a key so far
    news      \* Wi-Fi states and battery samples so far

appVars == <<io_queue, stage, current, owed, lost, presses, news>>
vars == <<keyVars, appVars>>

Effects == {"reset", "init", "tare", "cap"}

\* The messages of utils/custom_msg.h the task is sent: a type, a subtype and
\* a parameter.
Msg(type, subtype, param) == <<type, subtype, param>>

KeyMsg(event) == Msg("KEYBOARD", event[1], event[2])
WifiReset == Msg("WIFI", "RESET", "none")
WifiState(state) == Msg("WIFI", "STATE", state)
BatteryCap == Msg("BATTERY", "CAP", "percent")
FeedFoodStart == Msg("CONTROL", "FEEDFOOD_START", "one")

NoMsg == Msg("none", "none", "none")

WifiStates == {"WIFI_CONNECTED", "WIFI_CONN_CLOUD"}

\* What the task may be sent.
Messages == {KeyMsg(event) : event \in KeySet \X (Events \ {"NULL"})}
            \cup {WifiState(state) : state \in WifiStates}
            \cup {WifiReset, BatteryCap, FeedFoodStart}

\* The messages that are for each effect.
Owing == [reset |-> {WifiReset, KeyMsg(<<"config", "LONG">>)},
          tare  |-> {KeyMsg(<<"feed", "LONG">>)},
          init  |-> {WifiState("WIFI_CONN_CLOUD")},
          cap   |-> {BatteryCap}]

\* How many of the messages ms are in M.
CountIn(M, ms) == Cardinality({i \in DOMAIN ms : ms[i] \in M})

\* Mutant of Fitting: the queue takes one message more.
FittingOneMore(ms) ==
    SubSeq(ms, 1, Lesser(Len(ms), QueueLen + 1 - Len(io_queue)))

\* app_send_msg of several messages in turn: as many as fit.
Fitting(ms) == SubSeq(ms, 1, Lesser(Len(ms), QueueLen - Len(io_queue)))

\* Messages from outside are owed their effect once they are accepted.
PostNew(ms) ==
    /\ io_queue' = io_queue \o Fitting(ms)
    /\ owed' = [e \in Effects |-> owed[e] + CountIn(Owing[e], Fitting(ms))]

Init == /\ KeyInit
        /\ io_queue = <<>>
        /\ stage = "service"
        /\ current = NoMsg
        /\ owed = [e \in Effects |-> 0]
        /\ lost = 0
        /\ presses = 0
        /\ news = 0

-----------------------------------------------------------------------------
(* The timer task, which the app task cannot hold up.                      *)

PressKey(k) == /\ Press(k)
               /\ presses < MaxPresses
               /\ presses' = presses + 1
               /\ UNCHANGED <<io_queue, stage, current, owed, lost, news>>

ReleaseKey(k) == Release(k) /\ UNCHANGED appVars

\* keyboard_timer_callback.
ScanKeys == /\ Scan
            /\ PostNew([n \in DOMAIN posted' |-> KeyMsg(posted'[n])])
            /\ UNCHANGED <<stage, current, lost, presses, news>>

\* battery_timer_callback.
SampleBattery == /\ news < MaxNews
                 /\ news' = news + 1
                 /\ PostNew(<<BatteryCap>>)
                 /\ UNCHANGED <<keyVars, stage, current, lost, presses>>

-----------------------------------------------------------------------------
(* A pass of the app task.                                                 *)

\* data_handle of a WIFI_STATE_CMD frame.
ServeWifiState(state) ==
    /\ stage = "service"
    /\ news < MaxNews
    /\ news' = news + 1
    /\ PostNew(<<WifiState(state)>>)
    /\ UNCHANGED <<keyVars, stage, current, lost, presses>>

\* os_msg_recv without a wait.  An empty queue ends the pass.
Receive ==
    /\ stage = "service"
    /\ io_queue # <<>>
    /\ current' = Head(io_queue)
    /\ io_queue' = Tail(io_queue)
    /\ stage' = "handle"
    /\ UNCHANGED <<keyVars, owed, lost, presses, news>>

\* Mutant of OwnMessage: the reset goes out the way the feeding does.
OwnMessageToControl(m) ==
    IF m = KeyMsg(<<"config", "LONG">>) THEN <<Msg("CONTROL", "RESET", "none")>>
    ELSE IF m = KeyMsg(<<"feed", "UP">>) THEN <<FeedFoodStart>> ELSE <<>>

\* The message the handling of m posts, if any.  The feed key's goes to the
\* task's own queue, where no case of app_handle_io_msg takes it.
OwnMessage(m) ==
    IF m = KeyMsg(<<"config", "LONG">>) THEN <<WifiReset>>
    ELSE IF m = KeyMsg(<<"feed", "UP">>) THEN <<FeedFoodStart>> ELSE <<>>

\* Mutant of Performing: the connection to the cloud is not noticed.
PerformingNoInit == [reset |-> {WifiReset},
                     tare |-> {KeyMsg(<<"feed", "LONG">>)},
                     init |-> {}, cap |-> {BatteryCap}]

\* The messages on which app_handle_io_msg has each effect at once:
\* mcu_reset_wifi, Get_Maopi, CONTROL_MSG_INIT to the control task and
\* mcu_dp_value_update.
Performing == [reset |-> {WifiReset},
               tare  |-> {KeyMsg(<<"feed", "LONG">>)},
               init  |-> {WifiState("WIFI_CONN_CLOUD")},
               cap   |-> {BatteryCap}]

\* app_handle_io_msg.
Handle ==
    LET own == OwnMessage(current)
    IN /\ stage = "handle"
       /\ io_queue' = io_queue \o Fitting(own)
       /\ owed' = [e \in Effects |->
                     IF current \in Performing[e] THEN owed[e] - 1 ELSE owed[e]]
       /\ lost' = IF WifiReset \in ToSet(own) \ ToSet(Fitting(own))
                   THEN lost + 1 ELSE lost
       /\ current' = NoMsg
       /\ stage' = "service"
       /\ UNCHANGED <<keyVars, presses, news>>

Next == \/ \E k \in KeySet : PressKey(k) \/ ReleaseKey(k)
        \/ ScanKeys
        \/ SampleBattery
        \/ \E s \in WifiStates : ServeWifiState(s)
        \/ Receive
        \/ Handle

\* The loop of app_main_task goes round for ever, and so does the timer.
Spec == /\ Init
        /\ [][Next]_vars
        /\ WF_vars(Receive \/ Handle)
        /\ WF_vars(ScanKeys)

-----------------------------------------------------------------------------
AppTypeOK ==
    /\ KeyTypeOK
    /\ io_queue \in Seq(Messages) /\ Len(io_queue) <= QueueLen
    /\ current \in Messages \cup {NoMsg}
    /\ stage \in {"service", "handle"}
    /\ current = NoMsg <=> stage = "service"
    /\ owed \in [Effects -> Nat]
    /\ lost \in 0..MaxPresses
    /\ presses \in 0..MaxPresses
    /\ news \in 0..MaxNews

\* How many messages, queued or being handled, are still to have effect e.
Pending(e) == CountIn(Owing[e], Append(io_queue, current))

\* app/app_task.c:72-184.  Every effect that is owed is owed by exactly one
\* message queued or being handled: a message that was accepted is neither lost
\* before its effect nor has it twice.  Only a reset, which takes a second
\* message, may be lost, when the queue fills up between the two.
AcceptedIsPending ==
    \A e \in Effects :
        owed[e] = Pending(e) + (IF e = "reset" THEN lost ELSE 0)

\* app/app_task.c:191-228.  Everything owed is done in the end, but for the
\* resets that were lost.
OwedIsDone ==
    \A e \in Effects : owed[e] > 0 ~>
        owed[e] = (IF e = "reset" THEN lost ELSE 0)
=============================================================================
