---------------------------- MODULE FeedControl ----------------------------
(***************************************************************************)
(* The feeding core of the pet box: the control task and its message       *)
(* queue (app/control_task.c), the feed motor and the water pump with       *)
(* their one-shot timers (hal/control.c), the two presence-detector         *)
(* interrupts, and the application task as the source of requests and, in   *)
(* its tare of the balance, as a third writer of the output port.           *)
(*                                                                          *)
(* Scheduling.  The control task and the application task have the same     *)
(* priority and interleave; a timer callback runs in the timer task, which  *)
(* the tasks cannot preempt, and an interrupt handler preempts everything,  *)
(* so each of these is one action.  A handler of the control task is cut    *)
(* where a callback between two of its statements makes a difference: after *)
(* the shared variable is set, after the timer is started, and inside each  *)
(* GPIO_WriteBit, which loads the output port and stores it back.  The tare *)
(* (drivers/hx711.c) clocks the converter with the same GPIO_WriteBit: its  *)
(* own two pins are left out, but each pulse stores all the others as they  *)
(* were when it loaded the port.                                            *)
(*                                                                          *)
(* Time.  A timer that is running may expire at any moment, except inside   *)
(* the handler that has just started it: the handler takes less than one    *)
(* second, the timers ten and twenty.                                       *)
(***************************************************************************)
EXTENDS Naturals, Sequences

CONSTANTS
    Portions,     \* values the cloud sends for DPID_FEED_NUM (uint32)
    WaterParams,  \* values the cloud sends for DPID_WATER_NUM: 1 on, 0 off
    Detectors,    \* presence detectors that see the animal: "food", "water"
    Exceptions,   \* other subtypes the timer task posts to the control queue
    QLen,         \* capacity of the control queue, 32 in the code
    DpAfterInit,  \* TRUE: the cloud sends feed and water only once inited
    Tares         \* TRUE: the feed key is held at times, which tares the balance

ASSUME PortionsAssumption == Portions \subseteq Nat
ASSUME WaterAssumption == WaterParams \subseteq {0, 1}
ASSUME DetectorsAssumption == Detectors \subseteq {"food", "water"}
ASSUME ExceptionsAssumption ==
    Exceptions \subseteq {"FOODSTUCK", "WATER_LOW", "REPORT_REMAIN"}
ASSUME QLenAssumption == QLen \in Nat \ {0}
ASSUME DpAfterInitAssumption == DpAfterInit \in BOOLEAN
ASSUME TaresAssumption == Tares \in BOOLEAN

VARIABLES
    queue,       \* msg_queue_handle of the control task
    inited,      \* init_state of Control_Init: timers, pads and interrupts exist
    feedNum,     \* g_feed_food_num, portions left in the run (uint8)
    statusBak,   \* status_bak of feed_water
    feedTimer,   \* the 10 s one-shot feedfood timer is running
    waterTimer,  \* the 20 s one-shot feedwater timer is running
    pins,        \* DATAOUT: the pins of the shared output port that are high
    ctl,         \* where the control task is in its handler
    todo,        \* pin writes the handler still has to make
    loaded,      \* GPIO_WriteBit has loaded the port and not stored it yet
    latch,       \* the port as it loaded it
    app,         \* where the application task is: "idle", a DP handler, a tare
    appLoaded,   \* a GPIO_WriteBit of the tare has loaded and not stored the port
    appLatch,    \* the port as the tare loaded it
    written,     \* history: what pins would be had no write been cut in two
    autoFeed,    \* g_auto_feed_flag
    guard        \* detectors whose 30 min holdoff is running

vars == <<queue, inited, feedNum, statusBak, feedTimer, waterTimer, pins,
          ctl, todo, loaded, latch, app, appLoaded, appLatch, written,
          autoFeed, guard>>

feedVars == <<feedNum, feedTimer>>
waterVars == <<statusBak, waterTimer>>
writeVars == <<todo, loaded, latch>>
tareVars == <<appLoaded, appLatch>>
portVars == <<pins, written, ctl, writeVars, tareVars>>
isrVars == <<autoFeed, guard>>

-----------------------------------------------------------------------------
Pins == {"MOTO_EN", "MOTO_CTL1", "MOTO_CTL2", "PUMP_EN", "PUMP_LED", "STUCK_TX"}

Subtypes == {"INIT", "FEEDFOOD_START", "FEEDWATER", "PLAY_VOICE"} \cup Exceptions

\* A T_IO_MSG of type CUSTOM_MSG_CONTROL: MAKE_CUSTOM_MSG_PARAM.
Msg(subtype, param) == [subtype |-> subtype, param |-> param]
Messages == [subtype : Subtypes, param : Nat]

\* The conversion of the 32-bit u.param to feed_food's uint8_t argument.
Uint8(n) == n % 256

\* Mutant of Send: a queue without a limit.
SendUnbounded(q, m) == Append(q, m)

\* os_msg_send(msg_queue_handle, &msg, 0): no wait, the result is ignored.
Send(q, m) == IF Len(q) < QLen THEN Append(q, m) ELSE q

Write(pin, val) == [pin |-> pin, val |-> val]
Writes == [pin : Pins, val : BOOLEAN]

\* Mutant of PumpWrites: the lamp is forgotten when the pump is turned off.
PumpWritesNoLampOff(on) ==
    IF on THEN <<Write("PUMP_EN", on), Write("PUMP_LED", on)>>
          ELSE <<Write("PUMP_EN", on)>>

\* The GPIO_SET sequences of feed_moto(true) and of feed_water.
MotoOnWrites == <<Write("MOTO_EN", TRUE), Write("MOTO_CTL1", TRUE),
                  Write("MOTO_CTL2", FALSE)>>
PumpWrites(on) == <<Write("PUMP_EN", on), Write("PUMP_LED", on)>>

\* Mutant of MotoOff: only the enable pin is cleared.
MotoOffEnableOnly(port) == port \ {"MOTO_EN"}

\* feed_moto(false) run to its end.
MotoOff(port) == port \ {"MOTO_EN", "MOTO_CTL1", "MOTO_CTL2"}

\* The pins of feed_water(false) run to its end.
PumpOff(port) == port \ {"PUMP_EN", "PUMP_LED"}

\* GPIO_WriteBit(pin, val) applied to a value of the port.
WriteBit(port, w) == IF w.val THEN port \cup {w.pin} ELSE port \ {w.pin}

Stages == {"idle", "feed_timer", "feed_pins", "water_timer", "water_on", "water_off"}

Init ==
    /\ queue = << >>
    /\ inited = FALSE
    /\ feedNum = 0
    /\ statusBak = FALSE
    /\ feedTimer = FALSE
    /\ waterTimer = FALSE
    /\ pins = {}
    /\ ctl = "idle"
    /\ todo = << >>
    /\ loaded = FALSE
    /\ latch = {}
    /\ app = "idle"
    /\ appLoaded = FALSE
    /\ appLatch = {}
    /\ written = {}
    /\ autoFeed = TRUE
    /\ guard = {}

-----------------------------------------------------------------------------
(* The application task. *)

\* WIFI_STATE with WIFI_CONN_CLOUD makes the task post CONTROL_MSG_INIT.
CloudConnected ==
    /\ app = "idle"
    /\ queue' = Send(queue, Msg("INIT", 0))
    /\ UNCHANGED <<inited, feedVars, waterVars, portVars, app, isrVars>>

\* A DP handler runs control_feed_num or control_feed_water, which posts the
\* command and, in a second call, the voice prompt.
DpRequest(subtype, param) ==
    /\ app = "idle"
    /\ DpAfterInit => inited
    /\ queue' = Send(queue, Msg(subtype, param))
    /\ app' = "voice"
    /\ UNCHANGED <<inited, feedVars, waterVars, portVars, isrVars>>

DpFeedNum == \E n \in Portions : DpRequest("FEEDFOOD_START", n)

DpWaterNum == \E w \in WaterParams : DpRequest("FEEDWATER", w)

DpVoice ==
    /\ app = "voice"
    /\ queue' = Send(queue, Msg("PLAY_VOICE", 1))
    /\ app' = "idle"
    /\ UNCHANGED <<inited, feedVars, waterVars, portVars, isrVars>>

\* dp_download_ipc_usage_mode_handle: control_set_auto_feed.
DpUsageMode ==
    /\ app = "idle"
    /\ autoFeed' \in BOOLEAN
    /\ UNCHANGED <<queue, inited, feedVars, waterVars, portVars, app, guard>>

\* KEY_EVENT_LONG of KEY_FEED runs Get_Maopi: hx711_Read five times over.
TareBegins ==
    /\ Tares
    /\ app = "idle"
    /\ app' = "tare"
    /\ UNCHANGED <<queue, inited, feedVars, waterVars, portVars, isrVars>>

\* hx711_set_data and hx711_set_clk are a GPIO_WriteBit each: a load, and a
\* store of everything loaded.  How many pulses the tare has does not matter.
TareLoad ==
    /\ app = "tare"
    /\ ~appLoaded
    /\ appLoaded' = TRUE
    /\ appLatch' = pins
    /\ UNCHANGED <<queue, inited, feedVars, waterVars, pins, written, ctl, writeVars,
                   app, isrVars>>

TareStore ==
    /\ app = "tare"
    /\ appLoaded
    /\ pins' = appLatch
    /\ appLoaded' = FALSE
    /\ appLatch' = {}
    /\ app' \in {"tare", "idle"}
    /\ UNCHANGED <<queue, inited, feedVars, waterVars, written, ctl, writeVars, isrVars>>

-----------------------------------------------------------------------------
(* The control task: control_main_task receives one message per loop. *)

Received(subtype) ==
    /\ ctl = "idle"
    /\ queue # << >>
    /\ Head(queue).subtype = subtype
    /\ queue' = Tail(queue)

\* Control_Init: the second and later calls find init_state set.
HandleInit ==
    /\ Received("INIT")
    /\ inited' = TRUE
    /\ IF inited
       THEN UNCHANGED <<pins, written>>
       ELSE /\ pins' = WriteBit(pins, Write("STUCK_TX", TRUE))
            /\ written' = WriteBit(written, Write("STUCK_TX", TRUE))
    /\ UNCHANGED <<feedVars, waterVars, ctl, writeVars, tareVars, app, isrVars>>

\* Mutant of HandleFeedFood: a run in progress is replaced, not protected.
HandleFeedFoodUnguarded ==
    /\ Received("FEEDFOOD_START")
    /\ feedNum' = Uint8(Head(queue).param)
    /\ ctl' = "feed_timer"
    /\ UNCHANGED <<inited, feedTimer, waterVars, pins, written, writeVars, tareVars,
                   app, isrVars>>

\* feed_food up to os_timer_start; a run in progress refuses the request.
HandleFeedFood ==
    /\ Received("FEEDFOOD_START")
    /\ IF feedNum = 0
       THEN /\ feedNum' = Uint8(Head(queue).param)
            /\ ctl' = "feed_timer"
       ELSE UNCHANGED <<feedNum, ctl>>
    /\ UNCHANGED <<inited, feedTimer, waterVars, pins, written, writeVars, tareVars,
                   app, isrVars>>

\* os_timer_start has no effect on a timer that was never created.
StartFeedTimer ==
    /\ ctl = "feed_timer"
    /\ feedTimer' = inited
    /\ ctl' = "feed_pins"
    /\ todo' = MotoOnWrites
    /\ UNCHANGED <<queue, inited, feedNum, waterVars, pins, written, loaded, latch,
                   tareVars, app, isrVars>>

\* feed_water up to its first side effect on a timer or a pin.
HandleFeedWater ==
    /\ Received("FEEDWATER")
    /\ LET status == Head(queue).param # 0
       IN IF statusBak # status
          THEN /\ statusBak' = status
               /\ ctl' = IF status THEN "water_timer" ELSE "water_off"
               /\ todo' = IF status THEN << >> ELSE PumpWrites(FALSE)
          ELSE UNCHANGED <<statusBak, ctl, todo>>
    /\ UNCHANGED <<inited, feedVars, waterTimer, pins, written, loaded, latch,
                   tareVars, app, isrVars>>

\* Mutant of StartWaterTimer: the pins are driven without os_timer_start.
StartWaterNoTimer ==
    /\ ctl = "water_timer"
    /\ ctl' = "water_on"
    /\ todo' = PumpWrites(TRUE)
    /\ UNCHANGED <<queue, inited, feedVars, waterVars, pins, written, loaded, latch,
                   tareVars, app, isrVars>>

StartWaterTimer ==
    /\ ctl = "water_timer"
    /\ waterTimer' = inited
    /\ ctl' = "water_on"
    /\ todo' = PumpWrites(TRUE)
    /\ UNCHANGED <<queue, inited, feedVars, statusBak, pins, written, loaded, latch,
                   tareVars, app, isrVars>>

\* module_play_voice, control_exception_send and mcu_dp_value_update only
\* send a frame to the Wi-Fi module.
HandleReport ==
    /\ \E s \in {"PLAY_VOICE"} \cup Exceptions : Received(s)
    /\ UNCHANGED <<inited, feedVars, waterVars, portVars, app, isrVars>>

\* GPIO_WriteBit is DATAOUT |= pin or DATAOUT &= ~pin: a load and a store.
PortLoad ==
    /\ todo # << >>
    /\ ~loaded
    /\ loaded' = TRUE
    /\ latch' = pins
    /\ UNCHANGED <<queue, inited, feedVars, waterVars, pins, written, ctl, todo, tareVars,
                   app, isrVars>>

PortStore ==
    /\ todo # << >>
    /\ loaded
    /\ pins' = WriteBit(latch, Head(todo))
    /\ written' = WriteBit(written, Head(todo))
    /\ loaded' = FALSE
    /\ latch' = {}
    /\ todo' = Tail(todo)
    /\ ctl' = IF Len(todo) = 1 THEN "idle" ELSE ctl
    /\ UNCHANGED <<queue, inited, feedVars, waterVars, tareVars, app, isrVars>>

-----------------------------------------------------------------------------
(* The timer task. *)

\* Mutant of FeedTimerExpires: the one-shot timer is not started again.
FeedTimerNotRestarted ==
    /\ feedTimer
    /\ ctl # "feed_pins"
    /\ feedNum' = (feedNum + 255) % 256
    /\ feedTimer' = FALSE
    /\ IF feedNum' = 0
       THEN pins' = MotoOff(pins) /\ written' = MotoOff(written)
       ELSE UNCHANGED <<pins, written>>
    /\ UNCHANGED <<queue, inited, waterVars, ctl, writeVars, tareVars, app, isrVars>>

\* Mutant of FeedTimerExpires: a timer so short that it expires in its handler.
FeedTimerShort ==
    /\ feedTimer
    /\ feedNum' = (feedNum + 255) % 256
    /\ IF feedNum' = 0
       THEN feedTimer' = FALSE /\ pins' = MotoOff(pins) /\ written' = MotoOff(written)
       ELSE UNCHANGED <<feedTimer, pins, written>>
    /\ UNCHANGED <<queue, inited, waterVars, ctl, writeVars, tareVars, app, isrVars>>

\* feedfood_timer_callback: --g_feed_food_num on a uint8_t.
FeedTimerExpires ==
    /\ feedTimer
    /\ ctl # "feed_pins"
    /\ feedNum' = (feedNum + 255) % 256
    /\ IF feedNum' = 0
       THEN /\ feedTimer' = FALSE
            /\ pins' = MotoOff(pins)
            /\ written' = MotoOff(written)
       ELSE UNCHANGED <<feedTimer, pins, written>>
    /\ UNCHANGED <<queue, inited, waterVars, ctl, writeVars, tareVars, app, isrVars>>

\* Mutants of WaterTimerExpires: the callback writes the pins itself, as the
\* lines commented out in the code did, and leaves status_bak alone; or it
\* clears status_bak and leaves the pins alone.
WaterTimerPinsOnly ==
    /\ waterTimer
    /\ ctl # "water_on"
    /\ waterTimer' = FALSE
    /\ pins' = PumpOff(pins)
    /\ written' = PumpOff(written)
    /\ UNCHANGED <<queue, inited, feedVars, statusBak, ctl, writeVars, tareVars, app, isrVars>>

WaterTimerStatusOnly ==
    /\ waterTimer
    /\ ctl # "water_on"
    /\ waterTimer' = FALSE
    /\ statusBak' = FALSE
    /\ UNCHANGED <<queue, inited, feedVars, portVars, app, isrVars>>

\* feedwater_timer_callback: feed_water(false).
WaterTimerExpires ==
    /\ waterTimer
    /\ ctl # "water_on"
    /\ waterTimer' = FALSE
    /\ statusBak' = FALSE
    /\ IF statusBak
       THEN pins' = PumpOff(pins) /\ written' = PumpOff(written)
       ELSE UNCHANGED <<pins, written>>
    /\ UNCHANGED <<queue, inited, feedVars, ctl, writeVars, tareVars, app, isrVars>>

\* device_status_check_callback and weight_timer_callback post a report.
TimerReport ==
    /\ \E s \in Exceptions :
          /\ s # "REPORT_REMAIN" => inited
          /\ queue' = Send(queue, Msg(s, 0))
    /\ UNCHANGED <<inited, feedVars, waterVars, portVars, app, isrVars>>

-----------------------------------------------------------------------------
(* The presence-detector interrupts, enabled at the end of Control_Init. *)

Detected(d, subtype) ==
    /\ inited
    /\ d \in Detectors
    /\ autoFeed
    /\ d \notin guard
    /\ guard' = guard \cup {d}
    /\ queue' = Send(Send(queue, Msg(subtype, 1)), Msg("PLAY_VOICE", 1))
    /\ UNCHANGED <<inited, feedVars, waterVars, portVars, app, autoFeed>>

FeedFoodDet == Detected("food", "FEEDFOOD_START")

FeedWaterDet == Detected("water", "FEEDWATER")

\* The 30 minutes of a holdoff pass: expired() turns true.
HoldoffEnds ==
    /\ \E d \in guard : guard' = guard \ {d}
    /\ UNCHANGED <<queue, inited, feedVars, waterVars, portVars, app, autoFeed>>

-----------------------------------------------------------------------------
ControlStep == \/ HandleInit \/ HandleFeedFood \/ StartFeedTimer
               \/ HandleFeedWater \/ StartWaterTimer \/ HandleReport
               \/ PortLoad \/ PortStore

AppStep == \/ CloudConnected \/ DpFeedNum \/ DpWaterNum \/ DpVoice \/ DpUsageMode
           \/ TareBegins \/ TareLoad \/ TareStore

TimerStep == FeedTimerExpires \/ WaterTimerExpires \/ TimerReport

IsrStep == FeedFoodDet \/ FeedWaterDet \/ HoldoffEnds

Next == ControlStep \/ AppStep \/ TimerStep \/ IsrStep

Spec == Init /\ [][Next]_vars

\* The control task loops every 100 ms, so it handles what is queued and ends
\* its handlers; a running timer expires.  Nothing is assumed of the requests.
Fairness == /\ WF_vars(ControlStep)
            /\ WF_vars(FeedTimerExpires)
            /\ WF_vars(WaterTimerExpires)

FairSpec == Spec /\ Fairness
-----------------------------------------------------------------------------
(* Properties. *)

\* Type correctness of the state; the queue never exceeds its capacity.
TypeOK ==
    /\ queue \in Seq(Messages) /\ Len(queue) <= QLen
    /\ inited \in BOOLEAN
    /\ feedNum \in 0..255
    /\ statusBak \in BOOLEAN
    /\ feedTimer \in BOOLEAN
    /\ waterTimer \in BOOLEAN
    /\ pins \subseteq Pins
    /\ ctl \in Stages
    /\ todo \in Seq(Writes)
    /\ loaded \in BOOLEAN
    /\ latch \subseteq Pins
    /\ app \in {"idle", "voice", "tare"}
    /\ appLoaded \in BOOLEAN
    /\ appLatch \subseteq Pins
    /\ written \subseteq Pins
    /\ autoFeed \in BOOLEAN
    /\ guard \subseteq Detectors

\* hal/control.c:158-206.  A run that owes portions has the timer that will
\* count them down, and the timer never runs without a portion to count: it
\* cannot take g_feed_food_num below zero.
FeedIsTimed ==
    /\ feedNum > 0 => feedTimer \/ ctl = "feed_timer"
    /\ feedTimer => feedNum > 0

\* hal/control.c:208-250.  While feed_water believes the pump is on, the timer
\* that ends the portion of water is running, however on and off requests
\* and an older timer's callback interleave.
PumpIsTimed == statusBak => waterTimer \/ ctl = "water_timer"

\* The pins whose last write a later store has undone: another task had loaded
\* the port before the write, and stored its copy after it.
Lost == {p \in Pins : (p \in pins) # (p \in written)}

\* inc/peripheral/rtl876x_gpio.h:478-492.  The level a pin was last written is
\* the level it has.
NoWriteIsLost == Lost = {}

\* hal/control.c:230-250.  Between messages the pump and its lamp show the same
\* level, unless the port has lost a write of one of them.
LampShowsPump ==
    \/ ctl \in {"water_on", "water_off"}
    \/ {"PUMP_EN", "PUMP_LED"} \cap Lost # {}
    \/ "PUMP_EN" \in pins <=> "PUMP_LED" \in pins

\* hal/control.c:140-172.  The motor is driven only for a portion that is owed,
\* unless the port has lost the write that turned it off.
MotorOnlyForPortions ==
    {"MOTO_EN", "MOTO_CTL1"} \cap (pins \ Lost) # {} => feedNum > 0

\* hal/control.c:230-250.  Between messages the pump is driven exactly while
\* its timer is running, unless the port has lost its write: the 20 s timer
\* bounds every portion of water.
PumpRunsWithTimer ==
    \/ ctl \in {"water_on", "water_off"}
    \/ "PUMP_EN" \in Lost
    \/ "PUMP_EN" \in pins <=> waterTimer

\* hal/control.c:158-206 implements the abstract feeder in what it writes: the
\* motor is the level last written to its pins, which is what they show while
\* the port loses no write.
Delivery == INSTANCE Feeder WITH
    MaxPortions <- 255,
    remaining <- feedNum,
    motor <- {"MOTO_EN", "MOTO_CTL1"} \subseteq written

ImplementsFeeder == Delivery!Spec

\* Every run of the motor comes to its end.
FeedingEnds == feedNum > 0 ~> feedNum = 0

\* Every portion of water comes to its end, unless the port loses the write
\* that ends it.
PumpingEnds == "PUMP_EN" \in pins ~> "PUMP_EN" \notin pins \/ "PUMP_EN" \in Lost
=============================================================================
