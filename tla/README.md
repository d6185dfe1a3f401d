# Pet box firmware: TLA+ models

The repository holds the Realtek BEE2 SDK and, on top of it, two products of its
own: a pet feeder connected through a Tuya Wi-Fi module
(`src/board/evb/petbox`, about 5,400 lines of C without the project files) and a
tracker (`src/board/evb/tracker`), whose command console and settings are written
and whose reporting is a skeleton. The models are about the pet feeder, about the
tracker's settings and about the flash store they are kept in. Paths below are
relative to `src/board/evb/petbox` unless they begin with `src/`.

## 1. Inventory

### Tasks, timers, interrupts

| context | code | what it does |
|---|---|---|
| application task | `app/app_task.c` | loops every 100 ms: `wifi_uart_service`, then one message of its own queue |
| control task | `app/control_task.c` | loops every 100 ms: one message of the control queue |
| command task | `app/cmd_task.c` | a debugging console on another UART |
| timer task | `os_timer_*` | callbacks of feed (10 s, one-shot), water (20 s, one-shot), device status (5 s), weight (5 s), battery (10 s) and keyboard (50 ms) timers |
| interrupts | `UART1_Handler`, `FEED_FOOD_DET_HANDLER`, `FEED_WATER_DET_HANDLER` | a received byte; an animal in front of a detector |

The three tasks have the same priority and no lock anywhere. They share the
queues, the output port register, `g_feed_food_num`, `status_bak`,
`g_auto_feed_flag`, the receive ring and the transmit buffer.

### Components, their state and what makes them correct

* **Feeding core** (`hal/control.c`, `app/control_task.c`). State: the control
  queue (32 messages), `init_state`, `g_feed_food_num`, `status_bak`, two
  one-shot timers, the pins of the motor, the pump and the pump's lamp, a
  30-minute holdoff per presence detector. Correct if the motor turns only for
  portions that are owed and the pump only while its timer runs, and if both
  always stop.
* **Application task** (`app/app_task.c`, `utils/custom_msg.h`). State: its
  queue. Passes Wi-Fi state, key and battery messages on. Correct if a key or a
  cloud connection has its effect once.
* **Data points** (`tuya/protocol.c`). No state of its own; one handler per
  data point, which acts and then reports to the cloud. Correct if what is
  reported is what happened.
* **Receive ring** (`tuya/mcu_api.c`, `tuya/system.c`). State: 23 bytes and two
  pointers, written by the interrupt and by the application task. Correct if
  bytes come out once, in order, and only lost when the ring is full.
* **Frame service** (`wifi_uart_service`). State: the bytes kept between two
  passes. Correct if every undamaged frame that was sent is handled once, in
  order, whatever surrounds it.
* **Frame sending** (`wifi_uart_write_frame` and its callers). State: one
  buffer, shared by two tasks.
* **Keyboard** (`app/keyboard.c`). A five-state machine per key, scanned every
  50 ms. Correct if a press is one event.
* **Weighing** (`drivers/hx711.c`). Tare and weight sums; one converter used
  from the application task and the timer task.
* **Battery** (`drivers/battery.c`). A table from voltage to percentage.
* **Software timers** (`utils/utils.c`). A 32-bit deadline in milliseconds.
* **Flash variable store** (`src/src/mcu/module/nv/easyflash`). State: sectors of
  log-structured nodes on NOR flash, each node and sector with a status that only
  goes forward, and in RAM a cache of found variables. Correct if, whenever power
  fails, a variable reads as it was last set or as a set that the failure cut.
* **Tracker settings** (`src/board/evb/tracker/protocol`, `src/src/mcu/module/nv/hal`).
  State: `g_btlink_config` in RAM, an item of the store per group, and the
  command in progress. Correct if what is shown is stored, and what is stored is
  what the last answered command asked for.
* **Command shell**, **logging**, **board files**: no behaviour of the product.

Everything else in the repository (Bluetooth host, peripheral drivers and their
samples, SDK applications, `src/src/iot`, the tracker's report, network and
Bluetooth tasks, prebuilt libraries) is vendor code or a skeleton and is not
modelled, except for `GPIO_WriteBit`, on which the feeding core depends.

### How they interact

A byte from the Wi-Fi module enters the ring in the interrupt, is taken by the
frame service in the application task, and a whole frame goes to `data_handle`.
There a data point's handler calls `control_feed_num` or `control_feed_water`,
which post two messages to the control queue without looking at the result. The
control task takes one message per loop and drives pins and timers; timer
callbacks end what it started. The presence interrupts post the same two
messages. Both tasks send frames to the Wi-Fi module.

In the tracker `app_main` loads each group of settings from the store, or stores
the defaults, while the command task parses a frame, executes it field by field
on the settings in RAM, stores the group if a field changed and answers. The
mutex of the store is all the two tasks share in the way of order.

The hard behaviours are therefore: a timer callback between two statements of a
task; a port register updated by load and store in two contexts; a full queue;
requests before the initialisation; counters at 0 and at 256; an interrupt
between two accesses to the ring's pointers; frames cut at any byte and noise
that looks like one; two tasks in one transmit buffer; a power failure between
any two writes to the flash, or between a change and its storing; a command while
the settings are still being loaded. `PROJECT.json` lists them
under `hazards`, each at its line.

## 2. Modules

| module | models | checked by |
|---|---|---|
| `FeedControl` | feeding core, presence interrupts, the application task as the source of requests and, in its tare, as a writer of the output port | `MCFeedControl` (run `feed_joint`), `MCFeedSides` |
| `Feeder` | abstract: what a run of the feed motor promises | refined by `FeedControl` in run `feed_sides` |
| `RxRing` | receive ring against the UART interrupt | `MCRxRing`, `MCFrameService` |
| `FrameService` | `wifi_uart_service`; extends `RxRing`, whose actions are its access to the bytes | `MCFrameService` |
| `DataPoints` | `data_handle`'s walk of a frame of data points, the handlers and their answers to the cloud | `MCDataPoints`, 2 configurations |
| `TxFrame` | two tasks building frames in `wifi_uart_tx_buf` | `MCTxFrame` |
| `Keyboard` | the scan of the keys and their machines | `MCAppTask` |
| `AppTask` | the application task and its queue; extends `Keyboard`, whose scan posts to it | `MCAppTask` |
| `HoldoffTimer` | clock, deadline and comparison of a detector's holdoff, on a clock that wraps | `MCTimers` |
| `DeviceStatus` | the periodic check of water level and feed chute | `MCTimers` |
| `Weight` | tare and weighing on one converter | `MCTimers` |
| `Battery` | voltage to percentage | `MCTimers` |
| `EnvFlash` | the flash variable store, write by write, with power failures | `MCEnvFlash` |
| `VarStore` | abstract: a store whose variables change in one step, whatever happens to the power | refined by `EnvFlash` in run `env_flash` |
| `Settings` | the tracker's settings and commands above the store | `MCSettings`, 2 configurations |
| `FeedControlProofs`, `RxRingProofs`, `SettingsProofs`, `KeyboardProofs`, `TimersProofs`, `EnvFlashProofs`, `TxFrameProofs`, `DataPointsProofs` | theorems (section 5) | tlapm |

### FeedControl

| model | code |
|---|---|
| `queue` | `msg_queue_handle`; `Send` is `os_msg_send` with no wait, whose result is ignored |
| `inited` | `init_state`; it also stands for "the two timers exist" |
| `feedNum`, `feedTimer` | `g_feed_food_num`, whether the 10 s timer is running |
| `statusBak`, `waterTimer` | `status_bak`, whether the 20 s timer is running |
| `pins`, `todo`, `loaded`, `latch` | `DATAOUT`, and the control task's position in a sequence of `GPIO_WriteBit` |
| `appLoaded`, `appLatch` | the application task's position in a `GPIO_WriteBit` of the tare |
| `written` | history: what `pins` would be had every write been one step |
| `ctl`, `app` | where the two tasks are between the statements that matter |
| `autoFeed`, `guard` | `g_auto_feed_flag`, detectors in their holdoff |

One action is one message handled, or the part of a handler between two points
where a timer callback makes a difference: after the shared variable is set,
after `os_timer_start`, and between the load and the store of each
`GPIO_WriteBit`. A timer callback is one action: the timer task is not
preempted by the tasks. An interrupt handler is one action. The delay of
500 ms in `feed_moto` is inside these actions and needs no step of its own.

Three contexts write `DATAOUT`, each with the same unprotected load and store: the
control task, the timer callbacks and the application task. The last one does so
in the tare that a long press of the feed key starts (`Get_Maopi` in
`app/app_task.c`): `hx711_Read` clocks the converter with some fifty calls of
`GPIO_WriteBit` (`drivers/hx711.c`). Its own two pins are not among `Pins`; what
matters here is that each call puts back all the others as they were when it
loaded the port (`TareLoad`, `TareStore`). Whatever another context wrote in
between is lost: a motor or a pump that its timer has turned off runs again.
`Lost` is the set of pins this has happened to, those whose level is not the one
last `written`. Most pin properties speak of the pins that are not in it;
`NoWriteIsLostAlone` says on which devices there never is one. The weighings of
the timer task write the port too, but no task runs between their load and store.

Assumptions: a timer that is running may expire at any moment, except inside
the handler that started it, which lasts under a second against ten and twenty;
`os_timer_start` on a timer that was never created does nothing; the output pads
hold the level of `DATAOUT`. The loss of `CUSTOM_MSG_WIFI_STATE` in the
application queue is `CloudConnected` not taken.

`DpAfterInit` separates two questions. With `TRUE` the cloud sends requests only
when the device has been initialised, and the properties hold. With `FALSE` a
request may come first (section 4). `MCFeedSides` adds `side`: a behaviour feeds
and waters and tares, or it only ever feeds, or only ever waters.

### RxRing and FrameService

The task tests the pointers twice, in `with_data_rxbuff` and again in
`take_byte_rxbuff`, and writes `rx_buf_out` twice: four points between which the
interrupt may come. The actions are `WithData`, `TakeSome` or `TakeNothing`,
`WrapOut` and `TakeByte`. `TakeNothing` is what happens when an overrun between
the two tests has made the pointers equal: `take_byte_rxbuff` returns a local
variable it never assigned and moves no pointer, and the frame service puts one of
`Leftovers` into its buffer (`FillNothing`). A stored byte is represented by the
number of its arrival, so order, repeats and losses can be seen.

In `FrameService` every iteration of the scanning loop is an action, and the
first loop takes its bytes through `RxRing`'s actions while bytes of the stream
arrive: a pass may find anything from nothing to a full ring, and a ring that is
not emptied in time overruns. `MCFrameService` builds the streams: one or two
items out of three good frames (one with data that looks like a frame) and nine
pieces of noise, damaged and truncated frames and two lengths that wrap included,
and every piece of noise between two frames; all followed by silence. None of
them holds a piece that looks like a frame by chance (`Plain`, an assumption of the
proof in section 5 that TLC evaluates on them), but for the length that wraps to 0.
Of such a piece the code sums 65535 bytes, most of them past the end of the buffer,
and compares the sum with the byte before the piece; the model lets it fit or not
(`SumMayPass`, `SumMayFail`). If it fits, `data_handle` gets a frame of no length
and the loop stays where it is, which in the model happens at most `MaxEmpty` times.

### DataPoints

`data`, `i` and the operators `dp_id`, `dp_type`, `dp_len` are those of
`data_handle`; the bytes of a frame are really laid out and read back, so a
length that is stepped over wrongly shows. A handler that calls into the control
task's interface is three steps, the command, the voice prompt and the answer,
because the control task may take a message between them. The control task is
reduced to what the properties tell apart: `portions` (`g_feed_food_num`), its
timer, the cut of a number to a byte and the rule that `feed_food` refuses while
portions are owed; `FeedControl` has it in full. A request for none, or for a
multiple of 256, starts the timer with a counter of 0, whose first decrement gives
255: a run of 256 portions. `answered` counts the portions the cloud was told of
and `zeros` how often it was told of none. A switch is answered with 0 or 1,
whatever byte it was set to (`Reported`). `EncodedTo` and
`ExpectedTo` are the data and the answers of the first points of a frame, and
`Totals` the portions of the first messages of the queue: recursive functions,
which the proofs unfold a point or a message at a time.

### TxFrame

A step is one access to the buffer: a byte of data stored, a byte of the head, a
byte added to the checksum, a byte sent. `alone` remembers whether another task
was in a call meanwhile and separates the two questions: what a call does with
what earlier calls left in the buffer, and what two calls do to each other. Both
tasks have priority 1 (`app/app_task.c`, `app/control_task.c`), so either may be
preempted between any two accesses. `WIFIR_UART_SEND_BUF_LMT` is 48 in the code
and 8 in the run, enough for its longest frame.

### Keyboard and AppTask

`key[k]` is `KeyStatus`, `KeyCount` and `KeyEvent`; `Scanned` is the switch of
`ReadKeyStatus`. `held`, `up` and `last` record what the properties speak of.
`MinRelease` is how many scans see a key up before it goes down again: with 2 the
machine always reaches `KEY_NULL` in between, with 1 it does not.
`AppTask` adds the queue, the battery timer, Wi-Fi state frames and the handling
of messages. `owed` counts, per effect, the accepted messages that have not had
it: a message in `Owing[e]` adds one to effect `e` when it is accepted, one in
`Performing[e]` takes it away when it is handled. The config key's reset travels
in two messages, the second of which the handler of the first posts to its own
queue, so a long press is in `Owing` and not in `Performing`.

### HoldoffTimer, DeviceStatus, Weight, Battery

`HoldoffTimer` is one detector: `ticks` is the operating system's tick,
`HAL_GetTimeMs` reduces it modulo `Modulus`, `end_time` is the deadline. `fed`
remembers the uptime of the last feeding without reduction, for comparison.
`DeviceStatus` is `device_status_check_callback` with both its counters; the
pins change at any time between checks, and `seen` and `since` remember what the
last check saw and how long ago a condition was reported.
`Weight` splits `Get_Maopi` where the timer task may come between: at its start,
before each reading, between the pulses of a reading and before the division.
A weighing is one action, as its delays are busy waits in the timer task. What a
reading that was interrupted ends with is one of `Strays`, or by chance right.
`Battery` returns any byte where the code returns a local it never assigned.
The four share no state: a behaviour of `MCTimers` watches one of them and leaves
the others as they started.

### EnvFlash

The flash is a row of sectors, each a header and a log of nodes. An action is at
most one write or one erase, and `PowerFails` may come between any two: RAM is
lost, the flash stays, and the next start runs `ef_load_env`, which continues a
collection that was cut and commits, deletes or gives up the nodes that were
being written. `Cap` nodes fit in a sector whatever their size; a node whose
header was begun takes its place. `env_cache` is `env_cache_table`. `may` holds
the values a variable may rightly read as, and `cut` the variables of which a
recovery did not come to the old node, `dropped` those a collection had no room
for (section 4). `ef_port_env_lock` makes each
operation run alone, so one program counter is enough.

`del_env` takes a variable out of the cache when no node was prepared for deletion
since it last deleted one (`last_is_complete_del`). That is so when a collection or
a recovery moves a node which it found prepared; but a move passes no name, so the
name is read at address 0, and its checksum may be that of any variable or of none
(`Forgetful`).

`VarStore` is what all this is for: a store in which a set is begun, takes effect
in one step, and ends, or is given up without a trace. In the refinement the value
of a variable is that of its committed node or else of the first one prepared for
deletion (`stored`), the set under way is `request`, and it has taken effect once
its node is committed (`taken`). Every other write, those of collections and
recoveries included, must leave every variable as it is. A variable in `cut` or
`dropped` is lost, and the store promises nothing more of it.

### Settings

A group has one field of each kind: numbers and servers are resolved when the
frame is parsed (`Parse`), strings when it is executed (`ExecField`).
`BootStep` is `app_main`'s loading of one group, in the steps between which the
command task can come: the item is read, or defaults are stored and read, and the
buffer is copied to RAM. A set reads the caller's record twice, `Save` for the
checksum and `SaveData` for the copy. The store is used by what `EnvFlash`
promises: a set is done as a whole or not at all. `asked` holds the values a
group may rightly be stored with, `early` the groups a command came for before
they were loaded.

## 3. Runs

| run | question | result |
|---|---|---|
| `feed_joint` | feeding and watering together, with on and off requests, a detector, the timer task's reports and a tare, and a queue of 2 | holds |
| `feed_sides` | under fairness, with "on" requests only: the motor's runs against the abstract feeder, the pump against its timer, the end of both, and a port that loses no write on one side alone | holds |
| `serial_input` | streams through interrupt, ring and frame service, with a ring that overruns | holds |
| `rx_overrun` | does the task get all the interrupt stored? | no: a full ring can read as empty |
| `data_points` | every kind of data point, a control queue of 2 | holds |
| `data_answer` | are the portions the cloud is told of fed? | no: a request while one is being fed is refused and answered all the same |
| `tx_frame` | frames built by two tasks in one buffer | holds |
| `app_task` | keys, messages and their effects, a queue of 2 that fills up | holds |
| `timers` | holdoffs, status reports, battery levels, tares and weighings | holds |
| `env_flash` | sets, collections and recoveries with a power failure anywhere, against the abstract store | holds |
| `settings` | commands and loading with a power failure anywhere | holds |
| `server_address` | does a command that names a server's address set it? | no: not if only the last octet changes |

The three findings in `PROJECT.json`, each against a comment in the code:

* `rx_overrun`: when the write pointer rests at the end of the array and the read
  pointer is one past its start, neither test in `uart_receive_input` sees that
  the ring is full. The byte makes the pointers equal and a whole ring of unread
  bytes reads as no data. `HandledAsSent` and `AllHandled` hold all the same: what
  is lost is a run of bytes, and the service finds the next frame.
* `data_answer`: `dp_download_feed_num_handle` reports the number it received,
  whatever becomes of the request.
* `server_address`: `IP_ALL_MATCH` compares the last octet with itself, so a
  command that changes only that octet is answered with OK and changes nothing.

**Bounds.** A queue of 2 instead of 32 in `feed_joint`: both messages of a request
fit, and a full queue, a dropped second message and a dropped pair all occur; of 1
in `feed_sides`, where a request's prompt fits only if the request was taken
meanwhile. A cloud that asks for 258 portions (the counter of eight bits keeps 2)
and a detector that asks for 1 show the first and the last period of a run, the
refused second request and the truncation. A tare has any number of port writes. The ring has 4 slots instead of 23 (2, 3 and 5 behave the same);
12 bytes in `rx_overrun` go around it three times. `Limit` 3 in `serial_input`
makes a buffer of 10, which the longest good frame fills exactly, and
`MaxOverruns` 1 lets the ring overrun once in a stream, at any point, between the
two tests included; what `take_byte_rxbuff` then returns is 0 or 85, the byte a
frame begins with, and a sum that runs past the buffer fits at most once. In `tx_frame` the application task
makes two calls and the control task one, with frames of 7, 8 and 12 bytes: a
long frame then a short one and the reverse are the cases in which remains of an
earlier frame could show. A long press is two scans instead of a hundred.
`app_task` has two presses, two pieces of news and a queue of two, so that every
post meets a full queue somewhere, the second message of a reset included. In
`timers` the clock has 8 bits instead of 32 and does not wrap within its
20 ticks; there are three checks to a report instead of twelve, voltages on,
between, below and above the rows of the table, and three readings for the five
of a tare; one load is beyond the scale's 5 kg. `env_flash` has three sectors of
two nodes and two variables with two values: the smallest store in which a
collection meets live nodes of both variables with one sector in reserve, and one
power failure, which may also hit the recovery's own start. `settings` has two
groups, three commands and one failure: enough for a command before, during and
after the loading of its group, for two commands on one group, and for a start
from what the failure left.

**Fairness.** The control task loops for ever and its queue is served every
100 ms, so its steps are weakly fair (`ControlStep`); a running timer expires.
Nothing is assumed of the cloud, of the animals or of the reports. In
`FrameService` the task calls the service again and bytes that were sent arrive.
In `AppTask` the loop of `app_main_task` and the periodic key timer go on, and in
`DataPoints` both tasks' loops and a running feed timer. In `EnvFlash` an
operation that was begun goes on while there is power. In `Settings` both tasks go
on, weakly for the command task; loading is strongly fair, because it waits for
the mutex of the store, which `os_mutex` gives to waiters in turn however often
the command task takes it. A timer callback that never returns (see `hx711_Read`
in the hazards) is outside these assumptions.

Deadlock is not checked for `RxRing`, `FrameService`, `TxFrame`, `DataPoints` and
`Settings`, which come to rest when no byte, request, frame or command is left.
The other systems never stop, and their runs check it.

## 4. What the properties do not say

Several properties are stated under a restriction, because the code does not keep
them without it. Each restriction can be lifted in the model, and TLC then finds
the behaviour named here.

| restriction | without it |
|---|---|
| `DpAfterInit` in all of `FeedControl` | `feed_food` or `feed_water` starts the motor or the pump when `Control_Init` has not created the timer yet, and nothing stops it (`FeedIsTimed`) |
| no request of 0 or of a multiple of 256 portions (`Portions`) in `FeedControl`; `256 * zeros` in `FedIsAnswered` | the first period takes the counter from 0 to 255 and the motor feeds 256 portions (`MotorOnlyForPortions`, `FedIsAnswered`) |
| water requests that are only "on" in `feed_sides` | an "off" leaves the timer running without the pump (`PumpRunsWithTimer`); if it expires after the next "on" has set `status_bak` and before its timer is started, the pump stays on and `feed_water` believes it is off |
| `Lost` in `LampShowsPump`, `MotorOnlyForPortions`, `PumpRunsWithTimer` and `PumpingEnds`, and `written` in `ImplementsFeeder` | the store of `GPIO_WriteBit` undoes what another context wrote to the port since the load. The control task undoes a callback's write when one side's request is handled as the other side's timer expires; the application task's tare undoes any write of either, on a device that only feeds or only waters as well. A motor turned on again by it turns until the next run ends, a pump until the next portion of water does |
| a device that only feeds or only waters and is not tared in `NoWriteIsLostAlone` | the same |
| the full ring in `TakenInOrder` | an overrun between the tests of `with_data_rxbuff` and `take_byte_rxbuff` makes the task take a byte that never arrived |
| `Chance` in `HandledAsSent` | a length that wraps to 0 has 65535 bytes summed, and if the sum fits a frame of no length is handled, any number of times |
| `Stuck` in `AllHandled` | the length test counts the header twice: a frame of 32 to 38 bytes is waited for in a buffer of 31, for ever |
| `Misled` in `HandledAsSent` and `AllHandled` | a checksum of eight bits lets pieces of frames pass as a frame when bytes between them are lost |
| `alone` in `LoneFramesAreWhole` | a task that goes on after another has stored its data sends that data, with a checksum that fits |
| `MinRelease` of 2 scans in `app_task` | a key down again at the scan after its release stays in `KEY_UP` with its event, which is posted at every scan (`EventsTellTheHold`) |
| `lost` in `AcceptedIsPending` and `OwedIsDone` | a reset is lost when the queue fills up between its two messages |
| `~spoiled` in `ScaleIsRight` | a weighing between two pulses of a reading spoils the tare; one between two readings subtracts a sum instead of a tare |
| no deadline that wraps (`MaxTicks`) in `timers` | `now_ts > end_time` ends a holdoff at once, or prolongs it by weeks (`HoldoffIsKept`, `HoldoffIsOver`) |
| voltages between the first and the last row in `LevelIsEarned` | a local that was never assigned is returned |
| `cut` in `ReadsTellTheLastSet` | recovery stops at the first node whose header was not finished; a variable whose old node, prepared for deletion, lies behind it reads as absent until the next start |
| `dropped` in `ReadsTellTheLastSet` and `CacheTellsFlash`; one failure in `ReserveIsKept` | a collection cut twice can fill the reserve, and a later move then fails with a log line and the sector is erased with the node in it |
| few enough variables that the store is never full in `ReserveIsKept` | a set refused with `EF_ENV_FULL` returns before the collection at the end of `set_env` and leaves `gc_request` behind; the next set, even of a value there is room for, is then given the last empty sector (`alloc_env`), and a later collection has nowhere to move to |
| `cut` and `dropped` in `ImplementsStore` and `ReadsTellTheStore` | as in `ReadsTellTheLastSet` |
| `early` in `ShownIsStored` and `StoredIsAsked` | a command before its group is loaded is answered with OK, and the copy that loads the group overwrites it |
| addresses that differ in their first octets in `settings` | `server_address` |

`LevelIsEarned` states another quirk of the table: a voltage equal to a row's
gets the percentage of the row below.

## 5. Proofs

Every theorem is for all values of the constants, within the assumptions that the
modules state of them and those named here. They cover the type invariant of
every module that is run and all its other invariants, two of them under a
hypothesis on the behaviour (`HandledAsSent`, `ReserveIsKept`).

`FeedControlProofs`:

* `TypeCorrect`: `Spec => []TypeOK`. The queue's bound is part of it, and rests
  on lemmas about `Send` and about the sequence of pin writes.
* `FeedRunsAreTimed`, `PumpRunsAreTimed`: `Spec => []FeedIsTimed` and
  `Spec => []PumpIsTimed`, assuming `DpAfterInit` and that no request is a
  multiple of 256. The two are not inductive: `FeedIsTimed` could be broken by a
  request found in the queue whose portions are 0 or that is handled before the
  timers exist, so `TimersInv` adds `Orderly`: every feed or water message in the
  queue carries a nonzero number and is there only when `inited` holds, and the
  control task is at a timer's start only when `inited` holds. Neither assumption
  can be dropped (section 4).
* `LampIsRight`: `Spec => []LampShowsPump`, with no assumption. Pump and lamp are
  switched by two writes, each a load and a store; `LampInv` says that as last
  `written` they differ only between these writes, and that every other write, a
  timer callback's included, switches both or neither. A store of the tare changes
  what is there, not what was written, so that it can only add to `Lost`.
* `MotorRunsForPortions`: `Spec => []MotorOnlyForPortions`, assuming
  `CloudIsOrderly`, the two assumptions above, for all sides and tares together:
  `MotorInv` says that the motor was last written high only if a portion is owed.
* `FeedingIsAFeeder`: `Spec => Delivery!SafeSpec` under `CloudIsOrderly`: every step
  of the feeding core is a step of the abstract `Feeder` or a stutter, where the
  motor is what was last written to its pins. Its fairness is TLC's
  (`ImplementsFeeder` in `feed_sides`).
* `PumpRunsAsItsTimer`: `Spec => []PumpRunsWithTimer`, assuming `OnlyOn`, an orderly
  cloud that only turns the pump on. `Queued` says that only messages of the
  sources enter the queue, so `PumpInv` knows that no "off" is in it.
* `OneSideLosesNothing`: `Spec => []NoWriteIsLost` under `FeedsOnly` or `WatersOnly`,
  which exclude the requests of the other side and tares. `WholeInv` says that what
  the control task has loaded is what the port holds: the timer the handler has
  started is not due yet, and the callback of an older one finds `status_bak`
  cleared and writes nothing. This is what makes `Lost` empty in the other
  properties there.

`RxRingProofs`, for every size of ring:

* `RingTypeCorrect`, `BytesAreTakenInOrder`: `RingSpec => TakenInOrder`, overruns
  included. `RingInv` orders the slots by age, which the write pointer alone
  tells: older slots hold older bytes, whatever the read pointer does, and what
  is unread is later than what was taken last. An overrun makes the pointers equal
  under a reader only when the read pointer is 1 (`Places`); if that is between the
  two tests, every slot holds a byte that was not taken (`NothingMeansAll`).
* `ServiceUsesTheRing`, `ServiceTakesInOrder`: `FrameService` implements the ring,
  and so reads the bytes of every stream in order.
* `FramesAreHandledAsSent`: as long as no byte finds the ring full,
  `Spec => []HandledAsSent`, for streams in which what looks like a frame is one
  (`PlainStreams`, true of those of the run). `Queued` makes the ring a queue, so
  that the bytes in the buffer are a piece of the stream (`Behind`); `FramesDone`
  says that the scanning loop has handled the frames up to a position of the
  stream and that the others begin after it. The step that could break this is a
  skip: a skip of one, two or three bytes passes over no place a frame begins at,
  because the bytes it passes over were seen not to begin one (`TestsTell`).
* `ServiceTypeCorrect`: `Spec => []TypeOK` of `FrameService`, with its buffer: no
  byte is written past it and the place the scanning loop is at does not leave the
  bytes in it, whatever length a frame claims. It says nothing of what the checksum
  reads: for a length that wraps to 0 the code does read past the buffer. `BufferInv` adds that a byte is taken only into room that was
  seen, and that the loop that scans runs only when the one that takes does not.

`SettingsProofs`:

* `SettingsShownAreStored`, `SettingsStoredAreAsked`: `Spec => []ShownIsStored`
  and `Spec => []StoredIsAsked`, assuming that no two addresses differ in the last
  octet alone (`AddressesApart`). `SettingsInv` follows the command in progress:
  each field has the value asked for or is still to get it, without `need_save`
  nothing differs from what is stored, and what is loaded and not yet copied is
  what is stored unless a command came early.
* `SettingsTypeCorrect`: `Spec => []TypeOK`, for all addresses. A group is always a
  whole record: a field that does not change keeps the old value, and each of the
  buffers of the two tasks is used only between its filling and its end.

`KeyboardProofs`:

* `KeyEventsTellTheHold`: `Spec => []EventsTellTheHold` of the keyboard in the
  application task, for keys that are up for two scans. `HoldInv` says where the
  machine of a key seen down so many times in a row is; the assumption is what
  keeps a key that is down out of `KEY_UP`.
* `AcceptedArePending`: `Spec => []AcceptedIsPending`, for every length of the
  queue, with no assumption on the keys. The messages that can bring an effect are
  counted by the cardinality of their places in the queue; lemmas say what
  posting several, taking one and losing some do to that count. The keys' part is
  that a scan posts the events of several keys at once, in the order of
  `InOrder`.
* `AppTypeCorrect`: `Spec => []AppTypeOK`. The bound on lost resets is not
  inductive by itself: `LostInv` adds to them the long presses that are queued or
  handled and the one that the config key may still come to, and this sum is at
  most the presses there were.

`TimersProofs`, on the parts that live by the clock:

* `DeadlineIsKept`: `Spec => []HoldoffInv`, for every width of the clock, every
  tick period and every holdoff that fits the clock, which may wrap. The step of
  a feeding needs that reducing the clock before adding the holdoff and reducing
  the sum again loses nothing (`ModSum`, from `ModUnique`).
* `HoldoffComesToItsEnd`, `FeedingsAreHeldOff`: `Spec => []HoldoffIsOver` and
  `Spec => HoldoffIsKept`, assuming `NoWrap`, that the device is not up for so
  long that a deadline wraps (49.7 days less a holdoff). `HoldoffInv` is what
  makes both follow: neither says anything of `end_time` itself.
* `ReportsComeWhenDue`: `StatusSpec => ReportsAreDue`. The counter of the code and
  the checks since the last report tell each other (`StatusInv`).
* `LevelsAreEarned`: the battery's level is that of its row, in every order the
  rows' tests can come out.
* `TareAndWeighingsAreRight`: `WeightSpec => []ScaleIsRight`. As long as no reading
  was cut, the sum is the loads read so far, less the reading that is being
  clocked out (`SumIsOnItsWay`); no bound on sums is needed, as the model's do not
  wrap, and five readings of 24 bits do not either.
* `TimersTypeCorrect`: the types of all four, for the composition that is run.

`EnvFlashProofs`, for any number of sectors, nodes to a sector, variables, values
and power failures at any write or erase, during recoveries too:

* `ReadsAreRight`: `Spec => []ReadsTellTheLastSet`, `CacheIsRight`:
  `Spec => []CacheTellsFlash`, and `EnvTypeCorrect`. The flash is seen through
  four operators, the addresses in it, the node at an address, the committed and
  the prepared nodes, and one lemma for each kind of write says what it does to
  them. `EnvInv` has a part `Basic`, on where the processor is and with which node
  and place, and a part `Data`: a variable has at most one committed node; outside
  a recovery only the node in the work is prepared for deletion; a variable that
  must be there has a live node which the collection has yet to come to or will
  not come to (`Kept`); what the table of found variables points at is the
  committed node or the one in the work (`Cached`). What a recovery gave up and
  what a collection had no room for, `cut` and `dropped`, is excepted
  (section 4).
* `FlashIsAStore`: `Spec => ImplementsStore`, every write is a step of `VarStore` or
  a stutter, and `ReadsTellFlash`: `Spec => []ReadsTellTheStore`, the cache hides no
  change. `StoreInv` adds what the moves of nodes rest on: what is copied is the
  value of the variable (`Right`), also when a recovery finds two live nodes of it;
  a node prepared for deletion in a sector that is not dirty is of a set that wrote
  no other value yet (`Clean`, `OldMarked`), so that which of two prepared nodes
  comes first does not matter; and a collection leaves no live node behind it
  (`Left`, `Swept`), so that erasing a sector changes no variable.
* `ReserveIsEnough`: `Spec /\ [][Spared]_vars => []ReserveIsKept`. `Spared` asks that
  no set is refused as full and that power does not fail while a collection has the
  last empty sector in use; it may fail at any other moment. Neither can be dropped
  (section 4). `ReserveInv` says at each step where there is room: outside a
  collection, in an empty sector that is not the one about to be written (`Spare`);
  in one, there or in the sector that is moved to, which is filled no further than
  the one that is collected has been read (`Roomy`).

`TxFrameProofs`, for any tasks, frames that fit and number of calls:

* `LoneFramesAreSentWhole`: `Spec => []LoneFramesAreWhole`. `Built` says for each
  place in a call what of the frame is in the buffer, in the checksum and on the
  wire; it holds for a task that is alone (`Lone`), since no other is in a call. The
  checksum is a sum over the body that the code forms a byte at a time; that the
  two agree is by the least place at which they would not.
* `TxTypeCorrect`: `Spec => []TypeOK`, for tasks that do disturb each other.

`DataPointsProofs`, for frames of any points and every length of the queue:

* `EveryPointIsAnswered`: `Spec => []PointsAreAnswered`, and `DataTypeCorrect`.
  `Walk(n)` says that the first `n` points are behind `data_handle`: its index is
  at the end of their bytes, and their answers have been sent. `PointIsRead` is the
  lemma that makes it inductive: from there the next point is read as it was sent,
  a value of four bytes included (`FourBytes`), and the step over it ends where
  it does, because what was joined first stays where it is (`JoinedGrows`).
* `FedPortionsAreAnswered`: `Spec => []FedIsAnswered`, by lemmas on how the sum of
  the portions in the queue changes when a message is sent, dropped or taken, and
  by what the point at hand asks for when its command is queued and not yet
  answered, which `Walk` knows to be a point of the frame. A run begun with a
  counter of 0 counts for 256 portions (`Run`), as does a request for none that
  was answered.

Recursive functions are unfolded in `DataPointsProofs` and `TxFrameProofs` from a
lemma that they exist (`Recursion`, `SumsExist`): a least number of steps for which they did not
would have one more than a number for which they do.

Only model-checked:

* liveness and the fairness of the refinement (`FeedingEnds`, `PumpingEnds`,
  `AllHandled`, `OwedIsDone`, `WorkEnds`, `Serves`, `ImplementsFeeder`): the provers
  have no rule for fairness and none for ENABLED;
* `HandledAsSent` of `FrameService` once the ring has overrun: it is true of the
  streams of the run, of whose frames no pieces join to a frame that was not sent,
  and not of every stream (section 4);
* `ReserveIsKept` of `EnvFlash` when power fails once while a collection has the
  last empty sector in use: an inductive invariant would have to count the nodes
  that the failure leaves behind;
* the runs that expect a violation.

## 6. Not modelled, and what is next

Left out of modelled parts:

* `EnvFlash`: the cache of sector states, `ef_del_env` and `ef_print_env`, which
  nothing calls, the first start's `ef_env_set_default`, lengths and checksums of
  values.
* `Settings`: the password test and the wording of frames and answers; the minute
  timer, which is never created; the copy of a group to RAM is one step, though
  `memcpy` can be preempted; a store that is full.
* `FrameService`: the commands of `data_handle` other than data points and the
  Wi-Fi state, which are replies without state or compiled out.
* `FeedControl`: `FEED_NUM_COUNT_HANDLER`, `control_feed_count` and
  `FOOD_STUCK_DET_HANDLER`, which nothing enables or calls; the converter's two
  pins.
* `Weight`: the store of a control task that undoes a pulse of the tare, on the
  same port (section 2): the pulse is one more way for a reading to go wrong.

Not modelled at all: the AT client of `src/src/iot`, a vendor component that
neither product starts; the tracker's report, network and Bluetooth tasks, which
log a message; logging, board files, the command shell of the pet box (its start
is commented out) and all vendor code. The repository is nearly all of this kind:
the code of the two products that has behaviour of its own is a few thousand of
its lines.

What would add most from here:

1. `Settings` over `VarStore`: a set of an item in the three steps of the abstract
   store, in place of the one step that the mutex makes of it, and with an item that
   may be lost.
2. An abstract specification of what the cloud is promised (a request is
   answered, and the portions answered are fed), refined by a composition of
   `DataPoints` with `FeedControl`'s control task when requests do not overlap.
3. The detectors of `FeedControl` with the clock of `HoldoffTimer` in place of
   the nondeterministic `HoldoffEnds`, to relate a dropped request to the holdoff
   it started.
4. The AT client, if a product comes to use it: one command at a time, a parser
   task, and an answer that comes after its timeout.
