# Verification of project-ether

TLA+ models, TLC runs and TLAPS proofs for the firmware of an air-quality station:
an ESP32 that reads a PMS7003 particle sensor over UART and a BME280 climate sensor
over I2C, and publishes the measurements over MQTT. The firmware is
`src/app/ether` (about 1,400 lines of C in `main/` and `src/`); paths below are
relative to that directory.

## 1. The system

### Components

| Component | Code | State it keeps | Operations |
|---|---|---|---|
| Boot | `main/ether_main.c` `app_main`, `controller_init` | where it is, the three semaphore handles | initialise the controllers, create and give the semaphores, create the tasks |
| Semaphores | FreeRTOS, used in `ether_main.c` | three binary semaphores | take (waits for ever), give |
| PMS7003 task | `ether_main.c` `ether_pms7003_task` | state machine, `retry`, frame buffer, its part of `measurements` | one round per token: wake, wait 30 s, request, read, sleep, copy |
| PMS7003 frames | `src/pms7003.c` | none | send a command, read an answer, check it |
| BME280 task | `ether_main.c` `ether_bme280_task`, `src/state_machine.c` | state machine, `retry`, its part of `measurements` | set up once; one round per token: force a measurement, read, compensate |
| BME280 driver | `src/bme280.c` | `t_fine`, the compensator | register reads and writes, compensation formulas |
| MQTT task | `ether_main.c` `ether_mqtt_task` | the message, the last result | compose, publish, wait 60 s |
| Wi-Fi controller | `src/wifi_controller.c` | event group, (local) retry counter | start the station, wait for a bit; handle events |
| MQTT controller | `src/mqtt_controller.c` | client handle | start the client; handle its events |
| I2C controller | `src/i2c_controller.c` | command links (heap) | send, receive |
| UART controller | `src/uart_controller.c` | none | install the driver |
| Initial values | `src/ether.c` `ether_init` | none | zero the measurements, `UNSET` the state machines |

### How they interact

`app_main` waits for the Wi-Fi, starts the drivers, creates three semaphores, gives
one, and creates three tasks. From then on one token goes round:

    pms7003 task --give--> bme280 task --give--> mqtt task --60 s, give--> pms7003 task

`ether->measurements` is shared by all three tasks and protected by nothing but this
ring. The sensors' tasks each run a state machine kept in `ether->state_machine`,
until it is `UNSET` or five failures have been counted; either way they hand on the
token. Wi-Fi and MQTT events are handled in tasks of their own.

### What is hard

- *Exclusion by convention.* One give too many, too few or too early, and two tasks
  work on the measurements, or none ever runs again.
- *Partial failure.* Every transfer can fail, partly succeed, or succeed without
  effect; a round can break off in any state, and the next one resumes from a fixed
  state with whatever was left in buffers, chip and static variables.
- *Stale data.* Late answers and streamed frames in the UART buffer; the frame buffer
  of an earlier round, or words of it behind a short frame; `t_fine` of an earlier round;
  registers not measured again, or read before the measurement is over.
- *Waiting for ever.* `pms7003_read`, the Wi-Fi bits, the semaphores.
- *Byte streams.* Frames are found again after lost bytes and cut reads, by pairs of bytes.
- *Lost messages.* QoS 0, connections that drop with packets under way.
- *Lost memory.* Every I2C error path leaves its command link behind.
- *Restarts.* The controller restarts while the sensors stay powered, in any mode.

### What makes each component correct

- Boot and ring: exactly one token; handles exist before tasks; messages are published
  for ever; each message is what the two sensors' tasks left in one turn of the ring.
- PMS7003 task: what is handed over after a successful read is a checked frame, of this
  round, from after the warm-up; every round has its own failure budget.
- BME280 task: what is handed over after a complete round was read in this round, is
  calibrated, and pressure uses its temperature; a broken round leaves humidity and
  temperature together. That all three are of one measurement is not ensured: see
  "Outcomes left open".
- Wi-Fi: a lost connection is always retried; a failed start-up is reported.
- Boot: the tasks are created once there was an address, whatever becomes of the drivers.
- PMS7003 frames: what is accepted is a frame, an undisturbed answer is found, and its
  numbers are the sensor's.
- BME280 driver: an operation that succeeds has written or read all it should, one that
  fails stores nothing, and the calibration values are the chip's.
- I2C controller: a receive fills its part of the buffer and no more; a successful transfer
  returns its command links.
- MQTT: messages arrive whole, in order and not twice, and never with older measurements
  than the message before; the handler's test traffic does not feed itself.

## 2. The modules

| Module | Models | State and actions |
|---|---|---|
| `Semaphores` | the three semaphores | `sem` per handle: `null` before creation, `empty`, `full`; `xSemaphoreTake`, `xSemaphoreGive` |
| `Pms7003Task` | the PMS7003 task, its frame layer, the UART buffer, the sensor | one action per state of the `switch`; `pmsSent` is the `for` loop of `READ_REQUEST`; `RoundEnd` is lines 379-385 |
| `Bme280Task` | the BME280 task, `state_machine.c`, the driver's effects, the chip | one action per handler, named as in the code; `ChipMeasures` ends a forced measurement at any time |
| `MqttTask` | the MQTT task | `create_mqtt_message` in two steps, so that a writer could come between |
| `MeasurementCycle` | *abstract*: what the tasks promise together | turns in one order, a board only its turn's task may change, a message drafted from the board and sent while it is still the board |
| `Ether` | the program: boot and the three task modules, composed by `INSTANCE` | `mainPc` and the tasks' variables |
| `WifiController` | `wifi_controller.c`, its event queue and group, the station | one action per branch of the handler |
| `Startup` | `controller_init`: the four initialisations, beside `WifiController`, which it extends | `bootPc`, the drivers, the MQTT client; one action per controller |
| `I2cController` | `i2c_controller_send` and `_receive`, the command links and their heap, the bus | `cmd` is the link's commands, `ran` how far the bus has come; `Create`, `Queue`, `Begin`, `Run`, `Delete`, and the failure of each |
| `Bme280Calibration` | the decoding of the calibration bytes (`bme280.c:206-224`) | operators over integers, with the widths and signs of the fields |
| `Bme280Driver` | the register operations of `bme280.c` over the two above | `Transfers` lists each operation's transfers; `stored` is what the measurements hold of it |
| `Bme280Operations` | *abstract*: what the state handlers rely on | writes in order, then a success that stores all bytes, or a failure that stores none |
| `Pms7003Frame` | `pms7003_read` and `pms7003_frame_receive`, byte by byte, with the sensor, the line and the UART's receive buffer | `readPc` is `pair` in the loop, `rest` in the second `uart_read_bytes`; `buffer` is `buffer_answer` |
| `FrameReader` | *abstract*: frames taken from a stream | skip, take, flush |
| `MqttController` | the MQTT event handler, the client's connection, the broker | `HandleEvent` and, for each call it makes, `HandlerCalls` |
| `Telemetry` | `MqttTask` and `MqttController` together, with the sensors' tasks reduced to one step each, from take to give | what of the messages gets to the broker |
| `LossyFeed` | *abstract*: what a subscriber may rely on | cycles go by; some are told of, in order |
| `MC...` | the same, with the views TLC uses | |
| `...Proofs` | theorems | |

A task module also has an environment in which the semaphores move at will
(`PmsEnvironment`, `BmeEnvironment`): what holds there holds wherever the task runs.
`Ether` is shown to implement the task modules (`ImplementsPms`, `ImplementsBme`), so
their properties carry over to the program.

Data is reduced to where it comes from. A PMS7003 frame carries the sensor's condition
when it was sent (`cold`, `warm`, or `stale` once a new round has begun). The three words
that are measurements are bytes 4 to 9 of the answer buffer, and a short read overwrites
only the first bytes of it, so a reading carries the stamps of all frames it has bytes of,
and whether it is of one whole frame that passed its check. A BME280 value carries the age
of what it was computed from and whether calibration was loaded: `none`, `old` (read in an
earlier round), `early` (read in this round, before the measurement it asked for was over)
or `now` (of that measurement). The ages advance when
a task takes its token, which is when a round begins. These ages, and four variables that
only properties look at (`expected` in `Pms7003Frame`, `failed` and `written` in
`I2cController`, `failures` in `WifiController`), are bookkeeping without a counterpart in the
code.

In `Pms7003Frame` bytes are numbers below `Base` and a frame has `FrameSize` of them; in
`I2cController` a byte is named by the register it comes from, so that a byte out of place
is seen. In `Telemetry` a cycle is a turn of the token round the ring, whatever its rounds
achieved; what a sensor's task hands over is the number of that cycle and, for any one of its
values, the cycle in which it was measured, which is an earlier one after a round that broke off.

How the layers meet: `Bme280Task` takes from the driver that a failed operation may have
written some of its registers and stores nothing, and a successful one did all of it. That is
`Bme280Operations`, and `Bme280Driver` implements it (`ImplementsOperations`), down to the
single command. `Pms7003Task` takes frames from the buffer whole or cut; `Pms7003Frame`
implements `FrameReader`, which does the same by the byte. There is no refinement from
`Pms7003Frame` to `Pms7003Task` itself: their buffers hold different things.

Every module with faulty variants names them so in its comments; no action uses them.
They show that a property fails when the code is changed in that way.

### Outcomes left open

- `uart_write_bytes` may return an error, a part or the whole; a command sent whole may
  still have no effect on the sensor.
- A read may return a part of a frame, a whole one that fails or passes the check, or skip
  bytes. In `Pms7003Task` reads go by frame; `Pms7003Frame` has the bytes.
- The line to the sensor may lose or change bytes (`Faults` of them in all); a byte that
  finds the receive buffer full is lost; `uart_read_bytes` returns with what there is at any
  time it does not yet have all.
- The heap may have no room for a command link or a command at any time, since other tasks
  use it too. A link takes one unit of it, its commands with it.
- A transfer may fail at any command on the bus, and after its last one (the 10 s).
- A driver or the MQTT client may fail to be set up; nobody looks.
- The MQTT connection may be made and lost at any time; what is under way is lost with it,
  and a new one starts without subscriptions (a clean session, the client's default).
  `esp_mqtt_client_publish` may refuse. ESP-MQTT's outbox, which sends the test message of
  QoS 1 again, is left out.
- An I2C write reported as failed may have reached the chip; `bme280_init` may stop after
  any of its writes. A read that is reported as failed changes nothing, as the driver
  reads into a local buffer.
- A chip that is not a BME280 may answer at its address. The pressure formula's divisor
  is 0 without calibration, and may be 0 with it.
- The sensors start in any condition.
- Every Wi-Fi attempt ends in an association or a disconnection; an address may never
  come; a connection may drop at any time.

- A BME280 measurement may end before, between or after the reads of its registers. It takes
  up to 9.3 ms (`ether_main.c:163-170`), and the delay for it, `pdMS_TO_TICKS(15)`, is one tick
  of a 100 Hz clock (`ether_main.c:10`, `sdkconfig:1056`), which ends 0 to 10 ms later. The
  registers are written together, at the end; a measurement asked for while another is going
  on begins after it.

Assumed of the sensors: they lose their mode or settings only by a command (a brown-out
of a sensor alone is not modelled), a PMS7003 that is awake at the end of the 30 s delay
was awake during it, and a BME280 measurement is over at the end of the 500 ms delay
between a round and the next task's turn (`ether_main.c:232`).

## 3. The runs

| Run | Bounds | What it shows |
|---|---|---|
| `pms7003_task` | `RetryMax` 5, `ReadRequests` 5 (the code's), 2 frames in the buffer, 2 answers owed | While reading, the buffer holds only settled frames of this round (`OnlySettledFrames`: the flush works even with a sensor that streams or answers late); cold readings never get out; every round starts afresh; a successful read hands over a sound, settled frame even if the sensor could not be put to sleep |
| `bme280_task` | `RetryMax` 5 (the code's) | What a round hands over (`RoundHandsOverTogether`): after a complete one, values read in it, calibrated, and no later-read one of an older measurement than an earlier-read one; after a broken one, humidity and temperature of this round or neither, and an old pressure beside new ones only if it did not compensate. Pressure always comes with its own temperature; calibration implies a set-up genuine chip; humidity is always compensated with an earlier round's `t_fine` |
| `ether` | `RetryMax` 2, 2 requests, 1 frame, 1 answer owed | One token, no lost give, handles before tasks; the program implements `MeasurementCycle` and both task modules; publishing goes on for ever, except without Wi-Fi or inside `pms7003_read` |
| `startup` | `WIFI_CONTROLLER_RETRY_MAX` 5 (the code's) | No disconnection is forgotten; the boot waits for ever only if attempts go on for ever or the station sits without an address; once there was an address it gets to the tasks, and the MQTT client is not started before; the station is connected again after every drop, however late |
| `bme280_driver` | 2 links, the code's 33 bytes; register values 0, 15, 16, 127, 128, 240, 255 | A receive fills exactly its part of the buffer; a success costs no link and a failure one at most; the operations are those `Bme280Task` relies on; 14 of the 18 calibration values are the chip's |
| `pms7003_frame` | bytes 0 to 2, frames of 6 bytes, 7 in the receive buffer, 1 fault | What is accepted is a frame; an undisturbed answer is found, exact, and measured with its bytes in the right order; nothing is skipped inside a frame |
| `telemetry` | 3 cycles | With rounds that break off and registers read too early: every message is what both tasks left in one cycle, messages arrive in order, each once, and nothing in one was measured before what arrived in an earlier one; the test traffic of the handler ends on a connection that lasts and leaves one subscription |

`PmsTypeOK` and `BmeTypeOK` are worth their runs for one conjunct: the failure count
never passes the limit that ends a round. So is `DriverTypeOK`: the heap never has more room
than it began with, as it would if a link that was never created were deleted.

Why the bounds are enough: the state machines look at a failure count only to compare it
with the limit, so that two failures show what five do when the tasks run together, and
the tasks alone are checked with five. The receive buffer is looked at from its head
only; two frames are enough for a late one in front of, or behind, the awaited one, and
for the buffer to be full. The proofs below hold for all of these values. In the
two single-task runs a view leaves out the one semaphore the task never touches.
With two links the heap runs out in the middle of an operation and at its beginning; the
operations themselves have their real sizes. The byte values of `bme280_driver` are those
where a sign, a nibble or a carry changes; each coefficient is tried with every combination
of its own registers before every background. Frames of 6 bytes have a header, one data word
and a check code, which is what the reading loop tells apart; with three byte values the
start characters occur in the data and the sum carries into the high byte; 7 bytes of buffer
let a frame be cut by an overflow and by a flush, and end on an odd byte. Three cycles let a
message be lost between two that arrive.

Two of the runs do not check deadlock: in `ether` the program does stop, in `pms7003_read`
with a sensor that never answers; in `startup` the model ends with the boot over and the
station at rest.

### Disagreements found

Five runs check what a comment or a header says and find it violated:

- `pms7003_unstable`: a round ends by failures after a read that was cut short or failed
  the check code; what is in the answer buffer is copied to the measurements all the same
  (`ether_main.c:379-381`), although the round waits and flushes to "avoid getting unstable
  data" (`:309`, `:315`). One such read is enough when earlier states have used up the rest
  of the failures.
- `bme280_uncalibrated`: the first round fails five times before the calibration data is
  read; all later rounds start at `FORCE_MODE` (`:223`) and give the compensating functions
  zeros, where `inc/bme280.h:291` asks for calibration data.
- `ether_read`: `pms7003_read` loops over its timeout (`src/pms7003.c:95-108`); its header
  says it returns a status (`inc/pms7003.h:251`).
- `wifi_fail_bit`: the retry counter is a local variable (`src/wifi_controller.c:9`), so the
  failure the comment of lines 68-71 waits for is never reported.
- `bme280_humidity`: four of the calibration values for humidity are not what the chip's
  registers hold (`src/bme280.c:219-223`, `inc/bme280.h:185-189`): H1 and H3 are always 0, H4
  loses its sign, H5 mixes two nibbles. `CalibrationKept` shows the other fourteen right.

### Fairness

`Ether!Fairness` is weak fairness of the boot after the controllers and of each task's
steps: the tasks have the highest priority and every one of them blocks on a
semaphore or a delay, `app_main` spins at a lower priority, and the task watchdog is
switched off, so that FreeRTOS runs whatever is ready. Nothing is assumed of
`InitControllers` (the Wi-Fi may never come) or of the sensor's answers. Every delay
ends. `WifiController!Fairness` adds that the driver ends every attempt; neither an
address nor a success is assumed. `StartSpec` adds weak fairness of the boot, which blocks
only in the Wi-Fi's wait.

In `Pms7003Frame` bytes on the wire arrive and the task runs when the bytes it waits for are
there; no time-out is forced and the sensor need not answer. In `Telemetry` the MQTT client's
task and the broker go on; nothing is assumed of the connection, and the two liveness
properties speak of connections that last.

## 4. The proofs

All theorems hold for every value of the constants under the named assumptions
(`PmsAssumption`, `BmeAssumption`, `WifiAssumption`, `I2cAssumption`, `DriverAssumption`,
`FrameAssumption`, `TelemetryAssumption`): limits are positive, bytes are bytes. Only the
buffer of `Bme280Driver` is fixed, at the 33 bytes of `BME280_SIZE_COMP`; the heap has any
number of links.

- `Pms7003TaskProofs`. The properties are not inductive: whether a frame is sound when it
  is handed over was decided when the sensor was woken, the buffer flushed and the check
  made. `ReadingInv` carries these facts: `AtRest` (which state goes with which place),
  `WarmedUp` (past the delay, an awake sensor is warm, whatever the retries),
  `ReadSoundly` (past the read, the buffer is sound). From it follow `SettledFrames`,
  `ColdReadingsKeptOut`, `AfreshEachRound` and the action property `SoundHandover`;
  `TypeCorrect` is proved first and used by it. `EveryRoundHandsOver` says what the broken
  rounds hand over as well, by the state they ended in: after SLEEP was reached a sound
  reading of this round; from READ either what the round before handed over (nothing was
  read, or nothing of the words) or a reading put together from frames of this round and
  perhaps what was there before, and not sound (`PutTogether`), which is how
  `OnlyStableDataHandedOver` comes to be violated; from an earlier state what the round
  before handed over. Its invariant `BufferSoFar` follows the answer buffer, which no round clears.
- `Bme280TaskProofs`. `RoundInv` says for each state of a round what has been set up,
  read and compensated so far, and what is not yet of this round. Nothing in it says when
  the measurement ends; it has that the reads come in order, and that a measurement is going
  on or its values are in the registers (`MeasuredSoFar`). From it:
  `PressureCoherent`, `CalibrationSetUp`, `HumidityAlwaysLags`, and
  `TypeCorrect` before it. Of rounds that break off, `BrokenRoundKeepsTogether` says that
  humidity and temperature are both read in the last round or neither is: the second is
  compensated with no chance to fail after the first (`TogetherSoFar`), so only the pressure
  can be left behind. `HandoverTogether` combines the two for every round's end.
  `MissedForEver` and `NothingWithoutCalibration` say what a first round that missed the
  calibration data means: no later round loads it, and without it there is no pressure.
- `EtherProofs`. `TokenInv` joins `OneToken` with the order of the boot. Lemmas reduce
  each task's step to "takes, gives or leaves the semaphores alone", so that the proof of
  the ring does not look into the sensors. `TokenUnique`, `GivesArrive`,
  `HandlesBeforeTasks` and `NeverAllWaiting` follow. `CycleImplemented` adds `MessageInv` (what has been
  composed so far is still what the board says) and maps every step to a step of
  `MeasurementCycle` or to a stutter. `PmsImplemented` and `BmeImplemented` show that the
  composition implements the two task modules. `PmsTaskHere` and `BmeTaskHere` then cite the
  modules' theorems, through an instance of their proof modules, for the tasks in the program.
  `MessagesBelongTogether` is what comes of all three parts: the sensors' theorems say what the
  measurements are between rounds, the token that no round is going on while a message is
  made, and `MessageInv` that the message is those measurements. So, whatever failed before, a
  published message has no word from a dust sensor warming up, humidity and temperature
  read in this cycle both or neither, and a pressure of this cycle only with the temperature
  it was compensated with.
  `PressureMissedForEver` carries the consequence of a missed calibration to every later
  message, and `ProgramTypeCorrect` the limits of counts and buffers to the whole program.
- `WifiControllerProofs`. `StationNeverAbandoned`: a station neither connected nor
  connecting has an event queued that makes the handler connect it.

- `StartupProofs`. `BootInvariant` joins the type with the order of the boot and with why
  the wait ends: the failure bit is never set, so that only the other one ends it, and no bit is
  ever cleared. `AddressBeforeClient` is its consequence. `StationNeverAbandonedAfterBoot` carries the
  theorem of `WifiControllerProofs` over: every step of the boot is a stutter of that module.
- `Bme280DriverProofs`. What a transfer returns depends on every command queued and run
  before. `DriverInv` says what each place has secured: `Queued` (the link's commands are the
  first ones of the script, all of them when it runs), `Pointed` (the chip's pointer, and which
  bytes have arrived, as a function of the commands run), `Arguments` (the call is the transfer
  that `done` counts), `WritesInOrder`, `ReadsHeld` (what earlier transfers of the operation
  brought in is still in the buffer) and `LinksAccountedFor`. From it: `DriverTypeCorrect`,
  `LinksNeverAppear`, `ReceivesWhole`, and `OperationsImplemented`, in which a write is
  `WriteNext` of `Bme280Operations`, a return is `Succeed` or `Fail`, and all else stutters.
  What the program then knows of the chip rests on `NeverPartlyStored`: the measurements
  hold nothing of an operation or all it reads. `CalibrationIsKept` is proved from it and
  from the arithmetic of one word (two bytes, low one first, and the sign), and
  `EveryCalibrationKept` for every content of the 32 registers, where TLC tries boundary
  values. `HumidityKeptExactlyWhen` measures the violated `HumidityCalibrationKept`: H1 is
  kept only when it is 0, H3 only when it is 0, H4 only when it is not negative, H5 only when
  it is not negative and its lowest four bits are 0.
- `Pms7003FrameProofs`. `ReaderInv` is the form of the bytes with what a read has so far:
  nothing in the loop, the header while it waits for the rest, at most a frame once returned.
  `AnswerAlwaysFits` is that part of it on its own: no read writes past the answer buffer.
  `ReaderImplemented` maps the stream to what has arrived, with the header put back in front
  while the rest is awaited, so that the two calls of `uart_read_bytes` are one `Take`.
  `AcceptedIsWhole` and `UndisturbedIsMeasured` compare the program's sum over the buffer with
  the sensor's over the frame, two recursive functions over places: that functions defined
  this way equal their equations, and that the sums agree up to each place, is induction over
  numbers, done with sets in place of predicates (the set of places where the claim
  holds is all of them) and with the library's theorem on well-founded recursion. The
  second also needs `Coming`: while an undisturbed answer is expected, what was read, what has
  arrived and what is on the wire make up that one frame. `FrameTypeCorrect` is used by
  both. The frame has at least six bytes (`FrameAssumption`): start, one word, check code.
- `TelemetryProofs`. `TelemetryInv` joins the token with the two sensors' counts of cycles
  (one ahead of the other exactly while the token is between them), with what has been
  composed, and with the order of all messages: arrived, under way, and the one at hand, which
  is not older than any of them since no measurement ever gets older (`GoesOn`). From it:
  `WholeMessages` and `FeedImplemented`.

Only model-checked: all liveness properties (`CycleStopsOnlyInRead`, `ReturnsOrKeepsTrying`,
`BootCompletes`, `StationKeptUp`, `UndisturbedIsFound`, `TestTrafficEnds`,
`SubscriptionsSettle`), since liveness under fairness is out of the prover's reach; and the
five violations, each a single trace. Every other property of a passing run is a theorem.

## 5. Not modelled

- The arithmetic of the compensation formulas (`bme280.c:229-305`), in floating point and
  `int32_t`: `Bme280Task` has what they read and write and when they fail. For this the
  register driver is only partly modelled.
- The bytes of the five commands to the PMS7003 (`inc/pms7003.h`), which are constants. Of
  the words of the answer buffer `Pms7003Task` has the three that are measurements, together.
- The text of a message and its 256 bytes; `MQTT_EVENT_ERROR`'s logging; ESP-MQTT's outbox
  and memory.
- A clock in I2C: the 10 s are a failure that may come at any command.
- Time. Delays end; no period is measured. In particular the ticks given to
  `uart_read_bytes` for milliseconds, and the cycle that is longer than the "1 sample
  per minute" of `inc/bme280.h:205`, are not visible.
- `ESP_ERROR_CHECK` aborts and null-pointer checks that no caller can fail. A restart is
  covered by the initial conditions of the sensors.
- Hardware design, build files.

## 6. Plan

Written so far, in this order: `Semaphores`, `Pms7003Task`, `Bme280Task`, `MqttTask`,
`MeasurementCycle`, `Ether`, `WifiController` and their proofs; then `I2cController`,
`Bme280Calibration`, `Bme280Driver`, `Bme280Operations`, `Pms7003Frame`, `FrameReader`,
`MqttController`, `Telemetry`, `LossyFeed`, `Startup` and theirs.

What remains worth doing:

1. `Startup` inside `Ether`, so that the liveness of the whole names the network's condition
   in place of `mainPc = "controllers"`, and the tasks run with drivers that are not there.
2. The retries of `Bme280Task` over the heap of `I2cController`: how many rounds with a failing
   bus use it up.
3. The integer parts of the compensation formulas, with the range of `t_fine`.
