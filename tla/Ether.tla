--------------------------------- MODULE Ether --------------------------------
(***************************************************************************)
(* The whole program: app_main boots it and creates the three tasks, which *)
(* hand one token round a ring of binary semaphores,                       *)
(* pms7003 -> bme280 -> mqtt -> pms7003, and share ether->measurements.    *)
(***************************************************************************)
EXTENDS Semaphores, Integers

CONSTANTS RetryMax, ReadRequests, RxFrames, OwedMax, Blank

VARIABLES
  mainPc,                                                       \* app_main
  pmsPc, pmsState, pmsRetry, pmsSent, frame, pms, sensor, rx,   \* Pms7003Task
  bmePc, bmeState, bmeRetry, chip, loaded, raw, tFine, bme,     \* Bme280Task
  mqttPc, message, result                                       \* MqttTask

pmsOwn  == <<pmsPc, pmsState, pmsRetry, pmsSent, frame, pms, sensor, rx>>
bmeOwn  == <<bmePc, bmeState, bmeRetry, chip, loaded, raw, tFine, bme>>
mqttOwn == <<mqttPc, message, result>>
vars    == <<sem, mainPc, pmsOwn, bmeOwn, mqttOwn>>

Pms  == INSTANCE Pms7003Task
Bme  == INSTANCE Bme280Task
Mqtt == INSTANCE MqttTask

ASSUME EtherAssumption ==
  /\ Pms!PmsAssumption
  /\ Bme!BmeAssumption

MainPcs == {"controllers", "semaphores", "pms7003", "mqtt", "bme280", "spin"}

TypeOK ==
  /\ mainPc \in MainPcs
  /\ Pms!PmsTypeOK
  /\ Bme!BmeTypeOK
  /\ Mqtt!MqttTypeOK

--------------------------------------------------------------------------------
(* app_main. *)

\* Faulty variant: the tasks are created before the semaphores.
InitControllersSpawnFirst ==
  /\ mainPc = "controllers"
  /\ mainPc' = "pms7003"
  /\ UNCHANGED <<sem, pmsOwn, bmeOwn, mqttOwn>>

\* ether_init and controller_init, which waits for the Wi-Fi, for ever if there is none.
InitControllers ==
  /\ mainPc = "controllers"
  /\ mainPc' = "semaphores"
  /\ UNCHANGED <<sem, pmsOwn, bmeOwn, mqttOwn>>

\* Faulty variants: no semaphore is given, or two are.
CreateSemaphoresGiveNone ==
  /\ mainPc = "semaphores"
  /\ sem' = [h \in Handles |-> "empty"]
  /\ mainPc' = "pms7003"
  /\ UNCHANGED <<pmsOwn, bmeOwn, mqttOwn>>

CreateSemaphoresGiveTwo ==
  /\ mainPc = "semaphores"
  /\ sem' = [h \in Handles |-> IF h = "mqtt" THEN "empty" ELSE "full"]
  /\ mainPc' = "pms7003"
  /\ UNCHANGED <<pmsOwn, bmeOwn, mqttOwn>>

\* Three xSemaphoreCreateBinary and the first xSemaphoreGive; no task exists yet.
CreateSemaphores ==
  /\ mainPc = "semaphores"
  /\ sem' = [h \in Handles |-> IF h = "pms7003" THEN "full" ELSE "empty"]
  /\ mainPc' = "pms7003"
  /\ UNCHANGED <<pmsOwn, bmeOwn, mqttOwn>>

SpawnPms ==
  /\ mainPc = "pms7003"
  /\ Pms!Create
  /\ mainPc' = "mqtt"
  /\ UNCHANGED <<bmeOwn, mqttOwn>>

SpawnMqtt ==
  /\ mainPc = "mqtt"
  /\ Mqtt!Create
  /\ mainPc' = "bme280"
  /\ UNCHANGED <<pmsOwn, bmeOwn>>

SpawnBme ==
  /\ mainPc = "bme280"
  /\ Bme!Create
  /\ mainPc' = "spin"
  /\ UNCHANGED <<pmsOwn, mqttOwn>>

\* The boot after the controllers; "spin" is while(1).
Boot == CreateSemaphores \/ SpawnPms \/ SpawnMqtt \/ SpawnBme

--------------------------------------------------------------------------------
(* The tasks and the sensors, side by side. *)

\* Faulty variants: at the end of its round a task also sets the state machine of the
\* other sensor, whose enumeration has a state of another name for the same number.
PmsStepResetsBme ==
  /\ Pms!Task
  /\ bmeState' = IF pmsPc' = "give" THEN "MEASURE_HUMIDITY" ELSE bmeState
  /\ UNCHANGED <<mainPc, bmePc, bmeRetry, chip, loaded, raw, tFine, bme, mqttOwn>>

BmeStepResetsPms ==
  /\ Bme!Task
  /\ pmsState' = IF bmePc' = "give" THEN "SLEEP" ELSE pmsState
  /\ UNCHANGED <<mainPc, pmsPc, pmsRetry, pmsSent, frame, pms, sensor, rx, mqttOwn>>

PmsStep    == Pms!Task /\ UNCHANGED <<mainPc, bmeOwn, mqttOwn>>
SensorStep == Pms!PmsSensor /\ UNCHANGED <<mainPc, bmeOwn, mqttOwn>>
ChipStep   == Bme!ChipMeasures /\ UNCHANGED <<mainPc, pmsOwn, mqttOwn>>
BmeStep    == Bme!Task /\ UNCHANGED <<mainPc, pmsOwn, mqttOwn>>
MqttStep   == Mqtt!Task /\ UNCHANGED <<mainPc, pmsOwn, bmeOwn>>

Init ==
  /\ sem = [h \in Handles |-> "null"]
  /\ mainPc = "controllers"
  /\ Pms!PmsInit
  /\ Bme!BmeInit
  /\ Mqtt!MqttInit

Next == InitControllers \/ Boot \/ PmsStep \/ SensorStep \/ BmeStep \/ ChipStep \/ MqttStep

Spec == Init /\ [][Next]_vars

\* The FreeRTOS scheduler runs every task that is ready.  Nothing makes the Wi-Fi
\* connect or the sensor answer.
Fairness == WF_vars(Boot) /\ WF_vars(PmsStep) /\ WF_vars(BmeStep) /\ WF_vars(MqttStep)

FairSpec == Spec /\ Fairness

--------------------------------------------------------------------------------
(* Properties. *)

\* The task of handle h is between its take and its give.
Working(h) ==
  CASE h = "pms7003" -> pmsPc \in {"loop", "warmup", "give"}
    [] h = "bme280"  -> bmePc \in {"loop", "give"}
    [] h = "mqtt"    -> mqttPc \in {"compose", "composeRest", "publish", "pause", "give"}

Holds(h) == sem[h] = "full" \/ Working(h)

Booted == mainPc \notin {"controllers", "semaphores"}

\* Once the semaphores exist there is exactly one token, in one semaphore or in the
\* hands of one task: at no time may two tasks touch the shared measurements
\* (ether_main.c:83, 125, 257) or all three wait for each other.
OneToken ==
  Booted =>
    /\ \E h \in Handles : Holds(h)
    /\ \A h \in Handles : ~(sem[h] = "full" /\ Working(h))
    /\ \A h1, h2 \in Handles : Holds(h1) /\ Holds(h2) => h1 = h2

\* No give ever finds its semaphore full, where the token would be lost
\* (ether_main.c:103, 234, 387).
NoLostGive ==
  /\ pmsPc = "give" => sem["bme280"] = "empty"
  /\ bmePc = "give" => sem["mqtt"] = "empty"
  /\ mqttPc = "give" => sem["pms7003"] = "empty"

\* A task that exists never sees a handle that was not created yet.
HandlesCreated ==
  (\E pc \in {pmsPc, bmePc, mqttPc} : pc # "uncreated") => \A h \in Handles : sem[h] # "null"

\* The measurement cycle as the tasks implement it: whose turn it is, and how far
\* the publisher is.
Turn ==
  IF ~Booted THEN "none"
  ELSE IF Holds("pms7003") THEN "pms7003"
  ELSE IF Holds("bme280") THEN "bme280" ELSE "mqtt"

Phase ==
  IF mqttPc = "publish" THEN "drafted"
  ELSE IF mqttPc \in {"pause", "give"} THEN "sent" ELSE "idle"

Cycle == INSTANCE MeasurementCycle WITH
  NoMessage <- Mqtt!BlankMessage,
  turn      <- Turn,
  board     <- [pms |-> pms, bme |-> bme],
  draft     <- IF mqttPc = "publish" THEN message ELSE Mqtt!BlankMessage,
  phase     <- Phase

\* Measurements are changed only in turn, and every message is the measurements of
\* both sensors as they stand when it is published (ether_main.c:89-96).
ImplementsCycle == Cycle!Spec

\* Each task run beside the others behaves as the task modules say of one in any
\* environment: what holds there holds here.
ImplementsPms == Pms!PmsSpec
ImplementsBme == Bme!BmeSpec

\* Messages keep being published, whatever fails, unless the Wi-Fi never connects
\* (wifi_controller.c:72) or the PMS7003 task waits for ever in pms7003_read
\* (pms7003.c:91-109).
CycleStopsOnlyInRead ==
  []<>(mqttPc = "pause") \/ <>[](pmsState = "READ") \/ [](mainPc = "controllers")

\* What pms7003.h:251 says of pms7003_read, that it returns a status code, with
\* the wait timeout of pms7003.h:18.
ReadReturns == pmsState = "READ" ~> pmsState # "READ"
================================================================================
