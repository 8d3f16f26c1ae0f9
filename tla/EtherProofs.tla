----------------------------- MODULE EtherProofs ------------------------------
(* Theorems about Ether, for every value of its constants. *)
EXTENDS Ether, TLAPS

(***************************************************************************)
(* The part of the state the token lives in.  One token is not inductive   *)
(* as it stands: it needs the boot's order, in which no task exists before *)
(* all the semaphores do.                                                  *)
(***************************************************************************)
ControlTypeOK ==
  /\ mainPc \in MainPcs
  /\ sem \in [Handles -> {"null", "empty", "full"}]
  /\ pmsPc \in Pms!PmsPcs
  /\ bmePc \in Bme!BmePcs
  /\ mqttPc \in Mqtt!MqttPcs

BootOrder ==
  /\ ~Booted => \A h \in Handles : sem[h] = "null"
  /\ Booted => \A h \in Handles : sem[h] # "null"
  /\ mainPc \in {"controllers", "semaphores", "pms7003"} => pmsPc = "uncreated"
  /\ mainPc \in {"controllers", "semaphores", "pms7003", "mqtt"} => mqttPc = "uncreated"
  /\ mainPc # "spin" => bmePc = "uncreated"

TokenInv == ControlTypeOK /\ BootOrder /\ OneToken

--------------------------------------------------------------------------------

LEMMA TokenInit == Init => TokenInv
  BY DEF Init, TokenInv, ControlTypeOK, BootOrder, OneToken, Booted, MainPcs, Handles,
         Pms!PmsInit, Bme!BmeInit, Mqtt!MqttInit, Pms!PmsPcs, Bme!BmePcs, Mqtt!MqttPcs

(***************************************************************************)
(* What a step of a task does to its control: it takes the token, gives it *)
(* on, or leaves the semaphores alone.                                     *)
(***************************************************************************)
Takes(pc, pc2, h, first) ==
  /\ pc = "take" /\ pc2 = first
  /\ sem[h] = "full" /\ sem' = [sem EXCEPT ![h] = "empty"]

Gives(pc, pc2, h) ==
  /\ pc = "give" /\ pc2 = "take"
  /\ sem[h] # "null" /\ sem' = [sem EXCEPT ![h] = "full"]

LEMMA PmsControl ==
  PmsStep =>
    /\ UNCHANGED <<mainPc, bmePc, mqttPc>>
    /\ \/ Takes(pmsPc, pmsPc', "pms7003", "loop")
       \/ Gives(pmsPc, pmsPc', "bme280")
       \/ UNCHANGED sem /\ pmsPc = "start" /\ pmsPc' = "take"
       \/ UNCHANGED sem /\ pmsPc \in {"loop", "warmup"} /\ pmsPc' \in {"loop", "warmup", "give"}
  BY DEF PmsStep, bmeOwn, mqttOwn, Takes, Gives, Pms!Task, Pms!Start, Pms!Take, Pms!ChangeMode,
         Pms!WakeUp, Pms!WarmUp, Pms!ReadRequest, Pms!ReadSkips, Pms!Read, Pms!Sleep, Pms!RoundEnd,
         Pms!Give, Pms!InState, Pms!taskVars, Pms!xSemaphoreTake, Pms!xSemaphoreGive

LEMMA SensorControl ==
  SensorStep => UNCHANGED <<sem, mainPc, pmsPc, bmePc, mqttPc>>
  BY DEF SensorStep, bmeOwn, mqttOwn, Pms!PmsSensor, Pms!SensorAnswers, Pms!SensorStreams, Pms!taskVars

LEMMA BmeControl ==
  BmeStep =>
    /\ UNCHANGED <<mainPc, pmsPc, mqttPc>>
    /\ \/ Takes(bmePc, bmePc', "bme280", "loop")
       \/ Gives(bmePc, bmePc', "mqtt")
       \/ UNCHANGED sem /\ bmePc = "start" /\ bmePc' = "take"
       \/ UNCHANGED sem /\ bmePc = "loop" /\ bmePc' \in {"loop", "give"}
  BY DEF BmeStep, pmsOwn, mqttOwn, Takes, Gives, Bme!Task, Bme!Start, Bme!Take,
         Bme!state_machine_bme280_reset, Bme!state_machine_bme280_init,
         Bme!state_machine_bme280_id, Bme!state_machine_bme280_get_compensation_data,
         Bme!state_machine_bme280_force_mode, Bme!state_machine_bme280_measure_humidity,
         Bme!state_machine_bme280_measure_temperature,
         Bme!state_machine_bme280_measure_pressure,
         Bme!state_machine_bme280_compensate_humidity,
         Bme!state_machine_bme280_compensate_temperature,
         Bme!state_machine_bme280_compensate_pressure, Bme!Measured,
         Bme!RoundEnd, Bme!Give, Bme!InState, Bme!xSemaphoreTake, Bme!xSemaphoreGive

LEMMA ChipControl ==
  ChipStep => UNCHANGED <<sem, mainPc, pmsOwn, bmePc, bmeState, bmeRetry, loaded, raw, tFine, bme, mqttOwn>>
  BY DEF ChipStep, Bme!ChipMeasures, Bme!bmeTaskVars

LEMMA MqttControl ==
  MqttStep =>
    /\ UNCHANGED <<mainPc, pmsPc, bmePc>>
    /\ \/ Takes(mqttPc, mqttPc', "mqtt", "compose")
       \/ Gives(mqttPc, mqttPc', "pms7003")
       \/ UNCHANGED sem /\ mqttPc = "start" /\ mqttPc' = "take"
       \/ /\ UNCHANGED sem /\ mqttPc \in {"compose", "composeRest", "publish", "pause"}
          /\ mqttPc' \in {"composeRest", "publish", "pause", "give"}
  BY DEF MqttStep, pmsOwn, bmeOwn, Takes, Gives, Mqtt!Task, Mqtt!Start, Mqtt!Take, Mqtt!Compose,
         Mqtt!ComposeRest, Mqtt!Publish, Mqtt!Pause, Mqtt!Give,
         Mqtt!xSemaphoreTake, Mqtt!xSemaphoreGive

LEMMA BootControl ==
  InitControllers \/ Boot =>
    /\ UNCHANGED sem \/ (mainPc = "semaphores" /\
         sem' = [h \in Handles |-> IF h = "pms7003" THEN "full" ELSE "empty"])
    /\ \/ mainPc = "controllers" /\ mainPc' = "semaphores" /\ UNCHANGED <<sem, pmsPc, bmePc, mqttPc>>
       \/ mainPc = "semaphores" /\ mainPc' = "pms7003" /\ UNCHANGED <<pmsPc, bmePc, mqttPc>>
          /\ sem' = [h \in Handles |-> IF h = "pms7003" THEN "full" ELSE "empty"]
       \/ mainPc = "pms7003" /\ mainPc' = "mqtt" /\ pmsPc' = "start" /\ UNCHANGED <<sem, bmePc, mqttPc>>
       \/ mainPc = "mqtt" /\ mainPc' = "bme280" /\ mqttPc' = "start" /\ UNCHANGED <<sem, pmsPc, bmePc>>
       \/ mainPc = "bme280" /\ mainPc' = "spin" /\ bmePc' = "start" /\ UNCHANGED <<sem, pmsPc, mqttPc>>
  BY DEF InitControllers, Boot, CreateSemaphores, SpawnPms, SpawnMqtt, SpawnBme,
         Pms!Create, Bme!Create, Mqtt!Create, pmsOwn, bmeOwn, mqttOwn

--------------------------------------------------------------------------------

LEMMA TokenStep == TokenInv /\ [Next]_vars => TokenInv'
<1> SUFFICES ASSUME TokenInv, [Next]_vars PROVE TokenInv'
  OBVIOUS
<1> USE DEF TokenInv, ControlTypeOK, BootOrder, OneToken, Booted, Holds, Working, Handles,
            MainPcs, Pms!PmsPcs, Bme!BmePcs, Mqtt!MqttPcs, Takes, Gives
<1>1. CASE InitControllers \/ Boot
  BY <1>1, BootControl
<1>2. CASE PmsStep
  BY <1>2, PmsControl
<1>3. CASE SensorStep
  BY <1>3, SensorControl
<1>4. CASE BmeStep
  BY <1>4, BmeControl
<1>5. CASE MqttStep
  BY <1>5, MqttControl
<1>6. CASE ChipStep
  BY <1>6, ChipControl DEF pmsOwn, mqttOwn
<1>7. CASE UNCHANGED vars
  BY <1>7 DEF vars, pmsOwn, bmeOwn, mqttOwn
<1>8. QED
  BY <1>1, <1>2, <1>3, <1>4, <1>5, <1>6, <1>7 DEF Next

\* The inductive invariant: the tasks' places, the order of the boot and the one token.
THEOREM TokenInvariant == Spec => []TokenInv
  BY TokenInit, TokenStep, PTL DEF Spec

\* Exactly one token, in a semaphore or in the hands of a task.
THEOREM TokenUnique == Spec => []OneToken
<1>1. TokenInv => OneToken
  BY DEF TokenInv
<1> QED
  BY <1>1, TokenInvariant, PTL

\* A task that gives finds the semaphore empty: no token is ever lost.
THEOREM GivesArrive == Spec => []NoLostGive
<1>1. TokenInv => NoLostGive
  BY DEF TokenInv, ControlTypeOK, BootOrder, OneToken, NoLostGive, Booted, Holds, Working, Handles, MainPcs
<1> QED
  BY <1>1, TokenInvariant, PTL

\* The semaphores exist before the tasks that use them.
THEOREM HandlesBeforeTasks == Spec => []HandlesCreated
<1>1. TokenInv => HandlesCreated
  BY DEF TokenInv, ControlTypeOK, BootOrder, HandlesCreated, Booted, MainPcs
<1> QED
  BY <1>1, TokenInvariant, PTL

\* The task of handle h is blocked in its take.
Waits(h) ==
  /\ sem[h] = "empty"
  /\ CASE h = "pms7003" -> pmsPc = "take"
       [] h = "bme280"  -> bmePc = "take"
       [] h = "mqtt"    -> mqttPc = "take"

\* The three tasks never wait for one another all at once, with nobody left to give
\* (ether_main.c:83, 125, 257): there is always one that works or whose semaphore is full.
THEOREM NeverAllWaiting == Spec => [](Booted => \E h \in Handles : ~Waits(h))
<1>1. TokenInv => (Booted => \E h \in Handles : ~Waits(h))
  <2> SUFFICES ASSUME TokenInv, Booted PROVE \E h \in Handles : ~Waits(h)
    OBVIOUS
  <2>1. PICK h \in Handles : Holds(h)
    BY DEF TokenInv, OneToken
  <2>2. ~Waits(h)
    BY <2>1 DEF Holds, Working, Waits, Handles
  <2>3. QED
    BY <2>2
<1> QED
  BY <1>1, TokenInvariant, PTL

--------------------------------------------------------------------------------
(***************************************************************************)
(* Each task beside the others is the task of its own module in some       *)
(* environment, so that what is proved there holds here.                   *)
(***************************************************************************)

LEMMA SemStaysTyped == TokenInv /\ [Next]_vars => sem' \in [Handles -> {"null", "empty", "full"}]
  BY TokenStep DEF TokenInv, ControlTypeOK

LEMMA NextIsPms == TokenInv /\ [Next]_vars => [Pms!Next]_(Pms!pmsVars)
<1> SUFFICES ASSUME TokenInv, [Next]_vars PROVE [Pms!Next]_(Pms!pmsVars)
  OBVIOUS
<1>1. CASE PmsStep
  BY <1>1 DEF PmsStep, Pms!Next
<1>2. CASE SensorStep
  BY <1>2 DEF SensorStep, Pms!Next
<1>3. CASE SpawnPms
  BY <1>3 DEF SpawnPms, Pms!Next
<1>4. CASE UNCHANGED pmsOwn
  BY <1>4, SemStaysTyped DEF pmsOwn, Pms!Next, Pms!PmsEnvironment, Pms!OthersMoveSemaphores,
                             Pms!taskVars, Handles, Pms!Handles
<1>5. QED
  BY <1>1, <1>2, <1>3, <1>4
     DEF Next, Boot, InitControllers, CreateSemaphores, SpawnMqtt, SpawnBme, BmeStep, ChipStep, MqttStep,
         vars

\* The PMS7003 task of the program implements that of its module.
THEOREM PmsImplemented == Spec => ImplementsPms
<1>1. Init => Pms!Init
  BY DEF Init, Pms!Init, Handles, Pms!Handles
<1> QED
  BY <1>1, NextIsPms, TokenInvariant, PTL DEF Spec, ImplementsPms, Pms!PmsSpec

LEMMA NextIsBme == TokenInv /\ [Next]_vars => [Bme!Next]_(Bme!bmeVars)
<1> SUFFICES ASSUME TokenInv, [Next]_vars PROVE [Bme!Next]_(Bme!bmeVars)
  OBVIOUS
<1>1. CASE BmeStep
  BY <1>1 DEF BmeStep, Bme!Next
<1>2. CASE SpawnBme
  BY <1>2 DEF SpawnBme, Bme!Next
<1>3. CASE ChipStep
  BY <1>3 DEF ChipStep, Bme!Next
<1>4. CASE UNCHANGED bmeOwn
  BY <1>4, SemStaysTyped DEF bmeOwn, Bme!Next, Bme!BmeEnvironment, Bme!OthersMoveSemaphores,
                             Bme!bmeTaskVars, Handles, Bme!Handles
<1>5. QED
  BY <1>1, <1>2, <1>3, <1>4
     DEF Next, Boot, InitControllers, CreateSemaphores, SpawnMqtt, SpawnPms, PmsStep, SensorStep,
         MqttStep, vars

\* The BME280 task of the program implements that of its module.
THEOREM BmeImplemented == Spec => ImplementsBme
<1>1. Init => Bme!Init
  BY DEF Init, Bme!Init, Handles, Bme!Handles
<1> QED
  BY <1>1, NextIsBme, TokenInvariant, PTL DEF Spec, ImplementsBme, Bme!BmeSpec

--------------------------------------------------------------------------------
(***************************************************************************)
(* The refinement of MeasurementCycle.  Besides the token it needs what    *)
(* create_mqtt_message has written so far to be what the measurements      *)
(* still are: nobody else holds the token while the message is made.       *)
(***************************************************************************)
MessageInv ==
  /\ mqttPc = "composeRest" => message.pms = pms
  /\ mqttPc = "publish" => message = [pms |-> pms, bme |-> bme]
  /\ message = [pms |-> message.pms, bme |-> message.bme]

CycleInv == TokenInv /\ MessageInv

LEMMA PmsWritesInTurn == PmsStep /\ TokenInv /\ pms' # pms => pmsPc \in {"take", "loop"} /\ Holds("pms7003")
  BY DEF PmsStep, TokenInv, Holds, Working, Pms!Task, Pms!Start, Pms!Take, Pms!ChangeMode,
         Pms!WakeUp, Pms!WarmUp, Pms!ReadRequest, Pms!ReadSkips, Pms!Read, Pms!Sleep, Pms!RoundEnd,
         Pms!Give, Pms!InState, Pms!taskVars, Pms!xSemaphoreTake

LEMMA BmeWritesInTurn == BmeStep /\ TokenInv /\ bme' # bme => bmePc \in {"take", "loop"} /\ Holds("bme280")
  BY DEF BmeStep, TokenInv, Holds, Working, Bme!Task, Bme!Start, Bme!Take,
         Bme!state_machine_bme280_reset, Bme!state_machine_bme280_init,
         Bme!state_machine_bme280_id, Bme!state_machine_bme280_get_compensation_data,
         Bme!state_machine_bme280_force_mode, Bme!state_machine_bme280_measure_humidity,
         Bme!state_machine_bme280_measure_temperature,
         Bme!state_machine_bme280_measure_pressure,
         Bme!state_machine_bme280_compensate_humidity,
         Bme!state_machine_bme280_compensate_temperature,
         Bme!state_machine_bme280_compensate_pressure, Bme!Measured,
         Bme!RoundEnd, Bme!Give, Bme!InState, Bme!xSemaphoreTake

\* Whoever holds the token, it is that task's turn, and nobody else's.
LEMMA TurnOfHolder ==
  ASSUME TokenInv, Booted, NEW h \in Handles, Holds(h)
  PROVE  Turn = h /\ \A other \in Handles \ {h} : ~Holds(other)
  BY DEF TokenInv, OneToken, Turn, Handles

LEMMA NextTurnOfHolder ==
  ASSUME TokenInv', Booted', NEW h \in Handles, Holds(h)'
  PROVE  Turn' = h
  BY DEF TokenInv, OneToken, Turn, Handles

LEMMA CycleInit == Init => CycleInv /\ Cycle!Init
<1> SUFFICES ASSUME Init PROVE CycleInv /\ Cycle!Init
  OBVIOUS
<1>1. TokenInv
  BY TokenInit
<1>2. MessageInv /\ mqttPc = "uncreated"
  BY DEF Init, Mqtt!MqttInit, Mqtt!BlankMessage, MessageInv
<1>3. Turn = "none"
  BY DEF Init, Turn, Booted
<1>4. QED
  BY <1>1, <1>2, <1>3 DEF CycleInv, Cycle!Init, Phase

LEMMA CycleStep == CycleInv /\ [Next]_vars => MessageInv' /\ [Cycle!Next]_(Cycle!cycleVars)
<1> SUFFICES ASSUME CycleInv, [Next]_vars PROVE MessageInv' /\ [Cycle!Next]_(Cycle!cycleVars)
  OBVIOUS
<1>0. TokenInv /\ TokenInv' /\ MessageInv
  BY TokenStep DEF CycleInv
<1>1. CASE InitControllers \/ Boot
  <2>1. /\ UNCHANGED <<pms, bme, message>>
        /\ mqttPc' = mqttPc \/ (mqttPc = "uncreated" /\ mqttPc' = "start")
    BY <1>1 DEF InitControllers, Boot, CreateSemaphores, SpawnPms, SpawnMqtt, SpawnBme, Pms!Create,
                Bme!Create, Mqtt!Create, pmsOwn, bmeOwn, mqttOwn
  <2>2. MessageInv' /\ Phase' = Phase /\ (mqttPc' = "publish" <=> mqttPc = "publish")
    BY <1>0, <2>1 DEF MessageInv, Phase
  <2>3. CASE CreateSemaphores
    <3>1. Turn = "none" /\ Turn' = "pms7003"
      BY <2>3 DEF CreateSemaphores, Turn, Booted, Holds, Handles
    <3>2. Cycle!Begin
      BY <2>1, <2>2, <3>1 DEF Cycle!Begin
    <3>3. QED
      BY <2>2, <3>2 DEF Cycle!Next
  <2>4. CASE ~CreateSemaphores
    <3>1. Turn' = Turn
      BY <1>0, <1>1, <2>4, BootControl
         DEF InitControllers, Boot, CreateSemaphores, SpawnPms, SpawnMqtt, SpawnBme, Turn, Booted,
             Holds, Working, TokenInv, BootOrder
    <3>2. UNCHANGED Cycle!cycleVars
      BY <2>1, <2>2, <3>1 DEF Cycle!cycleVars
    <3>3. QED
      BY <2>2, <3>2
  <2>5. QED
    BY <2>3, <2>4
<1>2. CASE PmsStep \/ SensorStep
  <2>1. UNCHANGED <<mainPc, bmePc, mqttPc, bme, message>> /\ Phase' = Phase
    BY <1>2 DEF PmsStep, SensorStep, bmeOwn, mqttOwn, Phase
  <2>2. CASE SensorStep
    <3>1. UNCHANGED <<sem, pmsPc, pms>>
      BY <2>2 DEF SensorStep, Pms!PmsSensor, Pms!SensorAnswers, Pms!SensorStreams, Pms!taskVars
    <3>2. MessageInv' /\ UNCHANGED Cycle!cycleVars
      BY <1>0, <2>1, <3>1 DEF MessageInv, Cycle!cycleVars, Turn, Booted, Holds, Working
    <3>3. QED
      BY <3>2
  <2>3. CASE PmsStep /\ Gives(pmsPc, pmsPc', "bme280")
    <3>1. UNCHANGED pms
      BY <2>3, PmsWritesInTurn, <1>0 DEF Gives
    <3>2. Booted /\ Booted' /\ Holds("pms7003") /\ Holds("bme280")'
      BY <1>0, <2>1, <2>3 DEF TokenInv, ControlTypeOK, BootOrder, Booted, Holds, Working, Gives, Handles
    <3>3. Turn = "pms7003" /\ Turn' = "bme280"
      BY <1>0, <3>2, TurnOfHolder, NextTurnOfHolder DEF Handles
    <3>4. MessageInv' /\ Cycle!Pass
      BY <1>0, <2>1, <3>1, <3>3 DEF MessageInv, Cycle!Pass
    <3>5. QED
      BY <3>4 DEF Cycle!Next
  <2>4. CASE PmsStep /\ ~Gives(pmsPc, pmsPc', "bme280") /\ Holds("pms7003")
    <3>1. Booted /\ Booted' /\ Holds("pms7003")'
      BY <1>0, <2>1, <2>4, PmsControl
         DEF TokenInv, ControlTypeOK, BootOrder, Booted, Holds, Working, Takes, Gives, Handles
    <3>2. Turn = "pms7003" /\ Turn' = "pms7003" /\ ~Holds("mqtt")
      BY <1>0, <3>1, <2>4, TurnOfHolder, NextTurnOfHolder DEF Handles
    <3>3. MessageInv'
      BY <1>0, <2>1, <3>2 DEF MessageInv, Holds, Working
    <3>4. Cycle!MeasureParticles
      BY <2>1, <3>2 DEF Cycle!MeasureParticles
    <3>5. QED
      BY <3>3, <3>4 DEF Cycle!Next
  <2>5. CASE PmsStep /\ ~Holds("pms7003")
    <3>1. UNCHANGED <<sem, pms>> /\ pmsPc = "start" /\ pmsPc' = "take"
      BY <1>0, <2>5, PmsControl, PmsWritesInTurn DEF Takes, Gives, Holds, Working
    <3>2. MessageInv' /\ UNCHANGED Cycle!cycleVars
      BY <1>0, <2>1, <3>1 DEF MessageInv, Cycle!cycleVars, Turn, Booted, Holds, Working
    <3>3. QED
      BY <3>2
  <2>6. QED
    BY <1>2, <2>2, <2>3, <2>4, <2>5
<1>3. CASE BmeStep
  <2>1. UNCHANGED <<mainPc, pmsPc, mqttPc, pms, message>> /\ Phase' = Phase
    BY <1>3 DEF BmeStep, pmsOwn, mqttOwn, Phase
  <2>2. CASE Gives(bmePc, bmePc', "mqtt")
    <3>1. UNCHANGED bme
      BY <1>0, <1>3, <2>2, BmeWritesInTurn DEF Gives
    <3>2. Booted /\ Booted' /\ Holds("bme280") /\ Holds("mqtt")'
      BY <1>0, <2>1, <2>2 DEF TokenInv, ControlTypeOK, BootOrder, Booted, Holds, Working, Gives, Handles
    <3>3. Turn = "bme280" /\ Turn' = "mqtt"
      BY <1>0, <3>2, TurnOfHolder, NextTurnOfHolder DEF Handles
    <3>4. MessageInv' /\ Cycle!Pass
      BY <1>0, <2>1, <3>1, <3>3 DEF MessageInv, Cycle!Pass
    <3>5. QED
      BY <3>4 DEF Cycle!Next
  <2>3. CASE ~Gives(bmePc, bmePc', "mqtt") /\ Holds("bme280")
    <3>1. Booted /\ Booted' /\ Holds("bme280")'
      BY <1>0, <1>3, <2>1, <2>3, BmeControl
         DEF TokenInv, ControlTypeOK, BootOrder, Booted, Holds, Working, Takes, Gives, Handles, MainPcs
    <3>2. Turn = "bme280" /\ Turn' = "bme280" /\ ~Holds("mqtt")
      BY <1>0, <3>1, <2>3, TurnOfHolder, NextTurnOfHolder DEF Handles
    <3>3. MessageInv'
      BY <1>0, <2>1, <3>2 DEF MessageInv, Holds, Working
    <3>4. Cycle!MeasureClimate
      BY <2>1, <3>2 DEF Cycle!MeasureClimate
    <3>5. QED
      BY <3>3, <3>4 DEF Cycle!Next
  <2>4. CASE ~Holds("bme280")
    <3>1. UNCHANGED <<sem, bme>> /\ bmePc = "start" /\ bmePc' = "take"
      BY <1>0, <1>3, <2>4, BmeControl, BmeWritesInTurn DEF Takes, Gives, Holds, Working
    <3>2. MessageInv' /\ UNCHANGED Cycle!cycleVars
      BY <1>0, <2>1, <3>1 DEF MessageInv, Cycle!cycleVars, Turn, Booted, Holds, Working
    <3>3. QED
      BY <3>2
  <2>5. QED
    BY <2>2, <2>3, <2>4
<1>4. CASE MqttStep
  <2>1. UNCHANGED <<mainPc, pmsPc, bmePc, pms, bme>>
    BY <1>4 DEF MqttStep, pmsOwn, bmeOwn
  <2>2. CASE Mqtt!Start
    <3>1. mqttPc = "start" /\ mqttPc' = "take" /\ UNCHANGED <<sem, message>>
      BY <2>2 DEF Mqtt!Start
    <3>2. MessageInv' /\ UNCHANGED Cycle!cycleVars
      BY <1>0, <2>1, <3>1 DEF MessageInv, Cycle!cycleVars, Turn, Booted, Holds, Working, Phase
    <3>3. QED
      BY <3>2
  <2>3. CASE Mqtt!Give
    <3>1. Gives(mqttPc, mqttPc', "pms7003") /\ UNCHANGED message
      BY <2>3 DEF Mqtt!Give, Mqtt!xSemaphoreGive, Gives
    <3>2. Booted /\ Booted' /\ Holds("mqtt") /\ Holds("pms7003")'
      BY <1>0, <2>1, <3>1 DEF TokenInv, ControlTypeOK, BootOrder, Booted, Holds, Working, Gives, Handles
    <3>3. Turn = "mqtt" /\ Turn' = "pms7003"
      BY <1>0, <3>2, TurnOfHolder, NextTurnOfHolder DEF Handles
    <3>4. MessageInv' /\ Cycle!StartOver
      BY <1>0, <2>1, <3>1, <3>3 DEF MessageInv, Cycle!StartOver, Phase, Gives
    <3>5. QED
      BY <3>4 DEF Cycle!Next
  <2>4. CASE MqttStep /\ ~Mqtt!Start /\ ~Mqtt!Give
    <3>1. Holds("mqtt") /\ Holds("mqtt")' /\ Booted /\ Booted'
      BY <1>0, <2>1, <2>4 DEF MqttStep, Mqtt!Task, Mqtt!Take, Mqtt!Compose, Mqtt!ComposeRest, Mqtt!Publish,
         Mqtt!Pause, Mqtt!xSemaphoreTake, Holds, Working, TokenInv, BootOrder, Booted, Handles
    <3>2. Turn = "mqtt" /\ Turn' = "mqtt"
      BY <1>0, <3>1, TurnOfHolder, NextTurnOfHolder DEF Handles
    <3>3. CASE Mqtt!Take \/ Mqtt!Compose \/ Mqtt!Pause
      <4>1. MessageInv'
        BY <1>0, <2>1, <3>3 DEF MessageInv, Mqtt!Take, Mqtt!Compose, Mqtt!Pause
      <4>2. UNCHANGED Cycle!cycleVars
        BY <2>1, <3>2, <3>3 DEF Cycle!cycleVars, Phase, Mqtt!Take, Mqtt!Compose, Mqtt!Pause
      <4>3. QED
        BY <4>1, <4>2
    <3>4. CASE Mqtt!ComposeRest
      <4>1. message' = [pms |-> pms, bme |-> bme]
        BY <1>0, <3>4 DEF MessageInv, Mqtt!ComposeRest
      <4>2. MessageInv'
        BY <2>1, <3>4, <4>1 DEF MessageInv, Mqtt!ComposeRest
      <4>3. Cycle!Draft
        BY <2>1, <3>2, <3>4, <4>1 DEF Cycle!Draft, Phase, Mqtt!ComposeRest
      <4>4. QED
        BY <4>2, <4>3 DEF Cycle!Next
    <3>5. CASE Mqtt!Publish
      <4>1. MessageInv'
        BY <3>5 DEF MessageInv, Mqtt!Publish, Mqtt!BlankMessage
      <4>2. Cycle!Send
        BY <1>0, <2>1, <3>2, <3>5 DEF MessageInv, Cycle!Send, Phase, Mqtt!Publish
      <4>3. QED
        BY <4>1, <4>2 DEF Cycle!Next
    <3>6. QED
      BY <2>4, <3>3, <3>4, <3>5 DEF MqttStep, Mqtt!Task
  <2>5. QED
    BY <1>4, <2>2, <2>3, <2>4
<1>5. CASE ChipStep
  BY <1>0, <1>5, ChipControl DEF pmsOwn, mqttOwn, MessageInv, Cycle!cycleVars, Turn, Booted, Holds,
                                 Working, Phase
<1>6. CASE UNCHANGED vars
  BY <1>0, <1>6 DEF vars, pmsOwn, bmeOwn, mqttOwn, MessageInv, Cycle!cycleVars, Turn, Booted, Holds,
                    Working, Phase
<1>7. QED
  BY <1>1, <1>2, <1>3, <1>4, <1>5, <1>6 DEF Next

\* The message under way is, when it is published, the measurements as they stand.
THEOREM CycleInvariant == Spec => []CycleInv
<1>1. CycleInv /\ [Next]_vars => CycleInv'
  BY CycleStep, TokenStep DEF CycleInv
<1> QED
  BY <1>1, CycleInit, PTL DEF Spec

\* The program implements the measurement cycle.
THEOREM CycleImplemented == Spec => ImplementsCycle
<1>1. CycleInv /\ [Next]_vars => [Cycle!Next]_(Cycle!cycleVars)
  BY CycleStep
<1> QED
  BY <1>1, CycleInit, CycleInvariant, PTL DEF Spec, ImplementsCycle, Cycle!Spec

--------------------------------------------------------------------------------
(***************************************************************************)
(* What the two sensors' modules prove of their task in any environment,   *)
(* carried over to the task in the program.  A module and its instance     *)
(* define the same operators; the provers see that by expanding them.      *)
(***************************************************************************)
PmsProof == INSTANCE Pms7003TaskProofs
BmeProof == INSTANCE Bme280TaskProofs

LEMMA SamePmsInit == Pms!Init <=> PmsProof!Init
  BY DEF Pms!Init, Pms!PmsInit, Pms!Sensor, Pms!Handles,
         PmsProof!Init, PmsProof!PmsInit, PmsProof!Sensor, PmsProof!Handles

LEMMA SamePmsNext == [Pms!Next]_(Pms!pmsVars) <=> [PmsProof!Next]_(PmsProof!pmsVars)
  BY DEF Pms!pmsVars, Pms!taskVars, Pms!Next, Pms!Task, Pms!PmsSensor, Pms!Create,
         Pms!PmsEnvironment, Pms!OthersMoveSemaphores, Pms!Handles, Pms!Start, Pms!Take,
         Pms!ChangeMode, Pms!WakeUp, Pms!WarmUp, Pms!ReadRequest, Pms!ReadSkips, Pms!Read,
         Pms!Sleep, Pms!RoundEnd, Pms!Give, Pms!SensorAnswers, Pms!SensorStreams, Pms!Arrive,
         Pms!InState, Pms!RoundGoesOn, Pms!Outcome, Pms!Transmit, Pms!Obey, Pms!Stale,
         Pms!Reading, Pms!Stamps, Pms!Overwritten, Pms!uart_flush, Pms!pms7003_frame_send,
         Pms!pms7003_frame_receive, Pms!SentCounts, Pms!ReadCounts,
         Pms!PMS7003_FRAME_REQUEST_SIZE, Pms!PMS7003_FRAME_ANSWER_SIZE, Pms!WORDS_BEGIN,
         Pms!WORDS_END, Pms!xSemaphoreTake, Pms!xSemaphoreGive, PmsProof!pmsVars,
         PmsProof!taskVars, PmsProof!Next, PmsProof!Task, PmsProof!PmsSensor, PmsProof!Create,
         PmsProof!PmsEnvironment, PmsProof!OthersMoveSemaphores, PmsProof!Handles,
         PmsProof!Start, PmsProof!Take, PmsProof!ChangeMode, PmsProof!WakeUp, PmsProof!WarmUp,
         PmsProof!ReadRequest, PmsProof!ReadSkips, PmsProof!Read, PmsProof!Sleep,
         PmsProof!RoundEnd, PmsProof!Give, PmsProof!SensorAnswers, PmsProof!SensorStreams,
         PmsProof!Arrive, PmsProof!InState, PmsProof!RoundGoesOn, PmsProof!Outcome,
         PmsProof!Transmit, PmsProof!Obey, PmsProof!Stale, PmsProof!Reading, PmsProof!Stamps,
         PmsProof!Overwritten, PmsProof!uart_flush, PmsProof!pms7003_frame_send,
         PmsProof!pms7003_frame_receive, PmsProof!SentCounts, PmsProof!ReadCounts,
         PmsProof!PMS7003_FRAME_REQUEST_SIZE, PmsProof!PMS7003_FRAME_ANSWER_SIZE,
         PmsProof!WORDS_BEGIN, PmsProof!WORDS_END, PmsProof!xSemaphoreTake,
         PmsProof!xSemaphoreGive

LEMMA SameBmeInit == Bme!Init <=> BmeProof!Init
  BY DEF Bme!Init, Bme!BmeInit, Bme!Chip, Bme!Ages, Bme!Handles,
         BmeProof!Init, BmeProof!BmeInit, BmeProof!Chip, BmeProof!Ages, BmeProof!Handles

LEMMA SameBmeNext == [Bme!Next]_(Bme!bmeVars) <=> [BmeProof!Next]_(BmeProof!bmeVars)
  BY DEF Bme!bmeVars, Bme!bmeTaskVars, Bme!Next, Bme!Task, Bme!Create, Bme!BmeEnvironment,
         Bme!OthersMoveSemaphores, Bme!Handles, Bme!Start, Bme!Take, Bme!RoundEnd, Bme!Give,
         Bme!state_machine_bme280_reset, Bme!state_machine_bme280_init,
         Bme!state_machine_bme280_id, Bme!state_machine_bme280_get_compensation_data,
         Bme!state_machine_bme280_force_mode, Bme!state_machine_bme280_measure_humidity,
         Bme!state_machine_bme280_measure_temperature,
         Bme!state_machine_bme280_measure_pressure, Bme!Measured,
         Bme!state_machine_bme280_compensate_humidity,
         Bme!state_machine_bme280_compensate_temperature,
         Bme!state_machine_bme280_compensate_pressure, Bme!InState, Bme!RoundGoesOn,
         Bme!Succeed, Bme!Fail, Bme!Forced, Bme!Reset, Bme!WrittenUpTo, Bme!OlderClimate,
         Bme!Older, Bme!ChipMeasures, Bme!MeasurementOver, Bme!ThisRound, Bme!xSemaphoreTake,
         Bme!xSemaphoreGive, BmeProof!bmeVars, BmeProof!bmeTaskVars, BmeProof!Next,
         BmeProof!Task, BmeProof!Create, BmeProof!BmeEnvironment, BmeProof!OthersMoveSemaphores,
         BmeProof!Handles, BmeProof!Start, BmeProof!Take, BmeProof!RoundEnd, BmeProof!Give,
         BmeProof!state_machine_bme280_reset, BmeProof!state_machine_bme280_init,
         BmeProof!state_machine_bme280_id, BmeProof!state_machine_bme280_get_compensation_data,
         BmeProof!state_machine_bme280_force_mode,
         BmeProof!state_machine_bme280_measure_humidity,
         BmeProof!state_machine_bme280_measure_temperature,
         BmeProof!state_machine_bme280_measure_pressure, BmeProof!Measured,
         BmeProof!state_machine_bme280_compensate_humidity,
         BmeProof!state_machine_bme280_compensate_temperature,
         BmeProof!state_machine_bme280_compensate_pressure, BmeProof!InState,
         BmeProof!RoundGoesOn, BmeProof!Succeed, BmeProof!Fail, BmeProof!Forced, BmeProof!Reset,
         BmeProof!WrittenUpTo, BmeProof!OlderClimate, BmeProof!Older, BmeProof!ChipMeasures,
         BmeProof!MeasurementOver, BmeProof!ThisRound, BmeProof!xSemaphoreTake,
         BmeProof!xSemaphoreGive

LEMMA PmsTaskHere == Spec => PmsProof!PmsSpec
<1>1. Pms!PmsSpec => PmsProof!PmsSpec
  BY SamePmsInit, SamePmsNext, PTL DEF Pms!PmsSpec, PmsProof!PmsSpec
<1> QED
  BY <1>1, PmsImplemented, PTL DEF ImplementsPms

LEMMA BmeTaskHere == Spec => BmeProof!BmeSpec
<1>1. Bme!BmeSpec => BmeProof!BmeSpec
  BY SameBmeInit, SameBmeNext, PTL DEF Bme!BmeSpec, BmeProof!BmeSpec
<1> QED
  BY <1>1, BmeImplemented, PTL DEF ImplementsBme

LEMMA SensorAssumptions == PmsProof!PmsAssumption /\ BmeProof!BmeAssumption
  BY EtherAssumption DEF EtherAssumption, Pms!PmsAssumption, Bme!BmeAssumption,
                         PmsProof!PmsAssumption, BmeProof!BmeAssumption

--------------------------------------------------------------------------------
(***************************************************************************)
(* What the messages say.  It takes the facts about both sensors' rounds,  *)
(* the one token, which keeps a round from going on while the message is   *)
(* made, and that the message is what the measurements still are.          *)
(***************************************************************************)

\* m is made of measurements that belong together.  It has no word of a frame that the
\* dust sensor sent while it was warming up.  A pressure of this cycle comes only with the
\* temperature it was compensated with and a humidity, both of this cycle; if the humidity
\* is of the cycle's measurement and not from before its end, so is the temperature, and
\* with that the pressure.  Humidity and temperature are both of this cycle or neither is.
\* Without calibration data there is no pressure at all.
BelongsTogether(m) ==
  LET hum == m.bme.hum  temp == m.bme.temp  press == m.bme.press IN
  /\ "cold" \notin m.pms.stamps
  /\ press.of \in Bme!ThisRound =>
       /\ hum.of \in Bme!ThisRound /\ temp.of \in Bme!ThisRound
       /\ press.fine = temp.of
       /\ Bme!ReadInOrder(hum.of, temp.of, press.of)
  /\ hum.of \in Bme!ThisRound => hum.fine \notin Bme!ThisRound
  /\ IF loaded THEN hum.of \in Bme!ThisRound <=> temp.of \in Bme!ThisRound
               ELSE press.of = "none"

PublishedTogether == mqttPc = "publish" => BelongsTogether(message)

\* Whatever failed in the rounds before, a message that is published (ether_main.c:95)
\* is made of measurements that belong together.
THEOREM MessagesBelongTogether == Spec => []PublishedTogether
<1> DEFINE SensorFacts ==
      /\ PmsProof!NoColdReading
      /\ BmeProof!PressureFollowsTemperature
      /\ BmeProof!HumidityLags
      /\ BmeProof!Uncalibrated
      /\ BmeProof!ClimateTogether
<1>1. PmsProof!PmsSpec => []PmsProof!NoColdReading
  BY SensorAssumptions, PmsProof!ColdReadingsKeptOut
<1>2. BmeProof!BmeSpec => []BmeProof!PressureFollowsTemperature
  BY SensorAssumptions, BmeProof!PressureCoherent
<1>3. BmeProof!BmeSpec => []BmeProof!HumidityLags
  BY SensorAssumptions, BmeProof!HumidityAlwaysLags
<1>4. BmeProof!BmeSpec => []BmeProof!Uncalibrated
  BY SensorAssumptions, BmeProof!NothingWithoutCalibration
<1>5. BmeProof!BmeSpec => []BmeProof!ClimateTogether
  BY SensorAssumptions, BmeProof!BrokenRoundKeepsTogether
<1>6. Spec => []SensorFacts
  BY <1>1, <1>2, <1>3, <1>4, <1>5, PmsTaskHere, BmeTaskHere, PTL
<1>7. CycleInv /\ SensorFacts => PublishedTogether
  <2> SUFFICES ASSUME CycleInv, SensorFacts, mqttPc = "publish"
               PROVE  BelongsTogether(message)
    BY DEF PublishedTogether
  <2>1. message.pms = pms /\ message.bme = bme
    BY DEF CycleInv, MessageInv
  <2>2. bmePc # "loop"
    <3>1. Booted /\ Holds("mqtt")
      BY DEF CycleInv, TokenInv, ControlTypeOK, BootOrder, Booted, Holds, Working
    <3>2. ~Holds("bme280")
      BY <3>1, TurnOfHolder DEF CycleInv, Handles
    <3>3. QED
      BY <3>2 DEF Holds, Working
  <2>3. QED
    BY <2>1, <2>2 DEF BelongsTogether, PmsProof!NoColdReading, BmeProof!HumidityLags,
                      BmeProof!PressureFollowsTemperature, BmeProof!Uncalibrated,
                      BmeProof!ClimateTogether, BmeProof!ThisRound, Bme!ThisRound,
                      BmeProof!ReadInOrder, Bme!ReadInOrder
<1> QED
  BY <1>6, <1>7, CycleInvariant, PTL

\* If the first round of the BME280 breaks off before the calibration data is loaded,
\* no message has a pressure, ever (ether_main.c:223, bme280.c:292-294).
THEOREM PressureMissedForEver ==
  Spec => [](BmeProof!Missed => [](mqttPc = "publish" => message.bme.press.of = "none"))
<1>1. BmeProof!BmeSpec => [](BmeProof!Missed => []BmeProof!Missed)
  BY SensorAssumptions, BmeProof!MissedForEver
<1>2. PublishedTogether /\ BmeProof!Missed => (mqttPc = "publish" => message.bme.press.of = "none")
  BY DEF PublishedTogether, BelongsTogether, BmeProof!Missed
<1> QED
  BY <1>1, <1>2, BmeTaskHere, MessagesBelongTogether, PTL

--------------------------------------------------------------------------------

\* The state of the whole program keeps its type: in particular no failure count passes
\* its limit and no buffer its size, with all tasks running.
THEOREM ProgramTypeCorrect == Spec => []TypeOK
<1> DEFINE Results == result \in {-1, 0} /\ mainPc \in MainPcs
<1>1. PmsProof!PmsSpec => []PmsProof!PmsTypeOK
  BY SensorAssumptions, PmsProof!TypeCorrect
<1>2. BmeProof!BmeSpec => []BmeProof!BmeTypeOK
  BY SensorAssumptions, BmeProof!TypeCorrect
<1>3. PmsProof!PmsTypeOK => Pms!PmsTypeOK
  BY DEF Pms!PmsTypeOK, Pms!SemTypeOK, Pms!Handles, Pms!PmsPcs, Pms!pms7003_state_t, Pms!Reading,
         Pms!Stamps, Pms!Sensor, PmsProof!PmsTypeOK, PmsProof!SemTypeOK, PmsProof!Handles,
         PmsProof!PmsPcs, PmsProof!pms7003_state_t, PmsProof!Reading, PmsProof!Stamps,
         PmsProof!Sensor, Pms!PMS7003_FRAME_REQUEST_SIZE, PmsProof!PMS7003_FRAME_REQUEST_SIZE
<1>4. BmeProof!BmeTypeOK => Bme!BmeTypeOK
  BY DEF Bme!BmeTypeOK, Bme!SemTypeOK, Bme!Handles, Bme!BmePcs, Bme!bme280_state_t, Bme!Chip,
         Bme!Ages, Bme!Raw, Bme!Climate, BmeProof!BmeTypeOK, BmeProof!SemTypeOK,
         BmeProof!Handles, BmeProof!BmePcs, BmeProof!bme280_state_t, BmeProof!Chip,
         BmeProof!Ages, BmeProof!Raw, BmeProof!Climate
<1>5. Init => Results
  BY DEF Init, Mqtt!MqttInit, MainPcs
<1>6. Results /\ TokenInv' /\ [Next]_vars => Results'
  BY DEF TokenInv, ControlTypeOK, Next, InitControllers, Boot, CreateSemaphores, SpawnPms, SpawnMqtt,
         SpawnBme, Mqtt!Create, PmsStep, SensorStep, BmeStep, ChipStep, MqttStep, Mqtt!Task, Mqtt!Start,
         Mqtt!Take, Mqtt!Compose, Mqtt!ComposeRest, Mqtt!Publish, Mqtt!Pause, Mqtt!Give,
         mqttOwn, vars
<1>7. Results /\ CycleInv => mainPc \in MainPcs /\ Mqtt!MqttTypeOK
  BY DEF CycleInv, TokenInv, ControlTypeOK, MessageInv, Mqtt!MqttTypeOK, Mqtt!SemTypeOK,
         Mqtt!Handles, Handles
<1>8. Spec => []Results
  BY <1>5, <1>6, TokenInvariant, PTL DEF Spec
<1>9. mainPc \in MainPcs /\ Mqtt!MqttTypeOK /\ Pms!PmsTypeOK /\ Bme!BmeTypeOK => TypeOK
  BY DEF TypeOK
<1> QED
  BY <1>1, <1>2, <1>3, <1>4, <1>7, <1>8, <1>9, PmsTaskHere, BmeTaskHere, CycleInvariant, PTL
================================================================================
