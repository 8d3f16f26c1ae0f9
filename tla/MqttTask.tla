------------------------------- MODULE MqttTask -------------------------------
(***************************************************************************)
(* The task that publishes the measurements (ether_main.c,                 *)
(* ether_mqtt_task).  create_mqtt_message reads the measurements of both   *)
(* sensors while the tasks that write them are running: the message is put *)
(* together in two steps, one per sensor, so that a writer could come      *)
(* between them.                                                           *)
(***************************************************************************)
EXTENDS Semaphores, Integers

CONSTANT Blank    \* what a part of mqtt_message holds before it is written

VARIABLES
  mqttPc,     \* where the task is
  message,    \* mqtt_message, [pms, bme]
  result,     \* what esp_mqtt_client_publish returned last; nobody looks at it
  pms,        \* ether->measurements.pms7003, written by the PMS7003 task
  bme         \* ether->measurements.bme280, written by the BME280 task

mqttTaskVars == <<mqttPc, message, result>>
mqttVars     == <<sem, mqttTaskVars, pms, bme>>

MqttPcs == {"uncreated", "start", "take", "compose", "composeRest", "publish", "pause", "give"}

BlankMessage == [pms |-> Blank, bme |-> Blank]

MqttTypeOK ==
  /\ SemTypeOK
  /\ mqttPc \in MqttPcs
  /\ DOMAIN message = {"pms", "bme"}
  /\ result \in {-1, 0}

\* The message holds what the sensors' tasks left, and all of it.
UpToDate == message = [pms |-> pms, bme |-> bme]

Start ==
  /\ mqttPc = "start"
  /\ mqttPc' = "take"
  /\ UNCHANGED <<sem, message, result, pms, bme>>

\* Faulty variant: the token is handed on before the message is put together.
GiveAtOnce ==
  /\ mqttPc = "take"
  /\ sem["mqtt"] = "full"
  /\ sem["pms7003"] # "null"
  /\ sem' = [sem EXCEPT !["mqtt"] = "empty", !["pms7003"] = "full"]
  /\ mqttPc' = "compose"
  /\ UNCHANGED <<message, result, pms, bme>>

Take ==
  /\ mqttPc = "take"
  /\ xSemaphoreTake("mqtt")
  /\ mqttPc' = "compose"
  /\ UNCHANGED <<message, result, pms, bme>>

\* create_mqtt_message, the fields of the PMS7003 ...
Compose ==
  /\ mqttPc = "compose"
  /\ message' = [message EXCEPT !.pms = pms]
  /\ mqttPc' = "composeRest"
  /\ UNCHANGED <<sem, result, pms, bme>>

\* ... and those of the BME280.
ComposeRest ==
  /\ mqttPc = "composeRest"
  /\ message' = [message EXCEPT !.bme = bme]
  /\ mqttPc' = "publish"
  /\ UNCHANGED <<sem, result, pms, bme>>

\* Faulty variant: the result is taken for an error when it is none, and the message
\* is published again.
PublishAgain ==
  /\ mqttPc = "publish"
  /\ result' \in {-1, 0}
  /\ IF result' = -1 THEN message' = BlankMessage /\ mqttPc' = "pause"
                     ELSE UNCHANGED <<message, mqttPc>>
  /\ UNCHANGED <<sem, pms, bme>>

\* esp_mqtt_client_publish with QoS 0: accepted or refused, it is all the same to
\* the task.  The message is dead once it is published.
Publish ==
  /\ mqttPc = "publish"
  /\ result' \in {-1, 0}
  /\ message' = BlankMessage
  /\ mqttPc' = "pause"
  /\ UNCHANGED <<sem, pms, bme>>

\* vTaskDelay(ether_delay_60s)
Pause ==
  /\ mqttPc = "pause"
  /\ mqttPc' = "give"
  /\ UNCHANGED <<sem, message, result, pms, bme>>

Give ==
  /\ mqttPc = "give"
  /\ xSemaphoreGive("pms7003")
  /\ mqttPc' = "take"
  /\ UNCHANGED <<message, result, pms, bme>>

Task == Start \/ Take \/ Compose \/ ComposeRest \/ Publish \/ Pause \/ Give

\* xTaskCreate(ether_mqtt_task, ...)
Create ==
  /\ mqttPc = "uncreated"
  /\ mqttPc' = "start"
  /\ UNCHANGED <<sem, message, result, pms, bme>>

MqttInit ==
  /\ mqttPc = "uncreated"
  /\ message = BlankMessage
  /\ result = 0
================================================================================
