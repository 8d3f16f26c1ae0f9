------------------------------- MODULE Telemetry -------------------------------
(***************************************************************************)
(* How measurements get to the broker: the MQTT task, the MQTT controller  *)
(* and its connection, with the two sensors' tasks reduced to what they do *)
(* to the measurements and the semaphores.                                 *)
(*                                                                         *)
(* A cycle is a turn of the token round the ring, whatever its rounds      *)
(* achieve.  What is handed over has the number of the cycle (cycle) and that *)
(* of the cycle in which it was measured (read): a round that broke off    *)
(* hands over what an earlier one measured.  A sensor has several values,  *)
(* and each goes its own way; read stands for any one of them.             *)
(***************************************************************************)
EXTENDS Semaphores, Integers, Sequences

CONSTANTS
  Blank,      \* of MqttTask
  Cycles      \* cycles that are gone through

ASSUME TelemetryAssumption == Cycles \in Nat

VARIABLES
  mqttPc, message, result, pms, bme,                      \* MqttTask
  client, toBroker, toDevice, calls, subscribed,          \* MqttController
  arrived                                                 \* the messages on /topic/ether that the broker got

taskOwn   == <<sem, mqttPc, message, result, pms, bme>>
clientOwn == <<client, toBroker, toDevice, calls, subscribed>>
vars      == <<taskOwn, clientOwn, arrived>>

Task   == INSTANCE MqttTask
Client == INSTANCE MqttController

\* The sensors' tasks, each from its take to its give.  A round of the PMS7003 that broke
\* off leaves the words of earlier cycles, all or, after a short read, some of them.
MeasureParticles ==
  /\ sem["pms7003"] = "full"
  /\ pms.cycle < Cycles
  /\ \E read \in {pms.read, pms.cycle + 1} : pms' = [cycle |-> pms.cycle + 1, read |-> read]
  /\ sem' = [sem EXCEPT !["pms7003"] = "empty", !["bme280"] = "full"]
  /\ UNCHANGED <<mqttPc, message, result, bme, clientOwn, arrived>>

\* A round of the BME280 that broke off leaves what it has not read; and a register still
\* holds the measurement before when the one just forced is not over.
MeasureClimate ==
  /\ sem["bme280"] = "full"
  /\ \E read \in bme.read..(bme.cycle + 1) : bme' = [cycle |-> bme.cycle + 1, read |-> read]
  /\ sem' = [sem EXCEPT !["bme280"] = "empty", !["mqtt"] = "full"]
  /\ UNCHANGED <<mqttPc, message, result, pms, clientOwn, arrived>>

\* esp_mqtt_client_publish of the task, with QoS 0: the message goes out on the
\* connection, or is refused.
Publish ==
  /\ Task!Publish
  /\ \/ /\ result' = 0
        /\ client = "connected"
        /\ toBroker' = Append(toBroker, Client!esp_mqtt_client_publish("/topic/ether", message))
     \/ result' = -1 /\ UNCHANGED toBroker
  /\ UNCHANGED <<client, toDevice, calls, subscribed, arrived>>

TaskStep ==
  /\ Task!Start \/ Task!Take \/ Task!Compose \/ Task!ComposeRest \/ Task!Pause \/ Task!Give
  /\ UNCHANGED <<clientOwn, arrived>>

ClientStep ==
  /\ Client!HandleEvent \/ Client!HandlerCalls
  /\ UNCHANGED <<taskOwn, arrived>>

Connection ==
  /\ Client!Connect \/ Client!Disconnect
  /\ UNCHANGED <<taskOwn, arrived>>

Broker ==
  /\ Client!Broker
  /\ arrived' = IF Head(toBroker).topic = "/topic/ether"
                THEN Append(arrived, Head(toBroker).data) ELSE arrived
  /\ UNCHANGED taskOwn

\* The boot has started the client before it creates the tasks.
Init ==
  /\ sem = [h \in Handles |-> IF h = "pms7003" THEN "full" ELSE "empty"]
  /\ mqttPc = "start"
  /\ message = Task!BlankMessage
  /\ result = 0
  /\ pms = [cycle |-> 0, read |-> 0]
  /\ bme = [cycle |-> 0, read |-> 0]
  /\ client = "disconnected"
  /\ toBroker = <<>> /\ toDevice = <<>> /\ calls = <<>> /\ subscribed = {}
  /\ arrived = <<>>

Next ==
  \/ MeasureParticles \/ MeasureClimate \/ TaskStep \/ Publish
  \/ ClientStep \/ Connection \/ Broker

Spec == Init /\ [][Next]_vars

\* The client's task and the broker go on; nothing makes the network connect.
FairSpec == Spec /\ WF_vars(ClientStep) /\ WF_vars(Broker)

--------------------------------------------------------------------------------
(* Properties. *)

\* What both sensors' tasks left in one cycle: create_mqtt_message reads it in two steps,
\* one after the other (ether_main.c:51-59).
Whole(m) == m.pms.cycle = m.bme.cycle

\* Nothing in m was measured after what is in n.
NotNewer(m, n) == m.pms.read <= n.pms.read /\ m.bme.read <= n.bme.read

\* Every message that arrives is what the tasks left in one cycle.  After rounds that
\* broke off it may hold measurements of earlier cycles, and of different ones, but none
\* older than the message that arrived before it.
ArrivedWhole ==
  \A i \in DOMAIN arrived :
    /\ Whole(arrived[i])
    /\ \A j \in 1..i : NotNewer(arrived[j], arrived[i])

\* Whatever the connection loses and whatever the handler sends in between, what
\* arrives is of different cycles, in order, and of no cycle that is not yet over
\* (ether_main.c:89-96).
Feed == INSTANCE LossyFeed WITH
  measured <- bme.cycle,
  told     <- [i \in DOMAIN arrived |-> arrived[i].bme.cycle]

ImplementsFeed == Feed!Spec

\* The handler beside the task: see MqttController.
TestTrafficEnds     == Client!TestTrafficEnds
SubscriptionsSettle == Client!SubscriptionsSettle
================================================================================
