---------------------------- MODULE MqttController ----------------------------
(***************************************************************************)
(* The MQTT controller (mqtt_controller.c): the event handler, which the   *)
(* client's task calls for what comes from the broker, and the client with *)
(* its connection.  Client and broker are modelled from how the handler    *)
(* uses them: packets keep their order, a connection that drops loses all  *)
(* that is under way in both directions, and a new one starts without      *)
(* subscriptions.                                                          *)
(***************************************************************************)
EXTENDS Naturals, Sequences

VARIABLES
  client,       \* started at boot (Startup): "disconnected" or "connected"
  toBroker,     \* packets on their way to the broker, oldest first
  toDevice,     \* packets on their way to the device
  calls,        \* what the handler has still to send for the event it handles
  subscribed    \* the topics the broker has the device subscribed to

mqttClientVars == <<client, toBroker, toDevice, calls, subscribed>>

Topics == {"/topic/qos0", "/topic/qos1"}

esp_mqtt_client_publish(topic, data) == [do |-> "PUBLISH", topic |-> topic, data |-> data]
esp_mqtt_client_subscribe(topic)     == [do |-> "SUBSCRIBE", topic |-> topic]
esp_mqtt_client_unsubscribe(topic)   == [do |-> "UNSUBSCRIBE", topic |-> topic]

--------------------------------------------------------------------------------
(* mqtt_controller_event_handler. *)

\* Faulty variant: the topic is unsubscribed before it is subscribed.
ConnectedCallsSwapped ==
  <<esp_mqtt_client_publish("/topic/qos1", "data_3"),
    esp_mqtt_client_subscribe("/topic/qos0"),
    esp_mqtt_client_unsubscribe("/topic/qos1"),
    esp_mqtt_client_subscribe("/topic/qos1")>>

ConnectedCalls ==
  <<esp_mqtt_client_publish("/topic/qos1", "data_3"),
    esp_mqtt_client_subscribe("/topic/qos0"),
    esp_mqtt_client_subscribe("/topic/qos1"),
    esp_mqtt_client_unsubscribe("/topic/qos1")>>

\* Faulty variant: the case of MQTT_EVENT_DATA publishes, too.
CallsOnEach(event) ==
  CASE event = "CONNECTED" -> ConnectedCalls
    [] event \in {"SUBSCRIBED", "DATA"} -> <<esp_mqtt_client_publish("/topic/qos0", "data")>>
    [] OTHER               -> <<>>

\* The switch of the handler: the events not named here are only logged.
CallsOn(event) ==
  CASE event = "CONNECTED"  -> ConnectedCalls
    [] event = "SUBSCRIBED" -> <<esp_mqtt_client_publish("/topic/qos0", "data")>>
    [] OTHER                -> <<>>

\* The client calls the handler for the next packet; one at a time.
HandleEvent ==
  /\ client = "connected"
  /\ calls = <<>>
  /\ toDevice # <<>>
  /\ calls' = CallsOn(Head(toDevice))
  /\ toDevice' = Tail(toDevice)
  /\ UNCHANGED <<client, toBroker, subscribed>>

\* The handler's next call; without a connection it sends nothing, and its result
\* is only logged.
HandlerCalls ==
  /\ calls # <<>>
  /\ calls' = Tail(calls)
  /\ toBroker' = IF client = "connected" THEN Append(toBroker, Head(calls)) ELSE toBroker
  /\ UNCHANGED <<client, toDevice, subscribed>>

--------------------------------------------------------------------------------
(* The client's connection and the broker. *)

\* The acknowledgement of the connection is the first packet of it.
Connect ==
  /\ client = "disconnected"
  /\ calls = <<>>
  /\ client' = "connected"
  /\ subscribed' = {}
  /\ toDevice' = <<"CONNECTED">>
  /\ UNCHANGED <<toBroker, calls>>

Disconnect ==
  /\ client = "connected"
  /\ client' = "disconnected"
  /\ toBroker' = <<>>
  /\ toDevice' = <<>>
  /\ UNCHANGED <<calls, subscribed>>

\* What the broker sends back for a packet.
Answer(p) ==
  CASE p.do = "SUBSCRIBE"                              -> <<"SUBSCRIBED">>
    [] p.do = "UNSUBSCRIBE"                            -> <<"UNSUBSCRIBED">>
    [] p.do = "PUBLISH" /\ p.topic \in subscribed      -> <<"DATA">>
    [] OTHER                                           -> <<>>

Broker ==
  /\ toBroker # <<>>
  /\ LET p == Head(toBroker)
     IN  /\ toDevice' = toDevice \o Answer(p)
         /\ subscribed' = CASE p.do = "SUBSCRIBE"   -> subscribed \cup {p.topic}
                            [] p.do = "UNSUBSCRIBE" -> subscribed \ {p.topic}
                            [] OTHER                -> subscribed
  /\ toBroker' = Tail(toBroker)
  /\ UNCHANGED <<client, calls>>

--------------------------------------------------------------------------------
(* Properties. *)

\* On a connection that lasts, the test traffic of the handler comes to an end: the
\* device receives its own "data", to which it is subscribed, and does not answer it
\* (mqtt_controller.c:28, :43, :52).
Rest == toDevice = <<>> /\ calls = <<>> /\ \A i \in DOMAIN toBroker : toBroker[i].topic \notin Topics

TestTrafficEnds == <>[](client = "connected") => <>[]Rest

\* It leaves the device subscribed to one topic (mqtt_controller.c:28-34).
SubscriptionsSettle == <>[](client = "connected") => <>[](subscribed = {"/topic/qos0"})
================================================================================
