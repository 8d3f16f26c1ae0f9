---------------------------- MODULE TelemetryProofs ----------------------------
(* Theorems about Telemetry, for every number of cycles. *)
EXTENDS Telemetry, TLAPS

\* What is handed over in a cycle was measured in it or before it.
Readings     == {r \in [cycle : Nat, read : Nat] : r.read <= r.cycle}
Measurements == [pms : Readings, bme : Readings]

\* What the handler sends, and what the task does.
HandlerPackets ==
  [do : {"PUBLISH"}, topic : Client!Topics, data : {"data", "data_3"}]
    \cup [do : {"SUBSCRIBE", "UNSUBSCRIBE"}, topic : Client!Topics]

TaskPackets == [do : {"PUBLISH"}, topic : {"/topic/ether"}, data : Measurements]

Packets == HandlerPackets \cup TaskPackets

TelemetryTypeOK ==
  /\ sem \in [Handles -> {"null", "empty", "full"}]
  /\ mqttPc \in Task!MqttPcs \ {"uncreated"}
  /\ message \in [pms : Readings \cup {Blank}, bme : Readings \cup {Blank}]
  /\ pms \in Readings /\ bme \in Readings
  /\ toBroker \in Seq(Packets)
  /\ calls \in Seq(HandlerPackets)
  /\ arrived \in Seq(Measurements)

(***************************************************************************)
(* Who has the token, and what it says of the two counters.                *)
(***************************************************************************)
Working   == mqttPc \in {"compose", "composeRest", "publish", "pause", "give"}
Unpublished == sem["mqtt"] = "full" \/ mqttPc \in {"compose", "composeRest", "publish"}

Turns ==
  \/ /\ sem["pms7003"] = "full" /\ sem["bme280"] = "empty" /\ sem["mqtt"] = "empty" /\ ~Working
     /\ pms.cycle = bme.cycle
  \/ /\ sem["pms7003"] = "empty" /\ sem["bme280"] = "full" /\ sem["mqtt"] = "empty" /\ ~Working
     /\ pms.cycle = bme.cycle + 1
  \/ /\ sem["pms7003"] = "empty" /\ sem["bme280"] = "empty" /\ sem["mqtt"] = "full" /\ ~Working
     /\ pms.cycle = bme.cycle /\ bme.cycle > 0
  \/ /\ sem["pms7003"] = "empty" /\ sem["bme280"] = "empty" /\ sem["mqtt"] = "empty" /\ Working
     /\ pms.cycle = bme.cycle /\ bme.cycle > 0

MessageSoFar ==
  /\ mqttPc \in {"composeRest", "publish"} => message.pms = pms
  /\ mqttPc = "publish" => message.bme = bme

(***************************************************************************)
(* The messages that arrived, and behind them those under way, are whole,  *)
(* of different cycles and in order, none newer than the measurements are  *)
(* by now; none is of the cycle that the task has still to publish.        *)
(***************************************************************************)

\* The last cycle that may have been published.
Latest == IF Unpublished THEN bme.cycle - 1 ELSE bme.cycle

OfCycle(m) == m.bme.cycle \in 1..Latest /\ NotNewer(m, [pms |-> pms, bme |-> bme])

Before(m, n) == m.bme.cycle < n.bme.cycle /\ NotNewer(m, n)

UnderWay(i) == i \in 1..Len(toBroker) /\ toBroker[i].topic = "/topic/ether"

Ordered ==
  /\ \A i \in 1..Len(arrived) : Whole(arrived[i]) /\ OfCycle(arrived[i])
  /\ \A i \in 1..Len(toBroker) : UnderWay(i) =>
       Whole(toBroker[i].data) /\ OfCycle(toBroker[i].data)
  /\ \A i, j \in 1..Len(arrived) : i < j => Before(arrived[i], arrived[j])
  /\ \A i \in 1..Len(arrived), j \in 1..Len(toBroker) : UnderWay(j) =>
       Before(arrived[i], toBroker[j].data)
  /\ \A i, j \in 1..Len(toBroker) : UnderWay(i) /\ UnderWay(j) /\ i < j =>
       Before(toBroker[i].data, toBroker[j].data)

TelemetryInv == TelemetryTypeOK /\ Turns /\ MessageSoFar /\ Ordered

--------------------------------------------------------------------------------

LEMMA TelemetryInit == Init => TelemetryInv
  BY DEF Init, TelemetryInv, TelemetryTypeOK, Turns, Working, MessageSoFar, Ordered,
         Readings, UnderWay, Handles, Task!MqttPcs, Task!BlankMessage

LEMMA AppendIsSequence ==
  ASSUME NEW S, NEW s \in Seq(S), NEW e \in S
  PROVE  /\ Append(s, e) \in Seq(S) /\ Len(s) \in Nat /\ Len(Append(s, e)) = Len(s) + 1
         /\ Append(s, e)[Len(s) + 1] = e
         /\ \A i \in 1..Len(s) : Append(s, e)[i] = s[i]
  OBVIOUS

LEMMA FunctionIsSequence ==
  ASSUME NEW S, NEW n \in Nat, NEW f \in [1..n -> S]
  PROVE  f \in Seq(S) /\ Len(f) = n
  OBVIOUS

\* No part of what is measured gets older.
GoesOn ==
  /\ Latest <= Latest' /\ Latest' \in Int
  /\ pms'.read \in Nat /\ pms.read <= pms'.read
  /\ bme'.read \in Nat /\ bme.read <= bme'.read

\* What was no newer than the measurements still is none.
StillOfCycle(m) == m.bme.cycle \in 1..Latest' /\ NotNewer(m, [pms |-> pms', bme |-> bme'])

LEMMA OfCycleStays ==
  ASSUME TelemetryTypeOK, GoesOn, NEW m \in Measurements, OfCycle(m)
  PROVE  StillOfCycle(m)
<1>1. Latest \in Int /\ pms.read \in Nat /\ bme.read \in Nat
  BY DEF TelemetryTypeOK, Latest, Readings
<1>2. m.bme.cycle \in Nat /\ m.bme.read \in Nat /\ m.pms.read \in Nat
  BY DEF Measurements, Readings
<1>3. QED
  BY <1>1, <1>2 DEF OfCycle, StillOfCycle, NotNewer, GoesOn

\* What arrived and what is under way are messages.
LEMMA MessagesOnTheWay ==
  ASSUME TelemetryTypeOK
  PROVE  /\ \A i \in 1..Len(arrived) : arrived[i] \in Measurements
         /\ \A i \in 1..Len(toBroker) : UnderWay(i) => toBroker[i].data \in Measurements
<1>1. \A i \in 1..Len(arrived) : arrived[i] \in Measurements
  BY DEF TelemetryTypeOK
<1>2. \A i \in 1..Len(toBroker) : toBroker[i] \in Packets
  BY DEF TelemetryTypeOK
<1>3. \A p \in Packets : p.topic = "/topic/ether" => p.data \in Measurements
  BY DEF Packets, HandlerPackets, TaskPackets, Client!Topics
<1>4. QED
  BY <1>1, <1>2, <1>3 DEF UnderWay

\* Messages under way stay in order when packets in front of them, k of them, and
\* behind them are gone, or others join them.
Moved(k) ==
  \A i \in 1..Len(toBroker') : UnderWay(i)' =>
    /\ i + k \in 1..Len(toBroker) /\ UnderWay(i + k)
    /\ toBroker'[i] = toBroker[i + k]

LEMMA WayStays ==
  ASSUME TelemetryTypeOK, Ordered, GoesOn, NEW k \in Nat, Moved(k)
  PROVE  /\ \A i \in 1..Len(arrived) : Whole(arrived[i]) /\ StillOfCycle(arrived[i])
         /\ \A i \in 1..Len(toBroker') : UnderWay(i)' =>
              Whole(toBroker'[i].data) /\ StillOfCycle(toBroker'[i].data)
         /\ \A i \in 1..Len(arrived), j \in 1..Len(toBroker') : UnderWay(j)' =>
              Before(arrived[i], toBroker'[j].data)
         /\ \A i, j \in 1..Len(toBroker') : UnderWay(i)' /\ UnderWay(j)' /\ i < j =>
              Before(toBroker'[i].data, toBroker'[j].data)
<1>1. \A i \in 1..Len(arrived) : Whole(arrived[i]) /\ StillOfCycle(arrived[i])
  BY MessagesOnTheWay, OfCycleStays DEF Ordered
<1>2. \A i \in 1..Len(toBroker') : UnderWay(i)' =>
        Whole(toBroker'[i].data) /\ StillOfCycle(toBroker'[i].data)
  BY MessagesOnTheWay, OfCycleStays DEF Ordered, Moved
<1>3. \A i \in 1..Len(arrived), j \in 1..Len(toBroker') : UnderWay(j)' =>
        Before(arrived[i], toBroker'[j].data)
  BY DEF Ordered, Moved
<1>4. ASSUME NEW i \in 1..Len(toBroker'), NEW j \in 1..Len(toBroker'), UnderWay(i)', UnderWay(j)', i < j
      PROVE  Before(toBroker'[i].data, toBroker'[j].data)
  <2>1. /\ i + k \in 1..Len(toBroker) /\ UnderWay(i + k) /\ toBroker'[i] = toBroker[i + k]
        /\ j + k \in 1..Len(toBroker) /\ UnderWay(j + k) /\ toBroker'[j] = toBroker[j + k]
    BY <1>4 DEF Moved
  <2>2. i + k < j + k
    BY <1>4
  <2>3. QED
    BY <2>1, <2>2 DEF Ordered
<1>5. QED
  BY <1>1, <1>2, <1>3, <1>4

LEMMA OrderedMoves ==
  ASSUME TelemetryTypeOK, Ordered, GoesOn, UNCHANGED arrived, NEW k \in Nat, Moved(k)
  PROVE  Ordered'
  BY WayStays DEF Ordered, StillOfCycle, OfCycle, Whole, Before, NotNewer

LEMMA OrderedStays ==
  ASSUME TelemetryTypeOK, Ordered, GoesOn, UNCHANGED <<toBroker, arrived>>
  PROVE  Ordered'
<1>1. Moved(0)
  BY DEF Moved, UnderWay
<1>2. QED
  BY <1>1, OrderedMoves

\* Nothing changes for the messages while the task and the measurements stay.
LEMMA TaskStays ==
  ASSUME TelemetryInv, UNCHANGED taskOwn
  PROVE  Turns' /\ MessageSoFar' /\ GoesOn /\ Latest' = Latest /\ Latest \in Int
  BY DEF TelemetryInv, TelemetryTypeOK, Readings, taskOwn, Turns, Working, MessageSoFar, GoesOn, Latest, Unpublished

LEMMA MessageStep ==
  ASSUME TelemetryInv, Task!Start \/ Task!Take \/ Task!Compose \/ Task!ComposeRest \/ Task!Pause \/ Task!Give
  PROVE  /\ sem' \in [Handles -> {"null", "empty", "full"}]
         /\ mqttPc' \in Task!MqttPcs \ {"uncreated"}
         /\ message' \in [pms : Readings \cup {Blank}, bme : Readings \cup {Blank}]
         /\ UNCHANGED <<pms, bme>>
         /\ Turns' /\ MessageSoFar' /\ GoesOn
<1>1. UNCHANGED <<pms, bme>> /\ pms \in Readings /\ bme \in Readings
  BY DEF TelemetryInv, TelemetryTypeOK, Task!Start, Task!Take, Task!Compose, Task!ComposeRest, Task!Pause, Task!Give
<1>2. /\ pms.cycle \in Nat /\ bme.cycle \in Nat
      /\ pms.read \in Nat /\ bme.read \in Nat
  BY <1>1 DEF Readings
<1>3. /\ sem' \in [Handles -> {"null", "empty", "full"}]
      /\ mqttPc' \in Task!MqttPcs \ {"uncreated"}
      /\ Turns' /\ Latest <= Latest' /\ Latest' \in Int
  BY <1>1, <1>2 DEF TelemetryInv, TelemetryTypeOK, Turns, Working, Unpublished, Latest, Handles, Task!MqttPcs,
         Task!Start, Task!Take, Task!Compose, Task!ComposeRest, Task!Pause, Task!Give,
         Task!xSemaphoreTake, Task!xSemaphoreGive
<1>4. /\ message' \in [pms : Readings \cup {Blank}, bme : Readings \cup {Blank}]
      /\ MessageSoFar'
  BY <1>1 DEF TelemetryInv, TelemetryTypeOK, MessageSoFar,
         Task!Start, Task!Take, Task!Compose, Task!ComposeRest, Task!Pause, Task!Give
<1>5. QED
  BY <1>1, <1>2, <1>3, <1>4 DEF GoesOn

\* What the handler sends for an event is a sequence of its own packets.
LEMMA HandlerSends == \A event : Client!CallsOn(event) \in Seq(HandlerPackets)
<1> TAKE event
<1>1. /\ \A topic \in Client!Topics, data \in {"data", "data_3"} :
           Client!esp_mqtt_client_publish(topic, data) \in HandlerPackets
      /\ \A topic \in Client!Topics :
           /\ Client!esp_mqtt_client_subscribe(topic) \in HandlerPackets
           /\ Client!esp_mqtt_client_unsubscribe(topic) \in HandlerPackets
  BY DEF HandlerPackets, Client!esp_mqtt_client_publish, Client!esp_mqtt_client_subscribe,
         Client!esp_mqtt_client_unsubscribe
<1>2. Client!ConnectedCalls \in Seq(HandlerPackets)
  BY <1>1 DEF Client!ConnectedCalls, Client!Topics
<1>3. <<Client!esp_mqtt_client_publish("/topic/qos0", "data")>> \in Seq(HandlerPackets)
  BY <1>1 DEF Client!Topics
<1>4. QED
  BY <1>2, <1>3 DEF Client!CallsOn

LEMMA TelemetryStep == TelemetryInv /\ [Next]_vars => TelemetryInv'
<1> SUFFICES ASSUME TelemetryInv, [Next]_vars PROVE TelemetryInv'
  OBVIOUS
<1> USE DEF TelemetryInv
<1>1. CASE MeasureParticles
  <2>1. /\ UNCHANGED <<mqttPc, message, bme, clientOwn, arrived>>
        /\ sem' \in [Handles -> {"null", "empty", "full"}]
    BY <1>1 DEF MeasureParticles, TelemetryTypeOK
  <2>2. pms' \in Readings /\ pms'.cycle = pms.cycle + 1 /\ pms.read <= pms'.read
    <3>1. PICK read \in {pms.read, pms.cycle + 1} : pms' = [cycle |-> pms.cycle + 1, read |-> read]
      BY <1>1 DEF MeasureParticles
    <3>2. pms.cycle \in Nat /\ pms.read \in Nat /\ pms.read <= pms.cycle
      BY DEF TelemetryTypeOK, Readings
    <3>3. read \in Nat /\ pms.cycle + 1 \in Nat /\ pms.read <= read /\ read <= pms.cycle + 1
      <4>1. CASE read = pms.read
        BY <3>2, <4>1
      <4>2. CASE read = pms.cycle + 1
        BY <3>2, <4>2
      <4>3. QED
        BY <3>1, <4>1, <4>2
    <3>4. QED
      BY <3>1, <3>3 DEF Readings
  <2>3. /\ pms.cycle \in Nat /\ bme.cycle \in Nat /\ pms.read \in Nat /\ bme.read \in Nat
        /\ pms'.cycle \in Nat /\ pms'.read \in Nat
    BY <2>2 DEF TelemetryTypeOK, Readings
  <2>4. Turns' /\ MessageSoFar' /\ Latest <= Latest' /\ Latest' \in Int
    BY <1>1, <2>1, <2>2, <2>3 DEF MeasureParticles, TelemetryTypeOK, Turns, Working, Unpublished, Latest, MessageSoFar, Handles
  <2>5. GoesOn
    BY <2>1, <2>2, <2>3, <2>4 DEF GoesOn
  <2>6. TelemetryTypeOK'
    BY <2>1, <2>2 DEF TelemetryTypeOK, clientOwn
  <2>7. Ordered'
    BY <2>1, <2>5, OrderedStays DEF clientOwn
  <2>8. QED
    BY <2>4, <2>6, <2>7
<1>2. CASE MeasureClimate
  <2>1. /\ UNCHANGED <<mqttPc, message, pms, clientOwn, arrived>>
        /\ sem' \in [Handles -> {"null", "empty", "full"}]
    BY <1>2 DEF MeasureClimate, TelemetryTypeOK
  <2>2. bme' \in Readings /\ bme'.cycle = bme.cycle + 1 /\ bme.read <= bme'.read
    <3>1. PICK read \in bme.read..(bme.cycle + 1) : bme' = [cycle |-> bme.cycle + 1, read |-> read]
      BY <1>2 DEF MeasureClimate
    <3>2. bme.cycle \in Nat /\ bme.read \in Nat /\ bme.read <= bme.cycle
      BY DEF TelemetryTypeOK, Readings
    <3>3. read \in Nat /\ bme.cycle + 1 \in Nat /\ bme.read <= read /\ read <= bme.cycle + 1
      BY <3>1, <3>2
    <3>4. QED
      BY <3>1, <3>3 DEF Readings
  <2>3. /\ pms.cycle \in Nat /\ bme.cycle \in Nat /\ pms.read \in Nat /\ bme.read \in Nat
        /\ bme'.cycle \in Nat /\ bme'.read \in Nat
    BY <2>2 DEF TelemetryTypeOK, Readings
  <2>4. Turns' /\ MessageSoFar' /\ Latest <= Latest' /\ Latest' \in Int
    BY <1>2, <2>1, <2>2, <2>3 DEF MeasureClimate, TelemetryTypeOK, Turns, Working, Unpublished, Latest, MessageSoFar, Handles
  <2>5. GoesOn
    BY <2>1, <2>2, <2>3, <2>4 DEF GoesOn
  <2>6. TelemetryTypeOK'
    BY <2>1, <2>2 DEF TelemetryTypeOK, clientOwn
  <2>7. Ordered'
    BY <2>1, <2>5, OrderedStays DEF clientOwn
  <2>8. QED
    BY <2>4, <2>6, <2>7
<1>3. CASE TaskStep
  <2>1. TelemetryTypeOK' /\ Turns' /\ MessageSoFar' /\ GoesOn
    BY <1>3, MessageStep DEF TaskStep, TelemetryTypeOK, clientOwn
  <2>2. Ordered'
    BY <1>3, <2>1, OrderedStays DEF TaskStep, clientOwn
  <2>3. QED
    BY <2>1, <2>2
<1>4. CASE Publish
  <2>1. UNCHANGED <<sem, pms, bme, calls, arrived>> /\ mqttPc = "publish" /\ mqttPc' = "pause"
        /\ message' = [pms |-> Blank, bme |-> Blank]
    BY <1>4 DEF Publish, Task!Publish, Task!BlankMessage
  <2>2. /\ message \in Measurements /\ message.pms = pms /\ message.bme = bme
        /\ pms.cycle = bme.cycle /\ bme.cycle > 0 /\ Unpublished
    <3>1. message.pms = pms /\ message.bme = bme /\ pms.cycle = bme.cycle /\ bme.cycle > 0
      BY <2>1 DEF MessageSoFar, Turns, Working
    <3>2. message = [pms |-> message.pms, bme |-> message.bme]
      BY DEF TelemetryTypeOK
    <3>3. QED
      BY <2>1, <3>1, <3>2 DEF TelemetryTypeOK, Measurements, Unpublished
  <2>3. DEFINE p == Client!esp_mqtt_client_publish("/topic/ether", message)
  <2>4. p \in TaskPackets /\ p.topic = "/topic/ether" /\ p.data = message
    BY <2>2 DEF TaskPackets, Client!esp_mqtt_client_publish
  <2> HIDE DEF p
  <2>5. toBroker' = Append(toBroker, p) \/ toBroker' = toBroker
    BY <1>4 DEF Publish, p
  <2>6. TelemetryTypeOK'
    <3>1. p \in Packets
      BY <2>4 DEF Packets
    <3>2. toBroker \in Seq(Packets)
      BY DEF TelemetryTypeOK
    <3>3. toBroker' \in Seq(Packets)
      BY <3>1, <3>2, <2>5, AppendIsSequence
    <3>4. QED
      BY <2>1, <3>3 DEF TelemetryTypeOK, Task!MqttPcs
  <2>7. Turns' /\ MessageSoFar'
    BY <2>1 DEF Turns, Working, MessageSoFar
  <2>8. /\ Latest = bme.cycle - 1 /\ Latest' = bme.cycle
        /\ bme.cycle \in Nat /\ pms.read \in Nat /\ bme.read \in Nat
    BY <2>1, <2>2 DEF Unpublished, Latest, Turns, Working, TelemetryTypeOK, Readings
  <2>9. GoesOn
    BY <2>1, <2>8 DEF GoesOn
  <2>10. ASSUME toBroker' = toBroker PROVE Ordered'
    BY <2>1, <2>9, <2>10, OrderedStays
  <2>11. ASSUME toBroker' = Append(toBroker, p) PROVE Ordered'
    <3>1. /\ Len(toBroker') = Len(toBroker) + 1 /\ Len(toBroker) \in Nat
          /\ toBroker'[Len(toBroker) + 1] = p
          /\ \A i \in 1..Len(toBroker) : toBroker'[i] = toBroker[i]
      BY <2>11 DEF TelemetryTypeOK
    <3>2. \A i \in 1..Len(toBroker') : UnderWay(i)' =>
            \/ i = Len(toBroker) + 1 /\ toBroker'[i].data = message
            \/ i \in 1..Len(toBroker) /\ UnderWay(i) /\ toBroker'[i] = toBroker[i]
      BY <2>4, <3>1 DEF UnderWay
    <3>3. ASSUME NEW m \in Measurements, OfCycle(m) PROVE Before(m, message) /\ StillOfCycle(m)
      <4>1. m.bme.cycle \in 1..bme.cycle - 1 /\ NotNewer(m, message)
        BY <2>2, <2>8, <3>3 DEF OfCycle, NotNewer
      <4>2. m.bme.cycle < message.bme.cycle
        BY <2>2, <2>8, <4>1
      <4>3. QED
        BY <2>9, <3>3, <4>1, <4>2, OfCycleStays DEF Before
    <3>4. Whole(message) /\ StillOfCycle(message)
      <4>1. Whole(message) /\ message.bme.cycle \in 1..Latest'
        BY <2>2, <2>8 DEF Whole
      <4>2. NotNewer(message, [pms |-> pms', bme |-> bme'])
        BY <2>1, <2>2, <2>8 DEF NotNewer
      <4>3. QED
        BY <4>1, <4>2 DEF StillOfCycle
    <3>5. \A i \in 1..Len(arrived) : Whole(arrived[i]) /\ StillOfCycle(arrived[i]) /\ Before(arrived[i], message)
      BY <3>3, MessagesOnTheWay DEF Ordered
    <3>6. \A i \in 1..Len(toBroker) : UnderWay(i) =>
            /\ Whole(toBroker[i].data) /\ StillOfCycle(toBroker[i].data)
            /\ Before(toBroker[i].data, message)
      BY <3>3, MessagesOnTheWay DEF Ordered
    <3>7. \A i \in 1..Len(toBroker') : UnderWay(i)' =>
            Whole(toBroker'[i].data) /\ StillOfCycle(toBroker'[i].data)
      BY <3>2, <3>4, <3>6
    <3>8. \A i \in 1..Len(arrived), j \in 1..Len(toBroker') : UnderWay(j)' =>
            Before(arrived[i], toBroker'[j].data)
      BY <3>2, <3>5 DEF Ordered
    <3>9. ASSUME NEW i \in 1..Len(toBroker'), NEW j \in 1..Len(toBroker'), UnderWay(i)', UnderWay(j)', i < j
          PROVE  Before(toBroker'[i].data, toBroker'[j].data)
      <4>1. i \in 1..Len(toBroker) /\ UnderWay(i) /\ toBroker'[i] = toBroker[i]
        BY <3>1, <3>2, <3>9
      <4>2. CASE j = Len(toBroker) + 1 /\ toBroker'[j].data = message
        BY <3>6, <4>1, <4>2
      <4>3. CASE j \in 1..Len(toBroker) /\ UnderWay(j) /\ toBroker'[j] = toBroker[j]
        BY <3>9, <4>1, <4>3 DEF Ordered
      <4>4. QED
        BY <3>2, <3>9, <4>2, <4>3
    <3>10. QED
      BY <2>1, <3>5, <3>7, <3>8, <3>9 DEF Ordered, StillOfCycle, OfCycle, Whole, Before, NotNewer
  <2>12. QED
    BY <2>5, <2>6, <2>7, <2>10, <2>11
<1>5. CASE ClientStep
  <2>1. UNCHANGED <<taskOwn, arrived>>
    BY <1>5 DEF ClientStep
  <2>2. CASE Client!HandleEvent
    <3>1. UNCHANGED toBroker /\ calls' \in Seq(HandlerPackets)
      BY <2>2, HandlerSends DEF Client!HandleEvent
    <3>2. TelemetryTypeOK'
      BY <2>1, <3>1 DEF taskOwn, TelemetryTypeOK
    <3>3. Turns' /\ MessageSoFar' /\ Ordered'
      BY <2>1, <3>1, TaskStays, OrderedStays
    <3>4. QED
      BY <3>2, <3>3
  <2>3. CASE Client!HandlerCalls
    <3>1. /\ calls # <<>> /\ calls' = Tail(calls)
          /\ toBroker' = Append(toBroker, Head(calls)) \/ toBroker' = toBroker
      BY <2>3 DEF Client!HandlerCalls
    <3>2. Head(calls) \in HandlerPackets /\ calls' \in Seq(HandlerPackets)
      BY <3>1 DEF TelemetryTypeOK
    <3>3. Head(calls) \in Packets /\ Head(calls).topic # "/topic/ether"
      BY <3>2 DEF Packets, HandlerPackets, Client!Topics
    <3>4. toBroker \in Seq(Packets) /\ Len(toBroker) \in Nat
      BY DEF TelemetryTypeOK
    <3>5. toBroker' \in Seq(Packets)
      BY <3>1, <3>3, <3>4, AppendIsSequence
    <3>6. TelemetryTypeOK'
      BY <2>1, <3>2, <3>5 DEF taskOwn, TelemetryTypeOK
    <3>7. Turns' /\ MessageSoFar' /\ GoesOn
      BY <2>1, TaskStays
    <3>8. Moved(0)
      <4>1. CASE toBroker' = toBroker
        BY <4>1 DEF Moved, UnderWay
      <4>2. CASE toBroker' = Append(toBroker, Head(calls))
        BY <3>3, <3>4, <4>2, AppendIsSequence DEF Moved, UnderWay
      <4>3. QED
        BY <3>1, <4>1, <4>2
    <3>9. Ordered'
      BY <2>1, <3>7, <3>8, OrderedMoves
    <3>10. QED
      BY <3>6, <3>7, <3>9
  <2>4. QED
    BY <1>5, <2>2, <2>3 DEF ClientStep
<1>6. CASE Connection
  <2>1. UNCHANGED <<taskOwn, arrived, calls>>
    BY <1>6 DEF Connection, Client!Connect, Client!Disconnect
  <2>2. toBroker' = toBroker \/ toBroker' = <<>>
    BY <1>6 DEF Connection, Client!Connect, Client!Disconnect
  <2>3. toBroker' \in Seq(Packets)
    <3>1. toBroker \in Seq(Packets) /\ <<>> \in Seq(Packets)
      BY DEF TelemetryTypeOK
    <3>2. QED
      BY <2>2, <3>1
  <2>4. TelemetryTypeOK'
    BY <2>1, <2>3 DEF taskOwn, TelemetryTypeOK
  <2>5. Turns' /\ MessageSoFar' /\ GoesOn
    BY <2>1, TaskStays
  <2>6. Moved(0)
    BY <2>2 DEF Moved, UnderWay
  <2>7. Ordered'
    BY <2>1, <2>5, <2>6, OrderedMoves
  <2>8. QED
    BY <2>4, <2>5, <2>7
<1>7. CASE Broker
  <2>1. /\ toBroker # <<>> /\ toBroker' = Tail(toBroker)
        /\ UNCHANGED <<taskOwn, calls>>
        /\ arrived' = IF toBroker[1].topic = "/topic/ether"
                      THEN Append(arrived, toBroker[1].data) ELSE arrived
    BY <1>7 DEF Broker, Client!Broker, TelemetryTypeOK
  <2>2. /\ Len(toBroker) \in Nat \ {0} /\ Len(toBroker') = Len(toBroker) - 1
        /\ \A i \in 1..Len(toBroker') : toBroker'[i] = toBroker[i + 1]
        /\ toBroker' \in Seq(Packets)
    BY <2>1 DEF TelemetryTypeOK
  <2>3. toBroker[1].topic = "/topic/ether" => toBroker[1].data \in Measurements
    <3>1. toBroker[1] \in Packets
      BY <2>2 DEF TelemetryTypeOK
    <3>2. QED
      BY <3>1 DEF Packets, HandlerPackets, TaskPackets, Client!Topics
  <2>4. arrived' \in Seq(Measurements)
    BY <2>1, <2>3 DEF TelemetryTypeOK
  <2>5. TelemetryTypeOK'
    BY <2>1, <2>2, <2>4 DEF taskOwn, TelemetryTypeOK
  <2>6. Turns' /\ MessageSoFar' /\ GoesOn
    BY <2>1, TaskStays
  <2>7. Moved(1)
    BY <2>2 DEF Moved, UnderWay
  <2>8. CASE toBroker[1].topic = "/topic/ether"
    <3>1. /\ Len(arrived') = Len(arrived) + 1 /\ Len(arrived) \in Nat
          /\ arrived'[Len(arrived) + 1] = toBroker[1].data
          /\ \A i \in 1..Len(arrived) : arrived'[i] = arrived[i]
      BY <2>1, <2>8, <2>3 DEF TelemetryTypeOK
    <3>2. UnderWay(1) /\ 1 \in 1..Len(toBroker)
      BY <2>2, <2>8 DEF UnderWay
    <3> DEFINE m == toBroker[1].data
    <3>3. Whole(m) /\ StillOfCycle(m)
      BY <2>3, <2>6, <2>8, <3>2, OfCycleStays DEF Ordered
    <3>4. /\ \A i \in 1..Len(arrived) : Before(arrived[i], m)
          /\ \A j \in 1..Len(toBroker') : UnderWay(j)' => Before(m, toBroker'[j].data)
      <4>1. \A j \in 1..Len(toBroker') : UnderWay(j)' =>
              /\ j + 1 \in 1..Len(toBroker) /\ UnderWay(j + 1) /\ 1 < j + 1
              /\ toBroker'[j] = toBroker[j + 1]
        BY <2>2, <2>7 DEF Moved
      <4>2. QED
        BY <3>2, <4>1 DEF Ordered
    <3> HIDE DEF m
    <3>5. \A i \in 1..Len(arrived') : Whole(arrived'[i]) /\ StillOfCycle(arrived'[i])
      <4>1. \A i \in 1..Len(arrived) : Whole(arrived[i]) /\ StillOfCycle(arrived[i])
        BY <2>6, <2>7, WayStays
      <4>2. \A i \in 1..Len(arrived') : (i \in 1..Len(arrived) /\ arrived'[i] = arrived[i]) \/ arrived'[i] = m
        BY <3>1 DEF m
      <4>3. \A n : n = m => Whole(n) /\ StillOfCycle(n)
        BY <3>3
      <4>4. QED
        BY <4>1, <4>2, <4>3
    <3>6. \A i, j \in 1..Len(arrived') : i < j => Before(arrived'[i], arrived'[j])
      BY <3>1, <3>4 DEF Ordered, m
    <3>7. \A i \in 1..Len(arrived'), j \in 1..Len(toBroker') : UnderWay(j)' =>
            Before(arrived'[i], toBroker'[j].data)
      <4>1. \A i \in 1..Len(arrived), j \in 1..Len(toBroker') : UnderWay(j)' =>
              Before(arrived[i], toBroker'[j].data)
        BY <2>6, <2>7, WayStays
      <4>2. QED
        BY <3>1, <3>4, <4>1 DEF m
    <3>8. /\ \A i \in 1..Len(toBroker') : UnderWay(i)' =>
               Whole(toBroker'[i].data) /\ StillOfCycle(toBroker'[i].data)
          /\ \A i, j \in 1..Len(toBroker') : UnderWay(i)' /\ UnderWay(j)' /\ i < j =>
               Before(toBroker'[i].data, toBroker'[j].data)
      BY <2>6, <2>7, WayStays
    <3>9. Ordered'
      BY <3>5, <3>6, <3>7, <3>8 DEF Ordered, StillOfCycle, OfCycle, Whole, Before, NotNewer
    <3>10. QED
      BY <2>5, <2>6, <3>9
  <2>9. CASE toBroker[1].topic # "/topic/ether"
    <3>1. Ordered'
      BY <2>1, <2>6, <2>7, <2>9, OrderedMoves
    <3>2. QED
      BY <2>5, <2>6, <3>1
  <2>10. QED
    BY <2>8, <2>9
<1>8. CASE UNCHANGED vars
  <2>1. UNCHANGED <<taskOwn, calls, toBroker, arrived>>
    BY <1>8 DEF vars, clientOwn
  <2>2. TelemetryTypeOK'
    BY <2>1 DEF taskOwn, TelemetryTypeOK
  <2>3. QED
    BY <2>1, <2>2, TaskStays, OrderedStays
<1>9. QED
  BY <1>1, <1>2, <1>3, <1>4, <1>5, <1>6, <1>7, <1>8 DEF Next

--------------------------------------------------------------------------------

\* The inductive invariant of the way of the measurements.
THEOREM TelemetryInvariant == Spec => []TelemetryInv
  BY TelemetryInit, TelemetryStep, PTL DEF Spec

\* Every message that arrives is what both sensors' tasks left in one cycle, and nothing
\* in it was measured before what arrived earlier, whatever rounds broke off.
THEOREM WholeMessages == Spec => []ArrivedWhole
<1>1. TelemetryInv => ArrivedWhole
  <2>1. SUFFICES ASSUME TelemetryInv, NEW i \in 1..Len(arrived), NEW j \in 1..i
                 PROVE  Whole(arrived[i]) /\ NotNewer(arrived[j], arrived[i])
    BY DEF TelemetryInv, TelemetryTypeOK, ArrivedWhole
  <2>2. Len(arrived) \in Nat /\ arrived[i] \in Measurements /\ j \in 1..Len(arrived)
    BY <2>1, MessagesOnTheWay DEF TelemetryInv, TelemetryTypeOK
  <2>3. NotNewer(arrived[i], arrived[i])
    BY <2>2 DEF NotNewer, Measurements, Readings
  <2>4. j < i => NotNewer(arrived[j], arrived[i])
    BY <2>1, <2>2 DEF TelemetryInv, Ordered, Before
  <2>5. QED
    BY <2>1, <2>2, <2>3, <2>4 DEF TelemetryInv, Ordered
<1>2. QED
  BY <1>1, TelemetryInvariant, PTL

LEMMA StepOfFeed == TelemetryInv /\ [Next]_vars => [Feed!Next]_(Feed!feedVars)
<1> SUFFICES ASSUME TelemetryInv, [Next]_vars PROVE [Feed!Next]_(Feed!feedVars)
  OBVIOUS
<1> USE DEF TelemetryInv, Feed!Next, Feed!feedVars
<1>1. CASE MeasureParticles \/ TaskStep \/ Publish \/ ClientStep \/ Connection \/ UNCHANGED vars
  <2>1. UNCHANGED <<bme, arrived>>
    BY <1>1, MessageStep DEF MeasureParticles, clientOwn, TaskStep, Publish, Task!Publish, ClientStep, Connection,
                taskOwn, vars
  <2>2. QED
    BY <2>1
<1>2. CASE MeasureClimate
  BY <1>2 DEF MeasureClimate, Feed!Measure
<1>3. CASE Broker
  <2>1. /\ toBroker # <<>> /\ UNCHANGED bme
        /\ arrived' = IF toBroker[1].topic = "/topic/ether"
                      THEN Append(arrived, toBroker[1].data) ELSE arrived
    BY <1>3 DEF Broker, Client!Broker, TelemetryTypeOK, taskOwn
  <2>2. CASE toBroker[1].topic = "/topic/ether"
    <3>1. UnderWay(1) /\ 1 \in 1..Len(toBroker)
      BY <2>1, <2>2 DEF UnderWay, TelemetryTypeOK
    <3>2. toBroker[1].data.bme.cycle \in 1..bme.cycle
      BY <3>1 DEF Ordered, OfCycle, Latest, TelemetryTypeOK, Readings
    <3>3. \A i \in 1..Len(arrived) : arrived[i].bme.cycle < toBroker[1].data.bme.cycle
      BY <3>1 DEF Ordered, Before
    <3>4. /\ Len(arrived') = Len(arrived) + 1 /\ Len(arrived) \in Nat
          /\ arrived'[Len(arrived) + 1] = toBroker[1].data
          /\ \A i \in 1..Len(arrived) : arrived'[i] = arrived[i]
          /\ DOMAIN arrived = 1..Len(arrived) /\ DOMAIN arrived' = 1..Len(arrived')
      BY <2>1, <2>2, TelemetryStep DEF TelemetryTypeOK
    <3>5. /\ \A i \in 1..Len(arrived) : arrived[i].bme.cycle \in Nat
          /\ toBroker[1].data.bme.cycle \in Nat
      <4>1. \A i \in 1..Len(arrived) : arrived[i] \in Measurements
        BY DEF TelemetryTypeOK
      <4>2. QED
        BY <3>2, <4>1 DEF Measurements, Readings
    <3>6. DEFINE told == [i \in DOMAIN arrived |-> arrived[i].bme.cycle]
                 told2 == [i \in DOMAIN arrived' |-> arrived'[i].bme.cycle]
                 cycle == toBroker[1].data.bme.cycle
    <3>7. told \in [1..Len(arrived) -> Nat]
      BY <3>4, <3>5
    <3>8. told2 \in [1..Len(arrived) + 1 -> Nat]
      BY <3>4, <3>5
    <3>9. /\ \A i \in 1..Len(arrived) : told[i] = arrived[i].bme.cycle /\ told2[i] = told[i]
          /\ told2[Len(arrived) + 1] = cycle /\ cycle \in Nat
      BY <3>4, <3>5
    <3> HIDE DEF told, told2, cycle
    <3>10. told \in Seq(Nat) /\ Len(told) = Len(arrived)
      BY <3>4, <3>7, FunctionIsSequence
    <3>11. told2 \in Seq(Nat) /\ Len(told2) = Len(arrived) + 1
      BY <3>4, <3>8, FunctionIsSequence
    <3>12. told2 = Append(told, cycle)
      BY <3>4, <3>9, <3>10, <3>11, AppendIsSequence
    <3>13. \A i \in 1..Len(told) : told[i] < cycle
      BY <3>3, <3>9, <3>10 DEF cycle
    <3>14. Feed!Tell
      BY <2>1, <3>2, <3>12, <3>13 DEF Feed!Tell, told, told2, cycle
    <3>15. QED
      BY <3>14
  <2>3. CASE toBroker[1].topic # "/topic/ether"
    BY <2>1, <2>3
  <2>4. QED
    BY <2>2, <2>3
<1>4. QED
  BY <1>1, <1>2, <1>3 DEF Next

\* What arrives is of different cycles, in order, and of none that is not yet over:
\* the device implements a lossy feed.
THEOREM FeedImplemented == Spec => ImplementsFeed
<1>1. Init => Feed!Init
  BY DEF Init, Feed!Init
<1>2. QED
  BY <1>1, StepOfFeed, TelemetryInvariant, PTL DEF Spec, ImplementsFeed, Feed!Spec
================================================================================
