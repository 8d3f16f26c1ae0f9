------------------------- MODULE WifiControllerProofs -------------------------
(* Theorems about the Wi-Fi controller, for every value of its constant. *)
EXTENDS WifiController, TLAPS

StationInv == TypeOK /\ NeverAbandoned

LEMMA StationInit == Init => StationInv
  BY WifiAssumption
     DEF WifiAssumption, Init, StationInv, TypeOK, NeverAbandoned, FailuresMax, Events

LEMMA FailuresCount ==
  ASSUME failures \in 0..FailuresMax
  PROVE  (IF failures < FailuresMax THEN failures + 1 ELSE failures) \in 0..FailuresMax
  BY WifiAssumption DEF WifiAssumption, FailuresMax

\* What the queue holds behind its head after the head was taken.
LEMMA TailKeeps ==
  ASSUME events \in Seq(Events), events # <<>>, events' = Tail(events)
  PROVE  /\ events' \in Seq(Events)
         /\ Head(events) = events[1] /\ 1 \in 1..Len(events)
         /\ \A i \in 1..Len(events) : i # 1 => i - 1 \in 1..Len(events') /\ events'[i - 1] = events[i]
  OBVIOUS

LEMMA AppendKeeps ==
  ASSUME events \in Seq(Events), NEW event \in Events, events' = Append(events, event)
  PROVE  /\ events' \in Seq(Events)
         /\ Len(events') \in 1..Len(events') /\ events'[Len(events')] = event
  OBVIOUS

LEMMA StationStep == StationInv /\ [Next]_vars => StationInv'
<1> SUFFICES ASSUME StationInv, [Next]_vars PROVE StationInv'
  OBVIOUS
<1> USE DEF StationInv, TypeOK, NeverAbandoned
<1>1. CASE StartStation
  BY <1>1, AppendKeeps DEF StartStation, Events
<1>2. CASE WaitReturns
  BY <1>2 DEF WaitReturns
<1>3. CASE wifi_controller_event_handler
  <2>1. CASE HandleStart \/ HandleDisconnected
    <3>1. station' # "idle" /\ UNCHANGED bits
      BY <2>1, WifiAssumption DEF HandleStart, HandleDisconnected, esp_wifi_connect, WifiAssumption
    <3>2. station' \in {"off", "connecting", "associated", "connected"}
      BY <2>1, WifiAssumption DEF HandleStart, HandleDisconnected, esp_wifi_connect, WifiAssumption
    <3>3. failures' \in 0..FailuresMax
      BY <2>1, FailuresCount DEF HandleStart, HandleDisconnected
    <3>4. events' \in Seq(Events) /\ UNCHANGED initPc
      BY <1>3, TailKeeps DEF wifi_controller_event_handler
    <3>5. QED
      BY <3>1, <3>2, <3>3, <3>4
  <2>2. CASE HandleGotIp \/ HandleOther
    <3>1. station' = station /\ failures' \in {0, failures} /\ bits' \subseteq {"CONNECTED", "FAIL"}
      BY <2>2 DEF HandleGotIp, HandleOther
    <3>2. events' \in Seq(Events) /\ UNCHANGED initPc
      BY <1>3, TailKeeps DEF wifi_controller_event_handler
    <3>3. NeverAbandoned'
      <4> SUFFICES ASSUME station = "idle"
                   PROVE  \E i \in 1..Len(events') : events'[i] \in {"STA_START", "STA_DISCONNECTED"}
        BY <3>1
      <4>1. PICK i \in 1..Len(events) : events[i] \in {"STA_START", "STA_DISCONNECTED"}
        OBVIOUS
      <4>2. i # 1
        BY <1>3, <2>2, <4>1, TailKeeps DEF wifi_controller_event_handler, HandleGotIp, HandleOther
      <4>3. i - 1 \in 1..Len(events') /\ events'[i - 1] = events[i]
        BY <1>3, <4>2, TailKeeps DEF wifi_controller_event_handler
      <4>4. QED
        BY <4>1, <4>3
    <3>4. QED
      BY <3>1, <3>2, <3>3, WifiAssumption DEF WifiAssumption, FailuresMax
  <2>3. QED
    BY <1>3, <2>1, <2>2 DEF wifi_controller_event_handler
<1>4. CASE AttemptEnds
  BY <1>4, AppendKeeps DEF AttemptEnds, Events
<1>5. CASE AddressArrives
  BY <1>5, AppendKeeps DEF AddressArrives, Events
<1>6. CASE ConnectionDrops
  BY <1>6, AppendKeeps DEF ConnectionDrops, Events
<1>7. CASE UNCHANGED vars
  BY <1>7 DEF vars
<1>8. QED
  BY <1>1, <1>2, <1>3, <1>4, <1>5, <1>6, <1>7 DEF Next

\* A station without a connection always has an event on its way that will make the
\* handler connect it, however the driver's events interleave with the handler.
THEOREM StationNeverAbandoned == Spec => []NeverAbandoned
<1>1. StationInv => NeverAbandoned
  BY DEF StationInv
<1> QED
  BY <1>1, StationInit, StationStep, PTL DEF Spec
================================================================================
