---------------------------- MODULE WifiController ----------------------------
(***************************************************************************)
(* wifi_controller.c: wifi_controller_init, which blocks the boot until an *)
(* event-group bit is set, and wifi_controller_event_handler, which runs   *)
(* in the event loop's own task, beside the Wi-Fi station of ESP-IDF.      *)
(***************************************************************************)
EXTENDS Integers, Sequences

CONSTANT WIFI_CONTROLLER_RETRY_MAX    \* 5 in the code

ASSUME WifiAssumption == WIFI_CONTROLLER_RETRY_MAX \in Nat \ {0}

VARIABLES
  initPc,     \* where wifi_controller_init is
  station,    \* the station of the Wi-Fi driver
  events,     \* the default event loop's queue, oldest first
  bits,       \* event_group
  failures    \* disconnections handled since the last address, up to one too many

vars == <<initPc, station, events, bits, failures>>

\* The handler is registered for every Wi-Fi event; STA_CONNECTED stands for those it
\* does nothing about.
Events == {"STA_START", "STA_CONNECTED", "STA_DISCONNECTED", "GOT_IP"}

FailuresMax == WIFI_CONTROLLER_RETRY_MAX + 1

TypeOK ==
  /\ initPc \in {"start", "waiting", "returned"}
  /\ station \in {"off", "idle", "connecting", "associated", "connected"}
  /\ events \in Seq(Events)
  /\ bits \subseteq {"CONNECTED", "FAIL"}
  /\ failures \in 0..FailuresMax

--------------------------------------------------------------------------------
(* wifi_controller_init. *)

\* Everything up to esp_wifi_start, which posts WIFI_EVENT_STA_START.
StartStation ==
  /\ initPc = "start"
  /\ station' = "idle"
  /\ events' = Append(events, "STA_START")
  /\ initPc' = "waiting"
  /\ UNCHANGED <<bits, failures>>

\* Faulty variant: the wait is over after a time.
WaitTimesOut ==
  /\ initPc = "waiting"
  /\ initPc' = "returned"
  /\ UNCHANGED <<station, events, bits, failures>>

\* xEventGroupWaitBits, either bit, for ever; the bits are not cleared.
WaitReturns ==
  /\ initPc = "waiting"
  /\ bits \cap {"CONNECTED", "FAIL"} # {}
  /\ initPc' = "returned"
  /\ UNCHANGED <<station, events, bits, failures>>

--------------------------------------------------------------------------------
(* wifi_controller_event_handler. *)

esp_wifi_connect == station' = IF station = "idle" THEN "connecting" ELSE station

\* Faulty variant: the handler does not connect again.
HandleDisconnectedGivesUp ==
  /\ Head(events) = "STA_DISCONNECTED"
  /\ failures' = IF failures < FailuresMax THEN failures + 1 ELSE failures
  /\ UNCHANGED <<station, bits>>

\* Faulty variant: the retries are counted, and the station is given up in the end.
HandleDisconnectedCounting ==
  /\ Head(events) = "STA_DISCONNECTED"
  /\ IF failures < WIFI_CONTROLLER_RETRY_MAX
     THEN esp_wifi_connect /\ UNCHANGED bits
     ELSE bits' = bits \cup {"FAIL"} /\ UNCHANGED station
  /\ failures' = IF failures < FailuresMax THEN failures + 1 ELSE failures

\* current_retry_num is a local variable, 0 at every call.
HandleDisconnected ==
  /\ Head(events) = "STA_DISCONNECTED"
  /\ LET current_retry_num == 0
     IN  IF current_retry_num < WIFI_CONTROLLER_RETRY_MAX
         THEN esp_wifi_connect /\ UNCHANGED bits
         ELSE bits' = bits \cup {"FAIL"} /\ UNCHANGED station
  /\ failures' = IF failures < FailuresMax THEN failures + 1 ELSE failures

HandleStart ==
  /\ Head(events) = "STA_START"
  /\ esp_wifi_connect
  /\ UNCHANGED <<bits, failures>>

\* Faulty variant: the bit is not set.
HandleGotIpQuietly ==
  /\ Head(events) = "GOT_IP"
  /\ failures' = 0
  /\ UNCHANGED <<station, bits>>

HandleGotIp ==
  /\ Head(events) = "GOT_IP"
  /\ bits' = bits \cup {"CONNECTED"}
  /\ failures' = 0
  /\ UNCHANGED station

HandleOther ==
  /\ Head(events) = "STA_CONNECTED"
  /\ UNCHANGED <<station, bits, failures>>

wifi_controller_event_handler ==
  /\ events # <<>>
  /\ HandleStart \/ HandleDisconnected \/ HandleGotIp \/ HandleOther
  /\ events' = Tail(events)
  /\ UNCHANGED initPc

--------------------------------------------------------------------------------
(* The station: every attempt to connect ends one way or the other; an address  *)
(* may or may not follow, and the connection can drop at any time.              *)

AttemptEnds ==
  /\ station = "connecting"
  /\ \/ station' = "associated" /\ events' = Append(events, "STA_CONNECTED")
     \/ station' = "idle" /\ events' = Append(events, "STA_DISCONNECTED")
  /\ UNCHANGED <<initPc, bits, failures>>

AddressArrives ==
  /\ station = "associated"
  /\ station' = "connected"
  /\ events' = Append(events, "GOT_IP")
  /\ UNCHANGED <<initPc, bits, failures>>

ConnectionDrops ==
  /\ station \in {"associated", "connected"}
  /\ station' = "idle"
  /\ events' = Append(events, "STA_DISCONNECTED")
  /\ UNCHANGED <<initPc, bits, failures>>

Init ==
  /\ initPc = "start"
  /\ station = "off"
  /\ events = <<>>
  /\ bits = {}
  /\ failures = 0

Next ==
  \/ StartStation \/ WaitReturns \/ wifi_controller_event_handler
  \/ AttemptEnds \/ AddressArrives \/ ConnectionDrops

\* The scheduler runs the boot and the event loop, and the driver ends every attempt.
\* Nothing makes a DHCP server answer.
Fairness ==
  /\ WF_vars(StartStation) /\ WF_vars(WaitReturns)
  /\ WF_vars(wifi_controller_event_handler) /\ WF_vars(AttemptEnds)

Spec == Init /\ [][Next]_vars /\ Fairness

--------------------------------------------------------------------------------
(* Properties. *)

\* The station is never left unconnected with nobody to connect it: a drop that
\* happens while older events wait in the queue is not forgotten
\* (wifi_controller.c:13-16).
NeverAbandoned ==
  station = "idle" => \E i \in 1..Len(events) : events[i] \in {"STA_START", "STA_DISCONNECTED"}

\* The boot goes on once an address was obtained.  It waits for ever in two cases
\* only: the station tries again and again, or it sits in a network that gives it no
\* address, where nothing tries anything any more (wifi_controller.c:72-76).
ReturnsOrKeepsTrying ==
  <>(initPc = "returned") \/ []<>(station = "connecting") \/ <>[](station = "associated")

\* What the comment of wifi_controller.c:68-71 says, and WIFI_CONTROLLER_BIT_FAIL is
\* for: after the maximum number of retries the failure is reported.
FailureIsReported == failures > WIFI_CONTROLLER_RETRY_MAX => "FAIL" \in bits
================================================================================
