----------------------------- MODULE StartupProofs -----------------------------
(* Theorems about the boot, for every number of retries. *)
EXTENDS Startup, WifiControllerProofs

(***************************************************************************)
(* Why an address is there before the client: the handler never sets the   *)
(* failure bit, so that only the other one ends the wait, and no bit is    *)
(* ever cleared.                                                           *)
(***************************************************************************)
BootInv ==
  /\ "FAIL" \notin bits
  /\ initPc = "returned" => "CONNECTED" \in bits
  /\ bootPc # "wifi" => initPc = "returned"
  /\ client # "absent" => bootPc = "tasks"

StartInv == StartTypeOK /\ NeverAbandoned /\ BootInv

LEMMA StartInitInv == StartInit => StartInv
  BY StationInit DEF StartInit, StartInv, StartTypeOK, BootInv, StationInv, Init

\* What a step beside the boot does to the bits and to the wait.
LEMMA WaitEndsWithAddress ==
  ASSUME BootInv, TypeOK, [Next]_vars
  PROVE  /\ "FAIL" \notin bits'
         /\ bits \subseteq bits'
         /\ initPc' = "returned" => "CONNECTED" \in bits'
         /\ initPc = "returned" => initPc' = "returned"
<1> USE DEF BootInv
<1>1. CASE StartStation
  BY <1>1 DEF StartStation
<1>2. CASE WaitReturns
  BY <1>2 DEF WaitReturns
<1>3. CASE wifi_controller_event_handler
  BY <1>3, WifiAssumption
     DEF wifi_controller_event_handler, HandleStart, HandleDisconnected, HandleGotIp, HandleOther,
         WifiAssumption
<1>4. CASE AttemptEnds \/ AddressArrives \/ ConnectionDrops
  BY <1>4 DEF AttemptEnds, AddressArrives, ConnectionDrops
<1>5. CASE UNCHANGED vars
  BY <1>5 DEF vars
<1>6. QED
  BY <1>1, <1>2, <1>3, <1>4, <1>5 DEF Next

LEMMA StartStepInv == StartInv /\ [StartNext]_startVars => StartInv'
<1> SUFFICES ASSUME StartInv, [StartNext]_startVars PROVE StartInv'
  OBVIOUS
<1> USE DEF StartInv, StartTypeOK
<1>1. [Next]_vars
  BY DEF StartNext, startVars, controller_init, WifiDone, uart_controller_init,
         i2c_controller_init, mqtt_controller_init
<1>2. TypeOK' /\ NeverAbandoned'
  BY <1>1, StationStep DEF StationInv
<1>3. /\ "FAIL" \notin bits'
      /\ initPc' = "returned" => "CONNECTED" \in bits'
      /\ initPc = "returned" => initPc' = "returned"
  BY <1>1, WaitEndsWithAddress
<1>4. /\ bootPc' \in {"wifi", "uart", "i2c", "mqtt", "tasks"}
      /\ drivers' \in [{"uart", "i2c"} -> {"absent", "installed", "failed"}]
      /\ client' \in {"absent", "failed", "started"}
  BY DEF StartNext, startVars, bootVars, controller_init, WifiDone, uart_controller_init,
         i2c_controller_init, mqtt_controller_init, Installed
<1>5. /\ bootPc' # "wifi" => bootPc # "wifi" \/ initPc = "returned"
      /\ client' # "absent" => bootPc' = "tasks"
  BY DEF BootInv, StartNext, startVars, bootVars, controller_init, WifiDone, uart_controller_init,
         i2c_controller_init, mqtt_controller_init
<1>6. QED
  BY <1>2, <1>3, <1>4, <1>5 DEF BootInv

--------------------------------------------------------------------------------

\* The inductive invariant of the boot.
THEOREM BootInvariant == StartSpec => []StartInv
  BY StartInitInv, StartStepInv, PTL DEF StartSpec

\* The MQTT client is not started before the device had an address (ether_main.c:27-36).
THEOREM AddressBeforeClient == StartSpec => []ClientAfterAddress
<1>1. StartInv => ClientAfterAddress
  BY DEF StartInv, BootInv, ClientAfterAddress
<1>2. QED
  BY <1>1, BootInvariant, PTL

\* Also beside the rest of the boot, and after it, an unconnected station has an event
\* on its way that makes the handler connect it (wifi_controller.c:13-16).
THEOREM StationNeverAbandonedAfterBoot == StartSpec => []NeverAbandoned
<1>1. StartInv => NeverAbandoned
  BY DEF StartInv
<1>2. QED
  BY <1>1, BootInvariant, PTL
================================================================================
