-------------------------------- MODULE Startup --------------------------------
(***************************************************************************)
(* controller_init (ether_main.c): the four controllers one after the      *)
(* other, while the Wi-Fi station and its event handler go on beside it.   *)
(* Only the first of them waits for anything, and the result of none is    *)
(* looked at.                                                              *)
(***************************************************************************)
EXTENDS WifiController

VARIABLES
  bootPc,     \* the controller whose initialisation is next; "tasks" after the last
  drivers,    \* the UART and the I2C driver: "absent", "installed" or "failed"
  client      \* the MQTT client: "absent", "failed" or "started"

bootVars == <<bootPc, drivers, client>>

startVars == <<vars, bootVars>>

Installed(d) ==
  \E outcome \in {"installed", "failed"} : drivers' = [drivers EXCEPT ![d] = outcome]

\* wifi_controller_init has returned.
WifiDone ==
  /\ bootPc = "wifi"
  /\ initPc = "returned"
  /\ bootPc' = "uart"
  /\ UNCHANGED <<vars, drivers, client>>

\* Faulty variant: the boot goes on only with a driver.
uart_controller_init_checked ==
  /\ bootPc = "uart"
  /\ Installed("uart")
  /\ bootPc' = IF drivers'["uart"] = "installed" THEN "i2c" ELSE "failed"
  /\ UNCHANGED <<vars, client>>

\* Installs the driver and sets it up; success whatever came of that.
uart_controller_init ==
  /\ bootPc = "uart"
  /\ Installed("uart")
  /\ bootPc' = "i2c"
  /\ UNCHANGED <<vars, client>>

\* Reports what came of it, to nobody.
i2c_controller_init ==
  /\ bootPc = "i2c"
  /\ Installed("i2c")
  /\ bootPc' = "mqtt"
  /\ UNCHANGED <<vars, client>>

\* Without memory for a client there is none to register with or to start.
mqtt_controller_init ==
  /\ bootPc = "mqtt"
  /\ client' \in {"started", "failed"}
  /\ bootPc' = "tasks"
  /\ UNCHANGED <<vars, drivers>>

StartInit ==
  /\ Init
  /\ bootPc = "wifi"
  /\ drivers = [d \in {"uart", "i2c"} |-> "absent"]
  /\ client = "absent"

controller_init ==
  WifiDone \/ uart_controller_init \/ i2c_controller_init \/ mqtt_controller_init

StartNext == controller_init \/ (Next /\ UNCHANGED bootVars)

StartSpec ==
  /\ StartInit /\ [][StartNext]_startVars
  /\ Fairness /\ WF_startVars(controller_init)

--------------------------------------------------------------------------------
(* Properties. *)

\* The initialisations take place in their order.
StartTypeOK ==
  /\ TypeOK
  /\ bootPc \in {"wifi", "uart", "i2c", "mqtt", "tasks"}
  /\ drivers \in [{"uart", "i2c"} -> {"absent", "installed", "failed"}]
  /\ client \in {"absent", "failed", "started"}

\* The MQTT client is not started before the device had an address
\* (ether_main.c:27-36), although the boot leaves its wait by the bits of an event
\* group that another task sets, and clears none of them.
ClientAfterAddress == client # "absent" => "CONNECTED" \in bits /\ initPc = "returned"

\* Once there was an address the boot gets to the tasks, whatever became of the
\* drivers and of the network since (ether_main.c:27-37).
BootCompletes == "CONNECTED" \in bits ~> bootPc = "tasks"

\* Started once, the station is connected again after every drop, also when the boot
\* has long been over: it is never left idle for good (wifi_controller.c:13-16).
StationKeptUp == (station # "off") ~> []<>(station # "idle")
================================================================================
