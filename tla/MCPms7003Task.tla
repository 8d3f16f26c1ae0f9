---------------------------- MODULE MCPms7003Task -----------------------------
(* Pms7003Task for TLC.  The task never looks at the MQTT task's semaphore:   *)
(* states that differ in it alone are explored once.                         *)
EXTENDS Pms7003Task

PmsView == <<sem["pms7003"], sem["bme280"], taskVars, sensor, rx>>
================================================================================
