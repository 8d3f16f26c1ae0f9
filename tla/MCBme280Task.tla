----------------------------- MODULE MCBme280Task -----------------------------
(* Bme280Task for TLC.  The task never looks at the PMS7003 task's semaphore: *)
(* states that differ in it alone are explored once.                         *)
EXTENDS Bme280Task

BmeView == <<sem["bme280"], sem["mqtt"], bmeTaskVars, chip>>
================================================================================
