------------------------------ MODULE Semaphores ------------------------------
(***************************************************************************)
(* The three FreeRTOS binary semaphores of ether_main.c.  FreeRTOS is not  *)
(* part of the repository: the operations are modelled from how the tasks  *)
(* use them.  A handle is a global variable, "null" until                  *)
(* xSemaphoreCreateBinary assigns it.                                      *)
(***************************************************************************)
VARIABLE sem          \* handle -> "null", "empty" or "full"

Handles == {"pms7003", "bme280", "mqtt"}

\* xSemaphoreTake(h, portMAX_DELAY): blocks until the semaphore is full.
xSemaphoreTake(h) ==
  /\ sem[h] = "full"
  /\ sem' = [sem EXCEPT ![h] = "empty"]

\* xSemaphoreGive(h): giving a full binary semaphore fails and changes nothing,
\* so that the token given is lost; both outcomes leave it full.
xSemaphoreGive(h) ==
  /\ sem[h] # "null"
  /\ sem' = [sem EXCEPT ![h] = "full"]

SemTypeOK == sem \in [Handles -> {"null", "empty", "full"}]

\* What the other tasks may do to the semaphores as one task sees them: anything.
OthersMoveSemaphores == sem' \in [Handles -> {"null", "empty", "full"}]
================================================================================
