----------------------------- MODULE Pms7003Task ------------------------------
(***************************************************************************)
(* The task that reads the PMS7003 particle sensor (ether_main.c,          *)
(* ether_pms7003_task) over the frame layer of pms7003.c, with the UART    *)
(* receive buffer and the sensor at the other end of the wire.             *)
(*                                                                         *)
(* Data is reduced to where it comes from.  A frame is stamped by the      *)
(* sensor's condition when it was sent: "cold" before the 30 s warm-up of  *)
(* the current round is over, "warm" after it, "stale" if it was sent      *)
(* before the current round.  What the line does to a frame (bytes lost,   *)
(* bytes changed) is decided when it is read.  A short read overwrites     *)
(* only the first bytes of the task's buffer, so that a reading may be put *)
(* together from several frames: it has the stamps of all of them.         *)
(***************************************************************************)
EXTENDS Semaphores, Integers, Sequences

CONSTANTS
  RetryMax,       \* failures that end a round            (5 in the code)
  ReadRequests,   \* read requests sent before one read   (5 in the code)
  RxFrames,       \* frames the UART receive buffer holds (2048 bytes, 64 frames)
  OwedMax         \* requests the sensor can have yet to answer

ASSUME PmsAssumption ==
  /\ RetryMax \in Nat \ {0}
  /\ ReadRequests \in Nat \ {0}
  /\ RxFrames \in Nat \ {0}
  /\ OwedMax \in Nat \ {0}

VARIABLES
  pmsPc,      \* where the task is
  pmsState,   \* ether->state_machine.pms7003
  pmsRetry,   \* retry
  pmsSent,    \* i, the loop counter of PMS7003_STATE_READ_REQUEST
  frame,      \* the task's answer buffer
  pms,        \* ether->measurements.pms7003
  sensor,     \* the PMS7003 itself
  rx          \* frames in the UART receive buffer, oldest first

taskVars == <<pmsPc, pmsState, pmsRetry, pmsSent, frame, pms>>
pmsVars  == <<sem, taskVars, sensor, rx>>

PmsPcs == {"uncreated", "start", "take", "loop", "warmup", "give"}

pms7003_state_t ==
  {"READ_REQUEST", "CHANGE_MODE_PASSIVE", "CHANGE_MODE_ACTIVE", "SLEEP",
   "WAKEUP", "READ", "UNSET"}

Stamps  == {"stale", "cold", "warm"}

\* The three words of a buffer that are measurements: the frames their bytes are of,
\* and whether they are of one frame that passed its check.
Reading == [stamps : SUBSET (Stamps \cup {"zero"}), sound : BOOLEAN]
Sensor  == [awake : BOOLEAN, passive : BOOLEAN, warm : BOOLEAN, owed : 0..OwedMax]

PmsTypeOK ==
  /\ SemTypeOK
  /\ pmsPc \in PmsPcs
  /\ pmsState \in pms7003_state_t
  /\ pmsRetry \in 0..RetryMax
  /\ pmsSent \in 0..(ReadRequests - 1)
  /\ frame \in Reading
  /\ pms \in Reading
  /\ sensor \in Sensor
  /\ rx \in Seq(Stamps)
  /\ Len(rx) <= RxFrames

--------------------------------------------------------------------------------
(* The frame layer, pms7003.c. *)

PMS7003_FRAME_REQUEST_SIZE == 7
PMS7003_FRAME_ANSWER_SIZE  == 32

\* data_pm1_standard, data_pm25_standard and data_pm10_standard are bytes 4 to 9.
WORDS_BEGIN == 4
WORDS_END   == 10

\* What uart_write_bytes and pms7003_read can return: an error, a part, the whole.
\* A part of an answer may end before, within or after the words.
SentCounts == {-1, 3, PMS7003_FRAME_REQUEST_SIZE}
ReadCounts == {2, 6, 12, PMS7003_FRAME_ANSWER_SIZE}

pms7003_frame_send(bytes) ==
  CASE bytes < 0                                       -> "ERROR"
    [] bytes >= 0 /\ bytes # PMS7003_FRAME_REQUEST_SIZE -> "PARTIAL_SENT"
    [] OTHER                                           -> "SUCCESS"

\* Faulty variant: the check code is not looked at.
pms7003_frame_receive_unchecked(bytes, check) ==
  IF bytes # PMS7003_FRAME_ANSWER_SIZE THEN "PARTIAL_RECEIVED" ELSE "SUCCESS"

pms7003_frame_receive(bytes, check) ==
  CASE bytes # PMS7003_FRAME_ANSWER_SIZE            -> "PARTIAL_RECEIVED"
    [] bytes = PMS7003_FRAME_ANSWER_SIZE /\ ~check  -> "WRONG_CHECK_CODE"
    [] OTHER                                        -> "SUCCESS"

\* A reading after the first bytes of a frame were written over it.
Overwritten(reading, stamp, bytes, check) ==
  CASE bytes <= WORDS_BEGIN -> reading
    [] bytes > WORDS_BEGIN /\ bytes < WORDS_END
         -> [stamps |-> reading.stamps \cup {stamp}, sound |-> FALSE]
    [] OTHER
         -> [stamps |-> {stamp}, sound |-> bytes = PMS7003_FRAME_ANSWER_SIZE /\ check]

--------------------------------------------------------------------------------
(* The sensor and the wire. *)

\* The sensor after it has acted on a command.
Obey(cmd) ==
  CASE cmd = "CHANGE_MODE_PASSIVE" -> [sensor EXCEPT !.passive = TRUE]
    [] cmd = "CHANGE_MODE_ACTIVE"  -> [sensor EXCEPT !.passive = FALSE]
    [] cmd = "WAKEUP"              -> [sensor EXCEPT !.awake = TRUE]
    [] cmd = "SLEEP"               -> [sensor EXCEPT !.awake = FALSE, !.warm = FALSE, !.owed = 0]
    [] cmd = "READ_REQUEST"        -> IF sensor.awake /\ sensor.owed < OwedMax
                                      THEN [sensor EXCEPT !.owed = @ + 1] ELSE sensor

\* A request that was sent whole may still not be acted on: uart_write_bytes
\* says nothing of what arrives.
Transmit(cmd, bytes) ==
  sensor' \in IF bytes = PMS7003_FRAME_REQUEST_SIZE THEN {sensor, Obey(cmd)} ELSE {sensor}

\* A frame arrives; one that finds the buffer full is lost.
Arrive ==
  rx' = IF Len(rx) < RxFrames
        THEN Append(rx, IF sensor.warm THEN "warm" ELSE "cold") ELSE rx

SensorAnswers ==
  /\ sensor.awake
  /\ sensor.owed > 0
  /\ sensor' = [sensor EXCEPT !.owed = @ - 1]
  /\ Arrive
  /\ UNCHANGED <<sem, taskVars>>

SensorStreams ==
  /\ sensor.awake
  /\ ~sensor.passive
  /\ Arrive
  /\ UNCHANGED <<sem, taskVars, sensor>>

--------------------------------------------------------------------------------
(* ether_pms7003_task. *)

Stale(reading) ==
  [reading EXCEPT !.stamps = {IF stamp = "zero" THEN "zero" ELSE "stale" : stamp \in @}]

Start ==
  /\ pmsPc = "start"
  /\ pmsPc' = "take"
  /\ pmsState' = "CHANGE_MODE_PASSIVE"
  /\ UNCHANGED <<sem, pmsRetry, pmsSent, frame, pms, sensor, rx>>

\* A round begins: everything received so far is from before it.
Take ==
  /\ pmsPc = "take"
  /\ xSemaphoreTake("pms7003")
  /\ pmsPc' = "loop"
  /\ frame' = Stale(frame)
  /\ pms' = Stale(pms)
  /\ rx' = [i \in 1..Len(rx) |-> "stale"]
  /\ UNCHANGED <<pmsState, pmsRetry, pmsSent, sensor>>

\* The condition of the inner while loop, and a faulty variant of it.
RoundGoesOnOnceMore == pmsState # "UNSET" /\ pmsRetry <= RetryMax
RoundGoesOn == pmsState # "UNSET" /\ pmsRetry < RetryMax

InState(state) == pmsPc = "loop" /\ RoundGoesOn /\ pmsState = state

\* A state's last lines: on to the next state, or one more failure.
Outcome(result, next) ==
  IF result = "SUCCESS"
  THEN pmsState' = next /\ UNCHANGED pmsRetry
  ELSE pmsRetry' = pmsRetry + 1 /\ UNCHANGED pmsState

\* PMS7003_STATE_CHANGE_MODE_PASSIVE and _ACTIVE: only the first is ever entered.
ChangeMode ==
  /\ \E mode \in {"CHANGE_MODE_PASSIVE", "CHANGE_MODE_ACTIVE"}, bytes \in SentCounts :
       /\ InState(mode)
       /\ Transmit(mode, bytes)
       /\ Outcome(pms7003_frame_send(bytes), "WAKEUP")
  /\ UNCHANGED <<sem, pmsPc, pmsSent, frame, pms, rx>>

\* Faulty variant: the 30 s delay is left out.
WakeUpNoDelay ==
  /\ InState("WAKEUP")
  /\ \E bytes \in SentCounts :
       /\ Transmit("WAKEUP", bytes)
       /\ Outcome(pms7003_frame_send(bytes), "READ_REQUEST")
  /\ UNCHANGED <<sem, pmsPc, pmsSent, frame, pms, rx>>

WakeUp ==
  /\ InState("WAKEUP")
  /\ \E bytes \in SentCounts :
       /\ Transmit("WAKEUP", bytes)
       /\ Outcome(pms7003_frame_send(bytes), "READ_REQUEST")
       /\ pmsPc' = IF pms7003_frame_send(bytes) = "SUCCESS" THEN "warmup" ELSE "loop"
  /\ UNCHANGED <<sem, pmsSent, frame, pms, rx>>

\* vTaskDelay(ether_delay_30s) after a wake-up: a sensor awake at its end was awake during it.
WarmUp ==
  /\ pmsPc = "warmup"
  /\ pmsPc' = "loop"
  /\ sensor' = [sensor EXCEPT !.warm = sensor.awake]
  /\ UNCHANGED <<sem, pmsState, pmsRetry, pmsSent, frame, pms, rx>>

\* Faulty variant: the receive buffer is not flushed before a request.
uart_flush_none == UNCHANGED rx

uart_flush == rx' = <<>>

\* One iteration of the request loop; only the last one's result counts.
ReadRequest ==
  /\ InState("READ_REQUEST")
  /\ uart_flush
  /\ \E bytes \in SentCounts :
       /\ Transmit("READ_REQUEST", bytes)
       /\ IF pmsSent + 1 < ReadRequests
          THEN pmsSent' = pmsSent + 1 /\ UNCHANGED <<pmsState, pmsRetry>>
          ELSE pmsSent' = 0 /\ Outcome(pms7003_frame_send(bytes), "READ")
  /\ UNCHANGED <<sem, pmsPc, frame, pms>>

\* pms7003_read finds no start characters where it looks for them: it drops the
\* bytes and reads on.  With nothing to read it waits, for ever if nothing comes.
ReadSkips ==
  /\ InState("READ")
  /\ rx # <<>>
  /\ rx' = Tail(rx)
  /\ UNCHANGED <<sem, taskVars, sensor>>

\* pms7003_read returns a frame or the first part of one; either is in the
\* task's buffer whatever the check then says of it.
Read ==
  /\ InState("READ")
  /\ rx # <<>>
  /\ rx' = Tail(rx)
  /\ \E bytes \in ReadCounts, check \in BOOLEAN :
       /\ frame' = Overwritten(frame, Head(rx), bytes, check)
       /\ Outcome(pms7003_frame_receive(bytes, check), "SLEEP")
  /\ UNCHANGED <<sem, pmsPc, pmsSent, pms, sensor>>

Sleep ==
  /\ InState("SLEEP")
  /\ \E bytes \in SentCounts :
       /\ Transmit("SLEEP", bytes)
       /\ Outcome(pms7003_frame_send(bytes), "UNSET")
  /\ UNCHANGED <<sem, pmsPc, pmsSent, frame, pms, rx>>

\* Faulty variant: the failure count of this round is carried into the next.
RoundEndKeepsRetry ==
  /\ pmsPc = "loop"
  /\ ~RoundGoesOn
  /\ pms' = frame
  /\ pmsState' = "WAKEUP"
  /\ pmsPc' = "give"
  /\ UNCHANGED <<sem, pmsRetry, pmsSent, frame, sensor, rx>>

\* The inner loop is over, by success or by failures: copy the buffer and reset.
RoundEnd ==
  /\ pmsPc = "loop"
  /\ ~RoundGoesOn
  /\ pms' = frame
  /\ pmsState' = "WAKEUP"
  /\ pmsRetry' = 0
  /\ pmsPc' = "give"
  /\ UNCHANGED <<sem, pmsSent, frame, sensor, rx>>

Give ==
  /\ pmsPc = "give"
  /\ xSemaphoreGive("bme280")
  /\ pmsPc' = "take"
  /\ UNCHANGED <<pmsState, pmsRetry, pmsSent, frame, pms, sensor, rx>>

Task ==
  \/ Start \/ Take \/ ChangeMode \/ WakeUp \/ WarmUp \/ ReadRequest
  \/ ReadSkips \/ Read \/ Sleep \/ RoundEnd \/ Give

PmsSensor == SensorAnswers \/ SensorStreams

\* xTaskCreate(ether_pms7003_task, ...)
Create ==
  /\ pmsPc = "uncreated"
  /\ pmsPc' = "start"
  /\ UNCHANGED <<sem, pmsState, pmsRetry, pmsSent, frame, pms, sensor, rx>>

\* The controller may have been restarted while the sensor stayed powered:
\* the sensor starts in any condition, the buffers of the program are zero.
PmsInit ==
  /\ pmsPc = "uncreated"
  /\ pmsState = "UNSET"
  /\ pmsRetry = 0
  /\ pmsSent = 0
  /\ frame = [stamps |-> {"zero"}, sound |-> FALSE]
  /\ pms = [stamps |-> {"zero"}, sound |-> FALSE]
  /\ sensor \in {s \in Sensor : s.owed = 0 /\ (s.warm => s.awake)}
  /\ rx = <<>>

PmsEnvironment == OthersMoveSemaphores /\ UNCHANGED <<taskVars, sensor, rx>>

Init == sem = [h \in Handles |-> "null"] /\ PmsInit

Next == Task \/ PmsSensor \/ Create \/ PmsEnvironment

PmsSpec == Init /\ [][Next]_pmsVars

--------------------------------------------------------------------------------
(* Properties. *)

\* Once a round has reached READ, the receive buffer holds nothing but frames
\* the sensor sent in this round after its 30 s warm-up: the flush before each
\* request (ether_main.c:316) drops what came earlier.
OnlySettledFrames ==
  pmsState = "READ" => \A i \in 1..Len(rx) : rx[i] = "warm"

\* Whatever goes wrong, no reading is ever of a sensor that was still warming up
\* ("Wait at least 30s to get stable data", ether_main.c:309).
NoColdReading == "cold" \notin frame.stamps \cup pms.stamps

\* A round whose read succeeded hands over a frame of this round, sent after
\* the warm-up, that passed the check code, even if putting the sensor to
\* sleep then failed (ether_main.c:379-381 copies the buffer in both cases).
Handover ==
  pmsPc = "loop" /\ pmsPc' = "give" /\ pmsState \in {"SLEEP", "UNSET"}
    => pms' = [stamps |-> {"warm"}, sound |-> TRUE]

SuccessfulRoundIsSound == [][Handover]_pmsVars

\* Every round has the whole failure budget and starts no later than at the
\* wake-up, whatever the rounds before it ended with.
RoundStartsAfresh ==
  pmsPc = "take" =>
    pmsRetry = 0 /\ pmsSent = 0 /\ pmsState \in {"CHANGE_MODE_PASSIVE", "WAKEUP"}

\* What the comments say the flush and the delay are for, stable data only
\* (ether_main.c:309, :315), taken of what is handed over: readings of whole
\* frames with the right check code, or none yet.
OnlyStableDataHandedOver == pmsPc = "give" => pms.sound \/ pms.stamps = {"zero"}
================================================================================
