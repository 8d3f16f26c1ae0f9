-------------------------- MODULE Pms7003TaskProofs ---------------------------
(* Theorems about the PMS7003 task in an arbitrary environment, for every      *)
(* value of its constants.                                                     *)
EXTENDS Pms7003Task, SequenceTheorems, TLAPS

--------------------------------------------------------------------------------
(* The receive buffer. *)

LEMMA ArriveType ==
  ASSUME rx \in Seq(Stamps), Len(rx) <= RxFrames, RxFrames \in Nat, Arrive
  PROVE  rx' \in Seq(Stamps) /\ Len(rx') <= RxFrames
  BY DEF Arrive, Stamps

LEMMA ArriveWarm ==
  ASSUME rx \in Seq(Stamps), \A i \in 1..Len(rx) : rx[i] = "warm", sensor.warm = TRUE, Arrive
  PROVE  \A i \in 1..Len(rx') : rx'[i] = "warm"
<1>1. CASE Len(rx) < RxFrames
  BY <1>1 DEF Arrive, Stamps
<1>2. CASE ~(Len(rx) < RxFrames)
  BY <1>2 DEF Arrive
<1> QED
  BY <1>1, <1>2

LEMMA TailType ==
  ASSUME rx \in Seq(Stamps), rx # <<>>, Len(rx) <= RxFrames, RxFrames \in Nat, rx' = Tail(rx)
  PROVE  /\ Head(rx) \in Stamps
         /\ rx' \in Seq(Stamps) /\ Len(rx') <= RxFrames
         /\ Head(rx) = rx[1] /\ 1 \in 1..Len(rx)
         /\ \A i \in 1..Len(rx') : i + 1 \in 1..Len(rx) /\ rx'[i] = rx[i + 1]
  OBVIOUS

LEMMA AgedType ==
  ASSUME rx \in Seq(Stamps), Len(rx) <= RxFrames, RxFrames \in Nat,
         rx' = [i \in 1..Len(rx) |-> "stale"]
  PROVE  rx' \in Seq(Stamps) /\ Len(rx') <= RxFrames
  BY DEF Stamps

\* What a command may do to the sensor, whatever it was.
LEMMA TransmitType ==
  ASSUME NEW cmd \in {"CHANGE_MODE_PASSIVE", "CHANGE_MODE_ACTIVE", "WAKEUP", "SLEEP", "READ_REQUEST"},
         NEW bytes, OwedMax \in Nat, sensor \in Sensor, Transmit(cmd, bytes)
  PROVE  /\ sensor' \in Sensor
         /\ cmd # "WAKEUP" => (sensor'.awake => sensor.awake)
         /\ cmd # "SLEEP" => sensor'.warm = sensor.warm
<1>1. CASE sensor' = sensor
  BY <1>1
<1>2. CASE sensor' = Obey(cmd) /\ cmd = "CHANGE_MODE_PASSIVE"
  BY <1>2 DEF Obey, Sensor
<1>3. CASE sensor' = Obey(cmd) /\ cmd = "CHANGE_MODE_ACTIVE"
  BY <1>3 DEF Obey, Sensor
<1>4. CASE sensor' = Obey(cmd) /\ cmd = "WAKEUP"
  BY <1>4 DEF Obey, Sensor
<1>5. CASE sensor' = Obey(cmd) /\ cmd = "SLEEP"
  <2>1. sensor' = [sensor EXCEPT !.awake = FALSE, !.warm = FALSE, !.owed = 0]
    BY <1>5 DEF Obey
  <2>2. 0 \in 0..OwedMax
    OBVIOUS
  <2>3. QED
    BY <1>5, <2>1, <2>2 DEF Sensor
<1>6. CASE sensor' = Obey(cmd) /\ cmd = "READ_REQUEST"
  BY <1>6 DEF Obey, Sensor
<1>7. QED
  BY <1>1, <1>2, <1>3, <1>4, <1>5, <1>6 DEF Transmit

\* What the first bytes of a frame make of a reading.
LEMMA OverwrittenReading ==
  ASSUME NEW reading \in Reading, NEW stamp \in Stamps, NEW bytes \in ReadCounts,
         NEW check \in BOOLEAN
  PROVE  LET o == Overwritten(reading, stamp, bytes, check)
         IN  /\ o \in Reading
             /\ pms7003_frame_receive(bytes, check) = "SUCCESS"
                  => o = [stamps |-> {stamp}, sound |-> TRUE]
             /\ pms7003_frame_receive(bytes, check) # "SUCCESS"
                  => \/ o = reading
                     \/ /\ o.stamps \subseteq reading.stamps \cup {stamp}
                        /\ stamp \in o.stamps /\ ~o.sound
<1> DEFINE o      == Overwritten(reading, stamp, bytes, check)
          sound  == pms7003_frame_receive(bytes, check) = "SUCCESS"
<1>1. sound <=> bytes = 32 /\ check = TRUE
  BY DEF pms7003_frame_receive, PMS7003_FRAME_ANSWER_SIZE
<1>2. bytes \in {2, 6, 12, 32}
  BY DEF ReadCounts, PMS7003_FRAME_ANSWER_SIZE
<1>3. CASE bytes = 2
  <2>1. o = reading
    BY <1>3 DEF Overwritten, WORDS_BEGIN
  <2>2. QED
    BY <1>1, <1>3, <2>1
<1>4. CASE bytes = 6
  <2>1. o = [stamps |-> reading.stamps \cup {stamp}, sound |-> FALSE]
    BY <1>4 DEF Overwritten, WORDS_BEGIN, WORDS_END
  <2>2. o \in Reading
    BY <2>1 DEF Reading
  <2>3. QED
    BY <1>1, <1>4, <2>1, <2>2
<1>5. CASE bytes \in {12, 32}
  <2>1. o = [stamps |-> {stamp}, sound |-> bytes = 32 /\ check]
    BY <1>5 DEF Overwritten, WORDS_BEGIN, WORDS_END, PMS7003_FRAME_ANSWER_SIZE
  <2>2. o \in Reading
    BY <2>1 DEF Reading
  <2>3. o.sound = (bytes = 32 /\ check) /\ o.stamps = {stamp}
    BY <2>1
  <2>4. CASE sound
    BY <1>1, <2>1, <2>2, <2>4
  <2>5. CASE ~sound
    BY <1>1, <2>2, <2>3, <2>5
  <2>6. QED
    BY <2>4, <2>5
<1>6. QED
  BY <1>2, <1>3, <1>4, <1>5

LEMMA StaleReading ==
  ASSUME NEW reading \in Reading
  PROVE  Stale(reading) \in Reading /\ "cold" \notin Stale(reading).stamps
  BY DEF Stale, Reading, Stamps

--------------------------------------------------------------------------------

LEMMA TypeInit == Init => PmsTypeOK
  BY PmsAssumption DEF Init, PmsInit, PmsTypeOK, SemTypeOK, PmsPcs, pms7003_state_t, Reading, Sensor,
                       Stamps, PmsAssumption

LEMMA TypeStep == PmsTypeOK /\ [Next]_pmsVars => PmsTypeOK'
<1> SUFFICES ASSUME PmsTypeOK, [Next]_pmsVars PROVE PmsTypeOK'
  OBVIOUS
<1> USE PmsAssumption DEF PmsAssumption, PmsTypeOK, SemTypeOK, PmsPcs, pms7003_state_t
<1>1. CASE Start
  BY <1>1 DEF Start
<1>2. CASE Take
  BY <1>2, AgedType, StaleReading DEF Take, xSemaphoreTake, Handles
<1>3. CASE ChangeMode
  BY <1>3, TransmitType DEF ChangeMode, InState, RoundGoesOn, Outcome
<1>4. CASE WakeUp
  BY <1>4, TransmitType DEF WakeUp, InState, RoundGoesOn, Outcome
<1>5. CASE WarmUp
  BY <1>5 DEF WarmUp, Sensor
<1>6. CASE ReadRequest
  BY <1>6, TransmitType DEF ReadRequest, uart_flush, InState, RoundGoesOn, Outcome
<1>7. CASE ReadSkips
  BY <1>7, TailType DEF ReadSkips, taskVars
<1>8. CASE Read
  <2>1. frame' \in Reading
    BY <1>8, TailType, OverwrittenReading DEF Read
  <2>2. QED
    BY <1>8, <2>1, TailType DEF Read, InState, RoundGoesOn, Outcome
<1>9. CASE Sleep
  BY <1>9, TransmitType DEF Sleep, InState, RoundGoesOn, Outcome
<1>10. CASE RoundEnd
  BY <1>10 DEF RoundEnd
<1>11. CASE Give
  BY <1>11 DEF Give, xSemaphoreGive, Handles
<1>12. CASE SensorAnswers
  BY <1>12, ArriveType, SMTT(30) DEF SensorAnswers, taskVars, Sensor
<1>13. CASE SensorStreams
  BY <1>13, ArriveType DEF SensorStreams, taskVars
<1>14. CASE Create
  BY <1>14 DEF Create
<1>15. CASE PmsEnvironment
  BY <1>15 DEF PmsEnvironment, OthersMoveSemaphores, taskVars
<1>16. CASE UNCHANGED pmsVars
  BY <1>16 DEF pmsVars, taskVars
<1>17. QED
  BY <1>1, <1>2, <1>3, <1>4, <1>5, <1>6, <1>7, <1>8, <1>9, <1>10, <1>11, <1>12, <1>13,
     <1>14, <1>15, <1>16 DEF Next, Task, PmsSensor

\* The task's variables keep their types: in particular the failure count never
\* passes its limit and the receive buffer its size.
THEOREM TypeCorrect == PmsSpec => []PmsTypeOK
  BY TypeInit, TypeStep, PTL DEF PmsSpec

--------------------------------------------------------------------------------
(***************************************************************************)
(* Where the readings come from.  That a reading is settled and sound when *)
(* it is handed over is decided several steps earlier: when the sensor was *)
(* woken up, when the receive buffer was last emptied and when the check   *)
(* code was looked at.  The invariant carries each of these facts from the *)
(* step that establishes it to the end of the round.                       *)
(***************************************************************************)
AtRest ==
  /\ pmsPc \in {"uncreated", "start"} => pmsState = "UNSET"
  /\ pmsPc = "take" => pmsState \in {"CHANGE_MODE_PASSIVE", "WAKEUP"}
  /\ pmsPc = "give" => pmsState = "WAKEUP"
  /\ pmsState = "READ" => pmsPc = "loop"
  /\ pmsPc = "warmup" => pmsState = "READ_REQUEST"
  /\ pmsPc \notin {"loop", "warmup"} => pmsRetry = 0
  /\ pmsSent # 0 => pmsPc = "loop" /\ pmsState = "READ_REQUEST" /\ pmsRetry < RetryMax

WarmedUp ==
  pmsPc = "loop" /\ pmsState \in {"READ_REQUEST", "READ"} => (sensor.awake => sensor.warm)

ReadSoundly ==
  pmsPc = "loop" /\ pmsState \in {"SLEEP", "UNSET"} => frame = [stamps |-> {"warm"}, sound |-> TRUE]

ReadingInv ==
  PmsTypeOK /\ AtRest /\ WarmedUp /\ OnlySettledFrames /\ ReadSoundly /\ NoColdReading

LEMMA ReadingInit == Init => ReadingInv
  BY TypeInit DEF Init, PmsInit, ReadingInv, AtRest, WarmedUp, OnlySettledFrames, ReadSoundly,
                  NoColdReading

LEMMA ReadingStep == ReadingInv /\ [Next]_pmsVars => ReadingInv'
<1> SUFFICES ASSUME ReadingInv, [Next]_pmsVars PROVE ReadingInv'
  OBVIOUS
<1> PmsTypeOK' BY TypeStep DEF ReadingInv
<1> USE PmsAssumption DEF PmsAssumption, ReadingInv, AtRest, WarmedUp, OnlySettledFrames,
                          ReadSoundly, NoColdReading
<1>1. CASE Start
  BY <1>1 DEF Start
<1>2. CASE Take
  BY <1>2, StaleReading DEF Take, PmsTypeOK
<1>3. CASE ChangeMode
  BY <1>3, TransmitType DEF ChangeMode, InState, RoundGoesOn, Outcome, PmsTypeOK
<1>4. CASE WakeUp
  BY <1>4, TransmitType DEF WakeUp, InState, RoundGoesOn, Outcome, PmsTypeOK
<1>5. CASE WarmUp
  BY <1>5 DEF WarmUp, PmsTypeOK, Sensor
<1>6. CASE ReadRequest
  BY <1>6, TransmitType DEF ReadRequest, uart_flush, InState, RoundGoesOn, Outcome, PmsTypeOK
<1>7. CASE ReadSkips
  BY <1>7, TailType DEF ReadSkips, taskVars, PmsTypeOK
<1>8. CASE Read
  <2>1. pmsState = "READ" /\ pmsPc = "loop" /\ pmsRetry < RetryMax /\ Head(rx) = "warm"
    BY <1>8, TailType DEF Read, InState, RoundGoesOn, PmsTypeOK
  <2>2. PICK bytes \in ReadCounts, check \in BOOLEAN :
          /\ frame' = Overwritten(frame, "warm", bytes, check)
          /\ Outcome(pms7003_frame_receive(bytes, check), "SLEEP")
    BY <1>8, <2>1 DEF Read
  <2>3. UNCHANGED <<pmsPc, pmsSent, pms, sensor>> /\ rx' = Tail(rx)
    BY <1>8 DEF Read
  <2>4. /\ "cold" \notin frame'.stamps
        /\ pms7003_frame_receive(bytes, check) = "SUCCESS"
             => frame' = [stamps |-> {"warm"}, sound |-> TRUE]
    BY <2>2, OverwrittenReading DEF PmsTypeOK, Stamps
  <2>5. AtRest' /\ WarmedUp' /\ NoColdReading' /\ ReadSoundly'
    BY <2>1, <2>2, <2>3, <2>4 DEF Outcome
  <2>6. OnlySettledFrames'
    BY <1>8, <2>1, <2>3, TailType DEF Read, PmsTypeOK
  <2>7. QED
    BY <2>5, <2>6
<1>9. CASE Sleep
  BY <1>9, TransmitType DEF Sleep, InState, RoundGoesOn, Outcome, PmsTypeOK
<1>10. CASE RoundEnd
  BY <1>10 DEF RoundEnd, RoundGoesOn
<1>11. CASE Give
  BY <1>11 DEF Give
<1>12. CASE SensorAnswers
  <2>1. pmsState = "READ" => sensor.warm = TRUE
    BY <1>12 DEF SensorAnswers, PmsTypeOK, Sensor
  <2>2. OnlySettledFrames'
    BY <1>12, <2>1, ArriveWarm DEF SensorAnswers, taskVars, PmsTypeOK
  <2>3. QED
    BY <1>12, <2>2 DEF SensorAnswers, taskVars, PmsTypeOK, Sensor
<1>13. CASE SensorStreams
  <2>1. pmsState = "READ" => sensor.warm = TRUE
    BY <1>13 DEF SensorStreams, PmsTypeOK, Sensor
  <2>2. OnlySettledFrames'
    BY <1>13, <2>1, ArriveWarm DEF SensorStreams, taskVars, PmsTypeOK
  <2>3. QED
    BY <1>13, <2>2 DEF SensorStreams, taskVars, PmsTypeOK, Sensor
<1>14. CASE Create
  BY <1>14 DEF Create
<1>15. CASE PmsEnvironment
  BY <1>15 DEF PmsEnvironment, taskVars
<1>16. CASE UNCHANGED pmsVars
  BY <1>16 DEF pmsVars, taskVars
<1>17. QED
  BY <1>1, <1>2, <1>3, <1>4, <1>5, <1>6, <1>7, <1>8, <1>9, <1>10, <1>11, <1>12, <1>13,
     <1>14, <1>15, <1>16 DEF Next, Task, PmsSensor

\* The inductive invariant: what each state of a round has already secured, warm-up
\* before request, flush before answer, check before sleep.
THEOREM ReadingInvariant == PmsSpec => []ReadingInv
  BY ReadingInit, ReadingStep, PTL DEF PmsSpec

\* While the task reads, the receive buffer holds only frames the sensor sent after
\* the warm-up of this round.
THEOREM SettledFrames == PmsSpec => []OnlySettledFrames
<1>1. ReadingInv => OnlySettledFrames
  BY DEF ReadingInv
<1> QED
  BY <1>1, ReadingInvariant, PTL

\* No reading of a sensor that was warming up ever gets into the measurements.
THEOREM ColdReadingsKeptOut == PmsSpec => []NoColdReading
<1>1. ReadingInv => NoColdReading
  BY DEF ReadingInv
<1> QED
  BY <1>1, ReadingInvariant, PTL

\* Every round starts with the whole failure budget, at the wake-up at the latest.
THEOREM AfreshEachRound == PmsSpec => []RoundStartsAfresh
<1>1. ReadingInv => RoundStartsAfresh
  BY DEF ReadingInv, AtRest, RoundStartsAfresh
<1> QED
  BY <1>1, ReadingInvariant, PTL

\* A round that read successfully hands over what it read, settled and sound.
THEOREM SoundHandover == PmsSpec => SuccessfulRoundIsSound
<1>1. ReadingInv /\ [Next]_pmsVars => [Handover]_pmsVars
  <2> SUFFICES ASSUME ReadingInv, Next, pmsPc = "loop", pmsPc' = "give",
                      pmsState \in {"SLEEP", "UNSET"}
               PROVE  pms' = [stamps |-> {"warm"}, sound |-> TRUE]
    BY DEF Handover
  <2>1. RoundEnd
    BY DEF Next, Task, PmsSensor, Start, Take, ChangeMode, WakeUp, WarmUp, ReadRequest, ReadSkips,
           Read, Sleep, Give, Create, PmsEnvironment, SensorAnswers, SensorStreams, taskVars
  <2> QED
    BY <2>1 DEF RoundEnd, ReadingInv, ReadSoundly
<1> QED
  BY <1>1, ReadingInvariant, PTL DEF PmsSpec, SuccessfulRoundIsSound

--------------------------------------------------------------------------------
(***************************************************************************)
(* What every round hands over, the broken ones included.  The answer      *)
(* buffer is a variable of the task that no round clears.                  *)
(***************************************************************************)

\* The reading was put together, in part at least, from frames of this round that were
\* short or failed their check, and from nothing else but what was handed over last.
PutTogether(reading) ==
  /\ "warm" \in reading.stamps
  /\ reading.stamps \subseteq pms.stamps \cup {"warm"}
  /\ ~reading.sound

\* Before a round has read anything the buffer is what the round before handed over.
BufferSoFar ==
  /\ ~(pmsPc = "loop" /\ pmsState \in {"READ", "SLEEP", "UNSET"}) => frame = pms
  /\ pmsState = "READ" => frame = pms \/ PutTogether(frame)

LEMMA BufferStep == ReadingInv /\ BufferSoFar /\ [Next]_pmsVars => BufferSoFar'
<1> SUFFICES ASSUME ReadingInv, BufferSoFar, [Next]_pmsVars PROVE BufferSoFar'
  OBVIOUS
<1> USE PmsAssumption DEF PmsAssumption, BufferSoFar, PutTogether
<1>1. CASE Start
  BY <1>1 DEF Start
<1>2. CASE Take
  <2>1. frame' = pms' /\ pmsPc' = "loop" /\ pmsState' \in {"CHANGE_MODE_PASSIVE", "WAKEUP"}
    BY <1>2 DEF Take, ReadingInv, AtRest
  <2>2. QED
    BY <2>1
<1>3. CASE ChangeMode \/ WakeUp
  <2>1. /\ UNCHANGED <<frame, pms>> /\ frame = pms
        /\ pmsState' # "READ"
        /\ pmsPc' = "loop" => pmsState' \notin {"READ", "SLEEP", "UNSET"}
    BY <1>3 DEF ChangeMode, WakeUp, InState, Outcome
  <2>2. QED
    BY <2>1
<1>4. CASE WarmUp
  BY <1>4 DEF WarmUp, ReadingInv, AtRest
<1>5. CASE ReadRequest
  <2>1. /\ UNCHANGED <<pmsPc, frame, pms>> /\ frame = pms
        /\ pmsRetry < RetryMax /\ (pmsState' = "READ" => pmsRetry' = pmsRetry)
    BY <1>5 DEF ReadRequest, InState, RoundGoesOn, Outcome
  <2>2. QED
    BY <2>1
<1>6. CASE ReadSkips
  BY <1>6 DEF ReadSkips, taskVars
<1>7. CASE Read
  <2>1. /\ pmsState = "READ" /\ pmsPc = "loop" /\ pmsRetry < RetryMax /\ Head(rx) = "warm"
        /\ UNCHANGED pmsPc
    BY <1>7, TailType DEF Read, InState, RoundGoesOn, ReadingInv, PmsTypeOK, OnlySettledFrames
  <2>2. PICK bytes \in ReadCounts, check \in BOOLEAN :
          /\ frame' = Overwritten(frame, "warm", bytes, check)
          /\ Outcome(pms7003_frame_receive(bytes, check), "SLEEP")
    BY <1>7, <2>1 DEF Read
  <2>3. CASE pms7003_frame_receive(bytes, check) = "SUCCESS"
    BY <2>1, <2>2, <2>3 DEF Outcome
  <2>4. CASE pms7003_frame_receive(bytes, check) # "SUCCESS"
    <3>1. pmsState' = "READ" /\ pms' = pms
      BY <1>7, <2>1, <2>2, <2>4 DEF Outcome, Read
    <3>2. \/ frame' = frame
          \/ /\ frame'.stamps \subseteq frame.stamps \cup {"warm"}
             /\ "warm" \in frame'.stamps /\ ~frame'.sound
      BY <2>2, <2>4, OverwrittenReading DEF ReadingInv, PmsTypeOK, Stamps
    <3>3. frame' = pms' \/ PutTogether(frame)'
      BY <2>1, <3>1, <3>2 DEF PutTogether
    <3>4. QED
      BY <2>1, <3>1, <3>3
  <2>5. QED
    BY <2>3, <2>4
<1>8. CASE Sleep
  BY <1>8 DEF Sleep, InState, Outcome
<1>9. CASE RoundEnd
  BY <1>9 DEF RoundEnd
<1>10. CASE Give
  BY <1>10 DEF Give, ReadingInv, AtRest
<1>11. CASE Create \/ PmsEnvironment \/ SensorAnswers \/ SensorStreams \/ UNCHANGED pmsVars
  BY <1>11 DEF Create, PmsEnvironment, SensorAnswers, SensorStreams, pmsVars, taskVars
<1>12. QED
  BY <1>1, <1>2, <1>3, <1>4, <1>5, <1>6, <1>7, <1>8, <1>9, <1>10, <1>11 DEF Next, Task, PmsSensor

\* What a round hands over depends on the state it ended in (ether_main.c:379-381 copies
\* the buffer whatever ended the loop): a sound reading of this round if it had read one.
\* If it gave up reading, what the round before handed over, or that with words of this
\* round's failed reads written over it, which then does not count as sound.  Otherwise
\* what the round before handed over.
HandsOver ==
  pmsPc = "loop" /\ pmsPc' = "give" =>
    /\ pmsState \in {"SLEEP", "UNSET"} => pms' = [stamps |-> {"warm"}, sound |-> TRUE]
    /\ pmsState = "READ" => pms' = pms \/ PutTogether(pms')
    /\ pmsState \notin {"READ", "SLEEP", "UNSET"} => pms' = pms

\* Every round of the task, complete or broken off, hands over exactly that: a short read
\* leaves words of an earlier round in the buffer (pms7003.c:96-103).
THEOREM EveryRoundHandsOver == PmsSpec => [][HandsOver]_pmsVars
<1>1. Init => BufferSoFar
  BY PmsAssumption DEF PmsAssumption, Init, PmsInit, BufferSoFar
<1>2. ReadingInv /\ BufferSoFar /\ [Next]_pmsVars => [HandsOver]_pmsVars
  <2> SUFFICES ASSUME ReadingInv, BufferSoFar, Next, pmsPc = "loop", pmsPc' = "give"
               PROVE  HandsOver
    BY DEF HandsOver
  <2>1. RoundEnd
    BY DEF Next, Task, PmsSensor, Start, Take, ChangeMode, WakeUp, WarmUp, ReadRequest, ReadSkips,
           Read, Sleep, Give, Create, PmsEnvironment, SensorAnswers, SensorStreams, taskVars
  <2>2. pms' = frame
    BY <2>1 DEF RoundEnd
  <2>3. QED
    BY <2>2 DEF HandsOver, BufferSoFar, ReadingInv, ReadSoundly
<1> QED
  BY <1>1, <1>2, BufferStep, ReadingInvariant, PTL DEF PmsSpec
================================================================================
