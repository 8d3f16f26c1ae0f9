--------------------------- MODULE Bme280TaskProofs ---------------------------
(* Theorems about the BME280 task in an arbitrary environment, for every value *)
(* of its constants.                                                           *)
EXTENDS Bme280Task, TLAPS

--------------------------------------------------------------------------------
(* The chip. *)

LEMMA ChipTypes ==
  ASSUME NEW c \in Chip
  PROVE  /\ Reset(c) \in Chip /\ Forced(c) \in Chip /\ MeasurementOver(c) \in Chip
         /\ \A writes \in 0..3 : WrittenUpTo(c, writes) \in Chip
  BY DEF Chip, Ages, Reset, Forced, MeasurementOver, WrittenUpTo

LEMMA ForcedMeasures ==
  ASSUME NEW c \in Chip
  PROVE  Forced(c).measuring = TRUE /\ Forced(c).humOn = c.humOn /\ Forced(c).genuine = c.genuine
  BY DEF Chip, Forced

\* What a forced measurement leaves in the data registers.
LEMMA RegistersFilled ==
  ASSUME NEW c \in Chip
  PROVE  LET over == MeasurementOver(c)
         IN  /\ over.humOn = c.humOn /\ over.genuine = c.genuine /\ over.measuring = FALSE
             /\ c.measuring => over.climate = "now" /\ (c.humOn => over.hum = "now")
             /\ ~c.measuring => over = c
  BY DEF Chip, MeasurementOver

LEMMA InitSetsUp ==
  ASSUME NEW c \in Chip
  PROVE  WrittenUpTo(c, 3).humOn = TRUE
  BY DEF Chip, Forced, WrittenUpTo

LEMMA OlderClimateType ==
  ASSUME NEW b \in Climate
  PROVE  /\ OlderClimate(b) \in Climate
         /\ OlderClimate(b).press.of \notin ThisRound /\ OlderClimate(b).hum.of \notin ThisRound
<1> DEFINE Hum   == [of : Ages, fine : Ages, cal : BOOLEAN]
          Temp  == [of : Ages, cal : BOOLEAN]
          Press == [of : Ages, fine : Ages]
<1>1. b.hum \in Hum /\ b.temp \in Temp /\ b.press \in Press
  BY DEF Climate
<1>2. \A age \in Ages : Older(age) \in Ages /\ Older(age) \notin ThisRound
  BY DEF Older, Ages, ThisRound
<1>3. [b.hum EXCEPT !.of = Older(@), !.fine = Older(@)] \in Hum
  BY <1>1, <1>2
<1>4. [b.temp EXCEPT !.of = Older(@)] \in Temp
  BY <1>1, <1>2
<1>5. [b.press EXCEPT !.of = Older(@), !.fine = Older(@)] \in Press
  BY <1>1, <1>2
<1>6. OlderClimate(b) \in Climate
  BY <1>3, <1>4, <1>5 DEF OlderClimate, Climate
<1>7. OlderClimate(b).press.of = Older(b.press.of) /\ OlderClimate(b).hum.of = Older(b.hum.of)
  BY <1>1 DEF OlderClimate
<1> QED
  BY <1>1, <1>2, <1>6, <1>7

--------------------------------------------------------------------------------

LEMMA TypeInit == Init => BmeTypeOK
<1> SUFFICES ASSUME Init PROVE BmeTypeOK
  OBVIOUS
<1>1. bme \in Climate
  <2>1. /\ bme.hum \in [of : Ages, fine : Ages, cal : BOOLEAN]
        /\ bme.temp \in [of : Ages, cal : BOOLEAN]
        /\ bme.press \in [of : Ages, fine : Ages]
    BY DEF Init, BmeInit, Ages
  <2>2. bme = [hum |-> bme.hum, temp |-> bme.temp, press |-> bme.press]
    BY DEF Init, BmeInit
  <2>3. QED
    BY <2>1, <2>2 DEF Climate
<1>2. chip \in Chip /\ raw \in Raw /\ tFine \in Ages /\ loaded \in BOOLEAN
  BY DEF Init, BmeInit, Raw, Ages, Chip
<1>3. SemTypeOK /\ bmePc \in BmePcs /\ bmeState \in bme280_state_t /\ bmeRetry \in 0..RetryMax
  BY BmeAssumption DEF Init, BmeInit, BmeAssumption, SemTypeOK, BmePcs, bme280_state_t
<1>4. QED
  BY <1>1, <1>2, <1>3 DEF BmeTypeOK

LEMMA TypeStep == BmeTypeOK /\ [Next]_bmeVars => BmeTypeOK'
<1> SUFFICES ASSUME BmeTypeOK, [Next]_bmeVars PROVE BmeTypeOK'
  OBVIOUS
<1> USE BmeAssumption DEF BmeAssumption, BmeTypeOK, SemTypeOK, BmePcs, bme280_state_t, Succeed, Fail,
                          InState, RoundGoesOn
<1>1. CASE Start
  BY <1>1 DEF Start
<1>2. CASE Take
  <2>1. /\ bmePc' \in BmePcs /\ bmeState' \in bme280_state_t /\ bmeRetry' \in 0..RetryMax
        /\ loaded' \in BOOLEAN /\ tFine' \in Ages
    BY <1>2 DEF Take, Older, Ages
  <2>2. SemTypeOK'
    BY <1>2 DEF Take, xSemaphoreTake, Handles
  <2>3. chip' \in Chip
    BY <1>2 DEF Take, Older, Chip, Ages
  <2>4. raw' \in Raw
    BY <1>2 DEF Take, Older, Raw, Ages
  <2>5. bme' \in Climate
    BY <1>2, OlderClimateType DEF Take
  <2>6. QED
    BY <2>1, <2>2, <2>3, <2>4, <2>5
<1>3. CASE state_machine_bme280_reset
  BY <1>3, ChipTypes DEF state_machine_bme280_reset
<1>4. CASE state_machine_bme280_init
  BY <1>4, ChipTypes DEF state_machine_bme280_init
<1>5. CASE state_machine_bme280_id
  BY <1>5 DEF state_machine_bme280_id
<1>6. CASE state_machine_bme280_get_compensation_data
  <2>1. loaded' \in BOOLEAN
    BY <1>6 DEF state_machine_bme280_get_compensation_data
  <2>2. QED
    BY <1>6, <2>1 DEF state_machine_bme280_get_compensation_data
<1>7. CASE state_machine_bme280_force_mode
  BY <1>7, ChipTypes DEF state_machine_bme280_force_mode
<1>8. CASE state_machine_bme280_measure_humidity
  BY <1>8 DEF state_machine_bme280_measure_humidity, Measured, Chip, Raw, Ages
<1>9. CASE state_machine_bme280_measure_temperature
  BY <1>9 DEF state_machine_bme280_measure_temperature, Measured, Chip, Raw, Ages
<1>10. CASE state_machine_bme280_measure_pressure
  BY <1>10 DEF state_machine_bme280_measure_pressure, Measured, Chip, Raw, Ages
<1>11. CASE state_machine_bme280_compensate_humidity
  BY <1>11 DEF state_machine_bme280_compensate_humidity, Raw, Climate
<1>12. CASE state_machine_bme280_compensate_temperature
  BY <1>12 DEF state_machine_bme280_compensate_temperature, Raw, Climate, Ages
<1>13. CASE state_machine_bme280_compensate_pressure
  BY <1>13 DEF state_machine_bme280_compensate_pressure, Raw, Climate
<1>14. CASE RoundEnd
  BY <1>14, ChipTypes DEF RoundEnd
<1>15. CASE Give
  BY <1>15 DEF Give, xSemaphoreGive, Handles
<1>16. CASE ChipMeasures
  BY <1>16, ChipTypes DEF ChipMeasures, bmeTaskVars
<1>17. CASE Create
  BY <1>17 DEF Create
<1>18. CASE BmeEnvironment
  BY <1>18 DEF BmeEnvironment, OthersMoveSemaphores, bmeTaskVars
<1>19. CASE UNCHANGED bmeVars
  BY <1>19 DEF bmeVars, bmeTaskVars
<1>20. QED
  BY <1>1, <1>2, <1>3, <1>4, <1>5, <1>6, <1>7, <1>8, <1>9, <1>10, <1>11, <1>12, <1>13, <1>14,
     <1>15, <1>16, <1>17, <1>18, <1>19 DEF Next, Task

\* The task's variables keep their types: in particular the failure count never
\* passes its limit.
THEOREM TypeCorrect == BmeSpec => []BmeTypeOK
  BY TypeInit, TypeStep, PTL DEF BmeSpec

--------------------------------------------------------------------------------
(***************************************************************************)
(* How far a round has come.  The values handed over are judged at the end *)
(* of a round; what makes them right happened in earlier states.  Each     *)
(* conjunct says what is already true in the states after the one that     *)
(* made it so, and what is not yet true before it.                         *)
(***************************************************************************)
In(states) == bmePc = "loop" /\ bmeState \in states

SettingUp   == {"RESET", "INIT", "ID", "GET_COMPENSATION_DATA"}
Measuring   == {"MEASURE_HUMIDITY", "MEASURE_TEMPERATURE", "MEASURE_PRESSURE"}
Compensating == {"COMPENSATE_HUMIDITY", "COMPENSATE_TEMPERATURE", "COMPENSATE_PRESSURE", "UNSET"}

AtRest ==
  /\ bmePc \in {"uncreated", "start"} => bmeState = "UNSET" /\ ~loaded
  /\ bmePc = "take" => bmeState \in {"RESET", "FORCE_MODE"}
  /\ bmePc = "give" => bmeState = "FORCE_MODE"
  /\ bmePc # "loop" => bmeRetry = 0

SetUpSoFar ==
  /\ bmeState \in SettingUp => ~loaded
  /\ bmeState \in {"ID", "GET_COMPENSATION_DATA"} => chip.humOn
  /\ bmeState = "GET_COMPENSATION_DATA" => chip.genuine

\* What was read is of this round, and of its measurement if that was over; the chip
\* measures no more once it is.
MeasuredSoFar ==
  /\ In(Measuring)
       => chip.measuring \/ (chip.climate = "now" /\ (chip.humOn => chip.hum = "now"))
  /\ In((Measuring \ {"MEASURE_HUMIDITY"}) \cup Compensating)
       => (chip.humOn => raw.hum \in ThisRound) /\ (raw.hum = "now" => ~chip.measuring)
  /\ In({"MEASURE_PRESSURE"} \cup Compensating)
       => raw.temp \in ThisRound /\ (raw.temp = "now" => ~chip.measuring)
          /\ (raw.hum = "now" => raw.temp = "now")
  /\ In(Compensating)
       => raw.press \in ThisRound /\ (raw.temp = "now" => raw.press = "now")

CompensatedSoFar ==
  /\ In({"COMPENSATE_TEMPERATURE", "COMPENSATE_PRESSURE", "UNSET"}) /\ loaded
       => bme.hum.of = raw.hum /\ bme.hum.cal
  /\ In({"COMPENSATE_PRESSURE", "UNSET"}) /\ loaded
       => tFine = raw.temp /\ bme.temp = [of |-> raw.temp, cal |-> TRUE]
  /\ In({"UNSET"}) => loaded /\ bme.press = [of |-> raw.press, fine |-> raw.temp]

NotYet ==
  /\ bmePc = "loop" /\ bmeState \notin {"COMPENSATE_PRESSURE", "UNSET"} => tFine \notin ThisRound
  /\ bmePc = "loop" /\ bmeState # "UNSET" => bme.press.of \notin ThisRound

RoundInv ==
  /\ BmeTypeOK /\ AtRest /\ SetUpSoFar /\ MeasuredSoFar /\ CompensatedSoFar /\ NotYet
  /\ CalibratedMeansSetUp /\ PressureFollowsTemperature /\ HumidityLags

LEMMA RoundInit == Init => RoundInv
  BY TypeInit DEF Init, BmeInit, RoundInv, AtRest, SetUpSoFar, MeasuredSoFar, CompensatedSoFar, NotYet,
                  In, SettingUp, CalibratedMeansSetUp, PressureFollowsTemperature, HumidityLags,
                  ThisRound

LEMMA RoundStep == RoundInv /\ [Next]_bmeVars => RoundInv'
<1> SUFFICES ASSUME RoundInv, [Next]_bmeVars PROVE RoundInv'
  OBVIOUS
<1> BmeTypeOK' BY TypeStep DEF RoundInv
<1> USE DEF RoundInv, AtRest, SetUpSoFar, MeasuredSoFar, CompensatedSoFar, NotYet, In, SettingUp,
            Measuring, Compensating, CalibratedMeansSetUp, PressureFollowsTemperature, HumidityLags,
            ReadInOrder, ThisRound, Succeed, Fail, InState, RoundGoesOn
<1>1. CASE Start
  BY <1>1 DEF Start
<1>2. CASE Take
  BY <1>2, OlderClimateType DEF Take, Older, BmeTypeOK, Chip
<1>3. CASE state_machine_bme280_reset
  BY <1>3 DEF state_machine_bme280_reset
<1>4. CASE state_machine_bme280_init
  BY <1>4, InitSetsUp DEF state_machine_bme280_init, BmeTypeOK
<1>5. CASE state_machine_bme280_id
  BY <1>5 DEF state_machine_bme280_id
<1>6. CASE state_machine_bme280_get_compensation_data
  BY <1>6 DEF state_machine_bme280_get_compensation_data
<1>7. CASE state_machine_bme280_force_mode
  <2>1. /\ bmePc = "loop" /\ bmeState = "FORCE_MODE" /\ bmePc' = "loop"
        /\ UNCHANGED <<loaded, raw, tFine, bme>>
        /\ bmeState' \in {"FORCE_MODE", "MEASURE_HUMIDITY"}
    BY <1>7 DEF state_machine_bme280_force_mode
  <2>2. /\ chip'.humOn = chip.humOn /\ chip'.genuine = chip.genuine
        /\ bmeState' = "MEASURE_HUMIDITY" => chip'.measuring = TRUE
    <3>1. chip \in Chip /\ (chip' = chip \/ chip' = Forced(chip))
      BY <1>7 DEF state_machine_bme280_force_mode, BmeTypeOK
    <3>2. bmeState' = "MEASURE_HUMIDITY" => chip' = Forced(chip)
      BY <1>7 DEF state_machine_bme280_force_mode
    <3>3. QED
      BY <3>1, <3>2, ForcedMeasures
  <2>3. MeasuredSoFar'
    <3>1. bmeState' = "MEASURE_HUMIDITY" => chip'.measuring
      BY <2>2
    <3>2. In(Measuring)'
            => chip'.measuring \/ (chip'.climate = "now" /\ (chip'.humOn => chip'.hum = "now"))
      BY <2>1, <3>1
    <3>3. /\ ~In((Measuring \ {"MEASURE_HUMIDITY"}) \cup Compensating)'
          /\ ~In({"MEASURE_PRESSURE"} \cup Compensating)'
          /\ ~In(Compensating)'
      BY <2>1
    <3>4. QED
      BY <3>2, <3>3
  <2>4. AtRest' /\ SetUpSoFar'
    BY <2>1
  <2>5. CompensatedSoFar' /\ NotYet'
    BY <2>1
  <2>6. CalibratedMeansSetUp'
    BY <2>1, <2>2
  <2>7. PressureFollowsTemperature' /\ HumidityLags'
    BY <2>1
  <2>8. QED
    BY <2>3, <2>4, <2>5, <2>6, <2>7
<1>8. CASE state_machine_bme280_measure_humidity
  BY <1>8 DEF state_machine_bme280_measure_humidity, Measured, BmeTypeOK, Raw
<1>9. CASE state_machine_bme280_measure_temperature
  BY <1>9 DEF state_machine_bme280_measure_temperature, Measured, BmeTypeOK, Raw
<1>10. CASE state_machine_bme280_measure_pressure
  BY <1>10 DEF state_machine_bme280_measure_pressure, Measured, BmeTypeOK, Raw
<1>11. CASE state_machine_bme280_compensate_humidity
  BY <1>11 DEF state_machine_bme280_compensate_humidity, BmeTypeOK, Climate
<1>12. CASE state_machine_bme280_compensate_temperature
  BY <1>12 DEF state_machine_bme280_compensate_temperature, BmeTypeOK, Climate
<1>13. CASE state_machine_bme280_compensate_pressure
  <2>1. CASE Fail /\ UNCHANGED bme
    BY <1>13, <2>1 DEF state_machine_bme280_compensate_pressure, BmeTypeOK
  <2>2. CASE /\ loaded /\ Succeed("UNSET")
             /\ bme' = [bme EXCEPT !.press = [of |-> raw.press, fine |-> tFine]]
    <3>1. /\ bme'.press = [of |-> raw.press, fine |-> tFine]
          /\ bme'.temp = bme.temp /\ bme'.hum = bme.hum
      BY <2>2 DEF BmeTypeOK, Climate
    <3>2. /\ bmeState = "COMPENSATE_PRESSURE" /\ bmePc = "loop" /\ bmeState' = "UNSET"
          /\ UNCHANGED <<bmePc, bmeRetry, chip, loaded, raw, tFine>>
      BY <1>13, <2>2 DEF state_machine_bme280_compensate_pressure
    <3>3. QED
      BY <2>2, <3>1, <3>2
  <2>3. QED
    BY <1>13, <2>1, <2>2 DEF state_machine_bme280_compensate_pressure
<1>14. CASE RoundEnd
  BY <1>14, RegistersFilled DEF RoundEnd, BmeTypeOK
<1>15. CASE Give
  BY <1>15 DEF Give
<1>16. CASE ChipMeasures
  BY <1>16, RegistersFilled DEF ChipMeasures, bmeTaskVars, BmeTypeOK
<1>17. CASE Create
  BY <1>17 DEF Create
<1>18. CASE BmeEnvironment
  BY <1>18 DEF BmeEnvironment, bmeTaskVars
<1>19. CASE UNCHANGED bmeVars
  BY <1>19 DEF bmeVars, bmeTaskVars
<1>20. QED
  BY <1>1, <1>2, <1>3, <1>4, <1>5, <1>6, <1>7, <1>8, <1>9, <1>10, <1>11, <1>12, <1>13, <1>14,
     <1>15, <1>16, <1>17, <1>18, <1>19 DEF Next, Task

\* The inductive invariant: what each state of a round has already set up, measured
\* and compensated.
THEOREM RoundInvariant == BmeSpec => []RoundInv
  BY RoundInit, RoundStep, PTL DEF BmeSpec

\* A pressure of this round is beside the temperature it was compensated with, which is
\* of this round too and not older than the pressure itself.
THEOREM PressureCoherent == BmeSpec => []PressureFollowsTemperature
<1>1. RoundInv => PressureFollowsTemperature
  BY DEF RoundInv
<1> QED
  BY <1>1, RoundInvariant, PTL

\* Calibration data is only ever loaded from a BME280 that was set up, and the set-up
\* is never undone.
THEOREM CalibrationSetUp == BmeSpec => []CalibratedMeansSetUp
<1>1. RoundInv => CalibratedMeansSetUp
  BY DEF RoundInv
<1> QED
  BY <1>1, RoundInvariant, PTL

\* Humidity never uses the fine temperature of its own round.
THEOREM HumidityAlwaysLags == BmeSpec => []HumidityLags
<1>1. RoundInv => HumidityLags
  BY DEF RoundInv
<1> QED
  BY <1>1, RoundInvariant, PTL

--------------------------------------------------------------------------------
(***************************************************************************)
(* What a round that broke off leaves.                                     *)
(***************************************************************************)

\* Humidity and temperature change together: not before the last measurement of the
\* round was read, and the second of them follows without another chance to fail.
TogetherSoFar ==
  /\ In(SettingUp \cup {"FORCE_MODE", "COMPENSATE_HUMIDITY"} \cup Measuring)
       => bme.hum.of \notin ThisRound /\ bme.temp.of \notin ThisRound
  /\ In({"COMPENSATE_TEMPERATURE"}) => bme.temp.of \notin ThisRound /\ bmeRetry < RetryMax
  /\ bmePc # "loop" /\ loaded => (bme.hum.of \in ThisRound <=> bme.temp.of \in ThisRound)

\* A program without calibration data has no fine temperature and no pressure.
Uncalibrated ==
  ~loaded => /\ tFine = "none"
             /\ bme.press = [of |-> "none", fine |-> "none"]
             /\ bme.hum.fine = "none" /\ ~bme.hum.cal /\ ~bme.temp.cal

LEMMA OlderKeeps ==
  ASSUME NEW b \in Climate
  PROVE  LET o == OlderClimate(b)
         IN  /\ o.hum.cal = b.hum.cal /\ o.temp.cal = b.temp.cal
             /\ o.hum.of \notin ThisRound /\ o.temp.of \notin ThisRound
             /\ b.hum.fine = "none" => o.hum.fine = "none"
             /\ b.press = [of |-> "none", fine |-> "none"] => o.press = b.press
<1>1. /\ b.hum \in [of : Ages, fine : Ages, cal : BOOLEAN]
      /\ b.temp \in [of : Ages, cal : BOOLEAN]
      /\ b.press \in [of : Ages, fine : Ages]
  BY DEF Climate
<1>2. /\ OlderClimate(b).hum = [b.hum EXCEPT !.of = Older(@), !.fine = Older(@)]
      /\ OlderClimate(b).temp = [b.temp EXCEPT !.of = Older(@)]
      /\ OlderClimate(b).press = [b.press EXCEPT !.of = Older(@), !.fine = Older(@)]
  BY DEF OlderClimate
<1>3. /\ \A age \in Ages : Older(age) \notin ThisRound
      /\ Older("none") = "none"
  BY DEF Older, Ages, ThisRound
<1>4. /\ OlderClimate(b).hum.cal = b.hum.cal /\ OlderClimate(b).hum.of \notin ThisRound
      /\ b.hum.fine = "none" => OlderClimate(b).hum.fine = "none"
  BY <1>1, <1>2, <1>3
<1>5. OlderClimate(b).temp.cal = b.temp.cal /\ OlderClimate(b).temp.of \notin ThisRound
  BY <1>1, <1>2, <1>3
<1>6. ASSUME b.press = [of |-> "none", fine |-> "none"]
      PROVE  OlderClimate(b).press = b.press
  <2>1. OlderClimate(b).press = [of |-> Older("none"), fine |-> Older("none")]
    <3>1. OlderClimate(b).press = [of |-> Older(b.press.of), fine |-> Older(b.press.fine)]
      BY <1>1, <1>2
    <3>2. b.press.of = "none" /\ b.press.fine = "none"
      BY <1>6
    <3>3. QED
      BY <3>1, <3>2
  <2>2. QED
    BY <1>3, <1>6, <2>1
<1>7. QED
  BY <1>4, <1>5, <1>6

LEMMA CompensationWrites ==
  ASSUME bme \in Climate
  PROVE  /\ state_machine_bme280_compensate_humidity =>
              bme'.hum = [of |-> raw.hum, fine |-> tFine, cal |-> loaded]
              /\ bme'.temp = bme.temp /\ bme'.press = bme.press
         /\ state_machine_bme280_compensate_temperature =>
              bme'.temp = [of |-> raw.temp, cal |-> loaded]
              /\ bme'.hum = bme.hum /\ bme'.press = bme.press
         /\ state_machine_bme280_compensate_pressure =>
              bme'.hum = bme.hum /\ bme'.temp = bme.temp /\ (~loaded => bme' = bme)
  BY DEF state_machine_bme280_compensate_humidity, state_machine_bme280_compensate_temperature,
         state_machine_bme280_compensate_pressure, Climate

\* A step that is none of those above changes no compensated value.
Compensates ==
  \/ state_machine_bme280_compensate_humidity
  \/ state_machine_bme280_compensate_temperature
  \/ state_machine_bme280_compensate_pressure

LEMMA OnlyTheseWrite == [Next]_bmeVars => Take \/ Compensates \/ UNCHANGED <<tFine, bme>>
  BY DEF Next, Task, Start, RoundEnd, Give, Create, BmeEnvironment, ChipMeasures, Compensates,
         state_machine_bme280_reset, state_machine_bme280_init, state_machine_bme280_id,
         state_machine_bme280_get_compensation_data, state_machine_bme280_force_mode,
         state_machine_bme280_measure_humidity, state_machine_bme280_measure_temperature,
         state_machine_bme280_measure_pressure, Measured, bmeVars, bmeTaskVars

LEMMA UncalibratedStep == RoundInv /\ Uncalibrated /\ [Next]_bmeVars => Uncalibrated'
<1> SUFFICES ASSUME RoundInv, Uncalibrated, [Next]_bmeVars, ~loaded'
             PROVE  Uncalibrated'
  BY DEF Uncalibrated
<1>1. ~loaded /\ bme \in Climate /\ loaded = FALSE
  <2>1. ~loaded
    BY DEF Next, Task, Start, Take, RoundEnd, Give, Create, BmeEnvironment, ChipMeasures,
           state_machine_bme280_reset, state_machine_bme280_init, state_machine_bme280_id,
           state_machine_bme280_get_compensation_data, state_machine_bme280_force_mode,
           state_machine_bme280_measure_humidity, state_machine_bme280_measure_temperature,
           state_machine_bme280_measure_pressure, Measured,
           state_machine_bme280_compensate_humidity,
           state_machine_bme280_compensate_temperature,
           state_machine_bme280_compensate_pressure, bmeVars, bmeTaskVars
  <2>2. QED
    BY <2>1 DEF RoundInv, BmeTypeOK
<1>2. CASE Take
  <2>1. tFine' = Older(tFine) /\ bme' = OlderClimate(bme)
    BY <1>2 DEF Take
  <2>2. QED
    BY <1>1, <2>1, OlderKeeps DEF Uncalibrated, Older, ThisRound
<1>3. CASE state_machine_bme280_compensate_humidity
  <2>1. tFine' = tFine
    BY <1>3 DEF state_machine_bme280_compensate_humidity
  <2>2. QED
    BY <1>1, <1>3, <2>1, CompensationWrites DEF Uncalibrated
<1>4. CASE state_machine_bme280_compensate_temperature
  <2>1. tFine' = "none"
    BY <1>1, <1>4 DEF state_machine_bme280_compensate_temperature
  <2>2. QED
    BY <1>1, <1>4, <2>1, CompensationWrites DEF Uncalibrated
<1>5. CASE state_machine_bme280_compensate_pressure
  <2>1. tFine' = tFine
    BY <1>5 DEF state_machine_bme280_compensate_pressure
  <2>2. QED
    BY <1>1, <1>5, <2>1, CompensationWrites DEF Uncalibrated
<1>6. CASE UNCHANGED <<tFine, bme>>
  BY <1>1, <1>6 DEF Uncalibrated
<1>7. QED
  BY <1>2, <1>3, <1>4, <1>5, <1>6, OnlyTheseWrite DEF Compensates

\* Without calibration data there is never a pressure, nor a fine temperature, whatever
\* the rounds measure: a compensator of zeros divides by zero (bme280.c:292-294).
THEOREM NothingWithoutCalibration == BmeSpec => []Uncalibrated
<1>1. Init => Uncalibrated
  BY DEF Init, BmeInit, Uncalibrated
<1> QED
  BY <1>1, UncalibratedStep, RoundInvariant, PTL DEF BmeSpec

\* The task has left the states that load the calibration data, without it.
Missed == bmePc \notin {"uncreated", "start"} /\ bmeState \notin SettingUp /\ ~loaded

\* If the first round breaks off before the calibration data is loaded, it never is: no
\* later round goes back (ether_main.c:223, the next round starts at FORCE_MODE).
THEOREM MissedForEver == BmeSpec => [](Missed => []Missed)
<1>1. Missed /\ [Next]_bmeVars => Missed'
  <2> SUFFICES ASSUME Missed, [Next]_bmeVars PROVE Missed'
    OBVIOUS
  <2>1. CASE Take \/ RoundEnd \/ Give \/ ChipMeasures \/ BmeEnvironment \/ UNCHANGED bmeVars
    BY <2>1 DEF Missed, SettingUp, Take, RoundEnd, Give, ChipMeasures, BmeEnvironment, bmeVars,
                bmeTaskVars
  <2>2. CASE Start \/ Create
    BY <2>2 DEF Missed, Start, Create
  <2>3. CASE \/ state_machine_bme280_reset \/ state_machine_bme280_init
             \/ state_machine_bme280_id \/ state_machine_bme280_get_compensation_data
    BY <2>3 DEF Missed, SettingUp, InState, state_machine_bme280_reset,
                state_machine_bme280_init, state_machine_bme280_id,
                state_machine_bme280_get_compensation_data
  <2>4. CASE \/ state_machine_bme280_force_mode \/ state_machine_bme280_measure_humidity
             \/ state_machine_bme280_measure_temperature
             \/ state_machine_bme280_measure_pressure
    BY <2>4 DEF Missed, SettingUp, Succeed, Fail, Measured, state_machine_bme280_force_mode,
                state_machine_bme280_measure_humidity,
                state_machine_bme280_measure_temperature,
                state_machine_bme280_measure_pressure
  <2>5. CASE state_machine_bme280_compensate_humidity
    BY <2>5 DEF Missed, SettingUp, Succeed, state_machine_bme280_compensate_humidity
  <2>6. CASE state_machine_bme280_compensate_temperature
    BY <2>6 DEF Missed, SettingUp, Succeed, state_machine_bme280_compensate_temperature
  <2>7. CASE state_machine_bme280_compensate_pressure
    <3>1. /\ bmeState' \in {bmeState, "UNSET"}
          /\ UNCHANGED <<bmePc, loaded>>
      BY <2>7 DEF Succeed, Fail, state_machine_bme280_compensate_pressure
    <3>2. QED
      BY <3>1 DEF Missed, SettingUp
  <2>8. QED
    BY <2>1, <2>2, <2>3, <2>4, <2>5, <2>6, <2>7 DEF Next, Task
<1> QED
  BY <1>1, PTL DEF BmeSpec

LEMMA TogetherStep == RoundInv /\ TogetherSoFar /\ [Next]_bmeVars => TogetherSoFar'
<1> SUFFICES ASSUME RoundInv, TogetherSoFar, [Next]_bmeVars PROVE TogetherSoFar'
  OBVIOUS
<1>0. bme \in Climate
  BY DEF RoundInv, BmeTypeOK
<1>1. CASE Take
  <2>1. bme'.hum.of \notin ThisRound /\ bme'.temp.of \notin ThisRound
    BY <1>0, <1>1, OlderKeeps DEF Take
  <2>2. bmePc' = "loop" /\ bmeState' \in {"RESET", "FORCE_MODE"}
    BY <1>1 DEF Take, RoundInv, AtRest
  <2>3. QED
    BY <2>1, <2>2 DEF TogetherSoFar, In
<1>2. CASE state_machine_bme280_compensate_humidity
  <2>1. /\ bmePc' = "loop" /\ bmeState' = "COMPENSATE_TEMPERATURE" /\ bmeRetry' < RetryMax
        /\ bmePc = "loop" /\ bmeState = "COMPENSATE_HUMIDITY"
    BY <1>2 DEF state_machine_bme280_compensate_humidity, InState, RoundGoesOn, Succeed
  <2>2. bme'.temp.of \notin ThisRound
    BY <1>0, <1>2, <2>1, CompensationWrites DEF TogetherSoFar, In
  <2>3. QED
    BY <2>1, <2>2 DEF TogetherSoFar, In, SettingUp, Measuring
<1>3. CASE state_machine_bme280_compensate_temperature
  <2>1. bmePc' = "loop" /\ bmeState' = "COMPENSATE_PRESSURE"
    BY <1>3 DEF state_machine_bme280_compensate_temperature, InState, Succeed
  <2>2. QED
    BY <2>1 DEF TogetherSoFar, In, SettingUp, Measuring
<1>4. CASE state_machine_bme280_compensate_pressure
  <2>1. bmePc' = "loop" /\ bmeState' \in {"COMPENSATE_PRESSURE", "UNSET"}
    BY <1>4 DEF state_machine_bme280_compensate_pressure, InState, Succeed, Fail
  <2>2. QED
    BY <2>1 DEF TogetherSoFar, In, SettingUp, Measuring
<1>5. CASE RoundEnd
  <2>1. /\ bmePc = "loop" /\ bmePc' = "give" /\ UNCHANGED <<bme, loaded>>
        /\ bmeState # "COMPENSATE_TEMPERATURE"
    BY <1>5 DEF RoundEnd, RoundGoesOn, TogetherSoFar, In
  <2>2. CASE bmeState \in {"COMPENSATE_PRESSURE", "UNSET"}
    <3>1. loaded => bme.hum.of \in ThisRound /\ bme.temp.of \in ThisRound
      BY <2>1, <2>2 DEF RoundInv, MeasuredSoFar, CompensatedSoFar, CalibratedMeansSetUp, In,
                        Compensating
    <3>2. QED
      BY <2>1, <3>1 DEF TogetherSoFar, In
  <2>3. CASE bmeState \notin {"COMPENSATE_PRESSURE", "UNSET"}
    <3>1. bme.hum.of \notin ThisRound /\ bme.temp.of \notin ThisRound
      BY <2>1, <2>3 DEF RoundInv, BmeTypeOK, bme280_state_t, TogetherSoFar, In, SettingUp, Measuring
    <3>2. QED
      BY <2>1, <3>1 DEF TogetherSoFar, In
  <2>4. QED
    BY <2>2, <2>3
<1>6. CASE Create \/ BmeEnvironment \/ ChipMeasures \/ Start \/ Give \/ UNCHANGED bmeVars
  BY <1>6 DEF Create, BmeEnvironment, ChipMeasures, Start, Give, bmeTaskVars, bmeVars,
              TogetherSoFar, In
<1>7. CASE \/ state_machine_bme280_reset \/ state_machine_bme280_init
           \/ state_machine_bme280_id \/ state_machine_bme280_get_compensation_data
           \/ state_machine_bme280_force_mode
           \/ state_machine_bme280_measure_humidity
           \/ state_machine_bme280_measure_temperature
           \/ state_machine_bme280_measure_pressure
  <2>1. /\ bmePc = "loop" /\ bmePc' = "loop" /\ UNCHANGED bme
        /\ bmeState \in SettingUp \cup {"FORCE_MODE"} \cup Measuring
        /\ bmeState' # "COMPENSATE_TEMPERATURE"
    BY <1>7 DEF state_machine_bme280_reset, state_machine_bme280_init, state_machine_bme280_id,
         state_machine_bme280_get_compensation_data, state_machine_bme280_force_mode,
         state_machine_bme280_measure_humidity, state_machine_bme280_measure_temperature,
         state_machine_bme280_measure_pressure, Measured, InState, Succeed, Fail,
         SettingUp, Measuring
  <2>2. QED
    BY <2>1 DEF TogetherSoFar, In
<1>8. QED
  BY <1>1, <1>2, <1>3, <1>4, <1>5, <1>6, <1>7 DEF Next, Task

\* A round that broke off leaves humidity and temperature both of this round, or both as
\* they were.  Only the pressure may be behind them, when its compensation failed
\* (state_machine.c, the three compensating handlers).
ClimateTogether ==
  bmePc # "loop" /\ loaded =>
    /\ bme.hum.of \in ThisRound <=> bme.temp.of \in ThisRound
    /\ bme.press.of \in ThisRound => bme.temp.of \in ThisRound

THEOREM BrokenRoundKeepsTogether == BmeSpec => []ClimateTogether
<1>1. Init => TogetherSoFar
  BY DEF Init, BmeInit, TogetherSoFar, In, ThisRound
<1>2. RoundInv /\ TogetherSoFar => ClimateTogether
  BY DEF RoundInv, PressureFollowsTemperature, TogetherSoFar, ClimateTogether
<1> QED
  BY <1>1, <1>2, TogetherStep, RoundInvariant, PTL DEF BmeSpec

\* Every round, complete or broken off, hands over values that belong together.
THEOREM HandoverTogether == BmeSpec => RoundHandsOverTogether
<1>1. Init => TogetherSoFar
  BY DEF Init, BmeInit, TogetherSoFar, In, ThisRound
<1>2. RoundInv /\ TogetherSoFar /\ [Next]_bmeVars => [RoundOutcome]_bmeVars
  <2> SUFFICES ASSUME RoundInv, TogetherSoFar, TogetherSoFar', Next, bmePc = "loop", bmePc' = "give"
               PROVE  RoundOutcome
    BY TogetherStep DEF RoundOutcome
  <2>1. /\ UNCHANGED <<bme, loaded>>
        /\ ~RoundGoesOn
    BY DEF Next, Task, Start, Take, RoundEnd, Give, Create, BmeEnvironment, ChipMeasures,
           bmeTaskVars, InState, state_machine_bme280_reset, state_machine_bme280_init,
           state_machine_bme280_id, state_machine_bme280_get_compensation_data,
           state_machine_bme280_force_mode, state_machine_bme280_measure_humidity,
           state_machine_bme280_measure_temperature,
           state_machine_bme280_measure_pressure, Measured,
           state_machine_bme280_compensate_humidity,
           state_machine_bme280_compensate_temperature,
           state_machine_bme280_compensate_pressure
  <2>2. CASE bmeState = "UNSET"
    <3>1. /\ bme.press = [of |-> raw.press, fine |-> raw.temp]
          /\ bme.temp = [of |-> raw.temp, cal |-> TRUE]
          /\ bme.hum.of = raw.hum /\ bme.hum.cal
      BY <2>2 DEF RoundInv, CompensatedSoFar, In
    <3>2. /\ {raw.hum, raw.temp, raw.press} \subseteq ThisRound
          /\ ReadInOrder(raw.hum, raw.temp, raw.press)
      BY <2>2 DEF RoundInv, MeasuredSoFar, CompensatedSoFar, CalibratedMeansSetUp, In, Compensating,
                  ReadInOrder
    <3>3. QED
      BY <2>1, <2>2, <3>1, <3>2 DEF RoundOutcome
  <2>3. CASE bmeState # "UNSET"
    <3>1. loaded => (bme.hum.of \in ThisRound <=> bme.temp.of \in ThisRound)
      BY <2>1 DEF TogetherSoFar
    <3>2. bmeState # "COMPENSATE_PRESSURE" => bme.temp.of \notin ThisRound
      BY <2>1, <2>3 DEF RoundInv, BmeTypeOK, bme280_state_t, TogetherSoFar, In, SettingUp, Measuring,
                        RoundGoesOn
    <3>3. QED
      BY <2>1, <2>3, <3>1, <3>2 DEF RoundOutcome
  <2>4. QED
    BY <2>2, <2>3
<1> QED
  BY <1>1, <1>2, TogetherStep, RoundInvariant, PTL DEF BmeSpec, RoundHandsOverTogether
================================================================================
