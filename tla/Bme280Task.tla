------------------------------ MODULE Bme280Task ------------------------------
(***************************************************************************)
(* The task that reads the BME280 climate sensor (ether_main.c,            *)
(* ether_bme280_task): the state handlers of state_machine.c over the      *)
(* register operations of bme280.c, with the chip at the other end of the  *)
(* I2C bus.                                                                *)
(*                                                                         *)
(* A number is reduced to its age: "none" if it was never read, "old" if   *)
(* it was read in an earlier round, "early" if it was read in this round   *)
(* before the measurement last asked for was over, when the registers hold *)
(* what they held before, "now" if it is of that measurement.  A           *)
(* compensated value also records the age of the fine temperature it was   *)
(* computed with and whether calibration was loaded.                       *)
(***************************************************************************)
EXTENDS Semaphores, Integers

CONSTANT RetryMax    \* failures that end a round (5 in the code)

ASSUME BmeAssumption == RetryMax \in Nat \ {0}

VARIABLES
  bmePc,      \* where the task is
  bmeState,   \* ether->state_machine.bme280
  bmeRetry,   \* retry
  chip,       \* the BME280 itself
  loaded,     \* measurements.bme280.compensator holds calibration data, not zeros
  raw,        \* the msb, lsb and xlsb bytes of measurements.bme280
  tFine,      \* t_fine
  bme         \* the compensated values of measurements.bme280

bmeTaskVars == <<bmePc, bmeState, bmeRetry, loaded, raw, tFine, bme>>
bmeVars     == <<sem, bmeTaskVars, chip>>

BmePcs == {"uncreated", "start", "take", "loop", "give"}

bme280_state_t ==
  {"INIT", "RESET", "ID", "FORCE_MODE", "MEASURE_HUMIDITY", "MEASURE_TEMPERATURE",
   "MEASURE_PRESSURE", "GET_COMPENSATION_DATA", "COMPENSATE_HUMIDITY",
   "COMPENSATE_TEMPERATURE", "COMPENSATE_PRESSURE", "UNSET"}

Ages      == {"none", "old", "early", "now"}
ThisRound == {"early", "now"}

\* genuine: the chip answers with BME280_DATA_ID.  humOn: ctrl_hum enables
\* humidity sampling, which is off after a reset.  measuring: the measurement last
\* asked for is not over.  The rest are the data registers.
Chip == [genuine : BOOLEAN, humOn : BOOLEAN, measuring : BOOLEAN, hum : Ages, climate : Ages]

Raw     == [hum : Ages, temp : Ages, press : Ages]
Climate == [hum   : [of : Ages, fine : Ages, cal : BOOLEAN],
            temp  : [of : Ages, cal : BOOLEAN],
            press : [of : Ages, fine : Ages]]

BmeTypeOK ==
  /\ SemTypeOK
  /\ bmePc \in BmePcs
  /\ bmeState \in bme280_state_t
  /\ bmeRetry \in 0..RetryMax
  /\ chip \in Chip
  /\ loaded \in BOOLEAN
  /\ raw \in Raw
  /\ tFine \in Ages
  /\ bme \in Climate

--------------------------------------------------------------------------------
(* The register operations of bme280.c, as what they do to the chip.  A send  *)
(* that i2c_controller_send reports as failed may still have reached the chip. *)

\* A write of ctrl_meas with BME280_SETTINGS_MODE_FORCE asks for one measurement, which
\* begins when one that is going on is over.
Forced(c) == [c EXCEPT !.measuring = TRUE]

\* At its end the data registers are written together.
MeasurementOver(c) ==
  IF c.measuring
  THEN [c EXCEPT !.measuring = FALSE, !.climate = "now", !.hum = IF c.humOn THEN "now" ELSE "none"]
  ELSE c

Reset(c) == [c EXCEPT !.humOn = FALSE, !.measuring = FALSE, !.hum = "none", !.climate = "none"]

\* bme280_init: ctrl_hum, then ctrl_meas (which forces a measurement), then config.
WrittenUpTo(c, writes) ==
  LET humOn == IF writes >= 1 THEN [c EXCEPT !.humOn = TRUE] ELSE c
  IN  IF writes >= 2 THEN Forced(humOn) ELSE humOn

--------------------------------------------------------------------------------
(* ether_bme280_task and the handlers of state_machine.c. *)

Older(age) == IF age \in ThisRound THEN "old" ELSE age

OlderClimate(b) ==
  [hum   |-> [b.hum EXCEPT !.of = Older(@), !.fine = Older(@)],
   temp  |-> [b.temp EXCEPT !.of = Older(@)],
   press |-> [b.press EXCEPT !.of = Older(@), !.fine = Older(@)]]

Start ==
  /\ bmePc = "start"
  /\ bmePc' = "take"
  /\ bmeState' = "RESET"
  /\ UNCHANGED <<sem, bmeRetry, chip, loaded, raw, tFine, bme>>

\* A round begins: everything measured so far is from before it.
Take ==
  /\ bmePc = "take"
  /\ xSemaphoreTake("bme280")
  /\ bmePc' = "loop"
  /\ chip' = [chip EXCEPT !.hum = Older(@), !.climate = Older(@)]
  /\ raw' = [part \in DOMAIN raw |-> Older(raw[part])]
  /\ tFine' = Older(tFine)
  /\ bme' = OlderClimate(bme)
  /\ UNCHANGED <<bmeState, bmeRetry, loaded>>

\* The condition of the inner while loop, and a faulty variant of it.
RoundGoesOnOnceMore == bmeState # "UNSET" /\ bmeRetry <= RetryMax
RoundGoesOn == bmeState # "UNSET" /\ bmeRetry < RetryMax

InState(state) == bmePc = "loop" /\ RoundGoesOn /\ bmeState = state

Succeed(next) == bmeState' = next /\ UNCHANGED bmeRetry
Fail          == bmeRetry' = bmeRetry + 1 /\ UNCHANGED bmeState

state_machine_bme280_reset ==
  /\ InState("RESET")
  /\ \/ Succeed("INIT") /\ chip' = Reset(chip)
     \/ Fail /\ chip' \in {chip, Reset(chip)}
  /\ UNCHANGED <<sem, bmePc, loaded, raw, tFine, bme>>

state_machine_bme280_init ==
  /\ InState("INIT")
  /\ \/ Succeed("ID") /\ chip' = WrittenUpTo(chip, 3)
     \/ Fail /\ chip' \in {WrittenUpTo(chip, writes) : writes \in 0..3}
  /\ UNCHANGED <<sem, bmePc, loaded, raw, tFine, bme>>

\* Faulty variant: any chip that answers is taken for a BME280.
bme280_id_unchecked ==
  /\ InState("ID")
  /\ Succeed("GET_COMPENSATION_DATA") \/ Fail
  /\ UNCHANGED <<sem, bmePc, chip, loaded, raw, tFine, bme>>

state_machine_bme280_id ==
  /\ InState("ID")
  /\ \/ chip.genuine /\ Succeed("GET_COMPENSATION_DATA")
     \/ Fail
  /\ UNCHANGED <<sem, bmePc, chip, loaded, raw, tFine, bme>>

\* Three reads into a local buffer: the compensator gets all of them or none.
state_machine_bme280_get_compensation_data ==
  /\ InState("GET_COMPENSATION_DATA")
  /\ \/ Succeed("FORCE_MODE") /\ loaded' = TRUE
     \/ Fail /\ UNCHANGED loaded
  /\ UNCHANGED <<sem, bmePc, chip, raw, tFine, bme>>

\* Faulty variant: a new round starts without a new measurement.
force_mode_skipped ==
  /\ InState("FORCE_MODE")
  /\ Succeed("MEASURE_HUMIDITY")
  /\ UNCHANGED <<sem, bmePc, chip, loaded, raw, tFine, bme>>

\* A measurement takes up to 9.3 ms.  The 15 ms of the delay that follows are one tick
\* (ether_main.c:10, CONFIG_FREERTOS_HZ=100), which ends 0 to 10 ms later: the task may
\* read the registers before the measurement is over.
state_machine_bme280_force_mode ==
  /\ InState("FORCE_MODE")
  /\ \/ Succeed("MEASURE_HUMIDITY") /\ chip' = Forced(chip)
     \/ Fail /\ chip' \in {chip, Forced(chip)}
  /\ UNCHANGED <<sem, bmePc, loaded, raw, tFine, bme>>

\* The three measuring handlers: the data registers into the raw bytes.
Measured(part, register, next) ==
  /\ \/ /\ Succeed(next)
        /\ raw' = [raw EXCEPT ![part] = IF chip.measuring THEN "early" ELSE register]
     \/ Fail /\ UNCHANGED raw
  /\ UNCHANGED <<sem, bmePc, chip, loaded, tFine, bme>>

state_machine_bme280_measure_humidity ==
  InState("MEASURE_HUMIDITY") /\ Measured("hum", chip.hum, "MEASURE_TEMPERATURE")

state_machine_bme280_measure_temperature ==
  InState("MEASURE_TEMPERATURE") /\ Measured("temp", chip.climate, "MEASURE_PRESSURE")

state_machine_bme280_measure_pressure ==
  InState("MEASURE_PRESSURE") /\ Measured("press", chip.climate, "COMPENSATE_HUMIDITY")

\* Faulty variant: the pressure is compensated before the temperature.
compensate_humidity_then_pressure ==
  /\ InState("COMPENSATE_HUMIDITY")
  /\ Succeed("COMPENSATE_PRESSURE")
  /\ bme' = [bme EXCEPT !.hum = [of |-> raw.hum, fine |-> tFine, cal |-> loaded]]
  /\ UNCHANGED <<sem, bmePc, chip, loaded, raw, tFine>>

\* Reads t_fine as the round before left it.
state_machine_bme280_compensate_humidity ==
  /\ InState("COMPENSATE_HUMIDITY")
  /\ Succeed("COMPENSATE_TEMPERATURE")
  /\ bme' = [bme EXCEPT !.hum = [of |-> raw.hum, fine |-> tFine, cal |-> loaded]]
  /\ UNCHANGED <<sem, bmePc, chip, loaded, raw, tFine>>

\* Faulty variant: the wrong next state, so that humidity is compensated once more.
compensate_temperature_then_humidity ==
  /\ InState("COMPENSATE_TEMPERATURE")
  /\ Succeed("COMPENSATE_HUMIDITY")
  /\ tFine' = IF loaded THEN raw.temp ELSE "none"
  /\ bme' = [bme EXCEPT !.temp = [of |-> raw.temp, cal |-> loaded]]
  /\ UNCHANGED <<sem, bmePc, chip, loaded, raw>>

\* With a compensator of zeros the fine temperature is 0, as at start-up.
state_machine_bme280_compensate_temperature ==
  /\ InState("COMPENSATE_TEMPERATURE")
  /\ Succeed("COMPENSATE_PRESSURE")
  /\ tFine' = IF loaded THEN raw.temp ELSE "none"
  /\ bme' = [bme EXCEPT !.temp = [of |-> raw.temp, cal |-> loaded]]
  /\ UNCHANGED <<sem, bmePc, chip, loaded, raw>>

\* An error iff the divisor is 0: always with a compensator of zeros, and with
\* calibration data for some of its values.
state_machine_bme280_compensate_pressure ==
  /\ InState("COMPENSATE_PRESSURE")
  /\ \E divisorIsZero \in IF loaded THEN BOOLEAN ELSE {TRUE} :
       IF divisorIsZero
       THEN Fail /\ UNCHANGED bme
       ELSE /\ Succeed("UNSET")
            /\ bme' = [bme EXCEPT !.press = [of |-> raw.press, fine |-> tFine]]
  /\ UNCHANGED <<sem, bmePc, chip, loaded, raw, tFine>>

\* The inner loop is over, by success or by failures: the next round starts at
\* FORCE_MODE in either case.  The 500 ms delay before the token is given on outlasts
\* a measurement that is still going on.
RoundEnd ==
  /\ bmePc = "loop"
  /\ ~RoundGoesOn
  /\ bmeState' = "FORCE_MODE"
  /\ bmeRetry' = 0
  /\ bmePc' = "give"
  /\ chip' = MeasurementOver(chip)
  /\ UNCHANGED <<sem, loaded, raw, tFine, bme>>

Give ==
  /\ bmePc = "give"
  /\ xSemaphoreGive("mqtt")
  /\ bmePc' = "take"
  /\ UNCHANGED <<bmeState, bmeRetry, chip, loaded, raw, tFine, bme>>

Task ==
  \/ Start \/ Take
  \/ state_machine_bme280_reset \/ state_machine_bme280_init
  \/ state_machine_bme280_id \/ state_machine_bme280_get_compensation_data
  \/ state_machine_bme280_force_mode
  \/ state_machine_bme280_measure_humidity
  \/ state_machine_bme280_measure_temperature
  \/ state_machine_bme280_measure_pressure
  \/ state_machine_bme280_compensate_humidity
  \/ state_machine_bme280_compensate_temperature
  \/ state_machine_bme280_compensate_pressure
  \/ RoundEnd \/ Give

\* The chip ends its measurement, at any time.
ChipMeasures ==
  /\ chip.measuring
  /\ chip' = MeasurementOver(chip)
  /\ UNCHANGED <<sem, bmeTaskVars>>

\* xTaskCreate(ether_bme280_task, ...)
Create ==
  /\ bmePc = "uncreated"
  /\ bmePc' = "start"
  /\ UNCHANGED <<sem, bmeState, bmeRetry, chip, loaded, raw, tFine, bme>>

\* The controller may have been restarted while the chip stayed powered: the
\* chip starts in any condition, but the boot outlasts a measurement.  The program's
\* data is what ether_init left.
BmeInit ==
  /\ bmePc = "uncreated"
  /\ bmeState = "UNSET"
  /\ bmeRetry = 0
  /\ chip \in {c \in Chip : ~c.measuring /\ {c.hum, c.climate} \subseteq {"none", "old"}}
  /\ loaded = FALSE
  /\ raw = [hum |-> "none", temp |-> "none", press |-> "none"]
  /\ tFine = "none"
  /\ bme = [hum   |-> [of |-> "none", fine |-> "none", cal |-> FALSE],
            temp  |-> [of |-> "none", cal |-> FALSE],
            press |-> [of |-> "none", fine |-> "none"]]

BmeEnvironment == OthersMoveSemaphores /\ UNCHANGED <<bmeTaskVars, chip>>

Init == sem = [h \in Handles |-> "null"] /\ BmeInit

Next == Task \/ ChipMeasures \/ Create \/ BmeEnvironment

BmeSpec == Init /\ [][Next]_bmeVars

--------------------------------------------------------------------------------
(* Properties. *)

\* Humidity, temperature and pressure are read in this order (ether_main.c:174-198),
\* so that the later ones are of the forced measurement if the earlier ones are.
ReadInOrder(hum, temp, press) ==
  /\ hum = "now" => temp = "now"
  /\ temp = "now" => press = "now"

\* What a round hands over belongs together.  All three values of a complete round were
\* read in it after the measurement was asked for, compensated with calibration data, and
\* the pressure with this temperature: the order of the states of ether_bme280_task
\* (ether_main.c:127-220).  They need not be of that measurement, whose end nothing waits
\* for, but once one of them is, the later ones are.  A round that
\* broke off leaves humidity and temperature of this round or neither, and only one whose
\* pressure would not compensate leaves an older pressure beside them (bme280.c:292-294).
RoundOutcome ==
  bmePc = "loop" /\ bmePc' = "give" =>
    LET hum == bme'.hum  temp == bme'.temp  press == bme'.press IN
    /\ bmeState = "UNSET" =>
         /\ {hum.of, temp.of, press.of} \subseteq ThisRound
         /\ ReadInOrder(hum.of, temp.of, press.of)
         /\ hum.cal /\ temp.cal /\ press.fine = temp.of
    /\ loaded => (hum.of \in ThisRound <=> temp.of \in ThisRound)
    /\ temp.of \in ThisRound /\ press.of \notin ThisRound => bmeState = "COMPENSATE_PRESSURE"

RoundHandsOverTogether == [][RoundOutcome]_bmeVars

\* A pressure of this round is always beside the temperature it was compensated with
\* and the humidity of this round, also in rounds that broke off (t_fine is a static
\* variable, bme280.c:3).
PressureFollowsTemperature ==
  bme.press.of \in ThisRound =>
    /\ bme.hum.of \in ThisRound /\ bme.temp.of \in ThisRound
    /\ bme.press.fine = bme.temp.of
    /\ ReadInOrder(bme.hum.of, bme.temp.of, bme.press.of)

\* Calibration data is only ever that of a BME280 which was set up to sample
\* humidity; nothing later undoes the set-up.
CalibratedMeansSetUp == loaded => chip.genuine /\ chip.humOn

\* Humidity is compensated with the fine temperature of an earlier round, never
\* of its own: t_fine is set two states later (bme280.c:239 and :270).
HumidityLags == bme.hum.of \in ThisRound => bme.hum.fine \notin ThisRound

\* What bme280.h:291, :301 and :311 say of the compensator that the three
\* compensating functions are given.
CompensationHasCalibration ==
  bmePc = "loop" /\
  bmeState \in {"COMPENSATE_HUMIDITY", "COMPENSATE_TEMPERATURE", "COMPENSATE_PRESSURE"}
    => loaded
================================================================================
