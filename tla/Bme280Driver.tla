------------------------------ MODULE Bme280Driver ------------------------------
(***************************************************************************)
(* The register operations of bme280.c over the I2C controller, and what   *)
(* they leave in the measurements.  Any operation may follow any other:    *)
(* their order is the subject of Bme280Task.                               *)
(***************************************************************************)
EXTENDS I2cController, Bme280Calibration

VARIABLES
  doing,      \* the operation under way, or "none"
  done,       \* how many of its transfers were called
  stored      \* operation -> the registers whose bytes the measurements hold

driverVars == <<i2cVars, doing, done, stored>>

BME280_REGISTER_CALIB00   == 136   \* 0x88
BME280_REGISTER_CALIB25   == 161   \* 0xa1
BME280_REGISTER_ID        == 208   \* 0xd0
BME280_REGISTER_RESET     == 224   \* 0xe0
BME280_REGISTER_CALIB26   == 225   \* 0xe1
BME280_REGISTER_CTRL_HUM  == 242   \* 0xf2
BME280_REGISTER_CTRL_MEAS == 244   \* 0xf4
BME280_REGISTER_CONFIG    == 245   \* 0xf5
BME280_REGISTER_PRESS_MSB == 247   \* 0xf7
BME280_REGISTER_TEMP_MSB  == 250   \* 0xfa
BME280_REGISTER_HUM_MSB   == 253   \* 0xfd

Operations == {"init", "reset", "id", "force_mode", "measure_humidity",
               "measure_temperature", "measure_pressure", "get_compensation_data"}

i2c_controller_send(reg)             == [op |-> "send", reg |-> reg, at |-> 0, len |-> 1]
i2c_controller_receive(reg, at, len) == [op |-> "receive", reg |-> reg, at |-> at, len |-> len]

\* The bytes in the buffer of bme280_get_compensation_data: BME280_SIZE_COMP is
\* one more than the three parts.
first_part  == 24
second_part == 1
third_part  == 7

CompensationTransfers ==
  <<i2c_controller_receive(BME280_REGISTER_CALIB00, 0, first_part),
    i2c_controller_receive(BME280_REGISTER_CALIB25, first_part, second_part),
    i2c_controller_receive(BME280_REGISTER_CALIB26, first_part + second_part, third_part)>>

Transfers ==
  [init                  |-> <<i2c_controller_send(BME280_REGISTER_CTRL_HUM),
                               i2c_controller_send(BME280_REGISTER_CTRL_MEAS),
                               i2c_controller_send(BME280_REGISTER_CONFIG)>>,
   reset                 |-> <<i2c_controller_send(BME280_REGISTER_RESET)>>,
   id                    |-> <<i2c_controller_receive(BME280_REGISTER_ID, 0, 1)>>,
   force_mode            |-> <<i2c_controller_send(BME280_REGISTER_CTRL_MEAS)>>,
   measure_humidity      |-> <<i2c_controller_receive(BME280_REGISTER_HUM_MSB, 0, 2)>>,
   measure_temperature   |-> <<i2c_controller_receive(BME280_REGISTER_TEMP_MSB, 0, 3)>>,
   measure_pressure      |-> <<i2c_controller_receive(BME280_REGISTER_PRESS_MSB, 0, 3)>>,
   get_compensation_data |-> CompensationTransfers]

\* How many bytes of its buffer an operation hands on.
Sizes ==
  [init |-> 0, reset |-> 0, id |-> 1, force_mode |-> 0, measure_humidity |-> 2,
   measure_temperature |-> 3, measure_pressure |-> 3,
   get_compensation_data |-> first_part + second_part + third_part]

--------------------------------------------------------------------------------
\* A state handler calls an operation.  Its buffer is a local array, not
\* initialized: 0, no register of the chip, stands for what is in it.
Operate ==
  /\ doing = "none"
  /\ driver # "absent"
  /\ doing' \in Operations
  /\ done' = 0
  /\ written' = <<>>
  /\ buffer' = [i \in Offsets |-> 0]
  /\ UNCHANGED <<driver, i2cPc, call, part, cmd, linked, ran, result, heap, failed,
                 pointer, sending, stored>>

Finished == i2cPc = "idle" /\ done = Len(Transfers[doing])
Broken   == i2cPc = "idle" /\ done > 0 /\ result = "ERROR"

\* Faulty variant: the next transfer is called whatever became of this one.
NextTransferAnyway ==
  /\ doing # "none"
  /\ i2cPc = "idle"
  /\ done < Len(Transfers[doing])
  /\ Called(Transfers[doing][done + 1])
  /\ done' = done + 1
  /\ UNCHANGED <<driver, cmd, linked, ran, result, buffer, heap, failed, pointer,
                 sending, written, doing, stored>>

NextTransfer ==
  /\ doing # "none"
  /\ ~Broken
  /\ i2cPc = "idle"
  /\ done < Len(Transfers[doing])
  /\ Called(Transfers[doing][done + 1])
  /\ done' = done + 1
  /\ UNCHANGED <<driver, cmd, linked, ran, result, buffer, heap, failed, pointer,
                 sending, written, doing, stored>>

\* An operation succeeds when its last transfer has, and only then stores bytes.
ReturnSuccess ==
  /\ doing # "none"
  /\ Finished
  /\ ~Broken
  /\ stored' = [stored EXCEPT ![doing] = [i \in 1..Sizes[doing] |-> buffer[i - 1]]]
  /\ doing' = "none"
  /\ UNCHANGED <<i2cVars, done>>

ReturnBroken ==
  /\ doing # "none"
  /\ Broken
  /\ doing' = "none"
  /\ UNCHANGED <<i2cVars, done, stored>>

DriverInit ==
  /\ I2cInit
  /\ doing = "none"
  /\ done = 0
  /\ stored = [op \in Operations |-> <<>>]

DriverNext ==
  \/ i2c_controller_init /\ UNCHANGED <<doing, done, stored>>
  \/ TransferStep /\ UNCHANGED <<doing, done, stored>>
  \/ Operate \/ NextTransfer \/ ReturnSuccess \/ ReturnBroken

DriverSpec == DriverInit /\ [][DriverNext]_driverVars

--------------------------------------------------------------------------------
(* Properties. *)

\* Heap, link and offsets stay in their ranges: no more links are given back to the
\* heap than were taken from it, and no read ends behind the buffer.
DriverTypeOK ==
  /\ driver \in {"absent", "installed", "failed"}
  /\ i2cPc \in {"idle", "create", "queue", "run"}
  /\ call \in Calls
  /\ part \in {1, 2}
  /\ linked \in BOOLEAN
  /\ ran \in 0..Len(cmd) /\ Len(cmd) <= 5
  /\ result \in {"SUCCESS", "ERROR"}
  /\ buffer \in [Offsets -> Nat]
  /\ heap \in 0..Links /\ failed \in 0..Links
  /\ pointer \in Nat
  /\ sending \in BOOLEAN
  /\ doing \in Operations \cup {"none"}
  /\ done \in 0..3

\* The operations of bme280.c do what the state handlers rely on
\* (Bme280Operations), although a transfer may break off anywhere and the bytes
\* of the compensation data come in three transfers (bme280.c:169-227).
Writes ==
  [op \in Operations |->
     CASE op = "init"       -> <<BME280_REGISTER_CTRL_HUM, BME280_REGISTER_CTRL_MEAS,
                                 BME280_REGISTER_CONFIG>>
       [] op = "reset"      -> <<BME280_REGISTER_RESET>>
       [] op = "force_mode" -> <<BME280_REGISTER_CTRL_MEAS>>
       [] OTHER             -> <<>>]

Registers(first, n) == [i \in 1..n |-> first + i - 1]

Reads ==
  [op \in Operations |->
     CASE op = "id"                    -> Registers(BME280_REGISTER_ID, 1)
       [] op = "measure_humidity"      -> Registers(BME280_REGISTER_HUM_MSB, 2)
       [] op = "measure_temperature"   -> Registers(BME280_REGISTER_TEMP_MSB, 3)
       [] op = "measure_pressure"      -> Registers(BME280_REGISTER_PRESS_MSB, 3)
       [] op = "get_compensation_data" -> Registers(BME280_REGISTER_CALIB00, 24)
                                          \o Registers(BME280_REGISTER_CALIB25, 1)
                                          \o Registers(BME280_REGISTER_CALIB26, 7)
       [] OTHER                        -> <<>>]

OperationsSpec == INSTANCE Bme280Operations

ImplementsOperations == OperationsSpec!Spec

--------------------------------------------------------------------------------
(* The calibration values, by the registers the sensor keeps them in: words in  *)
(* two's complement with the low byte first, bytes, and two values of twelve    *)
(* bits that share the register 0xe5.                                           *)

\* Of the word c: the register of its low byte.
WordRegister(c) ==
  IF c = "h2" THEN BME280_REGISTER_CALIB26
  ELSE BME280_REGISTER_CALIB00 + 2 * ((CHOOSE k \in DOMAIN Words : Words[k] = c) - 1)

RegistersOf(c) ==
  CASE c = "h1" -> {161} [] c = "h3" -> {227} [] c = "h6" -> {231}
    [] c = "h4" -> {228, 229} [] c = "h5" -> {229, 230}
    [] OTHER    -> {WordRegister(c), WordRegister(c) + 1}

Signed(n, bits) == IF n < 2^(bits - 1) THEN n ELSE n - 2^bits

Calibrated(mem, c) ==
  CASE c \in {"h1", "h3"} -> mem[CHOOSE r \in RegistersOf(c) : TRUE]
    [] c = "h6"           -> Signed(mem[231], 8)
    [] c = "h4"           -> Signed(16 * mem[228] + (mem[229] % 16), 12)
    [] c = "h5"           -> Signed(16 * mem[230] + (mem[229] \div 16), 12)
    [] c \in {"t1", "p1"} -> mem[WordRegister(c)] + 256 * mem[WordRegister(c) + 1]
    [] OTHER              -> Signed(mem[WordRegister(c)] + 256 * mem[WordRegister(c) + 1], 16)

CONSTANT Bytes      \* the byte values the registers are tried with

ASSUME DriverAssumption == Bytes \subseteq Byte /\ BufferSize = 33

Calibration == 136..159 \cup {161} \cup 225..231

\* The values of the coefficient's own registers, before a background value in
\* all others.
Memories(c) ==
  {[r \in Calibration |-> IF r \in RegistersOf(c) THEN own[r] ELSE other] :
     own \in [RegistersOf(c) -> Bytes], other \in Bytes}

\* The operation that has just stored the compensation data.
JustCalibrated ==
  /\ doing = "none" /\ done = 3 /\ call.op = "receive" /\ result = "SUCCESS"
  /\ stored["get_compensation_data"] # <<>>

KeptAs(c) ==
  \A mem \in Memories(c) :
    LET data == [i \in 0..31 |-> LET r == stored["get_compensation_data"][i + 1]
                                 IN  IF r \in Calibration THEN mem[r] ELSE 0]
    IN  Decoded(data, c) = Calibrated(mem, c)

\* The compensator holds the chip's temperature and pressure calibration, and
\* two of the six values for humidity (bme280.c:206-220, 224), for whatever
\* bytes the chip has: no byte out of place, no sign lost.
CalibrationKept ==
  JustCalibrated =>
    \A c \in Coefficients \ {"h1", "h3", "h4", "h5"} : KeptAs(c)

\* What bme280.h:185, :187, :188 and :189 call the fields dig_h1, dig_h3, dig_h4
\* and dig_h5: the chip's humidity compensation values.
HumidityCalibrationKept ==
  JustCalibrated => \A c \in {"h1", "h3", "h4", "h5"} : KeptAs(c)
================================================================================
