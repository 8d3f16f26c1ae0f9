--------------------------- MODULE Bme280DriverProofs ---------------------------
(* Theorems about the register operations and the I2C controller under them, *)
(* for every number of command links the heap has room for.                   *)
EXTENDS Bme280Driver, SequenceTheorems, TLAPS

(***************************************************************************)
(* The commands of a transfer, by their place in the script.               *)
(***************************************************************************)
Replies == {"ACK", "NACK"}

Commands ==
  [do : {"start", "register", "write", "stop"}]
    \cup [do : {"address"}, rw : {"READ", "WRITE"}]
    \cup [do : {"read"}, to : Nat, n : Nat, reply : Replies]

LEMMA CommandKinds ==
  /\ Start \in Commands /\ Register \in Commands /\ Write \in Commands /\ Stop \in Commands
  /\ Address("READ") \in Commands /\ Address("WRITE") \in Commands
  /\ \A to, n \in Nat, reply \in Replies : Read(to, n, reply) \in Commands
<1>1. Start \in Commands /\ Register \in Commands /\ Write \in Commands /\ Stop \in Commands
  BY DEF Commands, Start, Register, Write, Stop
<1>2. Address("READ") \in Commands /\ Address("WRITE") \in Commands
  BY DEF Commands, Address
<1>3. \A to, n \in Nat, reply \in Replies : Read(to, n, reply) \in Commands
  BY DEF Commands, Read
<1>4. QED
  BY <1>1, <1>2, <1>3

LEMMA SendScript ==
  /\ Send \in Seq(Commands) /\ Len(Send) = 5
  /\ Send[1] = Start /\ Send[2] = Address("WRITE") /\ Send[3] = Register
  /\ Send[4] = Write /\ Send[5] = Stop
  BY CommandKinds DEF Send

LEMMA SelectScript ==
  /\ SelectRegister \in Seq(Commands) /\ Len(SelectRegister) = 4
  /\ SelectRegister[1] = Start /\ SelectRegister[2] = Address("WRITE")
  /\ SelectRegister[3] = Register /\ SelectRegister[4] = Stop
  BY CommandKinds DEF SelectRegister

LEMMA ReadScript ==
  ASSUME NEW len \in Nat \ {0}
  PROVE  LET s == ReadBytes(len)
         IN  /\ s \in Seq(Commands) /\ s[1] = Start /\ s[2] = Address("READ")
             /\ len = 1 => /\ Len(s) = 4 /\ s[3] = Read(0, 1, "NACK") /\ s[4] = Stop
             /\ len > 1 => /\ Len(s) = 5 /\ s[3] = Read(0, len - 1, "ACK")
                           /\ s[4] = Read(len - 1, 1, "NACK") /\ s[5] = Stop
<1>1. Read(0, 1, "NACK") \in Commands
  BY CommandKinds DEF Replies
<1>2. CASE len = 1
  BY <1>1, <1>2, CommandKinds DEF ReadBytes
<1>3. CASE len > 1
  <2>1. len - 1 \in Nat
    BY <1>3
  <2>2. Read(0, len - 1, "ACK") \in Commands /\ Read(len - 1, 1, "NACK") \in Commands
    BY <2>1, CommandKinds DEF Replies
  <2>3. QED
    BY <1>3, <2>2, CommandKinds DEF ReadBytes
<1>4. QED
  BY <1>2, <1>3

LEMMA CommandFields ==
  /\ Start.do = "start" /\ Register.do = "register" /\ Write.do = "write" /\ Stop.do = "stop"
  /\ \A rw : Address(rw).do = "address"
  /\ \A to, n, reply : /\ Read(to, n, reply).do = "read" /\ Read(to, n, reply).to = to
                       /\ Read(to, n, reply).n = n /\ Read(to, n, reply).reply = reply
  BY DEF Start, Register, Write, Stop, Address, Read

(***************************************************************************)
(* The transfers of an operation: all of them write, one register each, or *)
(* all read, each behind the one before in the buffer.                     *)
(***************************************************************************)
Last(op) == Len(Transfers[op])

Writing(op) ==
  /\ \A k \in 1..Last(op) : Transfers[op][k].op = "send" /\ Writes[op][k] = Transfers[op][k].reg
  /\ Len(Writes[op]) = Last(op)
  /\ Sizes[op] = 0 /\ Reads[op] = <<>>

Reading(op) ==
  /\ \A k \in 1..Last(op) : Transfers[op][k].op = "receive"
  /\ \A k, l \in 1..Last(op) : k < l =>
       Transfers[op][k].at + Transfers[op][k].len <= Transfers[op][l].at
  /\ Writes[op] = <<>>
  /\ Sizes[op] \in Nat /\ Reads[op] \in Seq(Nat) /\ Len(Reads[op]) = Sizes[op]
  /\ \A j \in 1..Sizes[op] : \E k \in 1..Last(op) :
       /\ j - 1 \in Transfers[op][k].at..Transfers[op][k].at + Transfers[op][k].len - 1
       /\ Reads[op][j] = Transfers[op][k].reg + (j - 1 - Transfers[op][k].at)

LEMMA CallsTyped ==
  /\ \A reg \in Nat : i2c_controller_send(reg) \in Calls
  /\ \A reg, at \in Nat, len \in Nat \ {0} : at + len <= 33 =>
       i2c_controller_receive(reg, at, len) \in Calls
  BY DriverAssumption DEF DriverAssumption, Calls, i2c_controller_send, i2c_controller_receive

LEMMA CallFields ==
  /\ \A reg : /\ i2c_controller_send(reg).op = "send" /\ i2c_controller_send(reg).reg = reg
  /\ \A reg, at, len :
       LET c == i2c_controller_receive(reg, at, len)
       IN  c.op = "receive" /\ c.reg = reg /\ c.at = at /\ c.len = len
  BY DEF i2c_controller_send, i2c_controller_receive

LEMMA WritingOperations ==
  \A op \in {"init", "reset", "force_mode"} :
    Last(op) \in 1..3 /\ Transfers[op] \in Seq(Calls) /\ Writing(op)
<1> USE DEF Last, Writing, Transfers, Writes, Sizes, Reads, Operations,
            BME280_REGISTER_CTRL_HUM, BME280_REGISTER_CTRL_MEAS, BME280_REGISTER_CONFIG,
            BME280_REGISTER_RESET
<1>1. Last("init") \in 1..3 /\ Transfers["init"] \in Seq(Calls) /\ Writing("init")
  BY CallsTyped, CallFields
<1>2. Last("reset") \in 1..3 /\ Transfers["reset"] \in Seq(Calls) /\ Writing("reset")
  BY CallsTyped, CallFields
<1>3. Last("force_mode") \in 1..3 /\ Transfers["force_mode"] \in Seq(Calls) /\ Writing("force_mode")
  BY CallsTyped, CallFields
<1> HIDE DEF Last, Writing, Transfers
<1>4. QED
  BY <1>1, <1>2, <1>3

LEMMA RegistersAre ==
  ASSUME NEW first \in Nat, NEW n \in Nat
  PROVE  /\ Registers(first, n) \in Seq(Nat) /\ Len(Registers(first, n)) = n
         /\ \A i \in 1..n : Registers(first, n)[i] = first + i - 1
  BY DEF Registers

LEMMA SingleReads ==
  \A op \in {"id", "measure_humidity", "measure_temperature", "measure_pressure"} :
    Last(op) \in 1..3 /\ Transfers[op] \in Seq(Calls) /\ Reading(op)
<1> SUFFICES ASSUME NEW op \in {"id", "measure_humidity", "measure_temperature", "measure_pressure"}
             PROVE  Last(op) \in 1..3 /\ Transfers[op] \in Seq(Calls) /\ Reading(op)
  OBVIOUS
<1> DEFINE ReadsFrom(reg, n) ==
             /\ Transfers[op] = <<i2c_controller_receive(reg, 0, n)>>
             /\ Sizes[op] = n /\ Reads[op] = Registers(reg, n) /\ Writes[op] = <<>>
<1>1. PICK reg \in Nat, n \in 1..3 : ReadsFrom(reg, n)
  <2> USE DEF Transfers, Sizes, Reads, Writes, Operations
  <2>1. op = "id" => ReadsFrom(BME280_REGISTER_ID, 1) /\ BME280_REGISTER_ID \in Nat
    BY DEF BME280_REGISTER_ID
  <2>2. op = "measure_humidity" => ReadsFrom(BME280_REGISTER_HUM_MSB, 2) /\ BME280_REGISTER_HUM_MSB \in Nat
    BY DEF BME280_REGISTER_HUM_MSB
  <2>3. op = "measure_temperature" => ReadsFrom(BME280_REGISTER_TEMP_MSB, 3) /\ BME280_REGISTER_TEMP_MSB \in Nat
    BY DEF BME280_REGISTER_TEMP_MSB
  <2>4. op = "measure_pressure" => ReadsFrom(BME280_REGISTER_PRESS_MSB, 3) /\ BME280_REGISTER_PRESS_MSB \in Nat
    BY DEF BME280_REGISTER_PRESS_MSB
  <2> HIDE DEF ReadsFrom, Transfers, Sizes, Reads, Writes
  <2>5. QED
    BY <2>1, <2>2, <2>3, <2>4
<1>2. i2c_controller_receive(reg, 0, n) \in Calls
  BY CallsTyped
<1>3. Last(op) = 1 /\ Transfers[op] \in Seq(Calls)
  BY <1>1, <1>2 DEF Last
<1>4. Reading(op)
  <2>1. /\ Registers(reg, n) \in Seq(Nat) /\ Len(Registers(reg, n)) = n
        /\ \A i \in 1..n : Registers(reg, n)[i] = reg + i - 1
    <3>1. n \in Nat
      OBVIOUS
    <3>2. QED
      BY <3>1, RegistersAre
  <2>2. Transfers[op] = <<i2c_controller_receive(reg, 0, n)>>
        /\ Reads[op] = Registers(reg, n) /\ Sizes[op] = n /\ Writes[op] = <<>>
    BY <1>1
  <2>3. Transfers[op][1] = i2c_controller_receive(reg, 0, n)
    BY <2>2
  <2>4. Transfers[op][1].op = "receive" /\ Transfers[op][1].at = 0
        /\ Transfers[op][1].len = n /\ Transfers[op][1].reg = reg
    BY <2>3, CallFields
  <2>5. \A j \in 1..n : j - 1 \in 0..0 + n - 1 /\ Reads[op][j] = reg + (j - 1 - 0)
    BY <2>1, <2>2
  <2>6. QED
    BY <1>3, <2>1, <2>2, <2>4, <2>5 DEF Reading, Last
<1>5. QED
  BY <1>3, <1>4

\* The registers of the compensation data, in the order of the buffer.
LEMMA CalibrationRegisters ==
  LET r == Reads["get_compensation_data"]
  IN  /\ r \in Seq(Nat) /\ Len(r) = 32
      /\ \A j \in 1..32 :
           \/ j \in 1..24 /\ r[j] = 135 + j
           \/ j = 25 /\ r[j] = 161
           \/ j \in 26..32 /\ r[j] = 199 + j
<1>0. PICK f1, f2, f3, n1, n2, n3 \in Nat :
          f1 = 136 /\ n1 = 24 /\ f2 = 161 /\ n2 = 1 /\ f3 = 225 /\ n3 = 7
  OBVIOUS
<1> DEFINE r == Registers(f1, n1) \o Registers(f2, n2) \o Registers(f3, n3)
<1>4. Reads["get_compensation_data"] = r
  BY <1>0 DEF Reads, Operations, BME280_REGISTER_CALIB00, BME280_REGISTER_CALIB25,
         BME280_REGISTER_CALIB26
<1>5. f1 \in Nat /\ n1 \in Nat /\ f2 \in Nat /\ n2 \in Nat /\ f3 \in Nat /\ n3 \in Nat
  BY <1>0
<1>6. /\ r \in Seq(Nat) /\ Len(r) = n1 + n2 + n3
      /\ \A i \in 1..n1 : r[i] = f1 + i - 1
      /\ \A i \in n1 + 1..n1 + n2 : r[i] = f2 + (i - n1) - 1
      /\ \A i \in n1 + n2 + 1..n1 + n2 + n3 : r[i] = f3 + (i - (n1 + n2)) - 1
  <2> DEFINE p1 == Registers(f1, n1)
             p2 == Registers(f2, n2)
             p3 == Registers(f3, n3)
             q  == p1 \o p2
             r0 == q \o p3
  <2>1. /\ p1 \in Seq(Nat) /\ Len(p1) = n1 /\ \A i \in 1..n1 : p1[i] = f1 + i - 1
    BY RegistersAre, Zenon
  <2>2. /\ p2 \in Seq(Nat) /\ Len(p2) = n2 /\ \A i \in 1..n2 : p2[i] = f2 + i - 1
    BY RegistersAre, Zenon
  <2>3. /\ p3 \in Seq(Nat) /\ Len(p3) = n3 /\ \A i \in 1..n3 : p3[i] = f3 + i - 1
    BY RegistersAre, Zenon
  <2> HIDE DEF p1, p2, p3
  <2>4. /\ q \in Seq(Nat) /\ Len(q) = n1 + n2
        /\ \A i \in 1..n1 : q[i] = p1[i]
        /\ \A i \in n1 + 1..n1 + n2 : q[i] = p2[i - n1]
    <3>1. /\ q \in Seq(Nat) /\ Len(q) = Len(p1) + Len(p2)
          /\ \A i \in 1..Len(p1) + Len(p2) : q[i] = IF i <= Len(p1) THEN p1[i] ELSE p2[i - Len(p1)]
      BY <2>1, <2>2, ConcatProperties, Zenon
    <3> HIDE DEF q
    <3>2. QED
      BY <2>1, <2>2, <3>1
  <2> HIDE DEF q
  <2>5. n1 + n2 \in Nat
    OBVIOUS
  <2>6. /\ r0 \in Seq(Nat) /\ Len(r0) = n1 + n2 + n3
        /\ \A i \in 1..n1 + n2 : r0[i] = q[i]
        /\ \A i \in n1 + n2 + 1..n1 + n2 + n3 : r0[i] = p3[i - (n1 + n2)]
    <3>1. /\ r0 \in Seq(Nat) /\ Len(r0) = Len(q) + Len(p3)
          /\ \A i \in 1..Len(q) + Len(p3) : r0[i] = IF i <= Len(q) THEN q[i] ELSE p3[i - Len(q)]
      BY <2>3, <2>4, ConcatProperties, Zenon
    <3> HIDE DEF r0
    <3>2. QED
      BY <2>3, <2>4, <3>1
  <2> HIDE DEF r0
  <2>7. \A i \in 1..n1 : r0[i] = f1 + i - 1
    BY <2>1, <2>4, <2>6
  <2>8. \A i \in n1 + 1..n1 + n2 : r0[i] = f2 + (i - n1) - 1
    BY <2>2, <2>4, <2>6
  <2>9. \A i \in n1 + n2 + 1..n1 + n2 + n3 : r0[i] = f3 + (i - (n1 + n2)) - 1
    BY <2>3, <2>6
  <2>10. r0 = r
    BY DEF r0, q, p1, p2, p3
  <2>11. QED
    BY <2>6, <2>7, <2>8, <2>9, <2>10
<1> HIDE DEF r
<1>7. r \in Seq(Nat) /\ Len(r) = 32
  BY <1>6, <1>0
<1>8. \A j \in 1..32 :
        \/ j \in 1..24 /\ r[j] = 135 + j
        \/ j = 25 /\ r[j] = 161
        \/ j \in 26..32 /\ r[j] = 199 + j
  <2> TAKE j \in 1..32
  <2>1. CASE j \in 1..24
    <3>1. r[j] = f1 + j - 1
      BY <1>6, <1>0, <2>1
    <3>2. QED
      BY <1>0, <2>1, <3>1
  <2>2. CASE j = 25
    <3>1. r[j] = f2 + (j - n1) - 1
      BY <1>6, <1>0, <2>2
    <3>2. QED
      BY <1>0, <2>2, <3>1
  <2>3. CASE j \in 26..32
    <3>1. r[j] = f3 + (j - (n1 + n2)) - 1
      <4>1. j \in n1 + n2 + 1..n1 + n2 + n3
        BY <1>0, <2>3
      <4>2. QED
        BY <1>6, <4>1, Zenon
    <3>2. QED
      BY <1>0, <2>3, <3>1
  <2>4. QED
    BY <2>1, <2>2, <2>3
<1>9. QED
  BY <1>4, <1>7, <1>8

LEMMA ThreePartRead ==
  LET op == "get_compensation_data"
  IN  Last(op) \in 1..3 /\ Transfers[op] \in Seq(Calls) /\ Reading(op)
<1> DEFINE op == "get_compensation_data"
           t  == Transfers[op]
           r  == Reads[op]
<1>1. t = <<i2c_controller_receive(136, 0, 24), i2c_controller_receive(161, 24, 1),
            i2c_controller_receive(225, 25, 7)>>
  BY DEF Transfers, CompensationTransfers, first_part, second_part, third_part,
         BME280_REGISTER_CALIB00, BME280_REGISTER_CALIB25, BME280_REGISTER_CALIB26
<1>2. t \in Seq(Calls) /\ Len(t) = 3
  BY <1>1, CallsTyped
<1>3. /\ t[1].op = "receive" /\ t[1].reg = 136 /\ t[1].at = 0 /\ t[1].len = 24
      /\ t[2].op = "receive" /\ t[2].reg = 161 /\ t[2].at = 24 /\ t[2].len = 1
      /\ t[3].op = "receive" /\ t[3].reg = 225 /\ t[3].at = 25 /\ t[3].len = 7
  BY <1>1, CallFields
<1>4. Sizes[op] = 32 /\ Writes[op] = <<>>
  BY DEF Sizes, Writes, Operations, first_part, second_part, third_part
<1> HIDE DEF t
<1>7. Reads[op] \in Seq(Nat) /\ Len(Reads[op]) = 32
  BY CalibrationRegisters
<1> HIDE DEF r
<1>8. \A j \in 1..32 :
        \/ j - 1 \in 0..0 + 24 - 1 /\ r[j] = 136 + (j - 1 - 0)
        \/ j - 1 \in 24..24 + 1 - 1 /\ r[j] = 161 + (j - 1 - 24)
        \/ j - 1 \in 25..25 + 7 - 1 /\ r[j] = 225 + (j - 1 - 25)
  <2>1. \A j \in 1..32 : \/ j \in 1..24 /\ r[j] = 135 + j
                         \/ j = 25 /\ r[j] = 161
                         \/ j \in 26..32 /\ r[j] = 199 + j
    BY CalibrationRegisters, Zenon DEF r
  <2>2. QED
    BY <2>1
<1>9. \A j \in 1..32 : \E k \in 1..3 :
        /\ j - 1 \in t[k].at..t[k].at + t[k].len - 1
        /\ r[j] = t[k].reg + (j - 1 - t[k].at)
  BY <1>3, <1>8
<1>10. \A k, l \in 1..3 : k < l => t[k].at + t[k].len <= t[l].at
  <2> TAKE k, l \in 1..3
  <2>1. CASE k = 1 /\ l = 2
    BY <1>3, <2>1
  <2>2. CASE k = 1 /\ l = 3
    BY <1>3, <2>2
  <2>3. CASE k = 2 /\ l = 3
    BY <1>3, <2>3
  <2>4. QED
    BY <2>1, <2>2, <2>3
<1>11. \A k \in 1..3 : t[k].op = "receive"
  BY <1>3
<1>12. QED
  <2>1. Last(op) = 3 /\ Transfers[op] \in Seq(Calls) /\ Transfers[op] = t
    BY <1>2 DEF Last, t
  <2>2. \A j \in 1..32 : \E k \in 1..3 :
          /\ j - 1 \in t[k].at..t[k].at + t[k].len - 1
          /\ Reads[op][j] = t[k].reg + (j - 1 - t[k].at)
    BY <1>9 DEF r
  <2>3. Sizes[op] \in Nat /\ Len(Reads[op]) = Sizes[op]
    BY <1>4, <1>7
  <2> HIDE DEF op
  <2>4. Reading(op)
    BY <1>4, <1>7, <1>10, <1>11, <2>1, <2>2, <2>3, Zenon DEF Reading
  <2>5. QED
    BY <2>1, <2>4 DEF op

\* Every operation only writes, or only reads what it hands on.
LEMMA OperationKinds ==
  ASSUME NEW op \in Operations
  PROVE  Last(op) \in 1..3 /\ Transfers[op] \in Seq(Calls) /\ (Writing(op) \/ Reading(op))
  BY WritingOperations, SingleReads, ThreePartRead DEF Operations

(***************************************************************************)
(* The inductive invariant.                                                *)
(***************************************************************************)
Typed == DriverTypeOK /\ cmd \in Seq(Commands) /\ written \in Seq(Nat)

\* A link is held from its creation to its deletion or its loss, and before the
\* bus runs it, it holds a part of the script: all of it from then on.
Queued ==
  /\ linked => i2cPc \in {"queue", "run"}
  /\ i2cPc # "idle" /\ call.op = "send" => part = 1
  /\ i2cPc = "queue" => ran = 0 /\ (linked \/ Len(cmd) = 0)
  /\ i2cPc = "run" => linked /\ Len(cmd) = Len(Script)
  /\ i2cPc \in {"queue", "run"} =>
       Len(cmd) <= Len(Script) /\ \A i \in 1..Len(cmd) : cmd[i] = Script[i]

Filled(n) == \A i \in 0..n - 1 : buffer[call.at + i] = call.reg + i

\* Where the chip's pointer is, and what it has sent.
Pointed ==
  /\ i2cPc \in {"create", "queue"} /\ part = 2 => pointer = call.reg
  /\ i2cPc = "run" /\ part = 1 /\ ran >= 3 => pointer = call.reg
  /\ i2cPc = "run" /\ part = 2 /\ ran <= 2 => pointer = call.reg
  /\ i2cPc = "run" /\ part = 2 /\ ran = 3 /\ call.len > 1 =>
       pointer = call.reg + (call.len - 1) /\ Filled(call.len - 1)
  /\ i2cPc = "run" /\ part = 2 /\ ran >= (IF call.len > 1 THEN 4 ELSE 3) =>
       Filled(call.len) /\ ~sending

\* The transfers of the operation so far.
Arguments ==
  /\ doing = "none" => i2cPc = "idle"
  /\ doing # "none" => /\ done \in 0..Last(doing)
                       /\ done = 0 => i2cPc = "idle" /\ written = <<>>
                       /\ done > 0 => call = Transfers[doing][done]

\* How many registers an operation that writes has written.
Count == IF i2cPc = "idle" \/ (i2cPc = "run" /\ ran >= 4) THEN done ELSE done - 1

WritesInOrder ==
  doing # "none" /\ Writing(doing) /\ ~Broken =>
    Len(written) = Count /\ \A i \in 1..Count : written[i] = Writes[doing][i]

\* The bytes of transfer k are in the buffer.
Held(k) ==
  LET c == Transfers[doing][k]
  IN  \A i \in 0..c.len - 1 : buffer[c.at + i] = c.reg + i

ReadsHeld ==
  doing # "none" /\ Reading(doing) =>
    /\ written = <<>>
    /\ i2cPc # "idle" => \A k \in 1..done - 1 : Held(k)
    /\ i2cPc = "idle" /\ ~Broken => \A k \in 1..done : Held(k)

DriverInv ==
  /\ Typed /\ Queued /\ LinksAccountedFor /\ Pointed /\ Arguments
  /\ WritesInOrder /\ ReadsHeld

LEMMA ReadFields ==
  ASSUME NEW c \in Commands, c.do = "read"
  PROVE  c.to \in Nat /\ c.n \in Nat /\ c.reply \in Replies
  BY DEF Commands

LEMMA CallParts ==
  ASSUME NEW c \in Calls
  PROVE  /\ c.op \in {"send", "receive"} /\ c.reg \in Nat /\ c.at \in Nat
         /\ c.len \in Nat \ {0} /\ c.at + c.len <= BufferSize
  BY DEF Calls

\* The scripts of a transfer.
LEMMA ScriptFacts ==
  ASSUME call \in Calls
  PROVE  /\ Script \in Seq(Commands) /\ Len(Script) \in 4..5
         /\ call.op = "send" => Script = Send
         /\ call.op = "receive" /\ part = 1 => Script = SelectRegister
         /\ call.op = "receive" /\ part # 1 => Script = ReadBytes(call.len)
<1>1. CASE call.op = "send"
  BY <1>1, SendScript DEF Script
<1>2. CASE call.op = "receive" /\ part = 1
  BY <1>2, SelectScript DEF Script
<1>3. CASE call.op = "receive" /\ part # 1
  <2>1. Script = ReadBytes(call.len)
    BY <1>3 DEF Script
  <2>2. call.len \in Nat \ {0} /\ (call.len = 1 \/ call.len > 1)
    BY CallParts
  <2>3. QED
    BY <1>3, <2>1, <2>2, ReadScript
<1>4. QED
  BY <1>1, <1>2, <1>3, CallParts

LEMMA AppendTyped ==
  ASSUME NEW S, NEW s \in Seq(S), NEW e \in S
  PROVE  /\ Append(s, e) \in Seq(S) /\ Len(Append(s, e)) = Len(s) + 1
         /\ \A i \in 1..Len(s) : Append(s, e)[i] = s[i]
         /\ Append(s, e)[Len(s) + 1] = e
  OBVIOUS

LEMMA TypedInitially == DriverInit => Typed
<1> SUFFICES ASSUME DriverInit
             PROVE  Typed
  OBVIOUS
<1>1. call \in Calls
  BY DriverAssumption DEF DriverAssumption, DriverInit, I2cInit, Calls
<1>2. cmd \in Seq(Commands) /\ Len(cmd) = 0 /\ written \in Seq(Nat)
  BY DEF DriverInit, I2cInit
<1>3. buffer \in [Offsets -> Nat]
  BY DEF DriverInit, I2cInit
<1>4. /\ driver = "absent" /\ i2cPc = "idle" /\ part = 1 /\ linked = FALSE /\ ran = 0
      /\ result = "SUCCESS" /\ heap = Links /\ failed = 0 /\ pointer = 0 /\ sending = FALSE
      /\ doing = "none" /\ done = 0
  BY DEF DriverInit, I2cInit
<1>5. ran \in 0..Len(cmd) /\ Len(cmd) <= 5 /\ heap \in 0..Links /\ failed \in 0..Links
  <2>1. Links \in Nat
    BY I2cAssumption DEF I2cAssumption
  <2>2. QED
    BY <1>2, <1>4, <2>1
<1>6. linked \in BOOLEAN /\ sending \in BOOLEAN
  BY <1>4, Zenon
<1>7. QED
  BY <1>1, <1>2, <1>3, <1>4, <1>5, <1>6 DEF Typed, DriverTypeOK

\* What every error path leaves alone.
LEMMA TypedAfterError ==
  ASSUME Typed, ReturnError, UNCHANGED <<pointer, sending, written, doing, done>>
  PROVE  Typed'
<1>1. failed' \in 0..Links
  BY I2cAssumption DEF Typed, DriverTypeOK, ReturnError, I2cAssumption
<1>2. QED
  BY <1>1 DEF Typed, DriverTypeOK, ReturnError

LEMMA TypedQueue ==
  ASSUME Typed, Queue, UNCHANGED <<doing, done>>
  PROVE  Typed'
<1>1. Script \in Seq(Commands) /\ Len(Script) \in 4..5
  BY ScriptFacts DEF Typed, DriverTypeOK
<1>2. cmd \in Seq(Commands) /\ Len(cmd) \in Nat
  BY DEF Typed
<1>3. Len(cmd) + 1 \in 1..Len(Script)
  BY <1>1, <1>2 DEF Queue
<1>4. Script[Len(cmd) + 1] \in Commands
  BY <1>1, <1>3, ElementOfSeq
<1>5. cmd' \in Seq(Commands) /\ Len(cmd') = Len(cmd) + 1
  BY <1>2, <1>4, AppendTyped DEF Queue
<1>6. Len(cmd) \in Nat /\ ran' = ran /\ ran \in 0..Len(cmd)
  BY <1>2 DEF Queue, Typed, DriverTypeOK
<1>7. Len(cmd') <= 5 /\ ran' \in 0..Len(cmd')
  <2>1. Len(Script) \in 4..5
    BY <1>1
  <2>2. Len(cmd') = Len(cmd) + 1
    BY <1>5
  <2>3. Len(cmd) + 1 <= 5
    <3>1. \A n \in 4..5 : \A k \in 1..n : k <= 5
      OBVIOUS
    <3>2. QED
      BY <1>3, <2>1, <3>1, Zenon
  <2>4. QED
    BY <1>6, <2>2, <2>3
<1>8. QED
  BY <1>5, <1>7 DEF Queue, Typed, DriverTypeOK

\* The bus runs the next command of the script.
LEMMA CommandRun ==
  ASSUME Typed, Queued, Run
  PROVE  /\ cmd[ran + 1] \in Commands /\ cmd[ran + 1] = Script[ran + 1]
         /\ ran + 1 \in 1..Len(Script)
<1>1. cmd \in Seq(Commands) /\ Len(cmd) \in Nat /\ ran \in Nat
  BY DEF Typed, DriverTypeOK
<1>2. ran + 1 \in 1..Len(cmd)
  BY <1>1 DEF Run
<1>3. QED
  BY <1>1, <1>2, ElementOfSeq DEF Run, Queued

LEMMA TypedRun ==
  ASSUME Typed, Queued, Run, UNCHANGED <<doing, done>>
  PROVE  Typed'
<1> DEFINE c == cmd[ran + 1]
<1>1. c \in Commands
  BY CommandRun
<1>2. /\ call \in Calls /\ pointer \in Nat /\ sending \in BOOLEAN /\ written \in Seq(Nat)
      /\ buffer \in [Offsets -> Nat]
  BY DEF Typed, DriverTypeOK
<1>3. call.reg \in Nat /\ call.at \in Nat
  BY <1>2, CallParts
<1>4. c.do = "read" => c.to \in Nat /\ c.n \in Nat /\ c.reply \in Replies
  BY <1>1, ReadFields
<1>5. Chip(c) /\ buffer' = Received(c)
  BY DEF Run
<1> HIDE DEF c
<1>6. pointer' \in Nat
  BY <1>2, <1>3, <1>4, <1>5 DEF Chip
<1>7. sending' \in BOOLEAN
  BY <1>2, <1>5 DEF Chip
<1>8. written' \in Seq(Nat)
  BY <1>2, <1>5, AppendTyped DEF Chip
<1>9. buffer' \in [Offsets -> Nat]
  <2>1. CASE c.do # "read"
    BY <1>2, <1>5, <2>1 DEF Received
  <2>2. CASE c.do = "read"
    <3> DEFINE from == call.at + c.to
    <3>1. from \in Nat
      BY <1>3, <1>4, <2>2
    <3>2. buffer' = [i \in Offsets |-> IF i \in from..from + c.n - 1
                                       THEN pointer + (i - from) ELSE buffer[i]]
      BY <1>5, <2>2 DEF Received
    <3> HIDE DEF from
    <3>3. ASSUME NEW i \in Offsets
          PROVE  (IF i \in from..from + c.n - 1 THEN pointer + (i - from) ELSE buffer[i]) \in Nat
      <4>1. i \in Nat
        BY DriverAssumption DEF Offsets, DriverAssumption
      <4>2. QED
        BY <1>2, <1>4, <2>2, <3>1, <4>1
    <3>4. QED
      BY <3>2, <3>3
  <2>3. QED
    BY <2>1, <2>2
<1>10. ran' \in 0..Len(cmd')
  BY DEF Run, Typed, DriverTypeOK
<1>11. QED
  BY <1>6, <1>7, <1>8, <1>9, <1>10 DEF Run, Typed, DriverTypeOK

LEMMA TypedDelete ==
  ASSUME Typed, LinksAccountedFor, Queued, Delete, UNCHANGED <<doing, done>>
  PROVE  Typed'
<1>1. heap' \in 0..Links
  BY I2cAssumption DEF Typed, DriverTypeOK, Queued, LinksAccountedFor, Delete, I2cAssumption
<1>2. part' \in {1, 2} /\ result' \in {"SUCCESS", "ERROR"} /\ i2cPc' \in {"idle", "create"}
  BY DEF Typed, DriverTypeOK, Delete
<1>3. linked' = FALSE
  BY DEF Delete
<1>4. QED
  BY <1>1, <1>2, <1>3 DEF Typed, DriverTypeOK, Delete

LEMMA TypedStep ==
  ASSUME DriverInv, [DriverNext]_driverVars
  PROVE  Typed'
<1> USE DEF DriverInv
<1>1. CASE i2c_controller_init /\ UNCHANGED <<doing, done, stored>>
  BY <1>1 DEF i2c_controller_init, Typed, DriverTypeOK
<1>2. CASE TransferStep /\ UNCHANGED <<doing, done, stored>>
  <2>1. CASE Create
    <3>1. heap' \in 0..Links /\ linked' \in BOOLEAN
      <4>1. Links \in Nat /\ heap \in 0..Links /\ linked \in BOOLEAN
        BY I2cAssumption DEF I2cAssumption, Typed, DriverTypeOK
      <4>2. \/ heap > 0 /\ heap' = heap - 1 /\ linked' = TRUE
            \/ heap' = heap /\ linked' = linked
        BY <2>1 DEF Create
      <4>3. heap' \in 0..Links
        BY <4>1, <4>2, SMT
      <4>4. linked' \in BOOLEAN
        BY <4>1, <4>2, Zenon
      <4>5. QED
        BY <4>3, <4>4
    <3>2. cmd' \in Seq(Commands) /\ Len(cmd') = 0 /\ ran' = 0
      BY <2>1 DEF Create
    <3>3. /\ i2cPc' = "queue"
          /\ UNCHANGED <<driver, call, part, result, buffer, failed, pointer, sending, written,
                         doing, done>>
      BY <1>2, <2>1 DEF Create
    <3>4. ran' \in 0..Len(cmd') /\ Len(cmd') <= 5
      BY <3>2
    <3>5. QED
      BY <3>1, <3>2, <3>3, <3>4 DEF Typed, DriverTypeOK
  <2>2. CASE Queue
    BY <1>2, <2>2, TypedQueue
  <2>3. CASE QueueFails \/ BeginFails \/ RunFails
    BY <1>2, <2>3, TypedAfterError DEF QueueFails, BeginFails, RunFails
  <2>4. CASE Begin
    BY <1>2, <2>4 DEF Begin, Typed, DriverTypeOK
  <2>5. CASE Run
    BY <1>2, <2>5, TypedRun
  <2>6. CASE Delete
    BY <1>2, <2>6, TypedDelete
  <2>7. QED
    BY <1>2, <2>1, <2>2, <2>3, <2>4, <2>5, <2>6 DEF TransferStep
<1>3. CASE Operate
  <2>1. buffer' \in [Offsets -> Nat] /\ written' \in Seq(Nat) /\ done' = 0
    BY <1>3 DEF Operate
  <2>2. QED
    BY <1>3, <2>1 DEF Operate, Typed, DriverTypeOK
<1>4. CASE NextTransfer
  <2>1. doing \in Operations /\ done \in 0..3
    BY <1>4 DEF NextTransfer, Typed, DriverTypeOK
  <2>2. Transfers[doing] \in Seq(Calls) /\ Last(doing) \in 1..3
    BY <2>1, OperationKinds
  <2>3. done + 1 \in 1..Last(doing) /\ done' = done + 1
    <3>1. done < Last(doing) /\ done' = done + 1
      BY <1>4 DEF NextTransfer, Last
    <3>2. QED
      BY <2>1, <2>2, <3>1
  <2>4. call' \in Calls
    BY <1>4, <2>2, <2>3, ElementOfSeq DEF NextTransfer, Called, Last
  <2>5. done' \in 0..3
    BY <2>2, <2>3
  <2>6. part' \in {1, 2} /\ i2cPc' = "create"
    BY <1>4 DEF NextTransfer, Called
  <2>7. QED
    BY <1>4, <2>4, <2>5, <2>6 DEF NextTransfer, Typed, DriverTypeOK
<1>5. CASE ReturnSuccess \/ ReturnBroken
  BY <1>5 DEF ReturnSuccess, ReturnBroken, i2cVars, Typed, DriverTypeOK
<1>6. CASE UNCHANGED driverVars
  BY <1>6 DEF driverVars, i2cVars, Typed, DriverTypeOK
<1>7. QED
  BY <1>1, <1>2, <1>3, <1>4, <1>5, <1>6 DEF DriverNext

--------------------------------------------------------------------------------
(* The link and what is queued on it. *)

LEMMA ScriptUnchanged ==
  ASSUME UNCHANGED <<call, part>>
  PROVE  Script' = Script
  BY DEF Script

LEMMA QueuedStep ==
  ASSUME DriverInv, [DriverNext]_driverVars
  PROVE  Queued'
<1> USE DEF DriverInv
<1>1. CASE i2c_controller_init /\ UNCHANGED <<doing, done, stored>>
  BY <1>1, ScriptUnchanged DEF i2c_controller_init, Queued
<1>2. CASE TransferStep
  <2>1. CASE Create
    BY <2>1, ScriptFacts, ScriptUnchanged DEF Create, Queued, Typed, DriverTypeOK
  <2>2. CASE Queue
    <3>1. /\ cmd \in Seq(Commands) /\ Script \in Seq(Commands) /\ Len(cmd) \in Nat
          /\ Len(Script) \in Nat
      BY ScriptFacts DEF Typed, DriverTypeOK
    <3>2. Len(cmd) + 1 \in 1..Len(Script) /\ Script' = Script
      BY <2>2, <3>1, ScriptUnchanged DEF Queue
    <3>3. Script[Len(cmd) + 1] \in Commands
      BY <3>1, <3>2, ElementOfSeq
    <3>4. /\ Len(cmd') = Len(cmd) + 1 /\ cmd'[Len(cmd) + 1] = Script[Len(cmd) + 1]
          /\ \A i \in 1..Len(cmd) : cmd'[i] = cmd[i]
      BY <2>2, <3>1, <3>3, AppendTyped DEF Queue
    <3>5. \A i \in 1..Len(cmd) : cmd[i] = Script[i]
      BY <2>2 DEF Queue, Queued
    <3>6. \A i \in 1..Len(cmd') : cmd'[i] = Script'[i]
      BY <3>1, <3>2, <3>4, <3>5
    <3>7. Len(cmd') <= Len(Script')
      BY <3>1, <3>2, <3>4
    <3>8. QED
      BY <2>2, <3>6, <3>7 DEF Queue, Queued
  <2>3. CASE QueueFails \/ BeginFails \/ RunFails
    BY <2>3 DEF QueueFails, BeginFails, RunFails, ReturnError, Queued
  <2>4. CASE Begin
    <3>1. Len(Script) # 0
      <4>1. call \in Calls
        BY DEF Typed, DriverTypeOK
      <4>2. Len(Script) \in 4..5
        BY <4>1, ScriptFacts
      <4>3. QED
        BY <4>2
    <3>2. QED
      BY <2>4, <3>1, ScriptUnchanged DEF Begin, Queued
  <2>5. CASE Run
    BY <2>5, ScriptUnchanged DEF Run, Queued
  <2>6. CASE Delete
    BY <2>6 DEF Delete, Queued
  <2>7. QED
    BY <1>2, <2>1, <2>2, <2>3, <2>4, <2>5, <2>6 DEF TransferStep
<1>3. CASE Operate
  BY <1>3 DEF Operate, Queued, Arguments
<1>4. CASE NextTransfer
  BY <1>4 DEF NextTransfer, Called, Queued
<1>5. CASE ReturnSuccess \/ ReturnBroken \/ UNCHANGED driverVars
  <2>1. UNCHANGED i2cVars
    BY <1>5 DEF ReturnSuccess, ReturnBroken, driverVars
  <2>2. QED
    BY <2>1, ScriptUnchanged DEF i2cVars, Queued
<1>6. QED
  BY <1>1, <1>2, <1>3, <1>4, <1>5 DEF DriverNext

LEMMA LinksStep ==
  ASSUME DriverInv, [DriverNext]_driverVars
  PROVE  LinksAccountedFor'
<1> USE I2cAssumption DEF DriverInv, I2cAssumption
<1>1. heap \in 0..Links /\ failed \in 0..Links /\ linked \in BOOLEAN
  BY DEF Typed, DriverTypeOK
<1>2. CASE UNCHANGED <<heap, linked, failed>>
  BY <1>2 DEF LinksAccountedFor
<1>3. CASE Create
  <2>1. ~linked
    BY <1>3 DEF Create, Queued
  <2>2. QED
    BY <1>1, <1>3, <2>1 DEF Create, LinksAccountedFor
<1>4. CASE ReturnError
  BY <1>1, <1>4 DEF ReturnError, LinksAccountedFor
<1>5. CASE Delete
  <2>1. linked
    BY <1>5 DEF Delete, Queued
  <2>2. QED
    BY <1>1, <1>5, <2>1 DEF Delete, LinksAccountedFor
<1>6. \/ UNCHANGED <<heap, linked, failed>> \/ Create \/ ReturnError \/ Delete
  BY DEF DriverNext, driverVars, i2cVars, TransferStep, i2c_controller_init, Queue, QueueFails,
         Begin, BeginFails, Run, RunFails, Operate, NextTransfer, Called, ReturnSuccess,
         ReturnBroken
<1>7. QED
  BY <1>2, <1>3, <1>4, <1>5, <1>6

--------------------------------------------------------------------------------
(* What a command on the bus changes. *)

LEMMA ReadEffect ==
  ASSUME Typed, NEW to \in Nat, NEW n \in Nat, NEW reply, to + n <= call.len,
         Chip(Read(to, n, reply)), buffer' = Received(Read(to, n, reply))
  PROVE  /\ pointer' = pointer + n /\ sending' = (reply = "ACK") /\ written' = written
         /\ \A i \in 0..n - 1 : buffer'[call.at + to + i] = pointer + i
         /\ \A j \in Offsets : j \notin call.at + to..call.at + to + n - 1 => buffer'[j] = buffer[j]
<1> DEFINE c == Read(to, n, reply)
<1>1. c.do = "read" /\ c.to = to /\ c.n = n /\ c.reply = reply
  BY CommandFields
<1> HIDE DEF c
<1>2. Chip(c) /\ buffer' = Received(c)
  BY DEF c
<1>3. /\ call.at \in Nat /\ call.len \in Nat /\ call.at + call.len <= BufferSize
      /\ BufferSize \in Nat /\ pointer \in Nat
  BY CallParts, I2cAssumption DEF Typed, DriverTypeOK, I2cAssumption
<1>4. pointer' = pointer + n /\ written' = written
  BY <1>1, <1>2 DEF Chip
<1>5. sending' = (reply = "ACK")
  BY <1>1, <1>2 DEF Chip
<1>6. PICK from \in Nat : from = call.at + to
  BY <1>3
<1>7. buffer' = [i \in Offsets |-> IF i \in from..from + n - 1 THEN pointer + (i - from)
                                   ELSE buffer[i]]
  BY <1>1, <1>2, <1>6 DEF Received
<1>8. ASSUME NEW i \in 0..n - 1
      PROVE  buffer'[from + i] = pointer + i
  <2>1. from + i \in Offsets /\ from + i \in from..from + n - 1
    BY <1>3, <1>6 DEF Offsets
  <2>2. buffer'[from + i] = pointer + (from + i - from)
    BY <1>7, <2>1
  <2>3. QED
    BY <1>3, <1>6, <2>2
<1>9. ASSUME NEW j \in Offsets, j \notin from..from + n - 1
      PROVE  buffer'[j] = buffer[j]
  BY <1>7, <1>9
<1>10. QED
  BY <1>4, <1>5, <1>6, <1>8, <1>9

LEMMA OtherEffect ==
  ASSUME NEW c, Chip(c), buffer' = Received(c), c.do # "read"
  PROVE  /\ buffer' = buffer
         /\ sending' => sending
         /\ c.do = "register" => pointer' = call.reg
         /\ c.do # "register" => pointer' = pointer
         /\ c.do = "write" => written' = Append(written, pointer)
         /\ c.do # "write" => written' = written
  BY DEF Chip, Received

\* A transaction that selects or writes a register.
LEMMA SelectingRun ==
  ASSUME Typed, Queued, Run, call.op = "send" \/ part = 1
  PROVE  /\ buffer' = buffer
         /\ ran = 2 => pointer' = call.reg
         /\ ran # 2 => pointer' = pointer
         /\ call.op = "send" /\ ran = 3 => written' = Append(written, pointer)
         /\ ~(call.op = "send" /\ ran = 3) => written' = written
<1> DEFINE c == cmd[ran + 1]
<1>1. c = Script[ran + 1] /\ ran + 1 \in 1..Len(Script) /\ ran \in Nat
  BY CommandRun DEF Typed, DriverTypeOK
<1>2. Chip(c) /\ buffer' = Received(c)
  BY DEF Run
<1>3. call \in Calls /\ call.op \in {"send", "receive"}
  BY CallParts DEF Typed, DriverTypeOK
<1>4. Script = (IF call.op = "send" THEN Send ELSE SelectRegister)
  BY <1>3, ScriptFacts
<1>5. Len(Script) \in 4..5
  BY <1>3, ScriptFacts
<1>6. ran \in 0..4 /\ ran + 1 \in 1..Len(Script)
  BY <1>1, <1>5
<1> HIDE DEF c
<1>7. /\ c.do # "read"
      /\ c.do = "register" <=> ran = 2
      /\ c.do = "write" <=> (call.op = "send" /\ ran = 3)
  <2>1. CASE call.op = "send"
    <3>1. c = Send[ran + 1]
      BY <1>1, <1>4, <2>1
    <3>2. QED
      BY <1>6, <2>1, <3>1, SendScript, CommandFields
  <2>2. CASE call.op # "send"
    <3>1. c = SelectRegister[ran + 1] /\ ran + 1 \in 1..Len(SelectRegister)
      BY <1>1, <1>4, <2>2
    <3>2. ran \in 0..3
      BY <1>6, <3>1, SelectScript
    <3>3. QED
      BY <2>2, <3>1, <3>2, SelectScript, CommandFields
  <2>3. QED
    BY <2>1, <2>2
<1>8. QED
  BY <1>2, <1>7, OtherEffect

\* The second transaction of a receive.
LEMMA ReadingRun ==
  ASSUME Typed, Queued, Run, call.op = "receive", part = 2
  PROVE  LET single == call.len = 1
         IN  /\ written' = written
             /\ \A j \in Offsets : j \notin call.at..call.at + call.len - 1 => buffer'[j] = buffer[j]
             /\ ran = 2 /\ single => /\ pointer' = pointer + 1 /\ ~sending'
                                     /\ buffer'[call.at] = pointer
             /\ ran = 2 /\ ~single =>
                  /\ pointer' = pointer + (call.len - 1)
                  /\ \A i \in 0..call.len - 2 : buffer'[call.at + i] = pointer + i
             /\ ran = 3 /\ ~single =>
                  /\ ~sending' /\ buffer'[call.at + (call.len - 1)] = pointer
                  /\ \A i \in 0..call.len - 2 : buffer'[call.at + i] = buffer[call.at + i]
             /\ ran \notin (IF single THEN {2} ELSE {2, 3}) =>
                  pointer' = pointer /\ buffer' = buffer /\ (sending' => sending)
<1> DEFINE c == cmd[ran + 1]
           s == ReadBytes(call.len)
<1>1. c = Script[ran + 1] /\ ran + 1 \in 1..Len(Script) /\ ran \in Nat
  BY CommandRun DEF Typed, DriverTypeOK
<1>2. Chip(c) /\ buffer' = Received(c)
  BY DEF Run
<1>3. /\ call \in Calls /\ call.at \in Nat /\ call.len \in Nat \ {0}
      /\ call.at + call.len <= BufferSize /\ BufferSize \in Nat /\ pointer \in Nat
  BY CallParts, I2cAssumption DEF Typed, DriverTypeOK, I2cAssumption
<1>4. Script = s
  BY <1>3, ScriptFacts
<1>5. /\ s[1] = Start /\ s[2] = Address("READ")
      /\ call.len = 1 => /\ Len(s) = 4 /\ s[3] = Read(0, 1, "NACK") /\ s[4] = Stop
      /\ call.len > 1 => /\ Len(s) = 5 /\ s[3] = Read(0, call.len - 1, "ACK")
                         /\ s[4] = Read(call.len - 1, 1, "NACK") /\ s[5] = Stop
  BY <1>3, ReadScript
<1>6. c = s[ran + 1] /\ ran + 1 \in 1..Len(s)
  BY <1>1, <1>4
<1> HIDE DEF c, s
<1>7. /\ ran \notin (IF call.len = 1 THEN {2} ELSE {2, 3}) =>
           c.do # "read" /\ c.do # "register" /\ c.do # "write"
  <2>1. CASE call.len = 1
    <3>1. ran \in {0, 1, 2, 3}
      <4>1. Len(s) = 4
        BY <1>5, <2>1
      <4>2. QED
        BY <1>1, <1>6, <4>1
    <3>2. QED
      BY <1>5, <1>6, <2>1, <3>1, CommandFields
  <2>2. CASE call.len > 1
    <3>1. ran \in {0, 1, 2, 3, 4}
      <4>1. Len(s) = 5
        BY <1>5, <2>2
      <4>2. QED
        BY <1>1, <1>6, <4>1
    <3>2. QED
      BY <1>5, <1>6, <2>2, <3>1, CommandFields
  <2>3. QED
    BY <1>3, <2>1, <2>2
<1>8. CASE ran \notin (IF call.len = 1 THEN {2} ELSE {2, 3})
  <2>1. /\ pointer' = pointer /\ buffer' = buffer /\ written' = written /\ (sending' => sending)
    BY <1>2, <1>7, <1>8, OtherEffect
  <2>2. QED
    BY <1>8, <2>1
<1>9. CASE ran = 2 /\ call.len = 1
  <2>1. c = Read(0, 1, "NACK")
    BY <1>5, <1>6, <1>9
  <2>2. /\ pointer' = pointer + 1 /\ sending' = ("NACK" = "ACK") /\ written' = written
        /\ \A i \in 0..1 - 1 : buffer'[call.at + 0 + i] = pointer + i
        /\ \A j \in Offsets : j \notin call.at + 0..call.at + 0 + 1 - 1 => buffer'[j] = buffer[j]
    <3>1. 0 \in Nat /\ 1 \in Nat /\ 0 + 1 <= call.len
      BY <1>9
    <3>2. Chip(Read(0, 1, "NACK")) /\ buffer' = Received(Read(0, 1, "NACK"))
      BY <1>2, <2>1
    <3>3. QED
      BY <3>1, <3>2, ReadEffect
  <2>3. buffer'[call.at] = pointer /\ ~sending'
    <3>1. ~sending'
      BY <2>2
    <3>2. 0 \in 0..1 - 1 /\ call.at + 0 + 0 = call.at /\ pointer + 0 = pointer
      BY <1>3
    <3>3. buffer'[call.at + 0 + 0] = pointer + 0
      BY <2>2, <3>2, Zenon
    <3>4. QED
      BY <3>1, <3>2, <3>3
  <2>4. QED
    BY <1>3, <1>9, <2>2, <2>3
<1>10. CASE ran = 2 /\ call.len > 1
  <2>1. PICK n \in Nat : n = call.len - 1
    BY <1>3
  <2>2. Chip(Read(0, n, "ACK")) /\ buffer' = Received(Read(0, n, "ACK"))
    BY <1>2, <1>5, <1>6, <1>10, <2>1
  <2>3. 0 + n <= call.len
    BY <1>3, <2>1
  <2>4. /\ pointer' = pointer + n /\ written' = written
        /\ \A i \in 0..n - 1 : buffer'[call.at + 0 + i] = pointer + i
        /\ \A j \in Offsets : j \notin call.at + 0..call.at + 0 + n - 1 => buffer'[j] = buffer[j]
    BY <2>2, <2>3, ReadEffect
  <2>5. QED
    BY <1>3, <1>10, <2>1, <2>4
<1>11. CASE ran = 3 /\ call.len > 1
  <2>1. PICK n \in Nat : n = call.len - 1
    BY <1>3
  <2>2. Chip(Read(n, 1, "NACK")) /\ buffer' = Received(Read(n, 1, "NACK"))
    BY <1>2, <1>5, <1>6, <1>11, <2>1
  <2>3. n + 1 <= call.len
    BY <1>3, <2>1
  <2>4. /\ sending' = ("NACK" = "ACK") /\ written' = written
        /\ \A i \in 0..1 - 1 : buffer'[call.at + n + i] = pointer + i
        /\ \A j \in Offsets : j \notin call.at + n..call.at + n + 1 - 1 => buffer'[j] = buffer[j]
    BY <2>2, <2>3, ReadEffect
  <2>5. \A i \in 0..call.len - 2 : call.at + i \in Offsets
    BY <1>3 DEF Offsets
  <2>6. buffer'[call.at + n] = pointer /\ ~sending'
    <3>1. ~sending'
      BY <2>4
    <3>2. 0 \in 0..1 - 1 /\ call.at + n + 0 = call.at + n /\ pointer + 0 = pointer
      BY <1>3
    <3>3. buffer'[call.at + n + 0] = pointer + 0
      BY <2>4, <3>2, Zenon
    <3>4. QED
      BY <3>1, <3>2, <3>3
  <2>7. \A i \in 0..call.len - 2 : buffer'[call.at + i] = buffer[call.at + i]
    BY <1>3, <2>1, <2>4, <2>5
  <2>8. QED
    BY <1>3, <1>11, <2>1, <2>4, <2>6, <2>7
<1>12. QED
  BY <1>3, <1>8, <1>9, <1>10, <1>11

--------------------------------------------------------------------------------
(* The invariants of a transfer and of an operation. *)

LEMMA PointedRun ==
  ASSUME Typed, Queued, Pointed, Run
  PROVE  Pointed'
<1>1. /\ i2cPc = "run" /\ i2cPc' = "run" /\ part' = part /\ call' = call /\ ran' = ran + 1
      /\ ran \in Nat /\ part \in {1, 2} /\ call.op \in {"send", "receive"}
      /\ call.len \in Nat \ {0} /\ pointer \in Nat /\ call.reg \in Nat
  BY CallParts DEF Run, Typed, DriverTypeOK
<1>2. CASE part = 1
  <2>1. ran' >= 3 => pointer' = call.reg
    BY <1>1, <1>2, SelectingRun DEF Pointed
  <2>2. QED
    BY <1>1, <1>2, <2>1 DEF Pointed
<1>3. CASE part = 2
  <2>1. call.op = "receive"
    BY <1>1, <1>3 DEF Queued
  <2> DEFINE single == call.len = 1
  <2>2. /\ ran = 2 /\ single => ~sending' /\ buffer'[call.at] = pointer
        /\ ran = 2 /\ ~single =>
             /\ pointer' = pointer + (call.len - 1)
             /\ \A i \in 0..call.len - 2 : buffer'[call.at + i] = pointer + i
        /\ ran = 3 /\ ~single =>
             /\ ~sending' /\ buffer'[call.at + (call.len - 1)] = pointer
             /\ \A i \in 0..call.len - 2 : buffer'[call.at + i] = buffer[call.at + i]
        /\ ran \notin (IF single THEN {2} ELSE {2, 3}) =>
             pointer' = pointer /\ buffer' = buffer /\ (sending' => sending)
    BY <1>3, <2>1, ReadingRun, Zenon
  <2>3. ran' <= 2 => pointer' = call.reg
    BY <1>1, <1>3, <2>2 DEF Pointed
  <2>4. ASSUME ran' = 3, call.len > 1
        PROVE  pointer' = call.reg + (call.len - 1) /\ Filled(call.len - 1)'
    <3>1. ran = 2 /\ ~single /\ pointer = call.reg
      BY <1>1, <1>3, <2>4 DEF Pointed
    <3>2. \A i \in 0..call.len - 1 - 1 : buffer'[call.at + i] = call.reg + i
      BY <1>1, <2>2, <3>1
    <3>3. QED
      BY <1>1, <2>2, <3>1, <3>2 DEF Filled
  <2>5. ASSUME ran' >= (IF call.len > 1 THEN 4 ELSE 3)
        PROVE  Filled(call.len)' /\ ~sending'
    <3>1. CASE ran = 2 /\ single
      <4>1. pointer = call.reg
        BY <1>1, <1>3, <3>1 DEF Pointed
      <4>2. call.at + 0 = call.at /\ call.reg + 0 = call.reg
        BY CallParts, <1>1 DEF Typed, DriverTypeOK
      <4>3. buffer'[call.at + 0] = call.reg + 0
        BY <2>2, <3>1, <4>1, <4>2
      <4>4. \A i \in 0..call.len - 1 : i = 0
        BY <3>1
      <4>5. Filled(call.len)'
        BY <1>1, <4>3, <4>4 DEF Filled
      <4>6. QED
        BY <2>2, <3>1, <4>5
    <3>2. CASE ran = 3 /\ ~single
      <4>1. pointer = call.reg + (call.len - 1) /\ Filled(call.len - 1)
        BY <1>1, <1>3, <3>2 DEF Pointed
      <4>2. \A i \in 0..call.len - 2 : buffer'[call.at + i] = call.reg + i
        BY <1>1, <2>2, <3>2, <4>1 DEF Filled
      <4>3. buffer'[call.at + (call.len - 1)] = call.reg + (call.len - 1)
        BY <2>2, <3>2, <4>1
      <4>4. \A i \in 0..call.len - 1 : i \in 0..call.len - 2 \/ i = call.len - 1
        BY <1>1
      <4>5. Filled(call.len)'
        BY <1>1, <4>2, <4>3, <4>4 DEF Filled
      <4>6. QED
        BY <2>2, <3>2, <4>5
    <3>3. CASE ran >= (IF call.len > 1 THEN 4 ELSE 3)
      <4>1. Filled(call.len) /\ ~sending
        BY <1>1, <1>3, <3>3 DEF Pointed
      <4>2. ran \notin (IF single THEN {2} ELSE {2, 3})
        BY <1>1, <3>3
      <4>3. buffer' = buffer /\ (sending' => sending)
        BY <2>2, <4>2
      <4>4. QED
        BY <1>1, <4>1, <4>3 DEF Filled
    <3>4. QED
      BY <1>1, <2>5, <3>1, <3>2, <3>3
  <2>6. QED
    BY <1>1, <1>3, <2>3, <2>4, <2>5 DEF Pointed
<1>4. QED
  BY <1>1, <1>2, <1>3

LEMMA PointedStep ==
  ASSUME DriverInv, [DriverNext]_driverVars
  PROVE  Pointed'
<1> USE DEF DriverInv
<1>1. CASE i2c_controller_init \/ Queue \/ ReturnSuccess \/ ReturnBroken \/ UNCHANGED driverVars
  <2>1. UNCHANGED <<i2cPc, call, part, ran, buffer, pointer, sending>>
    BY <1>1 DEF i2c_controller_init, Queue, ReturnSuccess, ReturnBroken, driverVars, i2cVars
  <2>2. QED
    BY <2>1 DEF Pointed, Filled
<1>2. CASE ReturnError
  BY <1>2 DEF ReturnError, Pointed
<1>3. CASE Create
  BY <1>3 DEF Create, Pointed
<1>4. CASE Begin
  BY <1>4 DEF Begin, Pointed, Queued
<1>5. CASE Run
  BY <1>5, PointedRun
<1>6. CASE Delete
  <2>1. ran >= 3
    <3>1. call \in Calls
      BY DEF Typed, DriverTypeOK
    <3>2. Len(Script) \in 4..5
      BY <3>1, ScriptFacts
    <3>3. ran = Len(Script)
      BY <1>6 DEF Delete, Queued
    <3>4. QED
      BY <3>2, <3>3
  <2>2. CASE call.op = "receive" /\ part = 1
    <3>1. i2cPc' = "create" /\ pointer' = pointer /\ call' = call /\ pointer = call.reg
      BY <1>6, <2>1, <2>2 DEF Delete, Pointed
    <3>2. QED
      BY <3>1 DEF Pointed
  <2>3. CASE ~(call.op = "receive" /\ part = 1)
    BY <1>6, <2>3 DEF Delete, Pointed
  <2>4. QED
    BY <2>2, <2>3
<1>7. CASE Operate
  BY <1>7 DEF Operate, Arguments, Pointed
<1>8. CASE NextTransfer
  BY <1>8 DEF NextTransfer, Called, Pointed
<1>9. QED
  BY <1>1, <1>2, <1>3, <1>4, <1>5, <1>6, <1>7, <1>8
     DEF DriverNext, TransferStep, QueueFails, BeginFails, RunFails

\* A transfer under way is one of its operation's.
LEMMA UnderWay ==
  ASSUME DriverInv, i2cPc # "idle"
  PROVE  /\ doing \in Operations /\ done \in 1..Last(doing) /\ call = Transfers[doing][done]
         /\ Writing(doing) => call.op = "send" /\ call.reg = Writes[doing][done]
         /\ Reading(doing) => call.op = "receive"
<1>1. doing \in Operations /\ done \in 0..3
  BY DEF DriverInv, Arguments, Typed, DriverTypeOK
<1>2. Last(doing) \in 1..3
  BY <1>1, OperationKinds
<1>3. done \in 0..Last(doing) /\ done # 0
  BY <1>1 DEF DriverInv, Arguments
<1>4. done \in 1..Last(doing) /\ done > 0
  BY <1>1, <1>2, <1>3
<1>5. call = Transfers[doing][done]
  BY <1>1, <1>4 DEF DriverInv, Arguments
<1>6. QED
  BY <1>1, <1>4, <1>5 DEF Writing, Reading

LEMMA ArgumentsStep ==
  ASSUME DriverInv, [DriverNext]_driverVars
  PROVE  Arguments'
<1> USE DEF DriverInv
<1>1. CASE \/ i2c_controller_init /\ UNCHANGED <<doing, done, stored>>
           \/ UNCHANGED driverVars
  <2>1. UNCHANGED <<i2cPc, call, written, doing, done>>
    BY <1>1 DEF i2c_controller_init, driverVars, i2cVars
  <2>2. QED
    BY <2>1 DEF Arguments, Last
<1>2. CASE TransferStep /\ UNCHANGED <<doing, done, stored>>
  <2>1. i2cPc # "idle" /\ UNCHANGED call
    BY <1>2 DEF TransferStep, Create, Queue, QueueFails, Begin, BeginFails, Run, RunFails, Delete,
                ReturnError
  <2>2. doing # "none" /\ done # 0
    BY <2>1 DEF Arguments
  <2>3. QED
    BY <1>2, <2>1, <2>2 DEF Arguments, Last
<1>3. CASE Operate
  <2>1. doing' \in Operations /\ done' = 0 /\ i2cPc' = i2cPc /\ i2cPc = "idle" /\ written' = <<>>
    BY <1>3 DEF Operate, Arguments
  <2>2. Last(doing') \in 1..3
    BY <2>1, OperationKinds
  <2>3. QED
    BY <2>1, <2>2 DEF Arguments
<1>4. CASE NextTransfer
  <2>1. doing \in Operations /\ doing' = doing /\ done \in 0..3
    BY <1>4 DEF NextTransfer, Typed, DriverTypeOK
  <2>2. Last(doing) \in 1..3
    BY <2>1, OperationKinds
  <2>3. /\ done < Last(doing) /\ done' = done + 1 /\ call' = Transfers[doing][done + 1]
    BY <1>4 DEF NextTransfer, Called, Last
  <2>4. done' \in 0..Last(doing) /\ done' # 0
    BY <2>1, <2>2, <2>3
  <2>5. doing # "none"
    BY <1>4 DEF NextTransfer
  <2>6. QED
    BY <2>1, <2>3, <2>4, <2>5 DEF Arguments
<1>5. CASE ReturnSuccess \/ ReturnBroken
  BY <1>5 DEF ReturnSuccess, ReturnBroken, Finished, Broken, i2cVars, Arguments
<1>6. QED
  BY <1>1, <1>2, <1>3, <1>4, <1>5 DEF DriverNext

LEMMA WritesStep ==
  ASSUME DriverInv, [DriverNext]_driverVars
  PROVE  WritesInOrder'
<1>1. /\ Typed /\ Queued /\ Pointed /\ Arguments /\ WritesInOrder
      /\ done \in 0..3 /\ ran \in Nat /\ written \in Seq(Nat)
      /\ result \in {"SUCCESS", "ERROR"}
  BY DEF DriverInv, Typed, DriverTypeOK
<1> DEFINE InOrder == /\ Len(written) = Count
                      /\ \A i \in 1..Count : written[i] = Writes[doing][i]
<1>2. CASE UNCHANGED <<doing, done, written, i2cPc, ran, result>>
  BY <1>1, <1>2 DEF WritesInOrder, Count, Broken, Writing, Last
<1>3. CASE (Create \/ Begin) /\ UNCHANGED <<doing, done, stored>>
  <2>1. /\ UNCHANGED <<doing, done, written, result>> /\ i2cPc # "idle" /\ i2cPc' # "idle"
        /\ i2cPc # "run" /\ i2cPc' \in {"queue", "run"} /\ ran' \in Nat /\ ~(ran' >= 4)
    BY <1>1, <1>3 DEF Create, Begin, Queued
  <2>2. Count' = Count /\ ~Broken
    BY <2>1 DEF Count, Broken
  <2>3. QED
    BY <1>1, <2>1, <2>2 DEF WritesInOrder, Writing, Last
<1>4. CASE ReturnError /\ UNCHANGED <<doing, done, stored, pointer, sending, written>>
             /\ i2cPc # "idle"
  <2>1. done > 0
    BY <1>1, <1>4, UnderWay
  <2>2. Broken'
    BY <1>4, <2>1 DEF ReturnError, Broken
  <2>3. QED
    BY <2>2 DEF WritesInOrder
<1>5. CASE Run /\ UNCHANGED <<doing, done, stored>>
  <2>1. /\ i2cPc = "run" /\ i2cPc' = "run" /\ ran' = ran + 1 /\ UNCHANGED <<doing, done>>
        /\ ~Broken
    BY <1>5 DEF Run, Broken
  <2>2. SUFFICES ASSUME Writing(doing), doing # "none"
                 PROVE  InOrder'
    BY <2>1 DEF WritesInOrder, Writing, Last
  <2>3. /\ done \in 1..Last(doing) /\ call.op = "send" /\ call.reg = Writes[doing][done]
        /\ done \in 1..3
    BY <1>1, <2>1, <2>2, UnderWay
  <2>4. InOrder
    BY <1>1, <2>1, <2>2 DEF WritesInOrder
  <2>5. /\ ran = 3 => written' = Append(written, pointer)
        /\ ran # 3 => written' = written
    BY <1>1, <1>5, <2>3, SelectingRun
  <2>6. CASE ran # 3
    <3>1. Count' = Count
      BY <1>1, <2>1, <2>6 DEF Count
    <3>2. QED
      BY <2>1, <2>4, <2>5, <2>6, <3>1
  <2>7. CASE ran = 3
    <3>1. Count = done - 1 /\ Count' = done
      BY <2>1, <2>7 DEF Count
    <3>2. pointer = Writes[doing][done] /\ pointer \in Nat
      BY <1>1, <2>1, <2>3, <2>7 DEF Pointed, Queued, Typed, DriverTypeOK
    <3>3. /\ Len(written') = Len(written) + 1 /\ written'[Len(written) + 1] = pointer
          /\ \A i \in 1..Len(written) : written'[i] = written[i]
      BY <1>1, <2>5, <2>7, <3>2, AppendTyped
    <3> HIDE DEF Count
    <3>4. Len(written) = done - 1 /\ Len(written') = done
      BY <2>3, <2>4, <3>1, <3>3
    <3>5. \A i \in 1..done : i \in 1..done - 1 \/ i = done
      BY <2>3
    <3>6. \A i \in 1..done : written'[i] = Writes[doing][i]
      BY <2>3, <2>4, <3>1, <3>2, <3>3, <3>4, <3>5
    <3>7. QED
      BY <2>1, <3>1, <3>4, <3>6
  <2>8. QED
    BY <2>6, <2>7
<1>6. CASE Delete /\ UNCHANGED <<doing, done, stored>>
  <2>1. SUFFICES ASSUME Writing(doing), doing # "none"
                 PROVE  InOrder'
    BY <1>6 DEF WritesInOrder, Writing, Last
  <2>2. i2cPc = "run" /\ ~Broken
    BY <1>6 DEF Delete, Broken
  <2>3. call.op = "send"
    BY <2>1, <2>2, UnderWay
  <2>4. i2cPc' = "idle" /\ UNCHANGED <<doing, done, written>>
    BY <1>6, <2>3 DEF Delete
  <2>5. ran >= 4
    <3>1. call \in Calls
      BY <1>1 DEF Typed, DriverTypeOK
    <3>2. Len(Script) \in 4..5
      BY <3>1, ScriptFacts
    <3>3. ran = Len(Script)
      BY <1>1, <1>6 DEF Delete, Queued
    <3>4. QED
      BY <3>2, <3>3
  <2>6. Count' = Count
    BY <2>2, <2>4, <2>5 DEF Count
  <2>7. QED
    BY <1>1, <2>1, <2>2, <2>4, <2>6 DEF WritesInOrder
<1>7. CASE Operate
  <2>1. done' = 0 /\ i2cPc' = "idle" /\ written' = <<>>
    BY <1>1, <1>7 DEF Operate, Arguments
  <2>2. Count' = 0
    BY <2>1 DEF Count
  <2>3. QED
    BY <2>1, <2>2 DEF WritesInOrder
<1>8. CASE NextTransfer
  <2>1. /\ i2cPc = "idle" /\ i2cPc' = "create" /\ done' = done + 1 /\ UNCHANGED <<doing, written>>
        /\ ~Broken
    BY <1>8 DEF NextTransfer, Called
  <2>2. Count' = Count
    BY <1>1, <2>1 DEF Count
  <2>3. QED
    BY <1>1, <2>1, <2>2 DEF WritesInOrder, Writing, Last
<1>9. CASE ReturnSuccess \/ ReturnBroken
  BY <1>9 DEF ReturnSuccess, ReturnBroken, WritesInOrder
<1>10. CASE i2c_controller_init /\ UNCHANGED <<doing, done, stored>>
  BY <1>2, <1>10 DEF i2c_controller_init
<1>11. CASE Queue /\ UNCHANGED <<doing, done, stored>>
  BY <1>2, <1>11 DEF Queue
<1>12. CASE UNCHANGED driverVars
  BY <1>2, <1>12 DEF driverVars, i2cVars
<1>13. QED
  BY <1>3, <1>4, <1>5, <1>6, <1>7, <1>8, <1>9, <1>10, <1>11, <1>12
     DEF DriverNext, TransferStep, QueueFails, BeginFails, RunFails

\* The parts of the buffer that earlier transfers filled are not touched again.
LEMMA HeldRun ==
  ASSUME DriverInv, Run, UNCHANGED <<doing, done>>, doing # "none", Reading(doing)
  PROVE  \A k \in 1..done - 1 : Held(k)'
<1>1. /\ Typed /\ Queued /\ i2cPc # "idle" /\ part \in {1, 2} /\ call \in Calls
  BY DEF DriverInv, Typed, DriverTypeOK, Run
<1>2. /\ doing \in Operations /\ done \in 1..Last(doing) /\ call = Transfers[doing][done]
      /\ call.op = "receive"
  BY <1>1, UnderWay
<1>3. Transfers[doing] \in Seq(Calls) /\ Last(doing) \in 1..3
  BY <1>2, OperationKinds
<1>4. \A j \in Offsets : j \notin call.at..call.at + call.len - 1 => buffer'[j] = buffer[j]
  BY <1>1, <1>2, SelectingRun, ReadingRun
<1>5. SUFFICES ASSUME NEW k \in 1..done - 1
               PROVE  Held(k)'
  OBVIOUS
<1> DEFINE c == Transfers[doing][k]
<1>6. Held(k) /\ k \in 1..Last(doing) /\ k < done
  BY <1>1, <1>2, <1>3 DEF DriverInv, ReadsHeld
<1>7. c \in Calls
  BY <1>3, <1>6, ElementOfSeq DEF Last
<1>8. c.at + c.len <= call.at
  BY <1>2, <1>6 DEF Reading
<1> HIDE DEF c
<1>9. /\ call.at \in Nat /\ call.len \in Nat /\ call.at + call.len <= BufferSize
      /\ c.at \in Nat /\ c.len \in Nat /\ BufferSize \in Nat
  BY <1>1, <1>7, CallParts, I2cAssumption DEF I2cAssumption
<1>10. \A i \in 0..c.len - 1 : c.at + i \in Offsets /\ c.at + i \notin call.at..call.at + call.len - 1
  BY <1>8, <1>9 DEF Offsets
<1>11. \A i \in 0..c.len - 1 : buffer'[c.at + i] = buffer[c.at + i]
  BY <1>4, <1>10
<1>12. QED
  BY <1>6, <1>11 DEF Held, c

LEMMA ReadsStep ==
  ASSUME DriverInv, [DriverNext]_driverVars
  PROVE  ReadsHeld'
<1>1. /\ Typed /\ Queued /\ Pointed /\ Arguments /\ ReadsHeld
      /\ done \in 0..3 /\ ran \in Nat /\ result \in {"SUCCESS", "ERROR"}
  BY DEF DriverInv, Typed, DriverTypeOK
<1>2. CASE UNCHANGED <<doing, done, written, i2cPc, buffer, result>>
  BY <1>1, <1>2 DEF ReadsHeld, Held, Broken, Reading, Last
<1>3. CASE (Create \/ Begin) /\ UNCHANGED <<doing, done, stored>>
  <2>1. /\ UNCHANGED <<doing, done, written, buffer>> /\ i2cPc # "idle" /\ i2cPc' # "idle"
    BY <1>3 DEF Create, Begin
  <2>2. QED
    BY <1>1, <2>1 DEF ReadsHeld, Held, Reading, Last
<1>4. CASE ReturnError /\ UNCHANGED <<doing, done, stored, pointer, sending, written>>
             /\ i2cPc # "idle"
  <2>1. done > 0
    BY <1>1, <1>4, UnderWay
  <2>2. Broken' /\ i2cPc' = "idle"
    BY <1>4, <2>1 DEF ReturnError, Broken
  <2>3. QED
    BY <1>1, <1>4, <2>2 DEF ReadsHeld, Reading, Last
<1>5. CASE Run /\ UNCHANGED <<doing, done, stored>>
  <2>1. i2cPc = "run" /\ i2cPc' = "run" /\ UNCHANGED <<doing, done>>
    BY <1>5 DEF Run
  <2>2. SUFFICES ASSUME doing # "none", Reading(doing)
                 PROVE  written' = <<>> /\ \A k \in 1..done - 1 : Held(k)'
    BY <2>1 DEF ReadsHeld, Reading, Last
  <2>3. call.op = "receive" /\ part \in {1, 2}
    BY <1>1, <2>1, <2>2, UnderWay DEF Typed, DriverTypeOK
  <2>4. written' = written
    BY <1>1, <1>5, <2>3, SelectingRun, ReadingRun
  <2>5. written = <<>>
    BY <1>1, <2>2 DEF ReadsHeld
  <2>6. \A k \in 1..done - 1 : Held(k)'
    BY <1>5, <2>2, HeldRun
  <2>7. QED
    BY <2>4, <2>5, <2>6
<1>6. CASE Delete /\ UNCHANGED <<doing, done, stored>>
  <2>1. SUFFICES ASSUME doing # "none", Reading(doing)
                 PROVE  /\ written' = <<>> /\ \A k \in 1..done - 1 : Held(k)'
                        /\ i2cPc' = "idle" => \A k \in 1..done : Held(k)'
    BY <1>6 DEF ReadsHeld, Reading, Last
  <2>2. i2cPc = "run" /\ UNCHANGED <<doing, done, written, buffer>>
    BY <1>6 DEF Delete
  <2>3. /\ doing \in Operations /\ done \in 1..Last(doing) /\ call = Transfers[doing][done]
        /\ call.op = "receive"
    BY <2>1, <2>2, UnderWay
  <2>4. written = <<>> /\ \A k \in 1..done - 1 : Held(k)
    BY <1>1, <2>1, <2>2 DEF ReadsHeld
  <2>5. ASSUME i2cPc' = "idle"
        PROVE  Held(done)
    <3>1. part = 2 /\ call \in Calls
      BY <1>1, <1>6, <2>3, <2>5 DEF Delete, Typed, DriverTypeOK
    <3>2. Len(Script) \in 4..5 /\ Script = ReadBytes(call.len) /\ call.len \in Nat \ {0}
      BY <2>3, <3>1, ScriptFacts, CallParts
    <3>3. ran = Len(Script)
      BY <1>1, <1>6 DEF Delete, Queued
    <3>r. ran \in 4..5
      BY <3>2, <3>3
    <3>4. ran >= (IF call.len > 1 THEN 4 ELSE 3)
      BY <3>r
    <3>5. Filled(call.len)
      BY <1>1, <2>2, <3>1, <3>4 DEF Pointed
    <3>6. QED
      BY <2>3, <3>5 DEF Filled, Held
  <2>6. \A k \in 1..done : k \in 1..done - 1 \/ k = done
    BY <1>1
  <2>7. QED
    BY <2>2, <2>4, <2>5, <2>6 DEF Held
<1>7. CASE Operate
  <2>1. done' = 0 /\ i2cPc' = "idle" /\ written' = <<>>
    BY <1>1, <1>7 DEF Operate, Arguments
  <2>2. QED
    BY <2>1 DEF ReadsHeld
<1>8. CASE NextTransfer
  <2>1. /\ i2cPc = "idle" /\ i2cPc' = "create" /\ done' = done + 1
        /\ UNCHANGED <<doing, written, buffer>> /\ ~Broken /\ doing # "none"
    BY <1>8 DEF NextTransfer, Called
  <2>2. 1..done' - 1 = 1..done
    BY <1>1, <2>1
  <2>3. QED
    BY <1>1, <2>1, <2>2 DEF ReadsHeld, Held, Reading, Last
<1>9. CASE ReturnSuccess \/ ReturnBroken
  BY <1>9 DEF ReturnSuccess, ReturnBroken, ReadsHeld
<1>10. CASE i2c_controller_init /\ UNCHANGED <<doing, done, stored>>
  BY <1>2, <1>10 DEF i2c_controller_init
<1>11. CASE Queue /\ UNCHANGED <<doing, done, stored>>
  BY <1>2, <1>11 DEF Queue
<1>12. CASE UNCHANGED driverVars
  BY <1>2, <1>12 DEF driverVars, i2cVars
<1>13. QED
  BY <1>3, <1>4, <1>5, <1>6, <1>7, <1>8, <1>9, <1>10, <1>11, <1>12
     DEF DriverNext, TransferStep, QueueFails, BeginFails, RunFails

LEMMA InvariantInitially == DriverInit => DriverInv
<1>1. DriverInit => Typed
  BY TypedInitially
<1>2. DriverInit => LinksAccountedFor
  BY I2cAssumption DEF DriverInit, I2cInit, LinksAccountedFor, I2cAssumption
<1>3. DriverInit => Queued /\ Pointed /\ Arguments /\ WritesInOrder /\ ReadsHeld
  BY DEF DriverInit, I2cInit, Queued, Pointed, Arguments, WritesInOrder, ReadsHeld
<1>4. QED
  BY <1>1, <1>2, <1>3 DEF DriverInv

\* The inductive invariant holds whatever operations are called in whatever order.
THEOREM DriverInvariant == DriverSpec => []DriverInv
<1>1. DriverInit => DriverInv
  BY InvariantInitially
<1>2. DriverInv /\ [DriverNext]_driverVars => DriverInv'
  BY TypedStep, QueuedStep, LinksStep, PointedStep, ArgumentsStep, WritesStep, ReadsStep
     DEF DriverInv
<1>3. QED
  BY <1>1, <1>2, PTL DEF DriverSpec

\* Every variable of the operations and of the transfers under them has its type.
THEOREM DriverTypeCorrect == DriverSpec => []DriverTypeOK
<1>1. DriverInv => DriverTypeOK
  BY DEF DriverInv, Typed
<1>2. QED
  BY <1>1, DriverInvariant, PTL

\* Every command link is on the heap, in use, or lost by a transfer that failed
\* (i2c_controller.c), for every number of links.
THEOREM LinksNeverAppear == DriverSpec => []LinksAccountedFor
<1>1. DriverInv => LinksAccountedFor
  BY DEF DriverInv
<1>2. QED
  BY <1>1, DriverInvariant, PTL

\* A receive that succeeds has filled the caller's buffer with the registers asked
\* for, and the chip has no byte left to send (i2c_controller.c:143-151).
THEOREM ReceivesWhole == DriverSpec => ReceivedAsAsked
<1>1. DriverInv /\ [DriverNext]_driverVars => [ReceiveSucceeds]_i2cVars
  <2> SUFFICES ASSUME DriverInv, [DriverNext]_driverVars,
                      i2cPc = "run", i2cPc' = "idle", result' = "SUCCESS", call.op = "receive"
               PROVE  /\ \A i \in 0..call.len - 1 : buffer[call.at + i] = call.reg + i
                      /\ ~sending
    BY DEF ReceiveSucceeds
  <2>1. Delete
    BY DEF DriverNext, TransferStep, Create, Queue, QueueFails, Begin, BeginFails, Run, RunFails,
           ReturnError, Operate, NextTransfer, ReturnSuccess, Finished, ReturnBroken, Broken,
           i2c_controller_init, driverVars, i2cVars
  <2>2. part = 2 /\ call \in Calls
    BY <2>1 DEF Delete, DriverInv, Typed, DriverTypeOK
  <2>3. Len(Script) \in 4..5
    BY <2>2, ScriptFacts
  <2>4. ran = Len(Script)
    BY <2>1 DEF Delete, DriverInv, Queued
  <2>5. ran >= (IF call.len > 1 THEN 4 ELSE 3)
    BY <2>3, <2>4
  <2>6. QED
    BY <2>2, <2>5 DEF DriverInv, Pointed, Filled
<1>2. QED
  BY <1>1, DriverInvariant, PTL DEF DriverSpec, ReceivedAsAsked

\* What an operation hands on is what it promises to read.
LEMMA HandedOn ==
  ASSUME DriverInv, ReturnSuccess
  PROVE  /\ doing \in Operations /\ written = Writes[doing]
         /\ [i \in 1..Sizes[doing] |-> buffer[i - 1]] = Reads[doing]
<1>1. /\ doing \in Operations /\ done = Last(doing) /\ i2cPc = "idle" /\ ~Broken
      /\ written \in Seq(Nat)
  BY DEF ReturnSuccess, Finished, Last, DriverInv, Typed, DriverTypeOK
<1>2. /\ Last(doing) \in 1..3 /\ (Writing(doing) \/ Reading(doing)) /\ doing # "none"
  BY <1>1, OperationKinds DEF ReturnSuccess
<1>3. CASE Writing(doing)
  <2>1. Count = done
    BY <1>1 DEF Count
  <2>2. Len(written) = done /\ \A i \in 1..done : written[i] = Writes[doing][i]
    BY <1>2, <1>1, <1>3, <2>1 DEF DriverInv, WritesInOrder
  <2>3. Writes[doing] \in Seq(Nat) /\ Len(Writes[doing]) = done
    <3>1. Len(Writes[doing]) = done
      BY <1>1, <1>3 DEF Writing
    <3>2. Writes[doing] \in Seq(Nat)
      BY <1>1 DEF Operations, Writes, BME280_REGISTER_CTRL_HUM, BME280_REGISTER_CTRL_MEAS,
                  BME280_REGISTER_CONFIG, BME280_REGISTER_RESET
    <3>3. QED
      BY <3>1, <3>2
  <2>4. written = Writes[doing]
    BY <1>1, <2>2, <2>3, SeqEqual
  <2>5. Sizes[doing] = 0 /\ Reads[doing] = <<>>
    BY <1>3 DEF Writing
  <2>6. [i \in 1..Sizes[doing] |-> buffer[i - 1]] = <<>>
    BY <2>5
  <2>7. QED
    BY <1>1, <2>4, <2>5, <2>6
<1>4. CASE Reading(doing)
  <2> DEFINE bytes == [i \in 1..Sizes[doing] |-> buffer[i - 1]]
             r     == Reads[doing]
  <2>1. written = <<>> /\ \A k \in 1..Last(doing) : Held(k)
    BY <1>1, <1>2, <1>4 DEF DriverInv, ReadsHeld
  <2>2. /\ Writes[doing] = <<>> /\ Sizes[doing] \in Nat /\ r \in Seq(Nat) /\ Len(r) = Sizes[doing]
        /\ \A j \in 1..Sizes[doing] : \E k \in 1..Last(doing) :
             /\ j - 1 \in Transfers[doing][k].at..Transfers[doing][k].at + Transfers[doing][k].len - 1
             /\ r[j] = Transfers[doing][k].reg + (j - 1 - Transfers[doing][k].at)
    BY <1>4 DEF Reading
  <2>3. ASSUME NEW j \in 1..Sizes[doing]
        PROVE  buffer[j - 1] = r[j]
    <3>1. PICK k \in 1..Last(doing) :
             /\ j - 1 \in Transfers[doing][k].at..Transfers[doing][k].at + Transfers[doing][k].len - 1
             /\ r[j] = Transfers[doing][k].reg + (j - 1 - Transfers[doing][k].at)
      BY <2>2
    <3> DEFINE c == Transfers[doing][k]
    <3>2. c \in Calls
      BY <1>1, <1>2, OperationKinds, ElementOfSeq DEF Last
    <3>3. j - 1 \in c.at..c.at + c.len - 1 /\ r[j] = c.reg + (j - 1 - c.at)
      BY <3>1
    <3>4. \A i \in 0..c.len - 1 : buffer[c.at + i] = c.reg + i
      BY <2>1 DEF Held
    <3> HIDE DEF c
    <3>5. c.at \in Nat /\ c.len \in Nat /\ c.reg \in Nat /\ j \in Nat
      BY <2>2, <3>2, CallParts
    <3>6. PICK i \in 0..c.len - 1 : i = j - 1 - c.at
      BY <3>3, <3>5
    <3>7. c.at + i = j - 1
      BY <3>5, <3>6
    <3>8. QED
      BY <3>3, <3>4, <3>6, <3>7
  <2>4. bytes = r
    <3>1. DOMAIN r = 1..Sizes[doing] /\ r = [j \in 1..Sizes[doing] |-> r[j]]
      BY <2>2
    <3> HIDE DEF r
    <3>2. QED
      BY <2>3, <3>1
  <2>5. QED
    BY <1>1, <2>1, <2>2, <2>4
<1>5. QED
  BY <1>2, <1>3, <1>4

\* The operations of bme280.c do what the state handlers rely on, for every number
\* of links, although each of their transfers may break off anywhere.
THEOREM OperationsImplemented == DriverSpec => ImplementsOperations
<1>1. DriverInit => OperationsSpec!Init
  BY DEF DriverInit, I2cInit, OperationsSpec!Init
<1>2. DriverInv /\ [DriverNext]_driverVars => [OperationsSpec!Next]_(OperationsSpec!opVars)
  <2> SUFFICES ASSUME DriverInv, [DriverNext]_driverVars
               PROVE  OperationsSpec!Next \/ UNCHANGED <<doing, written, stored>>
    BY DEF OperationsSpec!opVars
  <2>1. CASE i2c_controller_init /\ UNCHANGED <<doing, done, stored>>
    BY <2>1 DEF i2c_controller_init
  <2>2. CASE TransferStep /\ UNCHANGED <<doing, done, stored>>
    <3>1. CASE ~Run
      <4>1. UNCHANGED written
        BY <2>2, <3>1 DEF TransferStep, Create, Queue, QueueFails, Begin, BeginFails, RunFails,
                          Delete
      <4>2. QED
        BY <2>2, <4>1
    <3>2. CASE Run
      <4>1. /\ Typed /\ Queued /\ Pointed /\ WritesInOrder /\ i2cPc # "idle" /\ i2cPc = "run"
            /\ part \in {1, 2} /\ call.op \in {"send", "receive"} /\ ran \in Nat
        BY <3>2, CallParts DEF DriverInv, Typed, DriverTypeOK, Run
      <4>2. /\ doing \in Operations /\ done \in 1..Last(doing)
            /\ Writing(doing) => call.reg = Writes[doing][done]
            /\ Reading(doing) => call.op = "receive"
        BY <4>1, UnderWay
      <4>3. CASE call.op = "send" /\ ran = 3
        <5>1. written' = Append(written, pointer)
          BY <3>2, <4>1, <4>3, SelectingRun
        <5>2. Writing(doing)
          BY <4>2, <4>3, OperationKinds
        <5>3. pointer = Writes[doing][done]
          BY <4>1, <4>2, <4>3, <5>2 DEF Pointed, Queued
        <5>4. doing # "none" /\ ~Broken /\ Count = done - 1
          BY <4>1, <4>2, <4>3 DEF DriverInv, Arguments, Broken, Count
        <5>5. Len(written) = done - 1
          BY <4>1, <5>2, <5>4 DEF WritesInOrder
        <5>6. Last(doing) \in 1..3 /\ Len(Writes[doing]) = Last(doing)
          BY <4>2, <5>2, OperationKinds DEF Writing
        <5>7. Len(written) < Len(Writes[doing]) /\ Len(written) + 1 = done
          BY <4>2, <5>5, <5>6
        <5>8. OperationsSpec!WriteNext
          BY <2>2, <5>1, <5>3, <5>4, <5>7 DEF OperationsSpec!WriteNext
        <5>9. QED
          BY <5>8 DEF OperationsSpec!Next
      <4>4. CASE ~(call.op = "send" /\ ran = 3)
        <5>1. written' = written
          BY <3>2, <4>1, <4>4, SelectingRun, ReadingRun
        <5>2. QED
          BY <2>2, <5>1
      <4>5. QED
        BY <4>3, <4>4
    <3>3. QED
      BY <3>1, <3>2
  <2>3. CASE Operate
    BY <2>3 DEF Operate, OperationsSpec!Next, OperationsSpec!Begin
  <2>4. CASE NextTransfer
    BY <2>4 DEF NextTransfer
  <2>5. CASE ReturnSuccess
    <3>1. written = Writes[doing] /\ [i \in 1..Sizes[doing] |-> buffer[i - 1]] = Reads[doing]
      BY <2>5, HandedOn
    <3>2. /\ doing # "none" /\ doing' = "none" /\ written' = written
          /\ stored' = [stored EXCEPT ![doing] = [i \in 1..Sizes[doing] |-> buffer[i - 1]]]
      BY <2>5 DEF ReturnSuccess, i2cVars
    <3>3. OperationsSpec!Succeed
      BY <3>1, <3>2 DEF OperationsSpec!Succeed
    <3>4. QED
      BY <3>3 DEF OperationsSpec!Next
  <2>6. CASE ReturnBroken
    BY <2>6 DEF ReturnBroken, i2cVars, OperationsSpec!Next, OperationsSpec!Fail
  <2>7. CASE UNCHANGED driverVars
    BY <2>7 DEF driverVars, i2cVars
  <2>8. QED
    BY <2>1, <2>2, <2>3, <2>4, <2>5, <2>6, <2>7 DEF DriverNext
<1>3. QED
  BY <1>1, <1>2, DriverInvariant, PTL DEF DriverSpec, ImplementsOperations, OperationsSpec!Spec
(***************************************************************************)
(* What the measurements hold of the chip's calibration.                   *)
(***************************************************************************)

\* An operation has stored nothing yet, or everything it reads.
StoredWhole ==
  /\ stored = [op \in Operations |-> stored[op]]
  /\ \A op \in Operations : stored[op] \in {<<>>, Reads[op]}

\* The measurements never hold a part of what an operation reads, nor bytes of
\* another register, wherever a transfer of this or of an earlier call broke off
\* (bme280.c: every operation stores behind its last transfer).
THEOREM NeverPartlyStored == DriverSpec => []StoredWhole
<1>1. DriverInit => StoredWhole
  BY DEF DriverInit, StoredWhole
<1>2. DriverInv /\ StoredWhole /\ [DriverNext]_driverVars => StoredWhole'
  <2> SUFFICES ASSUME DriverInv, StoredWhole, [DriverNext]_driverVars
               PROVE  StoredWhole'
    OBVIOUS
  <2>1. CASE ReturnSuccess
    <3>1. /\ doing \in Operations
          /\ [i \in 1..Sizes[doing] |-> buffer[i - 1]] = Reads[doing]
      BY <2>1, HandedOn
    <3>2. stored' = [stored EXCEPT ![doing] = Reads[doing]]
      BY <2>1, <3>1 DEF ReturnSuccess
    <3>3. QED
      BY <3>1, <3>2 DEF StoredWhole
  <2>2. CASE UNCHANGED stored
    BY <2>2 DEF StoredWhole
  <2>3. QED
    BY <2>1, <2>2
       DEF DriverNext, Operate, NextTransfer, ReturnBroken, driverVars
<1>3. QED
  BY <1>1, <1>2, DriverInvariant, PTL DEF DriverSpec

\* A chip, by the bytes in its calibration registers, and the buffer read from it.
Chips == [Calibration -> Byte]

DataOf(mem) ==
  [i \in 0..31 |-> LET r == stored["get_compensation_data"][i + 1]
                   IN  IF r \in Calibration THEN mem[r] ELSE 0]

LEMMA CalibrationBytes ==
  ASSUME stored["get_compensation_data"] = Reads["get_compensation_data"], NEW mem \in Chips
  PROVE  LET d == DataOf(mem)
         IN  /\ \A i \in 0..23 : d[i] = mem[136 + i]
             /\ d[24] = mem[161]
             /\ \A i \in 25..31 : d[i] = mem[200 + i]
<1> DEFINE r == Reads["get_compensation_data"]
<1>1. \A j \in 1..32 : \/ j \in 1..24 /\ r[j] = 135 + j
                       \/ j = 25 /\ r[j] = 161
                       \/ j \in 26..32 /\ r[j] = 199 + j
  BY CalibrationRegisters, Zenon
<1> HIDE DEF r
<1>2. stored["get_compensation_data"] = r
  BY DEF r
<1>3. \A i \in 0..31 : DataOf(mem)[i] = IF r[i + 1] \in Calibration THEN mem[r[i + 1]] ELSE 0
  BY <1>2 DEF DataOf
<1>4. ASSUME NEW i \in 0..23
      PROVE  DataOf(mem)[i] = mem[136 + i]
  <2>1. r[i + 1] = 136 + i /\ 136 + i \in Calibration
    BY <1>1 DEF Calibration
  <2>2. QED
    BY <1>3, <2>1
<1>5. DataOf(mem)[24] = mem[161]
  <2>1. r[24 + 1] = 161 /\ 161 \in Calibration
    BY <1>1 DEF Calibration
  <2>2. QED
    BY <1>3, <2>1
<1>6. ASSUME NEW i \in 25..31
      PROVE  DataOf(mem)[i] = mem[200 + i]
  <2>1. r[i + 1] = 200 + i /\ 200 + i \in Calibration
    BY <1>1 DEF Calibration
  <2>2. QED
    BY <1>3, <2>1
<1>7. QED
  BY <1>4, <1>5, <1>6

LEMMA WordsAre ==
  /\ DOMAIN Words = 1..12
  /\ \A k, l \in 1..12 : Words[k] = Words[l] => k = l
  /\ \A k \in 1..12 : /\ Words[k] \in {"t1", "t2", "t3", "p1", "p2", "p3", "p4", "p5", "p6",
                                       "p7", "p8", "p9"}
                      /\ Words[k] \notin {"h1", "h2", "h3", "h4", "h5", "h6"}
  /\ \A c \in {"t1", "t2", "t3", "p1", "p2", "p3", "p4", "p5", "p6", "p7", "p8", "p9"} :
       \E k \in 1..12 : Words[k] = c
  BY DEF Words

\* The widths of the fields, as products that keep the numbers small.
LEMMA Widths ==
  /\ 2^16 = 256 * 256 /\ 2^15 = 128 * 256 /\ 2^(16 - 1) = 2^15
  /\ 2^12 = 4096 /\ 2^(12 - 1) = 2048
  /\ 2^8 = 256 /\ 2^(8 - 1) = 128
<1>1. 2^16 = 256 * 256 /\ 2^15 = 128 * 256 /\ 2^(16 - 1) = 2^15
  OBVIOUS
<1>2. 2^12 = 4096 /\ 2^(12 - 1) = 2048
  OBVIOUS
<1>3. 2^8 = 256 /\ 2^(8 - 1) = 128
  OBVIOUS
<1>4. QED
  BY <1>1, <1>2, <1>3

\* A number of sixteen bits in a field of sixteen bits.
LEMMA SixteenBits ==
  ASSUME NEW n \in Nat, n < 256 * 256
  PROVE  uint16_t(n) = n /\ int16_t(n) = Signed(n, 16)
<1>1. n % 2^16 = n
  BY Widths
<1>2. QED
  BY <1>1, Widths DEF uint16_t, int16_t, Signed

\* A number of twelve bits fits in the field, and is never negative there.
LEMMA TwelveBits ==
  ASSUME NEW n \in 0..4095
  PROVE  int16_t(n) = n
<1>1. n % 2^16 = n /\ n < 2^15
  BY Widths
<1>2. QED
  BY <1>1 DEF int16_t

\* A word in two's complement, taken from its bytes.
LEMMA WordsKept ==
  ASSUME NEW low \in Byte, NEW high \in Byte
  PROVE  /\ uint16_t(Word(high, low)) = low + 256 * high
         /\ int16_t(Word(high, low)) = Signed(low + 256 * high, 16)
<1>1. Word(high, low) = low + 256 * high
  BY DEF Word, Byte
<1>2. low + 256 * high \in Nat /\ low + 256 * high < 256 * 256
  BY DEF Byte
<1>3. QED
  BY <1>1, <1>2, SixteenBits

LEMMA WordKept ==
  ASSUME stored["get_compensation_data"] = Reads["get_compensation_data"], NEW mem \in Chips,
         NEW k \in 1..12
  PROVE  Decoded(DataOf(mem), Words[k]) = Calibrated(mem, Words[k])
<1> DEFINE c == Words[k]
           low == mem[134 + 2 * k]
           high == mem[135 + 2 * k]
<1>1. (CHOOSE l \in DOMAIN Words : Words[l] = c) = k /\ k \in DOMAIN Words
  BY WordsAre
<1>2. c \notin {"h1", "h2", "h3", "h4", "h5", "h6"}
  BY WordsAre
<1>3. low \in Byte /\ high \in Byte
  BY DEF Chips, Calibration
<1>4. DataOf(mem)[2 * k - 1] = high /\ DataOf(mem)[2 * k - 2] = low
  <2>1. \A i \in 0..23, r \in 136..159 : r = 136 + i => DataOf(mem)[i] = mem[r]
    BY CalibrationBytes
  <2>2. /\ 2 * k - 1 \in 0..23 /\ 135 + 2 * k \in 136..159
        /\ 135 + 2 * k = 136 + (2 * k - 1)
        /\ 2 * k - 2 \in 0..23 /\ 134 + 2 * k \in 136..159
        /\ 134 + 2 * k = 136 + (2 * k - 2)
    OBVIOUS
  <2>3. DataOf(mem)[2 * k - 1] = mem[135 + 2 * k]
    BY <2>1, <2>2
  <2>4. DataOf(mem)[2 * k - 2] = mem[134 + 2 * k]
    BY <2>1, <2>2
  <2>5. QED
    BY <2>3, <2>4
<1> HIDE DEF c
<1>5. WordRegister(c) = 134 + 2 * k /\ WordRegister(c) + 1 = 135 + 2 * k
  <2>1. WordRegister(c) = 136 + 2 * (k - 1)
    BY <1>1, <1>2 DEF WordRegister, BME280_REGISTER_CALIB00
  <2>2. QED
    BY <2>1
<1>6. Decoded(DataOf(mem), c) = WordField(c, Word(high, low))
  <2>1. \E l \in DOMAIN Words : Words[l] = c
    BY <1>1 DEF c
  <2>2. QED
    BY <1>1, <1>4, <2>1 DEF Decoded
<1>7. Calibrated(mem, c) = IF c \in {"t1", "p1"} THEN low + 256 * high
                           ELSE Signed(low + 256 * high, 16)
  BY <1>2, <1>5 DEF Calibrated
<1> HIDE DEF low, high
<1>8. WordField(c, Word(high, low)) = IF c \in {"t1", "p1"} THEN low + 256 * high
                                      ELSE Signed(low + 256 * high, 16)
  BY <1>3, WordsKept DEF WordField
<1>9. QED
  BY <1>6, <1>7, <1>8 DEF c

\* No coefficient of humidity is among the words.
LEMMA HumidityDecoded ==
  ASSUME NEW d, NEW c \in {"h1", "h2", "h3", "h4", "h5", "h6"}
  PROVE  Decoded(d, c) = Humidity(d, c)
<1>1. ~\E k \in DOMAIN Words : Words[k] = c
  BY WordsAre
<1>2. QED
  BY <1>1 DEF Decoded

LEMMA HumidityWordKept ==
  ASSUME stored["get_compensation_data"] = Reads["get_compensation_data"], NEW mem \in Chips
  PROVE  /\ Decoded(DataOf(mem), "h2") = Calibrated(mem, "h2")
         /\ Decoded(DataOf(mem), "h6") = Calibrated(mem, "h6")
<1> DEFINE d == DataOf(mem)
<1>1. d[25] = mem[225] /\ d[26] = mem[226] /\ d[31] = mem[231]
  <2>1. \A i \in 25..31 : d[i] = mem[200 + i]
    BY CalibrationBytes
  <2> HIDE DEF d
  <2>2. QED
    BY <2>1
<1>2. mem[225] \in Byte /\ mem[226] \in Byte /\ mem[231] \in Byte
  BY DEF Chips, Calibration
<1> HIDE DEF d
<1>3. Decoded(d, "h2") = int16_t(Word(mem[226], mem[225]))
  BY <1>1, HumidityDecoded DEF Humidity
<1>4. Calibrated(mem, "h2") = Signed(mem[225] + 256 * mem[226], 16)
  BY DEF Calibrated, WordRegister, BME280_REGISTER_CALIB26
<1>5. Decoded(d, "h6") = int8_t(mem[231])
  BY <1>1, HumidityDecoded DEF Humidity
<1>6. Calibrated(mem, "h6") = Signed(mem[231], 8)
  BY DEF Calibrated
<1>7. \A byte \in Byte : int8_t(byte) = Signed(byte, 8)
  BY Widths DEF int8_t, Signed, Byte
<1>8. QED
  BY <1>2, <1>3, <1>4, <1>5, <1>6, <1>7, WordsKept DEF d

KeptCoefficients == Coefficients \ {"h1", "h3", "h4", "h5"}

\* Once the compensation data are stored, the fields hold the chip's values of
\* temperature and pressure and two of humidity, whatever bytes the chip has.
EveryChipKept ==
  stored["get_compensation_data"] # <<>> =>
    \A mem \in Chips, c \in KeptCoefficients : Decoded(DataOf(mem), c) = Calibrated(mem, c)

LEMMA ChipKept ==
  ASSUME StoredWhole
  PROVE  EveryChipKept
<1> SUFFICES ASSUME stored["get_compensation_data"] # <<>>, NEW mem \in Chips,
                    NEW c \in KeptCoefficients
             PROVE  Decoded(DataOf(mem), c) = Calibrated(mem, c)
  BY DEF EveryChipKept
<1>1. stored["get_compensation_data"] = Reads["get_compensation_data"]
  BY DEF StoredWhole, Operations
<1>2. CASE c \in {"h2", "h6"}
  BY <1>1, <1>2, HumidityWordKept
<1>3. CASE c \notin {"h2", "h6"}
  <2>1. c \in {"t1", "t2", "t3", "p1", "p2", "p3", "p4", "p5", "p6", "p7", "p8", "p9"}
    BY <1>3 DEF KeptCoefficients, Coefficients
  <2>2. PICK k \in 1..12 : Words[k] = c
    BY <2>1, WordsAre
  <2>3. QED
    BY <1>1, <2>2, WordKept
<1>4. QED
  BY <1>2, <1>3

\* The same of every chip there may be: of all 256 values of all 32 bytes, not only
\* of those a run tries, and from then on, not only when they have just been stored.
THEOREM EveryCalibrationKept == DriverSpec => []EveryChipKept
<1>1. StoredWhole => EveryChipKept
  BY ChipKept
<1>2. QED
  BY <1>1, NeverPartlyStored, PTL

LEMMA MemoriesAreChips ==
  ASSUME NEW c
  PROVE  Memories(c) \subseteq Chips
<1> SUFFICES ASSUME NEW own \in [RegistersOf(c) -> Bytes], NEW other \in Bytes
             PROVE  [r \in Calibration |-> IF r \in RegistersOf(c) THEN own[r] ELSE other]
                      \in [Calibration -> Byte]
  BY DEF Memories, Chips
<1>1. Bytes \subseteq Byte
  BY DriverAssumption DEF DriverAssumption
<1>2. \A r \in RegistersOf(c) : own[r] \in Byte
  BY <1>1
<1>3. QED
  BY <1>1, <1>2

\* The compensator holds the chip's temperature and pressure calibration and two of
\* its six humidity values when the compensation data have been read
\* (bme280.c:206-220, 224).
THEOREM CalibrationIsKept == DriverSpec => []CalibrationKept
<1>1. EveryChipKept => CalibrationKept
  <2> SUFFICES ASSUME EveryChipKept, stored["get_compensation_data"] # <<>>,
                      NEW c \in KeptCoefficients, NEW mem \in Memories(c)
               PROVE  Decoded(DataOf(mem), c) = Calibrated(mem, c)
    BY DEF CalibrationKept, JustCalibrated, KeptAs, KeptCoefficients, DataOf
  <2>1. mem \in Chips
    BY MemoriesAreChips
  <2>2. QED
    BY <2>1 DEF EveryChipKept
<1>2. QED
  BY <1>1, EveryCalibrationKept, PTL

(***************************************************************************)
(* The humidity values that are not kept, for every chip.                  *)
(***************************************************************************)
LEMMA Nibbles ==
  ASSUME NEW byte \in Byte
  PROVE  /\ byte = 16 * High(byte) + Low(byte)
         /\ High(byte) \in Nibble /\ Low(byte) \in Nibble
         /\ High(byte) = byte \div 16 /\ Low(byte) = byte % 16
  BY DEF Byte, Nibble, High, Low

LEMMA NibblesOred ==
  /\ \A a, b \in Nibble : NibbleOr(a, b) \in Nibble
  /\ \A a \in Nibble : NibbleOr(a, 0) = a
<1>1. \A a, b \in Nibble : NibbleOr(a, b) \in Nibble
  BY DEF NibbleOr, Nibble
<1>2. ASSUME NEW a \in Nibble
      PROVE  NibbleOr(a, 0) = a
  <2>1. \A w \in {1, 2, 4, 8} : (0 \div w) % 2 = 0
    OBVIOUS
  <2>2. /\ (a \div 8) % 2 \in 0..1 /\ (a \div 4) % 2 \in 0..1
        /\ (a \div 2) % 2 \in 0..1 /\ (a \div 1) % 2 \in 0..1
        /\ a = 8 * ((a \div 8) % 2) + 4 * ((a \div 4) % 2) + 2 * ((a \div 2) % 2)
               + ((a \div 1) % 2)
    BY DEF Nibble
  <2>3. QED
    BY <2>1, <2>2 DEF NibbleOr
<1>3. QED
  BY <1>1, <1>2

LEMMA HumidityBytes ==
  ASSUME stored["get_compensation_data"] = Reads["get_compensation_data"], NEW mem \in Chips
  PROVE  LET d == DataOf(mem)
         IN  /\ d[24] = mem[161] /\ d[27] = mem[227] /\ d[28] = mem[228] /\ d[29] = mem[229]
             /\ d[30] = mem[230]
             /\ mem[161] \in Byte /\ mem[227] \in Byte /\ mem[228] \in Byte /\ mem[229] \in Byte
             /\ mem[230] \in Byte
<1> DEFINE d == DataOf(mem)
<1>1. d[24] = mem[161] /\ \A i \in 25..31 : d[i] = mem[200 + i]
  BY CalibrationBytes
<1> HIDE DEF d
<1>2. d[27] = mem[227] /\ d[28] = mem[228] /\ d[29] = mem[229] /\ d[30] = mem[230]
  BY <1>1
<1>3. /\ mem[161] \in Byte /\ mem[227] \in Byte /\ mem[228] \in Byte /\ mem[229] \in Byte
      /\ mem[230] \in Byte
  BY DEF Chips, Calibration
<1>4. QED
  BY <1>1, <1>2, <1>3 DEF d

Same(mem, c) == Decoded(DataOf(mem), c) = Calibrated(mem, c)

\* Bytes, shifted out of the field that takes them.
LEMMA ShiftedBytes ==
  ASSUME stored["get_compensation_data"] = Reads["get_compensation_data"], NEW mem \in Chips
  PROVE  /\ Same(mem, "h1") <=> mem[161] = 0
         /\ Same(mem, "h3") <=> mem[227] = 0
<1> DEFINE d == DataOf(mem)
<1>1. /\ d[24] = mem[161] /\ d[27] = mem[227]
      /\ mem[161] \in Byte /\ mem[227] \in Byte
  BY HumidityBytes
<1> HIDE DEF d
<1>2. \A byte \in Byte : uint8_t(256 * byte) = 0
  BY DEF uint8_t, Byte
<1>3. Decoded(d, "h1") = 0 /\ Decoded(d, "h3") = 0
  BY <1>1, <1>2, HumidityDecoded DEF Humidity
<1>4. Calibrated(mem, "h1") = mem[161] /\ Calibrated(mem, "h3") = mem[227]
  <2>1. RegistersOf("h1") = {161} /\ RegistersOf("h3") = {227}
    BY DEF RegistersOf
  <2>2. (CHOOSE r \in {161} : TRUE) = 161 /\ (CHOOSE r \in {227} : TRUE) = 227
    OBVIOUS
  <2>3. QED
    BY <2>1, <2>2 DEF Calibrated
<1>5. QED
  BY <1>3, <1>4 DEF Same, d

\* Twelve bits that lose their sign.
LEMMA SignLost ==
  ASSUME NEW x \in Byte, NEW y \in Byte
  PROVE  int16_t(16 * y + Low(x)) = Signed(16 * y + Low(x), 12) <=> y < 128
<1> DEFINE b == Low(x)
<1>1. b \in 0..15 /\ y \in 0..255
  BY Nibbles DEF Nibble, Byte
<1> HIDE DEF b
<1>2. PICK n \in 0..4095 : 16 * y + b = n
  BY <1>1
<1>3. int16_t(16 * y + b) = n
  BY <1>1, <1>2, TwelveBits
<1>4. Signed(16 * y + b, 12) = IF n < 2048 THEN n ELSE n - 4096
  BY <1>1, <1>2, Widths DEF Signed
<1>5. n < 2048 <=> y < 128
  BY <1>1, <1>2
<1>6. n # n - 4096
  OBVIOUS
<1>7. QED
  BY <1>3, <1>4, <1>5, <1>6 DEF b

LEMMA FourthField ==
  ASSUME stored["get_compensation_data"] = Reads["get_compensation_data"], NEW mem \in Chips
  PROVE  Same(mem, "h4") <=> mem[228] < 128
<1> DEFINE d == DataOf(mem)
<1>1. d[28] = mem[228] /\ d[29] = mem[229] /\ mem[228] \in Byte /\ mem[229] \in Byte
  BY HumidityBytes
<1> HIDE DEF d
<1>2. PICK x, y \in Byte : x = mem[229] /\ y = mem[228]
  BY <1>1
<1>3. Decoded(d, "h4") = int16_t(16 * y + Low(x))
  BY <1>1, <1>2, HumidityDecoded DEF Humidity
<1>4. Calibrated(mem, "h4") = Signed(16 * y + Low(x), 12)
  BY <1>2 DEF Calibrated, Low
<1>5. Same(mem, "h4") <=> y < 128
  BY <1>3, <1>4, SignLost DEF Same, d
<1>6. QED
  BY <1>2, <1>5

\* Twelve bits whose lowest four are ORed into the four above them.
LEMMA NibbleMisplaced ==
  ASSUME NEW x \in Byte, NEW y \in Byte
  PROVE  int16_t(256 * High(y) + 16 * NibbleOr(Low(y), High(x))) = Signed(16 * y + High(x), 12)
           <=> (x < 16 /\ y < 128)
<1> DEFINE a == High(y)
           b == Low(y)
           c == High(x)
           o == NibbleOr(b, c)
<1>1. a \in Nibble /\ b \in Nibble /\ c \in Nibble /\ y = 16 * a + b /\ (c = 0 <=> x < 16)
  <2>1. c = 0 <=> x < 16
    BY DEF High, Byte
  <2>2. QED
    BY <2>1, Nibbles
<1>2. o \in Nibble /\ (c = 0 => o = b)
  BY <1>1, NibblesOred
<1> HIDE DEF a, b, c, o
<1>3. PICK m \in 0..4095 : 256 * a + 16 * o = m
  <2>1. 256 * a + 16 * o \in 0..4095
    BY <1>1, <1>2 DEF Nibble
  <2>2. QED
    BY <2>1
<1>4. PICK n \in 0..4095 : 256 * a + 16 * b + c = n
  <2>1. 256 * a + 16 * b + c \in 0..4095
    BY <1>1 DEF Nibble
  <2>2. QED
    BY <2>1
<1>5. int16_t(256 * a + 16 * o) = m
  BY <1>1, <1>2, <1>3, TwelveBits DEF Nibble
<1>6. Signed(16 * y + c, 12) = IF n < 2048 THEN n ELSE n - 4096
  <2>1. 16 * y + c = n
    BY <1>1, <1>4 DEF Nibble
  <2>2. c \in 0..15 /\ y \in 0..255
    BY <1>1 DEF Nibble, Byte
  <2>3. QED
    BY <2>1, <2>2, Widths DEF Signed
<1>7. (m = IF n < 2048 THEN n ELSE n - 4096) <=> (c = 0 /\ a < 8)
  <2>1. c = 0 => m = n /\ (n < 2048 <=> a < 8)
    BY <1>1, <1>2, <1>3, <1>4 DEF Nibble
  <2>2. c # 0 => m # n /\ m # n - 4096
    BY <1>1, <1>2, <1>3, <1>4 DEF Nibble
  <2>3. n # n - 4096
    OBVIOUS
  <2>4. QED
    BY <2>1, <2>2, <2>3
<1>8. a < 8 <=> y < 128
  BY <1>1 DEF Nibble
<1>9. QED
  BY <1>1, <1>5, <1>6, <1>7, <1>8 DEF a, b, c, o

LEMMA FifthField ==
  ASSUME stored["get_compensation_data"] = Reads["get_compensation_data"], NEW mem \in Chips
  PROVE  Same(mem, "h5") <=> (mem[229] < 16 /\ mem[230] < 128)
<1> DEFINE d == DataOf(mem)
<1>1. d[29] = mem[229] /\ d[30] = mem[230] /\ mem[229] \in Byte /\ mem[230] \in Byte
  BY HumidityBytes
<1> HIDE DEF d
<1>2. PICK x, y \in Byte : x = mem[229] /\ y = mem[230]
  BY <1>1
<1>3. Decoded(d, "h5") = int16_t(256 * High(y) + 16 * NibbleOr(Low(y), High(x)))
  BY <1>1, <1>2, HumidityDecoded DEF Humidity
<1>4. Calibrated(mem, "h5") = Signed(16 * y + High(x), 12)
  BY <1>2 DEF Calibrated, High
<1>5. Same(mem, "h5") <=> (x < 16 /\ y < 128)
  BY <1>3, <1>4, NibbleMisplaced DEF Same, d
<1>6. QED
  BY <1>2, <1>5

\* Which chips have their other humidity values kept.
OnlyTheseKept ==
  stored["get_compensation_data"] # <<>> =>
    \A mem \in Chips :
      /\ Same(mem, "h1") <=> mem[161] = 0
      /\ Same(mem, "h3") <=> mem[227] = 0
      /\ Same(mem, "h4") <=> mem[228] < 128
      /\ Same(mem, "h5") <=> (mem[229] < 16 /\ mem[230] < 128)

\* The other four humidity values are those of the chip exactly when H1 and H3 are
\* zero, H4 and H5 not negative, and the lowest four bits of H5 zero
\* (bme280.c:219, 221-223): how far HumidityCalibrationKept fails.
THEOREM HumidityKeptExactlyWhen == DriverSpec => []OnlyTheseKept
<1>1. StoredWhole => OnlyTheseKept
  <2> SUFFICES ASSUME stored["get_compensation_data"] = Reads["get_compensation_data"],
                      NEW mem \in Chips
               PROVE  /\ Same(mem, "h1") <=> mem[161] = 0
                      /\ Same(mem, "h3") <=> mem[227] = 0
                      /\ Same(mem, "h4") <=> mem[228] < 128
                      /\ Same(mem, "h5") <=> (mem[229] < 16 /\ mem[230] < 128)
    BY DEF StoredWhole, OnlyTheseKept, Operations
  <2>1. QED
    BY ShiftedBytes, FourthField, FifthField
<1>2. QED
  BY <1>1, NeverPartlyStored, PTL
================================================================================
