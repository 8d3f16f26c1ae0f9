----------------------------- MODULE I2cController -----------------------------
(***************************************************************************)
(* The I2C controller (i2c_controller.c): a transfer queues commands on a  *)
(* link that is taken from the heap, has the driver run the link on the    *)
(* bus, and deletes it.  A transfer that fails in between returns without  *)
(* deleting its link.                                                      *)
(*                                                                         *)
(* A byte on the bus is named by the register of the chip it belongs to.   *)
(* The ESP-IDF driver and the chip's end of the bus are modelled from how  *)
(* the controller uses them.                                               *)
(***************************************************************************)
EXTENDS Naturals, Sequences

CONSTANTS
  Links,        \* command links the heap has room for
  BufferSize    \* bytes of the caller's buffer

ASSUME I2cAssumption == Links \in Nat /\ BufferSize \in Nat \ {0}

VARIABLES
  driver,     \* "absent", "installed" or "failed"
  i2cPc,      \* where the transfer is: "idle" between two of them
  call,       \* the arguments of the transfer; at: the offset of data in the buffer
  part,       \* which of its transactions it is at: a receive has two
  cmd,        \* the commands queued on the link
  linked,     \* a link was created and not yet deleted
  ran,        \* how many of them the bus has run
  result,     \* of the last transfer
  buffer,     \* the caller's buffer
  heap,       \* command links there is still room for
  failed,     \* transfers that failed, up to Links
  pointer,    \* the chip's register pointer
  sending,    \* the chip is about to send one more byte
  written     \* the registers the chip was made to write, in order

i2cVars == <<driver, i2cPc, call, part, cmd, linked, ran, result, buffer, heap,
             failed, pointer, sending, written>>

Offsets == 0..BufferSize - 1

Calls == {c \in [op : {"send", "receive"}, reg : Nat, at : Nat, len : Nat \ {0}] :
            c.at + c.len <= BufferSize}

--------------------------------------------------------------------------------
(* The commands that a transfer queues on its link. *)

Start       == [do |-> "start"]
Address(rw) == [do |-> "address", rw |-> rw]
Register    == [do |-> "register"]
Write       == [do |-> "write"]
Read(to, n, reply) == [do |-> "read", to |-> to, n |-> n, reply |-> reply]
Stop        == [do |-> "stop"]

Send == <<Start, Address("WRITE"), Register, Write, Stop>>

SelectRegister == <<Start, Address("WRITE"), Register, Stop>>

\* Faulty variant: the last byte is read twice.
ReadBytesOneMore(len) ==
  <<Start, Address("READ"), Read(0, len, "ACK"), Read(len - 1, 1, "NACK"), Stop>>

\* All bytes but the last are acknowledged, so that the chip stops sending.
ReadBytes(len) ==
  IF len > 1
  THEN <<Start, Address("READ"), Read(0, len - 1, "ACK"), Read(len - 1, 1, "NACK"),
         Stop>>
  ELSE <<Start, Address("READ"), Read(0, 1, "NACK"), Stop>>

Script ==
  IF call.op = "send" THEN Send ELSE IF part = 1 THEN SelectRegister ELSE ReadBytes(call.len)

--------------------------------------------------------------------------------
\* i2c_param_config and i2c_driver_install; controller_init ignores the result.
i2c_controller_init ==
  /\ driver = "absent"
  /\ driver' \in {"installed", "failed"}
  /\ UNCHANGED <<i2cPc, call, part, cmd, linked, ran, result, buffer, heap, failed,
                 pointer, sending, written>>

\* The beginning of i2c_controller_send and i2c_controller_receive.
Called(c) ==
  /\ i2cPc = "idle"
  /\ driver # "absent"
  /\ call' = c
  /\ part' = 1
  /\ i2cPc' = "create"

\* i2c_cmd_link_create: null when the heap, which other tasks use too, has no room.
Create ==
  /\ i2cPc = "create"
  /\ \/ heap > 0 /\ heap' = heap - 1 /\ linked' = TRUE
     \/ UNCHANGED <<heap, linked>>
  /\ cmd' = <<>>
  /\ ran' = 0
  /\ i2cPc' = "queue"
  /\ UNCHANGED <<driver, call, part, result, buffer, failed, pointer, sending, written>>

\* Faulty variant: the error paths delete the link, also one that is null.
ReturnErrorDeleting ==
  /\ result' = "ERROR"
  /\ i2cPc' = "idle"
  /\ failed' = IF failed < Links THEN failed + 1 ELSE failed
  /\ heap' = heap + 1
  /\ linked' = FALSE
  /\ UNCHANGED <<driver, call, part, cmd, ran, buffer>>

\* Every error path: cmd is a local variable, and its link is lost with it.
ReturnError ==
  /\ result' = "ERROR"
  /\ i2cPc' = "idle"
  /\ failed' = IF failed < Links THEN failed + 1 ELSE failed
  /\ linked' = FALSE
  /\ UNCHANGED <<driver, call, part, cmd, ran, buffer, heap>>

\* i2c_master_start, i2c_master_write_byte, i2c_master_write, i2c_master_read,
\* i2c_master_read_byte and i2c_master_stop: each adds a command to the link.
Queue ==
  /\ i2cPc = "queue"
  /\ linked
  /\ Len(cmd) < Len(Script)
  /\ cmd' = Append(cmd, Script[Len(cmd) + 1])
  /\ UNCHANGED <<driver, i2cPc, call, part, linked, ran, result, buffer, heap, failed,
                 pointer, sending, written>>

\* No memory for the command, or no link.
QueueFails ==
  /\ i2cPc = "queue"
  /\ Len(cmd) < Len(Script)
  /\ ReturnError
  /\ UNCHANGED <<pointer, sending, written>>

\* i2c_master_cmd_begin, which runs the link on the bus...
Begin ==
  /\ i2cPc = "queue"
  /\ Len(cmd) = Len(Script)
  /\ driver = "installed"
  /\ i2cPc' = "run"
  /\ UNCHANGED <<driver, call, part, cmd, linked, ran, result, buffer, heap, failed,
                 pointer, sending, written>>

\* ... or cannot: there is no driver, or it is not in a state to run.
BeginFails ==
  /\ i2cPc = "queue"
  /\ Len(cmd) = Len(Script)
  /\ ReturnError
  /\ UNCHANGED <<pointer, sending, written>>

\* What the chip makes of a command on the bus.
Chip(c) ==
  /\ pointer' = CASE c.do = "register" -> call.reg
                  [] c.do = "read"     -> pointer + c.n
                  [] OTHER             -> pointer
  /\ sending' = IF c.do = "read" THEN c.reply = "ACK" ELSE sending /\ c.do # "start"
  /\ written' = IF c.do = "write" THEN Append(written, pointer) ELSE written

\* A read stores its bytes at its own place in data.
Received(c) ==
  LET from == call.at + c.to
  IN  IF c.do # "read" THEN buffer
      ELSE [i \in Offsets |-> IF i \in from..from + c.n - 1 THEN pointer + (i - from)
                                                            ELSE buffer[i]]

Run ==
  /\ i2cPc = "run"
  /\ ran < Len(cmd)
  /\ ran' = ran + 1
  /\ Chip(cmd[ran + 1])
  /\ buffer' = Received(cmd[ran + 1])
  /\ UNCHANGED <<driver, i2cPc, call, part, cmd, linked, result, heap, failed>>

\* The chip does not acknowledge, or the 10 s are over: also after its last command.
RunFails ==
  /\ i2cPc = "run"
  /\ ReturnError
  /\ UNCHANGED <<pointer, sending, written>>

\* Faulty variant: the first link of a receive is not deleted.
DeleteLast ==
  /\ i2cPc = "run"
  /\ ran = Len(cmd)
  /\ linked' = FALSE
  /\ heap' = IF call.op = "receive" /\ part = 1 THEN heap ELSE heap + 1
  /\ IF call.op = "receive" /\ part = 1
     THEN part' = 2 /\ i2cPc' = "create" /\ UNCHANGED result
     ELSE result' = "SUCCESS" /\ i2cPc' = "idle" /\ UNCHANGED part
  /\ UNCHANGED <<driver, call, cmd, ran, buffer, failed, pointer, sending, written>>

\* i2c_cmd_link_delete after a transaction that succeeded.
Delete ==
  /\ i2cPc = "run"
  /\ ran = Len(cmd)
  /\ linked' = FALSE
  /\ heap' = heap + 1
  /\ IF call.op = "receive" /\ part = 1
     THEN part' = 2 /\ i2cPc' = "create" /\ UNCHANGED result
     ELSE result' = "SUCCESS" /\ i2cPc' = "idle" /\ UNCHANGED part
  /\ UNCHANGED <<driver, call, cmd, ran, buffer, failed, pointer, sending, written>>

TransferStep ==
  \/ Create \/ Queue \/ QueueFails \/ Begin \/ BeginFails
  \/ Run \/ RunFails \/ Delete

I2cInit ==
  /\ driver = "absent"
  /\ i2cPc = "idle"
  /\ call = [op |-> "send", reg |-> 0, at |-> 0, len |-> 1]
  /\ part = 1
  /\ cmd = <<>>
  /\ linked = FALSE
  /\ ran = 0
  /\ result = "SUCCESS"
  /\ buffer = [i \in Offsets |-> 0]
  /\ heap = Links
  /\ failed = 0
  /\ pointer = 0
  /\ sending = FALSE
  /\ written = <<>>

--------------------------------------------------------------------------------
(* Properties. *)

\* Every command link is on the heap, in use, or lost by a transfer that failed:
\* one at most for each (the error paths of i2c_controller.c, lines 42-77 and
\* 96-167), none by a transfer that succeeded.
LinksAccountedFor ==
  LET inUse == IF linked THEN 1 ELSE 0
  IN  heap + inUse <= Links /\ Links <= heap + inUse + failed

\* A receive that succeeds has filled its part of the buffer with the bytes of
\* the registers asked for, in their order, whatever their number (the split of
\* data_len at i2c_controller.c:143-151), and the chip has no byte left to send.
ReceiveSucceeds ==
  i2cPc = "run" /\ i2cPc' = "idle" /\ result' = "SUCCESS" /\ call.op = "receive"
    => /\ \A i \in 0..call.len - 1 : buffer[call.at + i] = call.reg + i
       /\ ~sending

ReceivedAsAsked == [][ReceiveSucceeds]_i2cVars
================================================================================
