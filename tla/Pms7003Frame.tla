------------------------------ MODULE Pms7003Frame ------------------------------
(***************************************************************************)
(* The frame layer of pms7003.c, byte by byte: pms7003_read, which looks   *)
(* for the start characters two bytes at a time and then reads the rest,   *)
(* and pms7003_frame_receive, which checks the sum.  Bytes come from the   *)
(* sensor over a line that may lose or change them, into the receive       *)
(* buffer of the UART driver.                                              *)
(*                                                                         *)
(* The size of a frame and the number of values of a byte are parameters:  *)
(* a frame is the start characters, data words and the check code.         *)
(***************************************************************************)
EXTENDS Naturals, Sequences

CONSTANTS
  Base,         \* values of a byte                               (256)
  FrameSize,    \* PMS7003_FRAME_ANSWER_SIZE                      (32)
  Start1,       \* PMS7003_START_CHARACTER_1                      (0x42)
  Start2,       \* PMS7003_START_CHARACTER_2                      (0x4d)
  Contents,     \* what the sensor may send between start characters and check code
  RxBytes,      \* bytes the receive buffer holds                 (2048)
  Faults        \* bytes the line may lose or change

ASSUME FrameAssumption ==
  /\ Base \in Nat \ {0, 1}
  /\ FrameSize \in Nat /\ FrameSize >= 6      \* at least one data word
  /\ Start1 \in 0..Base - 1 /\ Start2 \in 0..Base - 1
  /\ Contents \subseteq [1..FrameSize - 4 -> 0..Base - 1]
  /\ RxBytes \in Nat /\ RxBytes >= FrameSize
  /\ Faults \in Nat

VARIABLES
  readPc,     \* "idle", in pms7003_read at "pair" or "rest", or "returned"
  buffer,     \* what this call has stored in frame->buffer_answer
  rx,         \* the receive buffer of the UART driver, oldest byte first
  wire,       \* the bytes of a frame that the sensor has still to send
  faults,     \* bytes lost or changed
  expected    \* the content of the frame that rx, or what was read of it in this call,
              \* began with, while it comes undisturbed; <<>> otherwise

frameVars == <<readPc, buffer, rx, wire, faults, expected>>

Byte   == 0..Base - 1
Header == <<Start1, Start2>>

FrameTypeOK ==
  /\ readPc \in {"idle", "pair", "rest", "returned"}
  /\ buffer \in Seq(Byte) /\ Len(buffer) <= FrameSize
  /\ rx \in Seq(Byte) /\ Len(rx) <= RxBytes
  /\ wire \in Seq(Byte)
  /\ faults \in 0..Faults
  /\ expected \in Contents \cup {<<>>}

--------------------------------------------------------------------------------
(* The check code. *)

\* calculated_check_code, a uint16_t: the sum of all bytes but those of the check code.
CheckSum(bytes) ==
  LET sum[i \in 0..FrameSize - 2] == IF i = 0 THEN 0 ELSE (sum[i - 1] + bytes[i]) % (Base * Base)
  IN  sum[FrameSize - 2]

\* A field of two bytes as the little-endian processor reads it.
Field(bytes, i) == bytes[i] + Base * bytes[i + 1]

convert_to_little_endian(data) == (data % Base) * Base + data \div Base

check_code(bytes) == Field(bytes, FrameSize - 1)

\* Faulty variant: the check code is compared as the processor reads it.
Sound_unconverted(bytes) == CheckSum(bytes) = check_code(bytes)

Sound(bytes) == CheckSum(bytes) = convert_to_little_endian(check_code(bytes))

pms7003_frame_receive ==
  IF Len(buffer) # FrameSize THEN "PARTIAL_RECEIVED"
  ELSE IF Sound(buffer) THEN "SUCCESS" ELSE "WRONG_CHECK_CODE"

--------------------------------------------------------------------------------
(* The sensor and the line.  The sensor sends the check code with its high byte *)
(* first.                                                                       *)

Total(content) ==
  LET sum[i \in 0..FrameSize - 4] == IF i = 0 THEN Start1 + Start2 ELSE sum[i - 1] + content[i]
  IN  sum[FrameSize - 4]

FrameOf(content) ==
  Header \o content \o <<(Total(content) \div Base) % Base, Total(content) % Base>>

SensorSends ==
  /\ wire = <<>>
  /\ \E content \in Contents :
       /\ wire' = FrameOf(content)
       /\ expected' = IF expected = <<>> /\ rx = <<>> /\ readPc = "pair"
                      THEN content ELSE expected
  /\ UNCHANGED <<readPc, buffer, rx, faults>>

\* A byte that finds the receive buffer full is lost.
ByteArrives ==
  /\ wire # <<>>
  /\ wire' = Tail(wire)
  /\ rx' = IF Len(rx) < RxBytes THEN Append(rx, Head(wire)) ELSE rx
  /\ UNCHANGED <<readPc, buffer, faults, expected>>

LineFails ==
  /\ wire # <<>>
  /\ faults < Faults
  /\ faults' = faults + 1
  /\ wire' = Tail(wire)
  /\ expected' = <<>>
  /\ \/ UNCHANGED rx
     \/ \E b \in Byte : Len(rx) < RxBytes /\ rx' = Append(rx, b)
  /\ UNCHANGED <<readPc, buffer>>

--------------------------------------------------------------------------------
(* pms7003_read.  uart_read_bytes returns when it has all the bytes asked for,  *)
(* or with what there is when its time is over.                                 *)

\* The task flushes the receive buffer, sends its request and calls
\* pms7003_frame_receive: the flush may cut a frame that is arriving.
Request ==
  /\ readPc \in {"idle", "returned"}
  /\ rx' = <<>>
  /\ expected' = <<>>
  /\ readPc' = "pair"
  /\ buffer' = <<>>
  /\ UNCHANGED <<wire, faults>>

\* After a failed read the task reads again, without a flush.
ReadAgain ==
  /\ readPc = "returned"
  /\ pms7003_frame_receive # "SUCCESS"
  /\ readPc' = "pair"
  /\ buffer' = <<>>
  /\ expected' = <<>>
  /\ UNCHANGED <<rx, wire, faults>>

Take(n) == rx' = SubSeq(rx, n + 1, Len(rx))

\* Faulty variant: the start characters are looked for in the wrong order.
ReadPairSwapped ==
  /\ readPc = "pair"
  /\ Len(rx) >= 2
  /\ Take(2)
  /\ IF SubSeq(rx, 1, 2) = <<Start2, Start1>>
     THEN readPc' = "rest" /\ buffer' = SubSeq(rx, 1, 2)
     ELSE UNCHANGED <<readPc, buffer>>
  /\ UNCHANGED <<wire, faults, expected>>

\* Faulty variant: the first start character is enough.
ReadPairHalf ==
  /\ readPc = "pair"
  /\ Len(rx) >= 2
  /\ Take(2)
  /\ IF rx[1] = Start1
     THEN readPc' = "rest" /\ buffer' = SubSeq(rx, 1, 2)
     ELSE UNCHANGED <<readPc, buffer>>
  /\ UNCHANGED <<wire, faults, expected>>

ReadPair ==
  /\ readPc = "pair"
  /\ Len(rx) >= 2
  /\ Take(2)
  /\ IF SubSeq(rx, 1, 2) = Header
     THEN readPc' = "rest" /\ buffer' = SubSeq(rx, 1, 2)
     ELSE UNCHANGED <<readPc, buffer>>
  /\ UNCHANGED <<wire, faults, expected>>

\* Fewer than two bytes in time: a single byte is dropped.
PairTimesOut ==
  /\ readPc = "pair"
  /\ Len(rx) = 1
  /\ Take(1)
  /\ expected' = <<>>
  /\ UNCHANGED <<readPc, buffer, wire, faults>>

\* Faulty variant: the bytes of the header are asked for again.
RemainingAll == FrameSize

Remaining == FrameSize - 2

ReadRest ==
  /\ readPc = "rest"
  /\ Len(rx) >= Remaining
  /\ Take(Remaining)
  /\ buffer' = buffer \o SubSeq(rx, 1, Remaining)
  /\ readPc' = "returned"
  /\ UNCHANGED <<wire, faults, expected>>

\* The rest does not come in time: what there is of it is returned.
RestTimesOut ==
  /\ readPc = "rest"
  /\ Len(rx) < Remaining
  /\ rx' = <<>>
  /\ buffer' = buffer \o rx
  /\ expected' = <<>>
  /\ readPc' = "returned"
  /\ UNCHANGED <<wire, faults>>

pms7003_read == ReadPair \/ PairTimesOut \/ ReadRest \/ RestTimesOut

FrameInit ==
  /\ readPc = "idle"
  /\ buffer = <<>>
  /\ rx = <<>>
  /\ wire = <<>>
  /\ faults = 0
  /\ expected = <<>>

FrameNext ==
  \/ Request \/ ReadAgain \/ pms7003_read
  \/ SensorSends \/ ByteArrives \/ LineFails

FrameSpec == FrameInit /\ [][FrameNext]_frameVars

\* The task runs when bytes it waits for are there, and the line delivers.
FrameFairness == WF_frameVars(ReadPair \/ ReadRest) /\ WF_frameVars(ByteArrives)

FairFrameSpec == FrameSpec /\ FrameFairness

--------------------------------------------------------------------------------
(* Properties. *)

Accepted == readPc = "returned" /\ pms7003_frame_receive = "SUCCESS"

\* Whatever the line did, what pms7003_frame_receive accepts has the form of a frame:
\* start characters, and a check code that is the sum of the rest, high byte first
\* (pms7003.c:44-54, :100-103).
AcceptedIsAFrame ==
  Accepted => buffer = FrameOf(SubSeq(buffer, 3, FrameSize - 2))

\* The measurement as the task takes it from the first data word (ether_main.c:379).
Measured == convert_to_little_endian(Field(buffer, 3))

\* When the answer to a request comes undisturbed, the read returns that frame and
\* no other, it is accepted, and the sensor's number is the one measured.
UndisturbedIsExact ==
  expected # <<>> /\ readPc = "returned"
    => /\ Accepted
       /\ buffer = FrameOf(expected)
       /\ Measured = Base * expected[1] + expected[2]

\* An answer that comes undisturbed is found: the search two bytes at a time does
\* not miss it (pms7003.c:95-108).
UndisturbedIsFound == expected # <<>> ~> (readPc = "returned" \/ expected = <<>>)

\* Reading in two calls of uart_read_bytes, with bytes arriving and times running
\* out in between, takes frames from the stream as if in one step: no byte is
\* skipped, repeated or put elsewhere inside a frame, and no header is skipped.
Reader == INSTANCE FrameReader WITH
  stream <- IF readPc = "rest" THEN Header \o rx ELSE rx,
  taken  <- IF readPc = "returned" THEN buffer ELSE <<>>

ImplementsReader == Reader!Spec
================================================================================
