------------------------------ MODULE FrameReader ------------------------------
(***************************************************************************)
(* What the PMS7003 task sees of its sensor's byte stream: bytes are       *)
(* skipped from the front, or a frame is taken from it, whole or cut short *)
(* by the end of what has arrived.  Nothing is skipped inside a frame.     *)
(***************************************************************************)
EXTENDS Naturals, Sequences

CONSTANTS
  FrameSize,    \* bytes of a frame
  Header        \* the two bytes it begins with

VARIABLES
  stream,     \* the bytes that have arrived and were not read
  taken       \* the last frame taken, or what there was of it

readerVars == <<stream, taken>>

Init == stream = <<>> /\ taken = <<>>

\* One more byte, whatever it is.
Arrive == stream' # <<>> /\ stream = SubSeq(stream', 1, Len(stream') - 1) /\ UNCHANGED taken

\* A new request: what was taken before is done with.
Flush == stream' = <<>> /\ taken' = <<>>

Again == taken' = <<>> /\ UNCHANGED stream

\* Two bytes that are not the header are skipped, or a single one.
Skip ==
  /\ \/ Len(stream) = 1 /\ stream' = <<>>
     \/ /\ Len(stream) >= 2
        /\ SubSeq(stream, 1, 2) # Header
        /\ stream' = SubSeq(stream, 3, Len(stream))
  /\ UNCHANGED taken

Take ==
  /\ Len(stream) >= 2
  /\ SubSeq(stream, 1, 2) = Header
  /\ LET n == IF Len(stream) < FrameSize THEN Len(stream) ELSE FrameSize
     IN  /\ taken' = SubSeq(stream, 1, n)
         /\ stream' = SubSeq(stream, n + 1, Len(stream))

Next == Arrive \/ Flush \/ Again \/ Skip \/ Take

Spec == Init /\ [][Next]_readerVars
================================================================================
