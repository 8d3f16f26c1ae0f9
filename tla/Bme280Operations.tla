---------------------------- MODULE Bme280Operations ----------------------------
(***************************************************************************)
(* What the state handlers rely on when they call an operation of          *)
(* bme280.c: it writes its registers in order and may stop after any of    *)
(* them; only when all were written, or all bytes read, does it report     *)
(* success; and the bytes it read are handed on all together or not at     *)
(* all.  Bme280Task models the operations in this way.                     *)
(***************************************************************************)
EXTENDS Naturals, Sequences

CONSTANTS
  Operations,     \* the operations of bme280.c
  Writes,         \* for each, the registers it writes, in order
  Reads           \* for each, the registers whose bytes it hands on, in order

VARIABLES
  doing,      \* the operation under way, or "none"
  written,    \* the registers it has written so far
  stored      \* the registers whose bytes the measurements hold, by operation

opVars == <<doing, written, stored>>

Begin ==
  /\ doing = "none"
  /\ doing' \in Operations
  /\ written' = <<>>
  /\ UNCHANGED stored

WriteNext ==
  /\ doing # "none"
  /\ Len(written) < Len(Writes[doing])
  /\ written' = Append(written, Writes[doing][Len(written) + 1])
  /\ UNCHANGED <<doing, stored>>

Succeed ==
  /\ doing # "none"
  /\ written = Writes[doing]
  /\ doing' = "none"
  /\ stored' = [stored EXCEPT ![doing] = Reads[doing]]
  /\ UNCHANGED written

Fail ==
  /\ doing # "none"
  /\ doing' = "none"
  /\ UNCHANGED <<written, stored>>

Init ==
  /\ doing = "none"
  /\ written = <<>>
  /\ stored = [op \in Operations |-> <<>>]

Next == Begin \/ WriteNext \/ Succeed \/ Fail

Spec == Init /\ [][Next]_opVars
================================================================================
