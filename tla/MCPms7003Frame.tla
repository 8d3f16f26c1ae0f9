---------------------------- MODULE MCPms7003Frame ----------------------------
(* The frame layer with three values of a byte and frames of one data word.   *)
(* The contents are start characters inside the data, and the largest number. *)
(* Both have a check code with a carry into its high byte.                    *)
EXTENDS Pms7003Frame

MCContents == {<<1, 2>>, <<2, 2>>}
================================================================================
