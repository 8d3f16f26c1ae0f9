-------------------------------- MODULE MCEther -------------------------------
(* Ether for TLC. *)
EXTENDS Ether
================================================================================
