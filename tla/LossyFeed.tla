------------------------------- MODULE LossyFeed -------------------------------
(***************************************************************************)
(* What a subscriber of /topic/ether may rely on, QoS 0: of the cycles     *)
(* gone through it is told of some, each at most once, and in order.       *)
(***************************************************************************)
EXTENDS Naturals, Sequences

VARIABLES
  measured,     \* cycles in which both sensors' tasks had their turn
  told          \* the cycles of the messages that arrived

feedVars == <<measured, told>>

Init == measured = 0 /\ told = <<>>

Measure == measured' = measured + 1 /\ UNCHANGED told

Tell ==
  /\ \E cycle \in 1..measured :
       /\ \A i \in 1..Len(told) : told[i] < cycle
       /\ told' = Append(told, cycle)
  /\ UNCHANGED measured

Next == Measure \/ Tell

Spec == Init /\ [][Next]_feedVars
================================================================================
