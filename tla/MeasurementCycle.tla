--------------------------- MODULE MeasurementCycle ---------------------------
(***************************************************************************)
(* What the three tasks promise together: a board of measurements that     *)
(* only the task whose turn it is may touch, turns that go round in one    *)
(* order, and in each turn of the publisher one message, put together from *)
(* the board as it stands and sent once.                                   *)
(***************************************************************************)
CONSTANT NoMessage

VARIABLES
  turn,     \* whose turn it is: "none" before the first
  board,    \* [pms, bme], the measurements
  draft,    \* the message put together and not yet sent, or NoMessage
  phase     \* what the publisher did in its turn: "idle", "drafted" or "sent"

cycleVars == <<turn, board, draft, phase>>

Init ==
  /\ turn = "none"
  /\ draft = NoMessage
  /\ phase = "idle"

Begin ==
  /\ turn = "none"
  /\ turn' = "pms7003"
  /\ UNCHANGED <<board, draft, phase>>

MeasureParticles ==
  /\ turn = "pms7003"
  /\ board'.bme = board.bme
  /\ UNCHANGED <<turn, draft, phase>>

MeasureClimate ==
  /\ turn = "bme280"
  /\ board'.pms = board.pms
  /\ UNCHANGED <<turn, draft, phase>>

\* A sensor's turn is over, whether it measured anything or not.
Pass ==
  /\ \/ turn = "pms7003" /\ turn' = "bme280"
     \/ turn = "bme280" /\ turn' = "mqtt"
  /\ UNCHANGED <<board, draft, phase>>

Draft ==
  /\ turn = "mqtt"
  /\ phase = "idle"
  /\ draft' = board
  /\ phase' = "drafted"
  /\ UNCHANGED <<turn, board>>

Send ==
  /\ phase = "drafted"
  /\ draft = board
  /\ draft' = NoMessage
  /\ phase' = "sent"
  /\ UNCHANGED <<turn, board>>

StartOver ==
  /\ turn = "mqtt"
  /\ phase = "sent"
  /\ turn' = "pms7003"
  /\ phase' = "idle"
  /\ UNCHANGED <<board, draft>>

Next ==
  \/ Begin \/ MeasureParticles \/ MeasureClimate \/ Pass
  \/ Draft \/ Send \/ StartOver

Spec == Init /\ [][Next]_cycleVars
================================================================================
