------------------------------- MODULE MCPitRoad -------------------------------
(***************************************************************************)
(* The instances of PitRoad that TLC checks.                               *)
(***************************************************************************)
EXTENDS PitRoad

CONSTANT lf

===============================================================================
