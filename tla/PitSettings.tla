------------------------------ MODULE PitSettings ------------------------------
(***************************************************************************)
(* What the page lets the driver ask for at a stop, shared by the Apply    *)
(* button (PitRoad) and the way of a command (PitCommand).                 *)
(***************************************************************************)
EXTENDS Integers

CONSTANTS
  Tires,      \* LeftFront, RightFront, LeftRear, RightRear
  MaxFuel     \* bound: the largest amount of fuel, in display units

ASSUME PitSettingsAssumption == MaxFuel \in Nat

===============================================================================
