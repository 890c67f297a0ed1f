------------------------------ MODULE MCPitCommand ------------------------------
(***************************************************************************)
(* The instances of PitCommand that TLC checks.                            *)
(***************************************************************************)
EXTENDS PitCommand

CONSTANTS ltr, gal

\* About four litres make a gallon.
MCLitres == [u \in Units |-> [n \in 0 .. MaxFuel |-> IF u = gal THEN 4 * n ELSE n]]

===============================================================================
