----------------------------- MODULE MCLapFuelData -----------------------------
(***************************************************************************)
(* The instances of LapFuelData that TLC checks.                           *)
(***************************************************************************)
EXTENDS LapFuelData, TLC

\* Tracks and cars are interchangeable.
MCSymmetry == Permutations(Tracks) \cup Permutations(Cars)

===============================================================================
