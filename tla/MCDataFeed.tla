------------------------------ MODULE MCDataFeed ------------------------------
(***************************************************************************)
(* Instances of DataFeed for TLC.                                          *)
(***************************************************************************)
EXTENDS DataFeed, TLC

CONSTANTS fuel, ers, c1, c2, off, on

\* The second car has no "ers" variable: the new session's map is smaller.
MCVars == {fuel, ers}
MCValues == {off, on}
MCConns == {c1, c2}
MCFrameVars == [s \in 1 .. MaxSession |-> IF s = 2 THEN {fuel} ELSE {fuel, ers}]

\* For liveness, where no symmetry may be used: one variable.
MCFuelOnly == {fuel}
MCFuelFrames == [s \in 1 .. MaxSession |-> {fuel}]

\* Connections are interchangeable, and so are values.
MCSymmetry == Permutations(MCConns) \cup Permutations(MCValues)

===============================================================================
