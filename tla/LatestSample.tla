----------------------------- MODULE LatestSample -----------------------------
(***************************************************************************)
(* What live telemetry promises a client: each sample it is given is       *)
(* whole, as the simulator published it, and newer than the one before it. *)
(* Samples may be missed. A simulator that starts again counts anew.       *)
(***************************************************************************)
EXTENDS Integers

CONSTANT Cells

VARIABLES
  newest,  \* number of the sample published last, -1 before the first
  given    \* the cells of the sample the client was given last

vars == <<newest, given>>

None == [c \in Cells |-> -1]

Init == newest = -1 /\ given = None

Publish == newest' = newest + 1 /\ UNCHANGED given

Give(n) ==
  /\ n <= newest
  /\ \A c \in Cells : given[c] < n
  /\ given' = [c \in Cells |-> n]
  /\ UNCHANGED newest

Restart == newest' = -1 /\ given' = None

Next == Publish \/ Restart \/ \E n \in 0 .. newest : Give(n)

Spec == Init /\ [][Next]_vars

===============================================================================
