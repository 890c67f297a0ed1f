------------------------------ MODULE LapHistory ------------------------------
(***************************************************************************)
(* What the lap data of irPitCrew promises, without lists, names in memory *)
(* and resets: every car and track has a history of its own, which grows   *)
(* by one lap of that car and track at a time, loses only its oldest lap   *)
(* to make room, and never because of that falls below MinKept laps       *)
(* ("Always store at least this many values", LapFuelData.cpp:15).  A      *)
(* history is written as a whole.  A process that dies between the start   *)
(* and the end of that write loses the history it was writing; a write     *)
(* that ends has kept it, and nothing else touches a history.              *)
(***************************************************************************)
EXTENDS Naturals, Sequences

CONSTANTS Combos,   \* combinations of a car and a track
          Laps,     \* laps that can be driven: records with an id and a combo
          MinKept   \* histories this short lose nothing

VARIABLES history,  \* the laps kept for each combination, oldest first
          writing   \* the combinations whose history is being written

vars == <<history, writing>>

Init == history = [k \in Combos |-> <<>>] /\ writing = {}

\* A lap later than every lap kept.
IsNew(lap, k) == \A i \in 1 .. Len(history[k]) : history[k][i].id < lap.id

Record(k, lap) ==
  /\ lap.combo = k
  /\ IsNew(lap, k)
  /\ \/ history' = [history EXCEPT ![k] = Append(@, lap)]
     \/ /\ Len(history[k]) > MinKept
        /\ history' = [history EXCEPT ![k] = Append(Tail(@), lap)]

\* The write of a history starts, with a new lap or with the laps it had.
BeginWrite(k) ==
  /\ writing = {}
  /\ writing' = {k}
  /\ UNCHANGED history \/ \E lap \in Laps : Record(k, lap)

EndWrite ==
  /\ writing # {}
  /\ writing' = {}
  /\ UNCHANGED history

\* The process dies during the write.
Lose(k) ==
  /\ k \in writing
  /\ writing' = {}
  /\ history' = [history EXCEPT ![k] = <<>>]

Next == (\E k \in Combos : BeginWrite(k) \/ Lose(k)) \/ EndWrite

Spec == Init /\ [][Next]_vars

===============================================================================
