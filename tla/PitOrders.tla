------------------------------- MODULE PitOrders -------------------------------
(***************************************************************************)
(* What the way from the page's Apply button to the simulator promises,    *)
(* without websockets, mailboxes and units: of the orders the page sends,  *)
(* numbered as they are sent, only ever the newest that has arrived is     *)
(* carried out, and it is carried out once.  An order may be lost, or      *)
(* superseded by a newer one before it is carried out.                     *)
(***************************************************************************)
EXTENDS Naturals

VARIABLES sent,      \* orders sent: the last one's number
          received,  \* the newest order that has arrived
          done,      \* the last order carried out
          carried    \* how many have been carried out

vars == <<sent, received, done, carried>>

Init == sent = 0 /\ received = 0 /\ done = 0 /\ carried = 0

Send ==
  /\ sent' = sent + 1
  /\ UNCHANGED <<received, done, carried>>

Receive ==
  /\ received' \in received + 1 .. sent
  /\ UNCHANGED <<sent, done, carried>>

Execute ==
  /\ done < received
  /\ done' = received
  /\ carried' = carried + 1
  /\ UNCHANGED <<sent, received>>

Next == Send \/ Receive \/ Execute

Spec == Init /\ [][Next]_vars

===============================================================================
