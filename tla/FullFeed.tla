------------------------------- MODULE FullFeed -------------------------------
(***************************************************************************)
(* What the data feed promises the page, stated without the differences    *)
(* the web server really sends: every message is the whole data map the    *)
(* server read, and handling a message replaces what the page shows with   *)
(* that map.  (The commented-out first version of the WRITEABLE callback,  *)
(* WebServerLWS.cpp:503-506, was exactly this.)  DataFeed is shown to      *)
(* implement it.                                                           *)
(***************************************************************************)
EXTENDS Naturals, Sequences

CONSTANTS Conns,      \* websocket connections
          DataMaps    \* the data maps that can be published

VARIABLES published,  \* the map in the shared memory
          latched,    \* the map the server read for the message it is writing
          queue,      \* maps on their way to the page, per connection
          shown       \* the map the page shows

vars == <<published, latched, queue, shown>>

EmptyMap == [v \in {} |-> v]

Init ==
  /\ published = EmptyMap
  /\ latched = EmptyMap
  /\ queue = [c \in Conns |-> <<>>]
  /\ shown = EmptyMap

Publish(m) ==
  /\ published' = m
  /\ UNCHANGED <<latched, queue, shown>>

Latch ==
  /\ latched' = published
  /\ UNCHANGED <<published, queue, shown>>

\* The message written is always the whole latched map.
Send(c) ==
  /\ queue' = [queue EXCEPT ![c] = Append(@, latched)]
  /\ latched' = EmptyMap
  /\ UNCHANGED <<published, shown>>

Show(c) ==
  /\ queue[c] # <<>>
  /\ shown' = Head(queue[c])
  /\ queue' = [queue EXCEPT ![c] = Tail(@)]
  /\ UNCHANGED <<published, latched>>

\* A connection goes away with what it still carried; the page keeps what it
\* shows, or forgets it when the page itself is loaded again.
Lose(c) ==
  /\ queue' = [queue EXCEPT ![c] = <<>>]
  /\ shown' \in {shown, EmptyMap}
  /\ UNCHANGED <<published, latched>>

Reload ==
  /\ shown' = EmptyMap
  /\ UNCHANGED <<published, latched, queue>>

Next ==
  \/ \E m \in DataMaps : Publish(m)
  \/ Latch
  \/ \E c \in Conns : Send(c) \/ Show(c) \/ Lose(c)
  \/ Reload

Spec == Init /\ [][Next]_vars

===============================================================================
