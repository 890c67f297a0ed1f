---------------------------- MODULE DataFeedProofs ----------------------------
(***************************************************************************)
(* Theorems about DataFeed, and about Standings, whose cars the data map   *)
(* carries, for every value of their constants.                            *)
(***************************************************************************)
EXTENDS DataFeed, Standings, SequenceTheorems, WellFoundedInduction, FiniteSetTheorems, TLAPS

-------------------------------------------------------------------------------
(***************************************************************************)
(* Facts about data maps and the differences between them.                 *)
(***************************************************************************)

\* A data map is a function from some of the variables to values.
LEMMA DataMapFacts ==
  /\ EmptyMap \in DataMaps
  /\ DOMAIN EmptyMap = {}
  /\ \A m \in DataMaps : DOMAIN m \subseteq Vars /\ \A v \in DOMAIN m : m[v] \in Values
  /\ \A m : /\ m = [v \in DOMAIN m |-> m[v]]
            /\ DOMAIN m \subseteq Vars
            /\ \A v \in DOMAIN m : m[v] \in Values
            => m \in DataMaps
<1>1. EmptyMap \in DataMaps /\ DOMAIN EmptyMap = {}
  <2>1. EmptyMap \in [{} -> Values]
    BY DEF EmptyMap
  <2>2. [{} -> Values] \in {[D -> Values] : D \in SUBSET Vars}
    OBVIOUS
  <2> QED BY <2>1, <2>2 DEF DataMaps, EmptyMap
<1>2. ASSUME NEW m \in DataMaps
      PROVE  DOMAIN m \subseteq Vars /\ \A v \in DOMAIN m : m[v] \in Values
  <2>1. PICK D \in SUBSET Vars : m \in [D -> Values]
    BY DEF DataMaps
  <2> QED BY <2>1
<1>3. ASSUME NEW m, m = [v \in DOMAIN m |-> m[v]], DOMAIN m \subseteq Vars,
             \A v \in DOMAIN m : m[v] \in Values
      PROVE  m \in DataMaps
  <2>1. m \in [DOMAIN m -> Values]
    BY <1>3
  <2>2. [DOMAIN m -> Values] \in {[D -> Values] : D \in SUBSET Vars}
    BY <1>3
  <2> QED BY <2>1, <2>2 DEF DataMaps
<1> QED BY <1>1, <1>2, <1>3

\* What the data branch publishes is a data map.
LEMMA FramesAreDataMaps ==
  ASSUME NEW s \in 1 .. MaxSession
  PROVE  Frames(s) \subseteq DataMaps
<1>1. FrameVars[s] \in SUBSET Vars
  BY DataFeedAssumption
<1>2. [FrameVars[s] -> Values] \in {[D -> Values] : D \in SUBSET Vars}
  BY <1>1
<1> QED BY <1>2 DEF Frames, DataMaps

\* The difference of a map and an older one, added to the older one, gives back
\* the map; the difference to the empty map is the whole map.
LEMMA DeltaFacts ==
  ASSUME NEW m \in DataMaps, NEW last \in DataMaps
  PROVE  /\ Delta(m, last) \in DataMaps
         /\ DOMAIN Delta(m, last) \subseteq DOMAIN m
         /\ \A v \in DOMAIN Delta(m, last) : Delta(m, last)[v] = m[v]
         /\ \A v \in DOMAIN m \ DOMAIN Delta(m, last) :
              v \in DOMAIN last /\ last[v] = m[v]
<1> DEFINE S == {w \in DOMAIN m : IsSendValue(m, last, w)}
           d == [v \in S |-> m[v]]
<1>1. Delta(m, last) = d
  BY DEF Delta
<1>2. DOMAIN d = S /\ \A v \in S : d[v] = m[v]
  OBVIOUS
<1>3. \A v \in DOMAIN m \ S : v \in DOMAIN last /\ last[v] = m[v]
  BY DEF IsSendValue
<1>4. DOMAIN d \subseteq Vars /\ \A v \in DOMAIN d : d[v] \in Values
  BY <1>2, DataMapFacts
<1>5. d \in DataMaps
  BY <1>2, <1>4, DataMapFacts
<1> HIDE DEF d
<1> QED BY <1>1, <1>2, <1>3, <1>5

\* Merging two maps: the new one's values, and the old one's elsewhere.
LEMMA MergeFacts ==
  ASSUME NEW new \in DataMaps, NEW old \in DataMaps
  PROVE  /\ Merge(new, old) \in DataMaps
         /\ DOMAIN Merge(new, old) = DOMAIN new \cup DOMAIN old
         /\ \A v \in DOMAIN new : Merge(new, old)[v] = new[v]
         /\ \A v \in DOMAIN old \ DOMAIN new : Merge(new, old)[v] = old[v]
<1> DEFINE m == Merge(new, old)
<1>1. /\ m = [v \in DOMAIN new \cup DOMAIN old |->
               IF v \in DOMAIN new THEN new[v] ELSE old[v]]
  BY DEF Merge
<1>2. /\ DOMAIN m = DOMAIN new \cup DOMAIN old
      /\ \A v \in DOMAIN new : m[v] = new[v]
      /\ \A v \in DOMAIN old \ DOMAIN new : m[v] = old[v]
      /\ m = [v \in DOMAIN m |-> m[v]]
  BY <1>1
<1>3. DOMAIN m \subseteq Vars /\ \A v \in DOMAIN m : m[v] \in Values
  BY <1>2, DataMapFacts
<1>4. m \in DataMaps
  BY <1>2, <1>3, DataMapFacts
<1> QED BY <1>2, <1>4

-------------------------------------------------------------------------------
(***************************************************************************)
(* Type correctness, with what it needs: nothing is published or written   *)
(* before the first session, and only established connections carry        *)
(* anything.                                                               *)
(***************************************************************************)

Flagged == wsPc \in {"clear", "read", "lateClear", "request"}

Started ==
  /\ haveData \/ mainPc # "loop" => sessionInfo # NoSession
  /\ updateFlag \/ Flagged \/ wantWrite # {} \/ wsPc = "write" =>
       sessionInfo # NoSession
  /\ \A c \in Conns : wire[c] # <<>> => sessionInfo # NoSession

Connections ==
  /\ wsPc = "write" => wsConn \in open
  /\ connecting \cap open = {}
  /\ \A c \in Conns : wire[c] # <<>> => c \in open

BasicInv == TypeOK /\ Started /\ Connections

\* A message the WRITEABLE callback sends.
LEMMA MessageType ==
  ASSUME NEW s \in Sessions, NEW d \in DataMaps, NEW m \in DataMaps
  PROVE  [session |-> s, data |-> d, snap |-> m] \in Messages
BY DEF Messages

\* The sequence facts the steps use.
LEMMA WireFacts ==
  ASSUME NEW q \in Seq(Messages)
  PROVE  /\ \A m \in Messages : Append(q, m) \in Seq(Messages)
         /\ q # <<>> => Head(q) \in Messages /\ Tail(q) \in Seq(Messages)
         /\ <<>> \in Seq(Messages)
OBVIOUS

\* What a nonempty sequence and its tail have to do with each other.
LEMMA TailFacts ==
  ASSUME NEW S, NEW q \in Seq(S), q # <<>>
  PROVE  /\ Len(q) \in Nat \ {0}
         /\ Head(q) = q[1] /\ Head(q) \in S
         /\ Len(Tail(q)) = Len(q) - 1
         /\ \A i \in 1 .. Len(q) - 1 : Tail(q)[i] = q[i + 1]
         /\ Tail(q) = <<>> <=> Len(q) = 1
<1>1. Len(q) \in Nat /\ Len(q) # 0
  BY EmptySeq
<1>2. Tail(q) \in Seq(S) /\ Len(Tail(q)) = Len(q) - 1
  BY HeadTailProperties
<1>3. Tail(q) = <<>> <=> Len(Tail(q)) = 0
  BY <1>2, EmptySeq
<1>4. Tail(q) = <<>> <=> Len(q) = 1
  BY <1>1, <1>2, <1>3
<1>5. Head(q) = q[1] /\ Head(q) \in S /\ \A i \in 1 .. Len(q) - 1 : Tail(q)[i] = q[i + 1]
  BY <1>1
<1> QED BY <1>1, <1>2, <1>4, <1>5

LEMMA BasicInit == Init => BasicInv
<1> SUFFICES ASSUME Init PROVE BasicInv
  OBVIOUS
<1> USE DEF Init
<1>1. TypeOK
  <2>1. EmptyMap \in DataMaps
    BY DataMapFacts
  <2>2. NoSession \in Sessions
    BY DataFeedAssumption DEF NoSession, Sessions
  <2>3. [c \in Conns |-> <<>>] \in [Conns -> Seq(Messages)]
    OBVIOUS
  <2> QED BY <2>1, <2>2, <2>3 DEF TypeOK
<1>2. Started
  BY DEF Started, Flagged
<1>3. Connections
  BY DEF Connections
<1> QED BY <1>1, <1>2, <1>3 DEF BasicInv

LEMMA BasicStep == BasicInv /\ [Next]_vars => BasicInv'
<1> SUFFICES ASSUME BasicInv, [Next]_vars PROVE BasicInv'
  OBVIOUS
<1> USE DEF BasicInv, TypeOK, Started, Flagged, Connections,
            mainVars, shared, flags, wsVars, pageVars
<1>1. CASE HeaderSession
  BY <1>1, DataFeedAssumption DEF HeaderSession, Sessions, NoSession
<1>2. CASE HeaderClearData
  BY <1>2, DataMapFacts DEF HeaderClearData
<1>3. CASE ResetConnection
  BY <1>3 DEF ResetConnection
<1>4. CASE UpdateClient
  BY <1>4 DEF UpdateClient
<1>5. CASE PublishData
  <2>1. sessionInfo \in 1 .. MaxSession
    BY <1>5, DataFeedAssumption DEF PublishData, Sessions, NoSession
  <2>2. dataMap' \in DataMaps
    BY <1>5, <2>1, FramesAreDataMaps DEF PublishData
  <2> QED BY <1>5, <2>2 DEF PublishData
<1>6. CASE SimGone
  BY <1>6, ZenonT(40) DEF SimGone
<1>7. ASSUME NEW c \in Conns, Established(c)
      PROVE  BasicInv'
  BY <1>7 DEF Established
<1>8. ASSUME NEW c \in Conns, Closed(c)
      PROVE  BasicInv'
  <2>1. wire' \in [Conns -> Seq(Messages)]
    BY <1>8 DEF Closed
  <2> QED BY <1>8, <2>1 DEF Closed
<1>9. ASSUME NEW c \in Conns, WriteableGetData(c)
      PROVE  BasicInv'
  BY <1>9 DEF WriteableGetData
<1>10. CASE WriteableSend
  <2> DEFINE last == IF connReset THEN EmptyMap ELSE lastSent
             msg  == [session |-> IF connReset THEN sessionInfo ELSE NoSession,
                      data    |-> Delta(wsMap, last),
                      snap    |-> wsMap]
  <2>1. last \in DataMaps
    BY DataMapFacts
  <2>2. Delta(wsMap, last) \in DataMaps
    BY <2>1, DeltaFacts
  <2>3. msg \in Messages
    <3>1. (IF connReset THEN sessionInfo ELSE NoSession) \in Sessions
      BY DataFeedAssumption DEF Sessions, NoSession
    <3> QED BY <3>1, <2>2, MessageType
  <2>4. wire' = [wire EXCEPT ![wsConn] = Append(@, msg)]
    BY <1>10 DEF WriteableSend
  <2> HIDE DEF msg
  <2>5. wire' \in [Conns -> Seq(Messages)]
    BY <1>10, <2>3, <2>4, WireFacts DEF WriteableSend
  <2>6. \A c \in Conns : wire'[c] # <<>> => c \in open
    BY <1>10, <2>4 DEF WriteableSend
  <2> QED BY <1>10, <2>5, <2>6, DataMapFacts DEF WriteableSend
<1>11. CASE ServiceReturns
  BY <1>11, ZenonT(40) DEF ServiceReturns
<1>12. CASE TestUpdateFlag
  BY <1>12, ZenonT(40) DEF TestUpdateFlag
<1>13. CASE ClearUpdateFlag
  BY <1>13, ZenonT(40) DEF ClearUpdateFlag
<1>14. CASE ReadResetFlag
  BY <1>14 DEF ReadResetFlag
<1>15. CASE RequestWrite
  BY <1>15 DEF RequestWrite
<1>16. ASSUME NEW c \in Conns, Reconnect(c) \/ LoadPage(c)
       PROVE  BasicInv'
  <2>1. CreateWebSocket(c)
    BY <1>16 DEF Reconnect, LoadPage
  <2>2. wire' \in [Conns -> Seq(Messages)]
    BY <2>1, WireFacts DEF CreateWebSocket
  <2>3. \A d \in Conns : wire'[d] # <<>> => d \in open
    BY <2>1 DEF CreateWebSocket
  <2>4. view' \in DataMaps /\ shown' \in DataMaps /\ viewSession' \in Sessions
    BY <1>16, DataMapFacts, DataFeedAssumption
    DEF Reconnect, LoadPage, Sessions, NoSession
  <2>5. UNCHANGED <<mainVars, shared, flags, wsVars>>
    BY <1>16 DEF Reconnect, LoadPage
  <2>6. TypeOK'
    BY <2>1, <2>2, <2>4, <2>5, ZenonT(40) DEF CreateWebSocket
  <2>7. Started'
    BY <2>1, <2>5 DEF CreateWebSocket
  <2>8. Connections'
    BY <2>1, <2>3, <2>5 DEF CreateWebSocket, Fresh
  <2> QED BY <2>6, <2>7, <2>8
<1>17. ASSUME NEW c \in Conns, ConnectFails(c)
       PROVE  BasicInv'
  BY <1>17 DEF ConnectFails
<1>18. CASE HandleMessage
  <2> DEFINE msg == Head(wire[cur])
  <2>1. cur \in Conns /\ wire[cur] \in Seq(Messages) /\ wire[cur] # <<>>
    BY <1>18 DEF HandleMessage
  <2>2. msg \in Messages /\ Tail(wire[cur]) \in Seq(Messages)
    BY <2>1, WireFacts
  <2>3. msg.session \in Sessions /\ msg.data \in DataMaps /\ msg.snap \in DataMaps
    BY <2>2 DEF Messages
  <2>4. view' \in DataMaps /\ viewSession' \in Sessions /\ shown' \in DataMaps
    BY <1>18, <2>3, MergeFacts DEF HandleMessage
  <2>5. wire' \in [Conns -> Seq(Messages)]
    BY <1>18, <2>2 DEF HandleMessage
  <2>6. \A c \in Conns : wire'[c] # <<>> => c \in open
    BY <1>18, <2>1 DEF HandleMessage
  <2> QED BY <1>18, <2>4, <2>5, <2>6 DEF HandleMessage
<1>19. CASE UNCHANGED vars
  BY <1>19 DEF vars
<1> QED
  BY <1>1, <1>2, <1>3, <1>4, <1>5, <1>6, <1>7, <1>8, <1>9, <1>10, <1>11, <1>12,
     <1>13, <1>14, <1>15, <1>16, <1>17, <1>18, <1>19
  DEF Next, MainLoop, WebServer, Page

LEMMA Basic == Spec => []BasicInv
BY BasicInit, BasicStep, PTL DEF Spec

\* Every variable keeps its type: in particular a WRITEABLE request is only ever
\* pending for an established connection, and every message stands for a data
\* map and carries one.
THEOREM TypeCorrect == Spec => []TypeOK
<1>1. BasicInv => TypeOK
  BY DEF BasicInv
<1> QED BY <1>1, Basic, PTL

-------------------------------------------------------------------------------
(***************************************************************************)
(* One connection at a time: what the page shows is what the server read.  *)
(*                                                                         *)
(* The argument: the messages on the wire form a chain, each carrying      *)
(* everything in which its map differs from the map before it, and the     *)
(* chain starts at the map the page shows. The server's last map is the    *)
(* end of that chain, except before the first message of a connection,     *)
(* when a reset is pending and the next message carries everything.        *)
(***************************************************************************)

SingleOpen == OneConnection => \A c, d \in open : c = d

\* A page that holds map prev holds msg.snap after merging msg.data.
Faithful(msg, prev) ==
  /\ DOMAIN msg.data \subseteq DOMAIN msg.snap
  /\ \A v \in DOMAIN msg.data : msg.data[v] = msg.snap[v]
  /\ \A v \in DOMAIN msg.snap \ DOMAIN msg.data :
       v \in DOMAIN prev /\ prev[v] = msg.snap[v]

Prev(i) == IF i = 1 THEN shown ELSE wire[cur][i - 1].snap
Latest == IF wire[cur] = <<>> THEN shown ELSE wire[cur][Len(wire[cur])].snap

Chain == cur \in Conns =>
           \A i \in 1 .. Len(wire[cur]) : Faithful(wire[cur][i], Prev(i))

MirrorInv ==
  /\ SingleOpen
  /\ ViewIsSnapshot
  /\ Chain
  /\ cur \in open /\ ~connReset => lastSent = Latest

LEMMA MirrorInit == Init => MirrorInv
BY DataMapFacts DEF Init, MirrorInv, SingleOpen, ViewIsSnapshot, Agrees, Chain

\* The wire of the page's connection, the page and the server's last map are
\* what MirrorInv is about; most steps touch none of them.
LEMMA MirrorFrame ==
  ASSUME MirrorInv, UNCHANGED <<wire, pageVars, lastSent>>,
         open' \subseteq open, connReset => connReset'
  PROVE  MirrorInv'
BY DEF MirrorInv, SingleOpen, ViewIsSnapshot, Agrees, Chain, Prev, Latest, pageVars

LEMMA MirrorSend ==
  ASSUME OneConnection, BasicInv, MirrorInv, WriteableSend
  PROVE  MirrorInv'
<1> USE DEF BasicInv, TypeOK, Connections, mainVars, shared, flags, pageVars
<1> DEFINE last == IF connReset THEN EmptyMap ELSE lastSent
           msg  == [session |-> IF connReset THEN sessionInfo ELSE NoSession,
                    data    |-> Delta(wsMap, last),
                    snap    |-> wsMap]
<1>1. /\ wsConn \in open /\ wsConn \in Conns
      /\ wire' = [wire EXCEPT ![wsConn] = Append(@, msg)]
      /\ lastSent' = wsMap
      /\ UNCHANGED <<open, cur, view, shown>>
  BY DEF WriteableSend
<1>2. SingleOpen' /\ ViewIsSnapshot'
  BY <1>1 DEF MirrorInv, SingleOpen, ViewIsSnapshot, Agrees
<1>3. CASE cur \notin open
  <2>1. cur \in Conns => wire'[cur] = wire[cur]
    BY <1>1, <1>3
  <2>2. Chain'
    BY <1>1, <2>1 DEF MirrorInv, Chain, Prev
  <2> QED BY <1>1, <1>2, <1>3, <2>2 DEF MirrorInv
<1>4. CASE cur \in open
  <2> DEFINE q == wire[cur]
  <2>1. wsConn = cur
    BY <1>1, <1>4 DEF MirrorInv, SingleOpen
  <2>2. q \in Seq(Messages) /\ wire'[cur] = Append(q, msg)
    BY <1>1, <2>1
  <2>3. Faithful(msg, Latest)
    <3>1. last \in DataMaps
      BY DataMapFacts
    <3>2. \A v \in DOMAIN wsMap \ DOMAIN Delta(wsMap, last) :
            v \in DOMAIN Latest /\ Latest[v] = wsMap[v]
      <4>1. CASE connReset
        BY <4>1, <3>1, DeltaFacts, DataMapFacts
      <4>2. CASE ~connReset
        BY <4>2, <3>1, <1>4, DeltaFacts DEF MirrorInv
      <4> QED BY <4>1, <4>2
    <3> QED BY <3>1, <3>2, DeltaFacts DEF Faithful
  <2> HIDE DEF msg
  <2>4. /\ Len(wire'[cur]) = Len(q) + 1
        /\ wire'[cur][Len(q) + 1] = msg
        /\ \A i \in 1 .. Len(q) : wire'[cur][i] = q[i]
    BY <2>2
  <2>5. Chain'
    <3> SUFFICES ASSUME NEW i \in 1 .. Len(q) + 1
                 PROVE  Faithful(wire'[cur][i], Prev(i)')
      BY <1>1, <2>4 DEF Chain
    <3>1. CASE i = Len(q) + 1
      <4>1. Prev(i)' = Latest
        <5>1. CASE q = <<>>
          BY <5>1, <3>1, <1>1 DEF Prev, Latest
        <5>2. CASE q # <<>>
          <6>1. Len(q) \in 1 .. Len(q) /\ i # 1 /\ i - 1 = Len(q)
            BY <5>2, <3>1, <2>2
          <6> QED BY <6>1, <5>2, <2>4, <1>1 DEF Prev, Latest
        <5> QED BY <5>1, <5>2
      <4> QED BY <4>1, <3>1, <2>3, <2>4
    <3>2. CASE i \in 1 .. Len(q)
      <4>1. Prev(i)' = Prev(i)
        BY <3>2, <2>2, <2>4, <1>1 DEF Prev
      <4>2. Faithful(q[i], Prev(i))
        BY <3>2, <1>4 DEF MirrorInv, Chain
      <4> QED BY <4>1, <4>2, <3>2, <2>4
    <3> QED BY <3>1, <3>2, <2>2
  <2>6. lastSent' = Latest'
    <3>1. msg.snap = wsMap
      BY DEF msg
    <3>2. wire'[cur] # <<>>
      BY <2>2, <2>4, SMTT(30)
    <3> QED BY <1>1, <2>4, <3>1, <3>2 DEF Latest
  <2> QED BY <1>1, <1>2, <2>5, <2>6 DEF MirrorInv
<1> QED BY <1>3, <1>4

LEMMA MirrorHandle ==
  ASSUME BasicInv, MirrorInv, HandleMessage
  PROVE  MirrorInv'
<1> USE DEF BasicInv, TypeOK, Connections, mainVars, shared, flags, wsVars
<1> DEFINE q   == wire[cur]
           msg == Head(q)
<1>1. cur \in Conns /\ q \in Seq(Messages) /\ q # <<>>
  BY DEF HandleMessage
<1>2. /\ view' = Merge(msg.data, view)
      /\ shown' = msg.snap
      /\ wire'[cur] = Tail(q)
      /\ UNCHANGED <<cur, open, lastSent, connReset>>
  BY <1>1 DEF HandleMessage
<1>3. /\ Len(q) \in Nat \ {0}
      /\ msg = q[1] /\ msg \in Messages
      /\ Len(Tail(q)) = Len(q) - 1
      /\ \A i \in 1 .. Len(q) - 1 : Tail(q)[i] = q[i + 1]
      /\ Tail(q) = <<>> <=> Len(q) = 1
  BY <1>1, TailFacts
<1>4. Faithful(msg, shown)
  BY <1>1, <1>3 DEF MirrorInv, Chain, Prev
<1>5. ViewIsSnapshot'
  <2>1. msg.data \in DataMaps /\ view \in DataMaps
    BY <1>3 DEF Messages
  <2>2. /\ DOMAIN view' = DOMAIN msg.data \cup DOMAIN view
        /\ \A v \in DOMAIN msg.data : view'[v] = msg.data[v]
        /\ \A v \in DOMAIN view \ DOMAIN msg.data : view'[v] = view[v]
    <3> DEFINE new == msg.data
    <3>1. new \in DataMaps /\ view \in DataMaps /\ view' = Merge(new, view)
      BY <1>2, <2>1
    <3> HIDE DEF new
    <3>2. /\ DOMAIN Merge(new, view) = DOMAIN new \cup DOMAIN view
          /\ \A v \in DOMAIN new : Merge(new, view)[v] = new[v]
          /\ \A v \in DOMAIN view \ DOMAIN new : Merge(new, view)[v] = view[v]
      BY ONLY <3>1, MergeFacts
    <3> QED BY <3>1, <3>2 DEF new
  <2>3. SUFFICES ASSUME NEW v \in DOMAIN msg.snap
                 PROVE  v \in DOMAIN view' /\ view'[v] = msg.snap[v]
    BY <1>2 DEF ViewIsSnapshot, Agrees
  <2>4. CASE v \in DOMAIN msg.data
    BY <2>2, <2>4, <1>4 DEF Faithful
  <2>5. CASE v \notin DOMAIN msg.data
    <3>1. v \in DOMAIN shown /\ shown[v] = msg.snap[v]
      BY <2>5, <1>4 DEF Faithful
    <3>2. v \in DOMAIN view /\ view[v] = msg.snap[v]
      BY <3>1 DEF MirrorInv, ViewIsSnapshot, Agrees
    <3> QED BY <3>2, <2>2, <2>5
  <2> QED BY <2>4, <2>5
<1>6. Chain'
  <2>1. SUFFICES ASSUME NEW i \in 1 .. Len(q) - 1
                 PROVE  Faithful(wire'[cur][i], Prev(i)')
    BY <1>2, <1>3 DEF Chain
  <2>2. Faithful(q[i + 1], Prev(i + 1))
    <3>1. i + 1 \in 1 .. Len(q)
      BY <1>3, <2>1
    <3> QED BY <3>1, <1>1 DEF MirrorInv, Chain
  <2>3. Prev(i)' = Prev(i + 1)
    <3>1. CASE i = 1
      BY <3>1, <1>2, <1>3 DEF Prev
    <3>2. CASE i # 1
      <4>1. i - 1 \in 1 .. Len(q) - 1 /\ i + 1 # 1 /\ (i - 1) + 1 = i /\ (i + 1) - 1 = i
        BY <3>2, <1>3
      <4>2. Tail(q)[i - 1] = q[i]
        BY <4>1, <1>3
      <4> QED BY <3>2, <4>1, <4>2, <1>2 DEF Prev
    <3> QED BY <3>1, <3>2
  <2> QED BY <2>2, <2>3, <1>2, <1>3
<1>7. Latest' = Latest
  <2>1. CASE Len(q) = 1
    BY <2>1, <1>1, <1>2, <1>3 DEF Latest
  <2>2. CASE Len(q) # 1
    <3>1. Len(q) - 1 \in 1 .. Len(q) - 1 /\ (Len(q) - 1) + 1 = Len(q)
      BY <2>2, <1>3
    <3>2. Tail(q)[Len(Tail(q))] = q[Len(q)]
      BY <3>1, <1>3
    <3> QED BY <3>2, <2>2, <1>1, <1>2, <1>3 DEF Latest
  <2> QED BY <2>1, <2>2
<1> QED BY <1>2, <1>5, <1>6, <1>7 DEF MirrorInv, SingleOpen

LEMMA MirrorStep ==
  OneConnection /\ BasicInv /\ MirrorInv /\ [Next]_vars => MirrorInv'
<1> SUFFICES ASSUME OneConnection, BasicInv, MirrorInv, [Next]_vars
             PROVE  MirrorInv'
  OBVIOUS
<1> USE DEF mainVars, shared, flags, wsVars, pageVars
<1>1. CASE HeaderSession
  BY <1>1, MirrorFrame DEF HeaderSession
<1>2. CASE HeaderClearData
  BY <1>2, MirrorFrame DEF HeaderClearData
<1>3. CASE ResetConnection
  BY <1>3, MirrorFrame DEF ResetConnection
<1>4. CASE UpdateClient
  BY <1>4, MirrorFrame DEF UpdateClient
<1>5. CASE PublishData
  BY <1>5, MirrorFrame DEF PublishData
<1>6. CASE SimGone
  BY <1>6, MirrorFrame DEF SimGone
<1>7. ASSUME NEW c \in Conns, Established(c)
      PROVE  MirrorInv'
  <2>1. open' = {c} /\ connReset' /\ UNCHANGED <<wire, cur, view, shown, lastSent>>
    BY <1>7 DEF Established
  <2> QED BY <2>1 DEF MirrorInv, SingleOpen, ViewIsSnapshot, Agrees, Chain, Prev
<1>8. ASSUME NEW c \in Conns, Closed(c)
      PROVE  MirrorInv'
  <2>1. /\ wire \in [Conns -> Seq(Messages)]
        /\ wire' = [wire EXCEPT ![c] = <<>>]
        /\ open' = open \ {c}
        /\ UNCHANGED <<cur, view, shown, lastSent, connReset>>
    BY <1>8 DEF Closed, BasicInv, TypeOK
  <2>2. CASE c = cur
    <3>1. cur \notin open' /\ wire'[cur] = <<>>
      BY <2>1, <2>2
    <3>2. Chain'
      BY <2>1, <3>1 DEF Chain
    <3> QED BY <2>1, <3>1, <3>2 DEF MirrorInv, SingleOpen, ViewIsSnapshot, Agrees
  <2>3. CASE c # cur
    <3>1. cur \in Conns => wire'[cur] = wire[cur]
      BY <2>1, <2>3
    <3>2. open \subseteq Conns
      BY DEF BasicInv, TypeOK
    <3>3. Chain' /\ (cur \in open => Latest' = Latest)
      BY <2>1, <3>1, <3>2 DEF MirrorInv, Chain, Prev, Latest
    <3> QED
      BY <2>1, <3>3 DEF MirrorInv, SingleOpen, ViewIsSnapshot, Agrees
  <2> QED BY <2>2, <2>3
<1>9. ASSUME NEW c \in Conns, WriteableGetData(c)
      PROVE  MirrorInv'
  BY <1>9, MirrorFrame DEF WriteableGetData
<1>10. CASE WriteableSend
  BY <1>10, MirrorSend
<1>11. CASE ServiceReturns
  BY <1>11, MirrorFrame DEF ServiceReturns
<1>12. CASE TestUpdateFlag
  BY <1>12, MirrorFrame DEF TestUpdateFlag
<1>13. CASE ClearUpdateFlag
  BY <1>13, MirrorFrame DEF ClearUpdateFlag
<1>14. CASE ReadResetFlag
  BY <1>14, MirrorFrame DEF ReadResetFlag
<1>15. CASE RequestWrite
  BY <1>15, MirrorFrame DEF RequestWrite
<1>16. ASSUME NEW c \in Conns, Reconnect(c) \/ LoadPage(c)
       PROVE  MirrorInv'
  <2>1. CreateWebSocket(c) /\ UNCHANGED <<open, lastSent, connReset>>
    BY <1>16 DEF Reconnect, LoadPage
  <2>2. cur' = c /\ c \notin open' /\ wire'[c] = <<>>
    BY <2>1 DEF CreateWebSocket, Fresh
  <2>3. Chain'
    BY <2>2 DEF Chain
  <2>4. ViewIsSnapshot'
    BY <1>16, DataMapFacts
    DEF Reconnect, LoadPage, MirrorInv, ViewIsSnapshot, Agrees
  <2> QED BY <2>1, <2>2, <2>3, <2>4 DEF MirrorInv, SingleOpen
<1>17. ASSUME NEW c \in Conns, ConnectFails(c)
       PROVE  MirrorInv'
  BY <1>17, MirrorFrame DEF ConnectFails
<1>18. CASE HandleMessage
  BY <1>18, MirrorHandle
<1>19. CASE UNCHANGED vars
  BY <1>19, MirrorFrame DEF vars
<1> QED
  BY <1>1, <1>2, <1>3, <1>4, <1>5, <1>6, <1>7, <1>8, <1>9, <1>10, <1>11, <1>12,
     <1>13, <1>14, <1>15, <1>16, <1>17, <1>18, <1>19
  DEF Next, MainLoop, WebServer, Page

\* With one connection at a time the page shows, after every message, exactly
\* the map the server read for it: nothing is lost by sending differences.
THEOREM PageIsSnapshot ==
  ASSUME OneConnection
  PROVE  Spec => []ViewIsSnapshot
<1>1. MirrorInv => ViewIsSnapshot
  BY DEF MirrorInv
<1>2. BasicInv /\ MirrorInv /\ [Next]_vars => MirrorInv'
  BY MirrorStep
<1> QED BY <1>1, <1>2, MirrorInit, Basic, PTL DEF Spec

-------------------------------------------------------------------------------
(***************************************************************************)
(* One connection at a time: no session, no map and no first message is    *)
(* lost between the two threads and the page.                              *)
(*                                                                         *)
(* The argument follows the two flags. A request to reset or to update is  *)
(* visible somewhere (ResetPending, WritePending) until the message that   *)
(* answers it is sent; what needs care is that the WRITEABLE callback      *)
(* copies the map before it sends, and that the reset flag is read and     *)
(* cleared in different steps.                                             *)
(***************************************************************************)

SessionDelivered ==
  \E i \in 0 .. Len(wire[cur]) :
    /\ sessionInfo = IF i = 0 THEN viewSession ELSE wire[cur][i].session
    /\ \A j \in i + 1 .. Len(wire[cur]) : wire[cur][j].session = NoSession

\* The reset flag is seen only between its test and the request that uses it.
SawResetBriefly == sawReset => wsPc \in {"lateClear", "request"}

\* The copy the callback sends is current, or another write will follow.
CopyCurrent ==
  wsPc = "write" => dataMap = wsMap \/ mainPc \in {"reset", "updateClient"} \/ updateFlag

FirstIsReset == cur \in open /\ ~heard /\ wire[cur] = <<>> => connReset

DeliveryInv ==
  /\ FirstMessageFull /\ FirstIsReset
  /\ SawResetBriefly /\ (cur \in open /\ ~ResetPending => SessionDelivered)
  /\ CopyCurrent /\ (cur \in open /\ ~connReset /\ ~WritePending => dataMap = Latest)

LEMMA DeliveryInit == Init => DeliveryInv
BY DataFeedAssumption
DEF Init, DeliveryInv, FirstMessageFull, FirstIsReset, SawResetBriefly, CopyCurrent

\* A step that touches neither the messages nor the page nor what is shared
\* keeps the invariant if every pending request stays pending.
LEMMA DeliveryFrame ==
  ASSUME DeliveryInv, UNCHANGED <<wire, pageVars, sessionInfo, dataMap>>,
         open' \subseteq open, connReset => connReset',
         ResetPending => ResetPending', WritePending => WritePending',
         SawResetBriefly', CopyCurrent'
  PROVE  DeliveryInv'
BY DEF DeliveryInv, FirstMessageFull, FirstIsReset, SessionDelivered, Latest, pageVars

\* What WRITEABLE sends to the page is the last message on its wire.
LEMMA SendFacts ==
  ASSUME OneConnection, BasicInv, SingleOpen, WriteableSend, cur \in open
  PROVE  /\ wsConn = cur /\ cur \in Conns
         /\ wire[cur] \in Seq(Messages)
         /\ Len(wire[cur]) \in Nat
         /\ Len(wire'[cur]) = Len(wire[cur]) + 1
         /\ \A i \in 1 .. Len(wire[cur]) : wire'[cur][i] = wire[cur][i]
         /\ wire'[cur][Len(wire[cur]) + 1].session = IF connReset THEN sessionInfo ELSE NoSession
         /\ wire'[cur][Len(wire[cur]) + 1].snap = wsMap
         /\ wire'[cur] # <<>>
         /\ Head(wire'[cur]) = wire'[cur][1]
<1> DEFINE last == IF connReset THEN EmptyMap ELSE lastSent
           msg  == [session |-> IF connReset THEN sessionInfo ELSE NoSession,
                    data    |-> Delta(wsMap, last),
                    snap    |-> wsMap]
           q    == wire[cur]
<1>1. wsConn = cur /\ cur \in Conns /\ q \in Seq(Messages)
  BY DEF WriteableSend, BasicInv, TypeOK, Connections, SingleOpen
<1>2. wire'[cur] = Append(q, msg)
  BY <1>1 DEF WriteableSend, BasicInv, TypeOK
<1>3. msg.session = (IF connReset THEN sessionInfo ELSE NoSession) /\ msg.snap = wsMap
  OBVIOUS
<1> HIDE DEF msg
<1>4. /\ Len(q) \in Nat
      /\ Len(wire'[cur]) = Len(q) + 1
      /\ wire'[cur][Len(q) + 1] = msg
      /\ \A i \in 1 .. Len(q) : wire'[cur][i] = q[i]
      /\ wire'[cur] # <<>>
      /\ Head(wire'[cur]) = wire'[cur][1]
  BY <1>1, <1>2
<1> QED BY <1>1, <1>3, <1>4

LEMMA DeliverySend ==
  ASSUME OneConnection, BasicInv, SingleOpen, DeliveryInv, WriteableSend
  PROVE  DeliveryInv'
<1> USE DEF DeliveryInv
<1>1. /\ wsPc = "write" /\ wsPc' = "service" /\ connReset' = FALSE
      /\ UNCHANGED <<mainVars, shared, flags, sawReset, open, wantWrite, connecting,
                     pageVars>>
  BY DEF WriteableSend
<1>2. SawResetBriefly' /\ CopyCurrent'
  BY <1>1 DEF SawResetBriefly, CopyCurrent
<1>3. CASE cur \notin open
  <2>1. cur \in Conns => wire'[cur] = wire[cur]
    BY <1>3 DEF WriteableSend, BasicInv, TypeOK, Connections
  <2>2. cur \in Conns => wire[cur] = <<>>
    BY <1>3 DEF BasicInv, Connections
  <2>3. cur \in Conns \cup {NoConn}
    BY DEF BasicInv, TypeOK
  <2> QED
    BY <1>1, <1>2, <1>3, <2>1, <2>2, <2>3 DEF FirstMessageFull, FirstIsReset, pageVars
<1>4. CASE cur \in open
  <2> DEFINE n == Len(wire[cur])
  <2> USE SendFacts, <1>4
  <2>1. FirstMessageFull'
    <3>1. CASE n = 0 /\ ~heard
      <4>1. connReset
        BY <3>1, EmptySeq DEF FirstIsReset
      <4>2. sessionInfo # NoSession
        BY <1>1 DEF BasicInv, Started
      <4> QED BY <3>1, <4>1, <4>2, <1>1 DEF FirstMessageFull, pageVars, NoSession
    <3>2. CASE n # 0
      <4>1. wire[cur] # <<>> /\ Head(wire[cur]) = wire[cur][1] /\ 1 \in 1 .. n
        BY <3>2, EmptySeq
      <4> QED BY <4>1, <1>1 DEF FirstMessageFull, pageVars, NoSession
    <3>3. CASE heard
      BY <3>3, <1>1 DEF FirstMessageFull, pageVars
    <3> QED BY <3>1, <3>2, <3>3
  <2>2. FirstIsReset'
    BY <1>1 DEF FirstIsReset, pageVars
  <2>3. ASSUME ~ResetPending' PROVE SessionDelivered'
    <3>1. CASE connReset
      <4>1. n + 1 \in 0 .. n + 1 /\ n + 1 # 0 /\ (n + 1) + 1 .. n + 1 = {}
        OBVIOUS
      <4>2. wire'[cur][n + 1].session = sessionInfo
        BY <3>1
      <4> QED BY <4>1, <4>2, <1>1 DEF SessionDelivered, shared, pageVars
    <3>2. CASE ~connReset
      <4>1. SessionDelivered
        BY <2>3, <3>2, <1>1 DEF ResetPending, mainVars, flags
      <4>2. PICK i \in 0 .. n :
              /\ sessionInfo = IF i = 0 THEN viewSession ELSE wire[cur][i].session
              /\ \A j \in i + 1 .. n : wire[cur][j].session = NoSession
        BY <4>1 DEF SessionDelivered
      <4>3. wire'[cur][n + 1].session = NoSession
        BY <3>2
      <4>4. \A j \in i + 1 .. n + 1 : wire'[cur][j].session = NoSession
        <5>1. SUFFICES ASSUME NEW j \in i + 1 .. n + 1
                       PROVE  wire'[cur][j].session = NoSession
          OBVIOUS
        <5>2. j = n + 1 \/ (j \in i + 1 .. n /\ j \in 1 .. n)
          BY <4>2
        <5> QED BY <5>2, <4>2, <4>3
      <4>5. i # 0 => wire'[cur][i].session = wire[cur][i].session
        OBVIOUS
      <4>6. i \in 0 .. n + 1
        OBVIOUS
      <4> QED
        BY <4>2, <4>4, <4>5, <4>6, <1>1 DEF SessionDelivered, shared, pageVars
    <3> QED BY <3>1, <3>2
  <2>4. ASSUME ~WritePending' PROVE dataMap' = Latest'
    <3>1. dataMap = wsMap
      BY <2>4, <1>1 DEF CopyCurrent, WritePending, mainVars, flags
    <3> QED BY <3>1, <1>1 DEF Latest, shared, pageVars
  <2> QED BY <2>1, <2>2, <2>3, <2>4, <1>1, <1>2
<1> QED BY <1>3, <1>4

\* Handling a message takes it from the wire; the last map is still the last.
LEMMA HandleFacts ==
  ASSUME BasicInv, HandleMessage
  PROVE  /\ cur \in Conns /\ wire[cur] \in Seq(Messages) /\ wire[cur] # <<>>
         /\ Len(wire[cur]) \in Nat \ {0}
         /\ Len(wire'[cur]) = Len(wire[cur]) - 1
         /\ \A i \in 1 .. Len(wire[cur]) - 1 : wire'[cur][i] = wire[cur][i + 1]
         /\ viewSession' = IF wire[cur][1].session = NoSession
                             THEN viewSession ELSE wire[cur][1].session
         /\ Latest' = Latest
<1> DEFINE q == wire[cur]
<1>1. cur \in Conns /\ q \in Seq(Messages) /\ q # <<>>
  BY DEF HandleMessage, BasicInv, TypeOK
<1>2. wire'[cur] = Tail(q) /\ cur' = cur /\ shown' = Head(q).snap
  BY <1>1 DEF HandleMessage, BasicInv, TypeOK
<1>3. /\ Len(q) \in Nat \ {0}
      /\ Head(q) = q[1]
      /\ Len(Tail(q)) = Len(q) - 1
      /\ \A i \in 1 .. Len(q) - 1 : Tail(q)[i] = q[i + 1]
      /\ Tail(q) = <<>> <=> Len(q) = 1
  BY <1>1, TailFacts
<1>4. Latest' = Latest
  <2>1. CASE Len(q) = 1
    BY <2>1, <1>1, <1>2, <1>3 DEF Latest
  <2>2. CASE Len(q) # 1
    <3>1. Len(q) - 1 \in 1 .. Len(q) - 1 /\ (Len(q) - 1) + 1 = Len(q)
      BY <2>2, <1>3
    <3>2. Tail(q)[Len(Tail(q))] = q[Len(q)]
      BY <3>1, <1>3
    <3> QED BY <3>2, <2>2, <1>1, <1>2, <1>3 DEF Latest
  <2> QED BY <2>1, <2>2
<1>5. viewSession' = IF q[1].session = NoSession THEN viewSession ELSE q[1].session
  BY <1>3 DEF HandleMessage
<1> QED BY <1>1, <1>2, <1>3, <1>4, <1>5

LEMMA DeliveryHandle ==
  ASSUME BasicInv, DeliveryInv, HandleMessage
  PROVE  DeliveryInv'
<1> USE DEF DeliveryInv
<1> DEFINE n == Len(wire[cur])
<1>1. heard' /\ UNCHANGED <<mainVars, shared, flags, wsVars, cur>>
  BY DEF HandleMessage
<1>2. FirstMessageFull' /\ FirstIsReset' /\ SawResetBriefly' /\ CopyCurrent'
  BY <1>1 DEF FirstMessageFull, FirstIsReset, SawResetBriefly, CopyCurrent, mainVars,
              shared, flags, wsVars
<1>3. ASSUME cur \in open, ~ResetPending' PROVE SessionDelivered'
  <2>1. SessionDelivered
    BY <1>1, <1>3 DEF ResetPending, mainVars, flags, wsVars
  <2>2. PICK i \in 0 .. n :
          /\ sessionInfo = IF i = 0 THEN viewSession ELSE wire[cur][i].session
          /\ \A j \in i + 1 .. n : wire[cur][j].session = NoSession
    BY <2>1 DEF SessionDelivered
  <2>3. sessionInfo # NoSession
    BY HandleFacts DEF BasicInv, Started
  <2> DEFINE k == IF i = 0 THEN 0 ELSE i - 1
  <2>4. k \in 0 .. n - 1 /\ k \in 0 .. Len(wire'[cur])
    BY HandleFacts
  <2>5. sessionInfo = IF k = 0 THEN viewSession' ELSE wire'[cur][k].session
    <3>1. CASE i = 0
      BY <3>1, <2>2, HandleFacts
    <3>2. CASE i = 1
      BY <3>2, <2>2, <2>3, HandleFacts
    <3>3. CASE i \notin {0, 1}
      BY <3>3, <2>2, HandleFacts
    <3> QED BY <3>1, <3>2, <3>3
  <2>6. ASSUME NEW j \in k + 1 .. Len(wire'[cur])
        PROVE  wire'[cur][j].session = NoSession
    <3>1. j \in 1 .. n - 1 /\ j + 1 \in i + 1 .. n
      BY <2>4, HandleFacts
    <3> QED BY <3>1, <2>2, HandleFacts
  <2> HIDE DEF k
  <2> QED BY <2>4, <2>5, <2>6, <1>1 DEF SessionDelivered, shared
<1>4. ASSUME cur \in open, ~connReset, ~WritePending' PROVE dataMap' = Latest'
  BY <1>1, <1>4, HandleFacts DEF WritePending, mainVars, shared, flags, wsVars
<1> QED BY <1>1, <1>2, <1>3, <1>4 DEF wsVars

LEMMA DeliveryStep ==
  OneConnection /\ BasicInv /\ SingleOpen /\ DeliveryInv /\ [Next]_vars => DeliveryInv'
<1> SUFFICES ASSUME OneConnection, BasicInv, SingleOpen, DeliveryInv, [Next]_vars
             PROVE  DeliveryInv'
  OBVIOUS
<1> USE DEF mainVars, shared, flags, wsVars, pageVars
<1> DEFINE Pending == /\ ResetPending => ResetPending'
                      /\ WritePending => WritePending'
                      /\ SawResetBriefly' /\ CopyCurrent'
<1> USE DEF ResetPending, WritePending, SawResetBriefly, CopyCurrent
<1>0. SawResetBriefly /\ CopyCurrent
  BY DEF DeliveryInv
<1>1. CASE HeaderSession
  <2>1. /\ ResetPending' /\ UNCHANGED <<wsVars, flags, dataMap, wire, pageVars>>
        /\ mainPc = "loop"
    BY <1>1 DEF HeaderSession
  <2> QED
    BY <2>1, <1>0
    DEF DeliveryInv, FirstMessageFull, FirstIsReset, Latest
<1>2. CASE HeaderClearData
  <2>1. /\ ResetPending' /\ WritePending' /\ mainPc' = "reset"
        /\ UNCHANGED <<sessionInfo, flags, wsVars, wire, pageVars>>
    BY <1>2 DEF HeaderClearData
  <2> QED BY <2>1, <1>0 DEF DeliveryInv, FirstMessageFull, FirstIsReset
<1>3. CASE ResetConnection
  <2>1. Pending
    BY <1>3, <1>0 DEF ResetConnection
  <2> QED BY <2>1, <1>3, DeliveryFrame DEF ResetConnection
<1>4. CASE UpdateClient
  <2>1. Pending
    BY <1>4, <1>0 DEF UpdateClient
  <2> QED BY <2>1, <1>4, DeliveryFrame DEF UpdateClient
<1>5. CASE PublishData
  <2>1. /\ WritePending' /\ mainPc' = "updateClient" /\ mainPc = "loop"
        /\ UNCHANGED <<sessionInfo, flags, wsVars, wire, pageVars>>
    BY <1>5 DEF PublishData
  <2> QED
    BY <2>1, <1>0 DEF DeliveryInv, FirstMessageFull, FirstIsReset, SessionDelivered
<1>6. CASE SimGone
  <2>1. Pending
    BY <1>6, <1>0 DEF SimGone
  <2> QED BY <2>1, <1>6, DeliveryFrame DEF SimGone
<1>7. ASSUME NEW c \in Conns, Established(c)
      PROVE  DeliveryInv'
  <2>1. /\ connReset' /\ wsPc' = "service" /\ wsPc = "service"
        /\ UNCHANGED <<mainVars, shared, flags, sawReset, wire, pageVars>>
    BY <1>7 DEF Established
  <2> QED BY <2>1, <1>0 DEF DeliveryInv, FirstMessageFull, FirstIsReset
<1>8. ASSUME NEW c \in Conns, Closed(c)
      PROVE  DeliveryInv'
  <2>1. /\ wire' = [wire EXCEPT ![c] = <<>>] /\ wire \in [Conns -> Seq(Messages)]
        /\ open' = open \ {c} /\ c \in open /\ wsPc = "service"
        /\ UNCHANGED <<mainVars, shared, flags, wsPc, sawReset, wsMap, connReset, pageVars>>
    BY <1>8 DEF Closed, BasicInv, TypeOK
  <2>2. cur \notin open'
    BY <2>1 DEF SingleOpen
  <2>3. cur \in Conns => wire'[cur] = <<>>
    BY <2>1 DEF SingleOpen, BasicInv, Connections
  <2>4. cur \in Conns \cup {NoConn}
    BY DEF BasicInv, TypeOK
  <2> QED
    BY <2>1, <2>2, <2>3, <2>4, <1>0 DEF DeliveryInv, FirstMessageFull, FirstIsReset
<1>9. ASSUME NEW c \in Conns, WriteableGetData(c)
      PROVE  DeliveryInv'
  <2>1. /\ c \in open /\ wsConn' = c /\ wsMap' = dataMap /\ wsPc' = "write"
        /\ wsPc = "service"
        /\ UNCHANGED <<mainVars, shared, flags, sawReset, connReset, open, wire, pageVars>>
    BY <1>9 DEF WriteableGetData, BasicInv, TypeOK
  <2>2. SawResetBriefly' /\ CopyCurrent'
    BY <2>1, <1>0
  <2>3. cur \in open => WritePending'
    BY <2>1 DEF SingleOpen
  <2> QED
    BY <2>1, <2>2, <2>3
    DEF DeliveryInv, FirstMessageFull, FirstIsReset, SessionDelivered
<1>10. CASE WriteableSend
  BY <1>10, DeliverySend
<1>11. CASE ServiceReturns
  <2>1. Pending
    BY <1>11, <1>0 DEF ServiceReturns
  <2> QED BY <2>1, <1>11, DeliveryFrame DEF ServiceReturns
<1>12. CASE TestUpdateFlag
  <2>1. Pending
    BY <1>12, <1>0 DEF TestUpdateFlag
  <2> QED BY <2>1, <1>12, DeliveryFrame DEF TestUpdateFlag
<1>13. CASE ClearUpdateFlag
  <2>1. Pending
    BY <1>13, <1>0 DEF ClearUpdateFlag
  <2> QED BY <2>1, <1>13, DeliveryFrame DEF ClearUpdateFlag
<1>14. CASE ReadResetFlag
  <2>1. Pending
    BY <1>14, <1>0 DEF ReadResetFlag
  <2> QED BY <2>1, <1>14, DeliveryFrame DEF ReadResetFlag
<1>15. CASE RequestWrite
  <2>1. ResetPending => ResetPending'
    BY <1>15 DEF RequestWrite
  <2>2. SawResetBriefly' /\ CopyCurrent'
    BY <1>15, <1>0 DEF RequestWrite
  <2>3. cur \in open => WritePending'
    BY <1>15 DEF RequestWrite
  <2>4. UNCHANGED <<wire, pageVars, shared, open>> /\ (connReset => connReset')
    BY <1>15 DEF RequestWrite
  <2> QED
    BY <2>1, <2>2, <2>3, <2>4
    DEF DeliveryInv, FirstMessageFull, FirstIsReset, SessionDelivered
<1>16. ASSUME NEW c \in Conns, Reconnect(c) \/ LoadPage(c)
       PROVE  DeliveryInv'
  <2>1. CreateWebSocket(c) /\ UNCHANGED <<mainVars, shared, flags, wsVars>>
    BY <1>16 DEF Reconnect, LoadPage
  <2>2. cur' = c /\ c \notin open' /\ wire'[c] = <<>>
    BY <2>1 DEF CreateWebSocket, Fresh
  <2> QED BY <2>1, <2>2, <1>0 DEF DeliveryInv, FirstMessageFull, FirstIsReset
<1>17. ASSUME NEW c \in Conns, ConnectFails(c)
       PROVE  DeliveryInv'
  <2>1. Pending
    BY <1>17, <1>0 DEF ConnectFails
  <2> QED BY <2>1, <1>17, DeliveryFrame DEF ConnectFails
<1>18. CASE HandleMessage
  BY <1>18, DeliveryHandle
<1>19. CASE UNCHANGED vars
  <2>1. Pending
    BY <1>19, <1>0 DEF vars
  <2> QED BY <2>1, <1>19, DeliveryFrame DEF vars
<1> QED
  BY <1>1, <1>2, <1>3, <1>4, <1>5, <1>6, <1>7, <1>8, <1>9, <1>10, <1>11, <1>12,
     <1>13, <1>14, <1>15, <1>16, <1>17, <1>18, <1>19
  DEF Next, MainLoop, WebServer, Page

LEMMA Delivery ==
  ASSUME OneConnection
  PROVE  Spec => []DeliveryInv
<1>1. BasicInv /\ MirrorInv /\ [Next]_vars => MirrorInv'
  BY MirrorStep
<1>2. BasicInv /\ MirrorInv /\ DeliveryInv /\ [Next]_vars => DeliveryInv'
  BY DeliveryStep DEF MirrorInv
<1> QED BY <1>1, <1>2, MirrorInit, DeliveryInit, Basic, PTL DEF Spec

\* With one connection at a time the first message on a new connection has the
\* session info and all the data, whichever order the connection, the reset and
\* the updates come in.
THEOREM FirstIsFull ==
  ASSUME OneConnection
  PROVE  Spec => []FirstMessageFull
<1>1. DeliveryInv => FirstMessageFull
  BY DEF DeliveryInv
<1> QED BY <1>1, Delivery, PTL

\* With one connection at a time no session change is lost in the plain bools
\* the two threads share.
THEOREM ResetReachesPage ==
  ASSUME OneConnection
  PROVE  Spec => []NoLostReset
<1>1. DeliveryInv => NoLostReset
  BY DEF DeliveryInv, NoLostReset, SessionDelivered
<1> QED BY <1>1, Delivery, PTL

\* With one connection at a time no published map is lost between the threads.
THEOREM UpdateReachesPage ==
  ASSUME OneConnection
  PROVE  Spec => []NoLostUpdate
<1>1. DeliveryInv => NoLostUpdate
  BY DEF DeliveryInv, NoLostUpdate, Latest
<1> QED BY <1>1, Delivery, PTL

-------------------------------------------------------------------------------
(***************************************************************************)
(* One connection at a time: sending differences implements sending whole  *)
(* maps.  A message stands for the map it was computed from, and, by the   *)
(* mirror invariant, what the page holds of the variables of the last map  *)
(* is that map.                                                            *)
(***************************************************************************)

Maps(q) == [i \in 1 .. Len(q) |-> q[i].snap]
Queue == [c \in Conns |-> Maps(wire[c])]
OnPart(m, w) == [v \in DOMAIN m \cap DOMAIN w |-> w[v]]
Held == OnPart(shown, view)

\* The maps behind the messages of a wire come and go with the messages.
LEMMA MapsFacts ==
  ASSUME NEW q \in Seq(Messages)
  PROVE  /\ Maps(<<>>) = <<>>
         /\ \A m \in Messages : Maps(Append(q, m)) = Append(Maps(q), m.snap)
         /\ q # <<>> => /\ Maps(q) # <<>>
                        /\ Head(Maps(q)) = Head(q).snap
                        /\ Maps(Tail(q)) = Tail(Maps(q))
<1>1. \A s \in Seq(Messages) : /\ Maps(s) \in Seq(DataMaps) /\ Len(Maps(s)) = Len(s)
                               /\ \A i \in 1 .. Len(s) : Maps(s)[i] = s[i].snap
  <2> SUFFICES ASSUME NEW s \in Seq(Messages)
               PROVE  /\ Maps(s) \in Seq(DataMaps) /\ Len(Maps(s)) = Len(s)
                      /\ \A i \in 1 .. Len(s) : Maps(s)[i] = s[i].snap
    OBVIOUS
  <2>1. Len(s) \in Nat /\ \A i \in 1 .. Len(s) : s[i] \in Messages
    OBVIOUS
  <2>2. \A m \in Messages : m.snap \in DataMaps
    BY DEF Messages
  <2> QED BY <2>1, <2>2 DEF Maps
<1>2. Maps(<<>>) = <<>>
  BY <1>1, EmptySeq
<1>3. ASSUME NEW m \in Messages
      PROVE  Maps(Append(q, m)) = Append(Maps(q), m.snap)
  <2> DEFINE r == Append(q, m)
             t == Append(Maps(q), m.snap)
  <2>1. m.snap \in DataMaps
    BY DEF Messages
  <2>2. r \in Seq(Messages) /\ t \in Seq(DataMaps) /\ Len(t) = Len(q) + 1 /\ Len(r) = Len(q) + 1
    BY <1>1, <2>1
  <2>3. Maps(r) \in Seq(DataMaps) /\ Len(Maps(r)) = Len(q) + 1
    BY <1>1, <2>2
  <2>4. ASSUME NEW i \in 1 .. Len(q) + 1 PROVE Maps(r)[i] = t[i]
    <3>1. Maps(r)[i] = r[i].snap
      BY <1>1, <2>2
    <3>2. CASE i = Len(q) + 1
      BY <3>1, <3>2, <1>1, <2>1
    <3>3. CASE i \in 1 .. Len(q)
      BY <3>1, <3>3, <1>1, <2>1
    <3>4. Len(q) \in Nat
      OBVIOUS
    <3>5. i = Len(q) + 1 \/ i \in 1 .. Len(q)
      BY <3>4
    <3> QED BY <3>2, <3>3, <3>5
  <2> QED BY <2>2, <2>3, <2>4, SeqEqual
<1>4. ASSUME q # <<>>
      PROVE  /\ Maps(q) # <<>>
             /\ Head(Maps(q)) = Head(q).snap
             /\ Maps(Tail(q)) = Tail(Maps(q))
  <2>1. Maps(q) # <<>>
    BY <1>1, <1>4, EmptySeq
  <2>2. Head(Maps(q)) = Head(q).snap
    BY <1>1, <1>4, <2>1, TailFacts
  <2>3. Tail(q) \in Seq(Messages) /\ Tail(Maps(q)) \in Seq(DataMaps)
    BY <1>1, <1>4, <2>1
  <2>4. ASSUME NEW i \in 1 .. Len(q) - 1 PROVE Maps(Tail(q))[i] = Tail(Maps(q))[i]
    <3>1. i \in 1 .. Len(Tail(q)) /\ i + 1 \in 1 .. Len(q)
      BY <1>4, TailFacts
    <3>2. Maps(Tail(q))[i] = Tail(q)[i].snap /\ Tail(q)[i] = q[i + 1]
      BY <1>1, <2>3, <3>1, <1>4, TailFacts
    <3>3. Tail(Maps(q))[i] = Maps(q)[i + 1]
      BY <1>1, <2>1, TailFacts
    <3> QED BY <3>1, <3>2, <3>3, <1>1
  <2>5. Len(Maps(Tail(q))) = Len(q) - 1 /\ Len(Tail(Maps(q))) = Len(q) - 1
    BY <1>1, <1>4, <2>1, <2>3, TailFacts
  <2>6. Maps(Tail(q)) = Tail(Maps(q))
    BY <1>1, <2>3, <2>4, <2>5, SeqEqual
  <2> QED BY <2>1, <2>2, <2>6
<1> QED BY <1>2, <1>3, <1>4

\* A map that agrees with map m on every variable of m holds m.
LEMMA HeldFacts ==
  ASSUME NEW m \in DataMaps, NEW w,
         \A v \in DOMAIN m : v \in DOMAIN w /\ w[v] = m[v]
  PROVE  OnPart(m, w) = m
<1>1. m = [v \in DOMAIN m |-> m[v]]
  <2>1. PICK D \in SUBSET Vars : m \in [D -> Values]
    BY DEF DataMaps
  <2> QED BY <2>1
<1>2. DOMAIN m \cap DOMAIN w = DOMAIN m
  OBVIOUS
<1>3. OnPart(m, w) = [v \in DOMAIN m |-> m[v]]
  BY <1>2 DEF OnPart
<1> QED BY <1>1, <1>3

Image == <<dataMap, wsMap, Queue, Held>>

LEMMA FeedInit == Init => FullFeed!Init
<1> SUFFICES ASSUME Init PROVE FullFeed!Init
  OBVIOUS
<1>1. <<>> \in Seq(Messages)
  OBVIOUS
<1>2. Queue = [c \in Conns |-> <<>>]
  BY <1>1, MapsFacts DEF Queue, Init
<1>3. Held = EmptyMap
  BY DataMapFacts DEF Held, OnPart, Init, EmptyMap
<1> QED BY <1>2, <1>3 DEF FullFeed!Init, Init, Queue, Maps, Held, OnPart, EmptyMap, FullFeed!EmptyMap

\* Every step of the feed is a step of the feed of whole maps, or none of its
\* business.
LEMMA FeedStep ==
  ASSUME BasicInv, BasicInv', MirrorInv, MirrorInv', [Next]_vars
  PROVE  [FullFeed!Next]_(FullFeed!vars)
<1> SUFFICES FullFeed!Next \/ UNCHANGED Image
  BY DEF FullFeed!vars, Image, Queue, Maps, Held, OnPart
<1>0. Held = shown /\ Held' = shown'
  <2>1. shown \in DataMaps /\ shown' \in DataMaps
    BY DEF BasicInv, TypeOK
  <2>2. Held = shown
    BY <2>1, HeldFacts DEF MirrorInv, ViewIsSnapshot, Agrees, Held
  <2>3. Held' = shown'
    BY <2>1, HeldFacts DEF MirrorInv, ViewIsSnapshot, Agrees, Held
  <2> QED BY <2>2, <2>3
<1> USE DEF mainVars, shared, flags, wsVars, pageVars
<1>1. CASE \/ HeaderSession \/ ResetConnection \/ UpdateClient \/ SimGone \/ ServiceReturns
           \/ TestUpdateFlag \/ ClearUpdateFlag \/ ReadResetFlag \/ RequestWrite
           \/ UNCHANGED vars
  <2>1. UNCHANGED <<dataMap, wsMap, wire, shown>>
    BY <1>1 DEF HeaderSession, ResetConnection, UpdateClient, SimGone, ServiceReturns,
                TestUpdateFlag, ClearUpdateFlag, ReadResetFlag, RequestWrite, vars
  <2> QED BY <2>1, <1>0 DEF Image, Queue
<1>2. ASSUME NEW c \in Conns, Established(c) \/ ConnectFails(c)
      PROVE  UNCHANGED Image
  <2>1. UNCHANGED <<dataMap, wsMap, wire, shown>>
    BY <1>2 DEF Established, ConnectFails
  <2> QED BY <2>1, <1>0 DEF Image, Queue
<1>3. CASE HeaderClearData \/ PublishData
  <2>1. dataMap' \in DataMaps /\ UNCHANGED <<wsMap, wire, shown>>
    BY <1>3 DEF HeaderClearData, PublishData, BasicInv, TypeOK
  <2>2. UNCHANGED <<wsMap, Queue, Held>>
    BY <2>1, <1>0 DEF Queue
  <2>3. FullFeed!Publish(dataMap')
    BY <2>2 DEF FullFeed!Publish, Queue, Maps, Held, OnPart
  <2> QED BY <2>1, <2>3 DEF FullFeed!Next, DataMaps
<1>4. ASSUME NEW c \in Conns, WriteableGetData(c)
      PROVE  FullFeed!Latch
  <2>1. wsMap' = dataMap /\ UNCHANGED <<dataMap, wire, shown>>
    BY <1>4 DEF WriteableGetData
  <2>2. UNCHANGED <<dataMap, Queue, Held>>
    BY <2>1, <1>0 DEF Queue
  <2> QED BY <2>1, <2>2 DEF FullFeed!Latch, Queue, Maps, Held, OnPart
<1>5. CASE WriteableSend
  <2> DEFINE last == IF connReset THEN EmptyMap ELSE lastSent
             msg  == [session |-> IF connReset THEN sessionInfo ELSE NoSession,
                      data    |-> Delta(wsMap, last),
                      snap    |-> wsMap]
  <2>1. /\ wsConn \in Conns /\ wire' = [wire EXCEPT ![wsConn] = Append(@, msg)]
        /\ wsMap' = EmptyMap /\ UNCHANGED <<dataMap, shown>>
    BY <1>5 DEF WriteableSend, BasicInv, TypeOK, Connections
  <2>2. msg \in Messages
    <3>1. (IF connReset THEN sessionInfo ELSE NoSession) \in Sessions
      BY DataFeedAssumption DEF Sessions, NoSession, BasicInv, TypeOK
    <3>2. Delta(wsMap, last) \in DataMaps
      BY DeltaFacts, DataMapFacts DEF BasicInv, TypeOK
    <3> QED BY <3>1, <3>2, MessageType DEF BasicInv, TypeOK
  <2>3. msg.snap = wsMap
    OBVIOUS
  <2> HIDE DEF msg
  <2>4. wire \in [Conns -> Seq(Messages)]
    BY DEF BasicInv, TypeOK
  <2>5. Queue' = [Queue EXCEPT ![wsConn] = Append(@, wsMap)]
    BY <2>1, <2>2, <2>3, <2>4, MapsFacts DEF Queue
  <2>6. UNCHANGED <<dataMap, Held>>
    BY <2>1, <1>0
  <2>7. PICK c \in Conns : c = wsConn
    BY <2>1
  <2>8. FullFeed!Send(c)
    BY <2>1, <2>5, <2>6, <2>7 DEF FullFeed!Send, Queue, Maps, Held, OnPart, EmptyMap, FullFeed!EmptyMap
  <2> QED BY <2>8 DEF FullFeed!Next
<1>6. ASSUME NEW c \in Conns, Closed(c)
      PROVE  FullFeed!Lose(c)
  <2>1. wire' = [wire EXCEPT ![c] = <<>>] /\ UNCHANGED <<dataMap, wsMap, shown>>
    BY <1>6 DEF Closed
  <2>2. wire \in [Conns -> Seq(Messages)] /\ <<>> \in Seq(Messages)
    BY DEF BasicInv, TypeOK
  <2>3. Queue' = [Queue EXCEPT ![c] = <<>>]
    BY <2>1, <2>2, MapsFacts DEF Queue
  <2>4. UNCHANGED <<dataMap, wsMap, Held>>
    BY <2>1, <1>0
  <2> QED BY <2>3, <2>4 DEF FullFeed!Lose, Queue, Maps, Held, OnPart
<1>7. ASSUME NEW c \in Conns, Reconnect(c) \/ LoadPage(c)
      PROVE  FullFeed!Next
  <2>1. CreateWebSocket(c) /\ UNCHANGED <<dataMap, wsMap>>
    BY <1>7 DEF Reconnect, LoadPage
  <2>2. wire \in [Conns -> Seq(Messages)] /\ <<>> \in Seq(Messages)
    BY DEF BasicInv, TypeOK
  <2>3. shown' \in {shown, EmptyMap} /\ (cur = NoConn => shown' = EmptyMap)
    BY <1>7 DEF Reconnect, LoadPage
  <2>4. CASE cur \in Conns
    <3>1. wire' = [wire EXCEPT ![cur] = <<>>]
      BY <2>1, <2>2 DEF CreateWebSocket
    <3>2. Queue' = [Queue EXCEPT ![cur] = <<>>]
      BY <2>2, <2>4, <3>1, MapsFacts DEF Queue
    <3>3. Held' \in {Held, EmptyMap}
      BY <2>3, <1>0
    <3>4. PICK d \in Conns : d = cur
      BY <2>4
    <3>5. FullFeed!Lose(d)
      BY <2>1, <3>2, <3>3, <3>4 DEF FullFeed!Lose, Queue, Maps, Held, OnPart, EmptyMap, FullFeed!EmptyMap
    <3> QED BY <3>5 DEF FullFeed!Next
  <2>5. CASE cur = NoConn
    <3>1. wire' = wire
      BY <2>1, <2>2, <2>5, DataFeedAssumption DEF CreateWebSocket
    <3>2. UNCHANGED <<dataMap, wsMap, Queue>> /\ Held' = EmptyMap
      BY <2>1, <2>3, <2>5, <3>1, <1>0 DEF Queue
    <3>3. FullFeed!Reload
      BY <3>2 DEF FullFeed!Reload, Queue, Maps, Held, OnPart, EmptyMap, FullFeed!EmptyMap
    <3> QED BY <3>3 DEF FullFeed!Next
  <2> QED BY <2>4, <2>5 DEF BasicInv, TypeOK
<1>8. CASE HandleMessage
  <2>1. /\ cur \in Conns /\ wire[cur] # <<>> /\ shown' = Head(wire[cur]).snap
        /\ wire' = [wire EXCEPT ![cur] = Tail(@)] /\ UNCHANGED <<dataMap, wsMap>>
    BY <1>8 DEF HandleMessage, BasicInv, TypeOK
  <2>2. wire \in [Conns -> Seq(Messages)]
    BY DEF BasicInv, TypeOK
  <2>3. /\ Queue[cur] # <<>> /\ Held' = Head(Queue[cur])
        /\ Queue' = [Queue EXCEPT ![cur] = Tail(@)]
    BY <2>1, <2>2, <1>0, MapsFacts DEF Queue
  <2>4. PICK c \in Conns : c = cur
    BY <2>1
  <2>5. FullFeed!Show(c)
    BY <2>1, <2>3, <2>4 DEF FullFeed!Show, Queue, Maps, Held, OnPart
  <2> QED BY <2>5 DEF FullFeed!Next
<1> QED
  BY <1>1, <1>2, <1>3, <1>4, <1>5, <1>6, <1>7, <1>8
  DEF Next, MainLoop, WebServer, Page, FullFeed!Next

\* With one connection at a time, sending only what changed cannot be told from
\* sending every map whole: the data feed implements the feed of whole maps.
THEOREM DeltasAreWholeMaps ==
  ASSUME OneConnection
  PROVE  Spec => ImplementsFullFeed
<1>1. BasicInv /\ MirrorInv /\ [Next]_vars => MirrorInv'
  BY MirrorStep
<1>2. BasicInv /\ BasicInv' /\ MirrorInv /\ MirrorInv' /\ [Next]_vars
      => [FullFeed!Next]_(FullFeed!vars)
  BY FeedStep
<1> QED
  BY <1>1, <1>2, FeedInit, MirrorInit, Basic, PTL
  DEF Spec, ImplementsFullFeed, FullFeed!Spec

-------------------------------------------------------------------------------
(***************************************************************************)
(* Standings: the parser of the session string (parseYaml).                *)
(* The search is followed as a sequence of states, one per line: it seeks  *)
(* part n of the path at some depth (Seeks), or has ended with a value or  *)
(* without one (Done). Scanned says where a text takes it, and texts that  *)
(* follow one another compose.                                             *)
(***************************************************************************)

\* Induction on the rounds of a loop.
LEMMA LoopKeeps ==
  ASSUME NEW N \in Nat, NEW f, NEW X, f[0] \in X[0],
         \A n \in 1 .. N : f[n - 1] \in X[n - 1] => f[n] \in X[n]
  PROVE  \A n \in 0 .. N : f[n] \in X[n]
<1> DEFINE T == {n \in 0 .. N : f[n] \notin X[n]}
<1>1. SUFFICES ASSUME T # {} PROVE FALSE
  OBVIOUS
<1>2. T \subseteq Nat
  OBVIOUS
<1>3. PICK x \in T : \A y \in T : << y, x >> \notin OpToRel(<, Nat)
  <2> HIDE DEF T
  <2> QED BY <1>1, <1>2, NatLessThanWellFounded, WFMin
<1>4. x \in 1 .. N /\ x - 1 \in 0 .. N
  <2>1. x # 0
    OBVIOUS
  <2> QED BY <2>1
<1>5. x - 1 \notin T
  <2>1. x - 1 \in Nat /\ x \in Nat /\ x - 1 < x
    BY <1>4
  <2>2. << x - 1, x >> \in OpToRel(<, Nat)
    BY <2>1 DEF OpToRel
  <2> HIDE DEF T
  <2> QED BY <1>3, <2>2
<1>6. x - 1 \in 0 .. N
  BY <1>4
<1>7. f[x - 1] \in X[x - 1]
  BY <1>5, <1>6
<1> QED BY <1>4, <1>7

\* The parser's search takes state a over the text to state b.
Scanned(path, a, text, b) ==
  \E f : /\ f[0] = a /\ f[Len(text)] = b
         /\ \A n \in 1 .. Len(text) : f[n] = Read(path, f[n - 1], text[n])

\* Over no line the search stays where it is.
LEMMA ScanNone ==
  ASSUME NEW path, NEW a
  PROVE  Scanned(path, a, << >>, a)
<1> DEFINE f == [n \in {0} |-> a]
<1>1. f[0] = a /\ Len(<< >>) = 0 /\ \A n \in 1 .. 0 : FALSE
  OBVIOUS
<1> QED BY <1>1 DEF Scanned

\* Over one line the search takes the step that it takes on that line.
LEMMA ScanOne ==
  ASSUME NEW path, NEW a, NEW line
  PROVE  Scanned(path, a, << line >>, Read(path, a, line))
<1> DEFINE f == [n \in 0 .. 1 |-> IF n = 0 THEN a ELSE Read(path, a, line)]
<1>1. f[0] = a /\ f[1] = Read(path, a, line)
  OBVIOUS
<1>2. Len(<< line >>) = 1 /\ << line >>[1] = line /\ \A n \in 1 .. 1 : n = 1
  OBVIOUS
<1> HIDE DEF f
<1> QED BY <1>1, <1>2 DEF Scanned

\* Over a text and then another the search goes to where the second takes it from
\* where the first left it.
LEMMA ScanAppend ==
  ASSUME NEW path, NEW T, NEW s \in Seq(T), NEW t \in Seq(T), NEW a, NEW b, NEW d,
         Scanned(path, a, s, b), Scanned(path, b, t, d)
  PROVE  Scanned(path, a, s \o t, d)
<1> DEFINE m == Len(s)
           k == Len(t)
<1>1. /\ m \in Nat /\ k \in Nat /\ Len(s \o t) = m + k
      /\ \A n \in 1 .. m + k : (s \o t)[n] = IF n <= m THEN s[n] ELSE t[n - m]
  BY ConcatProperties, LenProperties
<1>2. PICK f : f[0] = a /\ f[m] = b /\ \A n \in 1 .. m : f[n] = Read(path, f[n - 1], s[n])
  BY DEF Scanned
<1>3. PICK g : g[0] = b /\ g[k] = d /\ \A n \in 1 .. k : g[n] = Read(path, g[n - 1], t[n])
  BY DEF Scanned
<1> DEFINE h == [n \in 0 .. m + k |-> IF n <= m THEN f[n] ELSE g[n - m]]
<1> HIDE DEF m, k
<1>4. h[0] = a
  BY <1>1, <1>2
<1>5. h[m + k] = d
  <2>1. CASE k = 0
    BY <1>1, <1>2, <1>3, <2>1
  <2>2. CASE k # 0
    BY <1>1, <1>3, <2>2
  <2> QED BY <2>1, <2>2
<1>6. ASSUME NEW n \in 1 .. m + k
      PROVE  h[n] = Read(path, h[n - 1], (s \o t)[n])
  <2>1. n - 1 \in 0 .. m + k /\ n \in 0 .. m + k
    BY <1>1
  <2>2. CASE n <= m
    <3>1. n \in 1 .. m /\ n - 1 <= m
      BY <1>1, <2>2
    <3> QED BY <1>1, <1>2, <2>1, <2>2, <3>1
  <2>3. CASE n = m + 1
    <3>1. n - m = 1 /\ 1 \in 1 .. k /\ ~(n <= m) /\ n - 1 = m /\ m <= m /\ 1 - 1 = 0
      BY <1>1, <2>3
    <3>2. h[n] = g[1] /\ h[n - 1] = b /\ (s \o t)[n] = t[1]
      BY <1>1, <1>2, <2>1, <3>1
    <3>3. g[1] = Read(path, g[0], t[1])
      BY <1>3, <3>1
    <3> HIDE DEF h
    <3> QED BY <1>3, <3>2, <3>3
  <2>4. CASE n > m + 1
    <3>1. n - m \in 1 .. k /\ ~(n <= m) /\ ~(n - 1 <= m) /\ (n - 1) - m = (n - m) - 1
      BY <1>1, <2>4
    <3>2. h[n] = g[n - m] /\ h[n - 1] = g[(n - m) - 1] /\ (s \o t)[n] = t[n - m]
      BY <1>1, <2>1, <3>1
    <3> HIDE DEF h
    <3> QED BY <1>3, <3>1, <3>2
  <2> QED BY <1>1, <2>2, <2>3, <2>4
<1> HIDE DEF h
<1> QED BY <1>1, <1>4, <1>5, <1>6 DEF Scanned

\* The search that parseYaml makes is this one.
LEMMA ScanIs ==
  ASSUME NEW path, NEW T, NEW text \in Seq(T), NEW b, Scanned(path, Begin, text, b)
  PROVE  parseYaml(text, path) = b.found
<1> DEFINE N == Len(text)
           Searches(f) == f = [n \in 0 .. N |-> IF n = 0 THEN Begin ELSE Read(path, f[n - 1], text[n])]
           after == CHOOSE f : Searches(f)
<1>1. N \in Nat
  BY LenProperties
<1>2. PICK g : g[0] = Begin /\ g[N] = b /\ \A n \in 1 .. N : g[n] = Read(path, g[n - 1], text[n])
  BY DEF Scanned
<1> HIDE DEF N
<1>3. \E f : Searches(f)
  <2> DEFINE f == [n \in 0 .. N |-> g[n]]
  <2>1. \A n \in 0 .. N : n # 0 => n \in 1 .. N /\ n - 1 \in 0 .. N
    BY <1>1
  <2>2. \A n \in 0 .. N : f[n] = g[n]
    OBVIOUS
  <2>3. \A n \in 0 .. N : g[n] = IF n = 0 THEN Begin ELSE Read(path, g[n - 1], text[n])
    BY <1>2, <2>1
  <2>4. \A n \in 0 .. N : g[n] = IF n = 0 THEN Begin ELSE Read(path, f[n - 1], text[n])
    BY <2>1, <2>2, <2>3
  <2>5. Searches(f)
    BY <2>4
  <2> QED BY <2>5
<1>4. Searches(after)
  <2> HIDE DEF Searches
  <2> QED BY <1>3
<1>5. parseYaml(text, path) = after[N].found
  BY DEF parseYaml, N
<1> HIDE DEF after
<1>6. \A n \in 0 .. N : after[n] = IF n = 0 THEN Begin ELSE Read(path, after[n - 1], text[n])
  BY <1>4
<1> DEFINE X == [n \in 0 .. N |-> {g[n]}]
<1>7. \A n \in 0 .. N : after[n] \in X[n]
  <2>1. 0 \in 0 .. N /\ \A n \in 1 .. N : n \in 0 .. N /\ n - 1 \in 0 .. N /\ n # 0
    BY <1>1
  <2>2. after[0] \in X[0]
    BY <1>2, <1>6, <2>1
  <2>3. ASSUME NEW n \in 1 .. N, after[n - 1] \in X[n - 1]
        PROVE  after[n] \in X[n]
    BY <1>2, <1>6, <2>1, <2>3
  <2> HIDE DEF X
  <2> QED BY ONLY <1>1, <2>2, <2>3, LoopKeeps
<1>8. after[N] = b
  BY <1>1, <1>2, <1>7
<1> QED BY <1>5, <1>8

\* Lines that the search passes over.
LEMMA ScanSame ==
  ASSUME NEW path, NEW T, NEW text \in Seq(T), NEW a, \A line \in T : Read(path, a, line) = a
  PROVE  Scanned(path, a, text, a)
<1> DEFINE f == [n \in 0 .. Len(text) |-> a]
<1>1. Len(text) \in Nat /\ \A n \in 1 .. Len(text) : text[n] \in T
  BY LenProperties, ElementOfSeq
<1>2. 0 \in 0 .. Len(text) /\ Len(text) \in 0 .. Len(text)
      /\ \A n \in 1 .. Len(text) : n \in 0 .. Len(text) /\ n - 1 \in 0 .. Len(text)
  BY <1>1
<1>3. \A n \in 1 .. Len(text) : f[n] = Read(path, f[n - 1], text[n])
  BY <1>1, <1>2
<1>4. f[0] = a /\ f[Len(text)] = a
  BY <1>2
<1> HIDE DEF f
<1> QED BY <1>3, <1>4 DEF Scanned

\* Two lines, and three.
LEMMA ScanTwo ==
  ASSUME NEW path, NEW T, NEW l1 \in T, NEW l2 \in T, NEW a, NEW b, NEW d,
         Read(path, a, l1) = b, Read(path, b, l2) = d
  PROVE  Scanned(path, a, << l1, l2 >>, d) /\ << l1, l2 >> \in Seq(T)
<1> DEFINE text == << l1, l2 >>
           f == [n \in 0 .. 2 |-> IF n = 0 THEN a ELSE IF n = 1 THEN b ELSE d]
<1>1. f[0] = a /\ f[1] = b /\ f[2] = d
  OBVIOUS
<1>2. Len(text) = 2 /\ text[1] = l1 /\ text[2] = l2
  OBVIOUS
<1>3. text \in Seq(T)
  OBVIOUS
<1> HIDE DEF f, text
<1>4. ASSUME NEW n \in 1 .. 2
      PROVE  f[n] = Read(path, f[n - 1], text[n])
  <2>1. n = 1 \/ n = 2
    OBVIOUS
  <2> QED BY <1>1, <1>2, <2>1
<1>5. Scanned(path, a, text, d)
  BY <1>1, <1>2, <1>4 DEF Scanned
<1> QED BY <1>3, <1>5 DEF text

\* Three lines take the search where their steps lead.
LEMMA ScanThree ==
  ASSUME NEW path, NEW T, NEW l1 \in T, NEW l2 \in T, NEW l3 \in T, NEW a, NEW b, NEW d, NEW e,
         Read(path, a, l1) = b, Read(path, b, l2) = d, Read(path, d, l3) = e
  PROVE  Scanned(path, a, << l1, l2, l3 >>, e) /\ << l1, l2, l3 >> \in Seq(T)
<1> DEFINE text == << l1, l2, l3 >>
           f == [n \in 0 .. 3 |-> IF n = 0 THEN a ELSE IF n = 1 THEN b ELSE IF n = 2 THEN d ELSE e]
<1>1. f[0] = a /\ f[1] = b /\ f[2] = d /\ f[3] = e
  OBVIOUS
<1>2. Len(text) = 3 /\ text[1] = l1 /\ text[2] = l2 /\ text[3] = l3
  OBVIOUS
<1>3. text \in Seq(T)
  OBVIOUS
<1> HIDE DEF f, text
<1>4. ASSUME NEW n \in 1 .. 3
      PROVE  f[n] = Read(path, f[n - 1], text[n])
  <2>1. n = 1 \/ n = 2 \/ n = 3
    OBVIOUS
  <2> QED BY <1>1, <1>2, <2>1
<1>5. Scanned(path, a, text, e)
  BY <1>1, <1>2, <1>4 DEF Scanned
<1> QED BY <1>3, <1>5 DEF text

-------------------------------------------------------------------------------
(***************************************************************************)
(* Standings: lists of texts, one after the other.                         *)
(***************************************************************************)

Joined(f, list, n) == f = [i \in 0 .. n |-> IF i = 0 THEN << >> ELSE f[i - 1] \o list[i]]

\* Concat has the recursion that defines it.
LEMMA Joins ==
  ASSUME NEW T, NEW n \in Nat, NEW list, \A i \in 1 .. n : list[i] \in Seq(T)
  PROVE  \E f : Joined(f, list, n) /\ Concat(list, n) = f[n] /\ \A i \in 0 .. n : f[i] \in Seq(T)
<1> DEFINE Part(f, m) == Joined(f, list, m) /\ \A i \in 0 .. m : f[i] \in Seq(T)
           Can == [m \in 0 .. n |-> {TRUE}]
           Has == [m \in 0 .. n |-> \E f : Part(f, m)]
<1>1. Has[0] \in Can[0]
  <2> DEFINE f == [i \in 0 .. 0 |-> << >>]
  <2>1. \A i \in 0 .. 0 : i = 0
    OBVIOUS
  <2>2. Part(f, 0)
    BY <2>1 DEF Joined
  <2> HIDE DEF Part
  <2>3. 0 \in 0 .. n
    OBVIOUS
  <2> QED BY <2>2, <2>3
<1>2. ASSUME NEW m \in 1 .. n, Has[m - 1] \in Can[m - 1]
      PROVE  Has[m] \in Can[m]
  <2>1. m \in Nat /\ m - 1 \in 0 .. n /\ m \in 0 .. n
    OBVIOUS
  <2> HIDE DEF Part
  <2>2. PICK f : Part(f, m - 1)
    BY <1>2, <2>1
  <2> DEFINE g == [i \in 0 .. m |-> IF i = m THEN f[m - 1] \o list[m] ELSE f[i]]
  <2>3. f[m - 1] \o list[m] \in Seq(T)
    <3>1. f[m - 1] \in Seq(T) /\ list[m] \in Seq(T)
      BY <2>1, <2>2 DEF Part
    <3> QED BY <3>1
  <2>4. \A i \in 0 .. m : i # m => i \in 0 .. m - 1
    BY <2>1
  <2>5. \A i \in 0 .. m - 1 : f[i] \in Seq(T) /\ f[i] = IF i = 0 THEN << >> ELSE f[i - 1] \o list[i]
    BY <2>2 DEF Part, Joined
  <2>6. \A i \in 0 .. m : g[i] \in Seq(T)
    BY <2>3, <2>4, <2>5
  <2>7. \A i \in 0 .. m - 1 : g[i] = f[i]
    BY <2>1
  <2>8. ASSUME NEW i \in 0 .. m
        PROVE  g[i] = IF i = 0 THEN << >> ELSE g[i - 1] \o list[i]
    <3>1. CASE i = m
      <4>1. m - 1 \in 0 .. m - 1 /\ m # 0
        BY <2>1
      <4> QED BY <2>7, <3>1, <4>1
    <3>2. CASE i # m
      <4>1. i \in 0 .. m - 1 /\ (i # 0 => i - 1 \in 0 .. m - 1)
        BY <2>1, <3>2
      <4> QED BY <2>5, <2>7, <4>1
    <3> QED BY <3>1, <3>2
  <2>9. g = [i \in 0 .. m |-> IF i = 0 THEN << >> ELSE g[i - 1] \o list[i]]
    BY <2>8
  <2> HIDE DEF g
  <2>10. Part(g, m)
    BY <2>6, <2>9 DEF Part, Joined
  <2> QED BY <2>1, <2>10
<1>3. \E f : Part(f, n)
  <2> HIDE DEF Has, Can
  <2>1. \A m \in 0 .. n : Has[m] \in Can[m]
    BY ONLY <1>1, <1>2, n \in Nat, LoopKeeps
  <2>2. n \in 0 .. n
    OBVIOUS
  <2> HIDE DEF Part
  <2> QED BY <2>1, <2>2 DEF Has, Can
<1> DEFINE upTo == CHOOSE f : Joined(f, list, n)
<1>4. PICK f : Part(f, n)
  BY <1>3
<1>5. Joined(upTo, list, n)
  <2>1. \E h : Joined(h, list, n)
    BY <1>4
  <2> HIDE DEF Joined
  <2> QED BY <2>1
<1>6. Concat(list, n) = upTo[n]
  BY DEF Concat, Joined
<1> HIDE DEF upTo
<1>7. \A i \in 0 .. n : upTo[i] = IF i = 0 THEN << >> ELSE upTo[i - 1] \o list[i]
  BY <1>5 DEF Joined
<1> DEFINE X == [i \in 0 .. n |-> Seq(T)]
<1>8. \A i \in 0 .. n : upTo[i] \in X[i]
  <2>1. 0 \in 0 .. n /\ \A i \in 1 .. n : i \in 0 .. n /\ i - 1 \in 0 .. n /\ i # 0
    OBVIOUS
  <2>2. upTo[0] \in X[0]
    <3>1. upTo[0] = << >>
      BY <1>7, <2>1
    <3>2. << >> \in Seq(T)
      OBVIOUS
    <3>3. X[0] = Seq(T)
      BY <2>1
    <3> HIDE DEF X
    <3> QED BY <3>1, <3>2, <3>3
  <2>3. ASSUME NEW i \in 1 .. n, upTo[i - 1] \in X[i - 1]
        PROVE  upTo[i] \in X[i]
    <3>1. upTo[i - 1] \in Seq(T) /\ list[i] \in Seq(T)
      BY <2>1, <2>3
    <3>2. upTo[i - 1] \o list[i] \in Seq(T)
      BY <3>1
    <3> QED BY <1>7, <2>1, <3>2
  <2> HIDE DEF X
  <2> QED BY ONLY n \in Nat, <2>2, <2>3, LoopKeeps
<1>9. \A i \in 0 .. n : upTo[i] \in Seq(T)
  BY <1>8
<1> QED BY <1>5, <1>6, <1>9

\* What is joined of sequences over a set is a sequence over that set.
LEMMA ConcatSeq ==
  ASSUME NEW T, NEW n \in Nat, NEW list, \A i \in 1 .. n : list[i] \in Seq(T)
  PROVE  Concat(list, n) \in Seq(T)
<1>1. n \in 0 .. n
  OBVIOUS
<1> QED BY <1>1, Joins

\* The search goes over the texts of a list.
LEMMA ScanConcat ==
  ASSUME NEW T, NEW path, NEW n \in Nat, NEW list, \A i \in 1 .. n : list[i] \in Seq(T), NEW g,
         \A i \in 1 .. n : Scanned(path, g[i - 1], list[i], g[i])
  PROVE  Scanned(path, g[0], Concat(list, n), g[n])
<1>1. PICK f : Joined(f, list, n) /\ Concat(list, n) = f[n] /\ \A i \in 0 .. n : f[i] \in Seq(T)
  BY Joins
<1>2. \A i \in 0 .. n : f[i] = IF i = 0 THEN << >> ELSE f[i - 1] \o list[i]
  BY <1>1 DEF Joined
<1> DEFINE Can == [i \in 0 .. n |-> {TRUE}]
           Has == [i \in 0 .. n |-> Scanned(path, g[0], f[i], g[i])]
<1>3. 0 \in 0 .. n /\ n \in 0 .. n /\ \A i \in 1 .. n : i \in 0 .. n /\ i - 1 \in 0 .. n /\ i # 0
  OBVIOUS
<1>4. Has[0] \in Can[0]
  BY <1>2, <1>3, ScanNone
<1>5. ASSUME NEW i \in 1 .. n, Has[i - 1] \in Can[i - 1]
      PROVE  Has[i] \in Can[i]
  <2>1. Scanned(path, g[0], f[i - 1], g[i - 1]) /\ Scanned(path, g[i - 1], list[i], g[i])
    BY <1>3, <1>5
  <2>2. f[i - 1] \in Seq(T) /\ list[i] \in Seq(T) /\ f[i] = f[i - 1] \o list[i]
    BY <1>1, <1>2, <1>3
  <2>3. Scanned(path, g[0], f[i - 1] \o list[i], g[i])
    BY <2>1, <2>2, ScanAppend
  <2> QED BY <1>3, <2>2, <2>3
<1>6. \A i \in 0 .. n : Has[i] \in Can[i]
  <2> HIDE DEF Has, Can
  <2> QED BY ONLY <1>4, <1>5, n \in Nat, LoopKeeps
<1> QED BY <1>1, <1>3, <1>6

-------------------------------------------------------------------------------
(***************************************************************************)
(* Standings: one line of the string.                                      *)
(***************************************************************************)

\* The search goes on for a step of the path; it has ended.
Seeks(next, depth) == [next |-> next, depth |-> depth, ended |-> FALSE, found |-> << >>]
Done(next, depth, found) == [next |-> next, depth |-> depth, ended |-> TRUE, found |-> found]

Moves(a, next, depth) == [a EXCEPT !.next = next, !.depth = depth]
Ends(a, found) == [a EXCEPT !.ended = TRUE, !.found = found]

\* From a search that is under way, a match moves it on or ends it.
LEMMA SeeksMoves ==
  ASSUME NEW n, NEW d, NEW a, a = Seeks(n, d), NEW x, NEW y
  PROVE  Moves(a, y, x) = Seeks(y, x) /\ Ends(a, x) = Done(n, d, x)
<1> DEFINE e == FALSE
           g == TRUE
           b == [a EXCEPT !.next = y, !.depth = x]
           l == [a EXCEPT !.ended = g, !.found = x]
<1>1. b = [a EXCEPT !.next = y, !.depth = x] /\ l = [a EXCEPT !.ended = g, !.found = x]
  OBVIOUS
<1>2. a = [next |-> n, depth |-> d, ended |-> e, found |-> << >>]
  BY DEF Seeks
<1> HIDE DEF e, g, b, l
<1>4. b = [next |-> y, depth |-> x, ended |-> e, found |-> << >>]
  BY ONLY <1>1, <1>2
<1>5. l = [next |-> n, depth |-> d, ended |-> g, found |-> x]
  BY ONLY <1>1, <1>2
<1>6. b = Seeks(y, x)
  BY <1>4 DEF Seeks, e
<1>7. l = Done(n, d, x)
  BY <1>5 DEF Done, g
<1> QED BY <1>6, <1>7, Zenon DEF b, l, g, Moves, Ends

\* The parts of a search that is under way.
LEMMA SeeksFields ==
  ASSUME NEW n, NEW d, NEW a, a = Seeks(n, d)
  PROVE  a.next = n /\ a.depth = d /\ ~a.ended
BY DEF Seeks

\* A search that has ended reads no further line.
LEMMA ReadEnded ==
  ASSUME NEW path, NEW n, NEW d, NEW v, NEW line
  PROVE  Read(path, Done(n, d, v), line) = Done(n, d, v)
BY DEF Read, Done

\* A line less deep than the last step found.
LEMMA ReadShallow ==
  ASSUME NEW path, NEW n, NEW d \in Nat, NEW line, line.depth \in Nat, line.depth < d
  PROVE  Read(path, Seeks(n, d), line) = Done(n, d, << >>)
<1> DEFINE a == Seeks(n, d)
<1>1. a = Seeks(n, d)
  OBVIOUS
<1> HIDE DEF a
<1>2. a.depth = d /\ ~a.ended
  BY ONLY <1>1, SeeksFields
<1>3. Read(path, a, line) = [a EXCEPT !.ended = TRUE]
  BY <1>2 DEF Read
<1>4. [a EXCEPT !.ended = TRUE] = Done(n, d, << >>)
  <2> DEFINE e == FALSE
             g == TRUE
             b == [a EXCEPT !.ended = g]
  <2>1. b = [a EXCEPT !.ended = g] /\ a = [next |-> n, depth |-> d, ended |-> e, found |-> << >>]
    BY <1>1 DEF Seeks
  <2> HIDE DEF e, g, b
  <2>2. b = [next |-> n, depth |-> d, ended |-> g, found |-> << >>]
    BY ONLY <2>1
  <2>3. b = Done(n, d, << >>)
    BY <2>2 DEF Done, g
  <2> QED BY <2>3, Zenon DEF b, g
<1> QED BY <1>3, <1>4 DEF a

\* A line that is not the next step.
LEMMA ReadOther ==
  ASSUME NEW path, NEW n, NEW d \in Nat, NEW line, line.depth \in Nat, line.depth >= d,
         ~Matches(path[n], line)
  PROVE  Read(path, Seeks(n, d), line) = Seeks(n, d)
<1> DEFINE a == Seeks(n, d)
<1>1. a = Seeks(n, d)
  OBVIOUS
<1> HIDE DEF a
<1>2. a.depth = d /\ ~a.ended /\ a.next = n
  BY ONLY <1>1, SeeksFields
<1>3. Read(path, a, line) = a
  BY <1>2 DEF Read
<1> QED BY <1>3 DEF a

\* The next step, or the last.
LEMMA ReadStep ==
  ASSUME NEW path, NEW n \in Nat, NEW d \in Nat, NEW line, line.depth \in Nat, line.depth >= d,
         Matches(path[n], line)
  PROVE  /\ n # Len(path) => Read(path, Seeks(n, d), line) = Seeks(n + 1, line.depth)
         /\ n = Len(path) => Read(path, Seeks(n, d), line) = Done(n, d, line.value)
<1> DEFINE a == Seeks(n, d)
<1>1. a = Seeks(n, d)
  OBVIOUS
<1> HIDE DEF a
<1>2. a.depth = d /\ ~a.ended /\ a.next = n
  BY ONLY <1>1, SeeksFields
<1>3. Read(path, a, line) = Found(path, a, line)
  BY <1>2 DEF Read
<1>4. n # Len(path) => Found(path, a, line) = Moves(a, n + 1, line.depth)
  BY <1>2 DEF Found, Moves
<1>5. n = Len(path) => Found(path, a, line) = Ends(a, line.value)
  BY <1>2 DEF Found, Ends
<1>6. Moves(a, n + 1, line.depth) = Seeks(n + 1, line.depth) /\ Ends(a, line.value) = Done(n, d, line.value)
  BY ONLY <1>1, SeeksMoves
<1> QED BY <1>3, <1>4, <1>5, <1>6 DEF a

\* A line that matches the last part of the path ends the search with its value.
LEMMA ReadLast ==
  ASSUME NEW path, NEW n \in Nat, NEW d \in Nat, NEW line, line.depth \in Nat, line.depth >= d,
         Matches(path[n], line), n = Len(path)
  PROVE  Read(path, Seeks(n, d), line) = Done(n, d, line.value)
BY ReadStep

\* A line that matches a part of the path before the last moves the search to the next.
LEMMA ReadNext ==
  ASSUME NEW path, NEW n \in Nat, NEW d \in Nat, NEW line, NEW e \in Nat, line.depth = e, e >= d,
         Matches(path[n], line), n # Len(path), NEW m, m = n + 1
  PROVE  Read(path, Seeks(n, d), line) = Seeks(m, e)
BY ReadStep

-------------------------------------------------------------------------------
(***************************************************************************)
(* Standings: the lines that the simulator writes.                         *)
(***************************************************************************)

Fields == Nat \cup {"unlimited"} \cup {ClassOf[c] : c \in Cars}
Keys == {"SessionInfo", "Sessions", "SessionNum", "SessionLaps", "ResultsPositions", "Position",
         "ClassPosition", "CarIdx", "DriverInfo", "DriverCarIdx", "Drivers", "CarNumber",
         "CarClassShortName"}
Written == [depth : Nat, key : Keys, value : Seq(Fields)]

\* The parts of a line that has a value.
LEMMA LineIs ==
  ASSUME NEW d, NEW k, NEW v
  PROVE  Line(d, k, v).depth = d /\ Line(d, k, v).key = k /\ Line(d, k, v).value = << v >>
BY DEF Line

\* A line of known key and value is one of those that the simulator writes.
LEMMA LineTyped ==
  ASSUME NEW d \in Nat, NEW k \in Keys, NEW v \in Fields
  PROVE  Line(d, k, v) \in Written
BY DEF Line, Written

\* The parts of a line that has no value.
LEMMA HeadingIs ==
  ASSUME NEW d, NEW k
  PROVE  Heading(d, k).depth = d /\ Heading(d, k).key = k /\ Heading(d, k).value = << >>
BY DEF Heading

\* A heading of known key is a line that the simulator writes.
LEMMA HeadingTyped ==
  ASSUME NEW d \in Nat, NEW k \in Keys
  PROVE  Heading(d, k) \in Written
BY DEF Heading, Written

\* Every kind of line with a value is one that the simulator writes.
LEMMA LinesWritten ==
  ASSUME NEW v \in Fields
  PROVE  /\ Line(3, "SessionNum", v) \in Written
         /\ Line(3, "SessionLaps", v) \in Written
         /\ Line(5, "Position", v) \in Written
         /\ Line(5, "ClassPosition", v) \in Written
         /\ Line(5, "CarIdx", v) \in Written
         /\ Line(1, "DriverCarIdx", v) \in Written
         /\ Line(3, "CarIdx", v) \in Written
         /\ Line(3, "CarNumber", v) \in Written
         /\ Line(3, "CarClassShortName", v) \in Written
<1>1. 1 \in Nat /\ 3 \in Nat /\ 5 \in Nat
  OBVIOUS
<1>2. /\ "CarClassShortName" \in Keys
      /\ "CarIdx" \in Keys
      /\ "CarNumber" \in Keys
      /\ "ClassPosition" \in Keys
      /\ "DriverCarIdx" \in Keys
      /\ "Position" \in Keys
      /\ "SessionLaps" \in Keys
      /\ "SessionNum" \in Keys
  BY DEF Keys
<1>3. Line(3, "SessionNum", v) \in Written
  BY ONLY <1>1, <1>2, v \in Fields, LineTyped
<1>4. Line(3, "SessionLaps", v) \in Written
  BY ONLY <1>1, <1>2, v \in Fields, LineTyped
<1>5. Line(5, "Position", v) \in Written
  BY ONLY <1>1, <1>2, v \in Fields, LineTyped
<1>6. Line(5, "ClassPosition", v) \in Written
  BY ONLY <1>1, <1>2, v \in Fields, LineTyped
<1>7. Line(5, "CarIdx", v) \in Written
  BY ONLY <1>1, <1>2, v \in Fields, LineTyped
<1>8. Line(1, "DriverCarIdx", v) \in Written
  BY ONLY <1>1, <1>2, v \in Fields, LineTyped
<1>9. Line(3, "CarIdx", v) \in Written
  BY ONLY <1>1, <1>2, v \in Fields, LineTyped
<1>10. Line(3, "CarNumber", v) \in Written
  BY ONLY <1>1, <1>2, v \in Fields, LineTyped
<1>11. Line(3, "CarClassShortName", v) \in Written
  BY ONLY <1>1, <1>2, v \in Fields, LineTyped
<1> QED BY ONLY <1>3, <1>4, <1>5, <1>6, <1>7, <1>8, <1>9, <1>10, <1>11

\* Every heading is a line that the simulator writes.
LEMMA HeadingsWritten ==
  /\ Heading(0, "SessionInfo") \in Written
  /\ Heading(1, "Sessions") \in Written
  /\ Heading(3, "ResultsPositions") \in Written
  /\ Heading(0, "DriverInfo") \in Written
  /\ Heading(1, "Drivers") \in Written
<1>1. 0 \in Nat /\ 1 \in Nat /\ 3 \in Nat
  OBVIOUS
<1>2. /\ "SessionInfo" \in Keys
      /\ "Sessions" \in Keys
      /\ "ResultsPositions" \in Keys
      /\ "DriverInfo" \in Keys
      /\ "Drivers" \in Keys
  BY DEF Keys
<1> QED BY ONLY <1>1, <1>2, HeadingTyped

\* A part of a path that is a key matches the lines with that key, whatever their value.
LEMMA AtMatches ==
  ASSUME NEW k, NEW line
  PROVE  Matches(At(k), line) <=> line.key = k
BY DEF Matches, At

\* A part of a path with a key and a value matches the lines with both.
LEMMA ItemMatches ==
  ASSUME NEW k, NEW v, NEW line
  PROVE  Matches(Item(k, v), line) <=> line.key = k /\ line.value = << v >>
<1>1. Item(k, v).key = k /\ Item(k, v).value = << v >>
  BY DEF Item
<1>2. << v >> # << >>
  OBVIOUS
<1> QED BY <1>1, <1>2 DEF Matches

\* Two lists of one value are the same only if the values are.
LEMMA OneValue ==
  ASSUME NEW v, NEW w
  PROVE  << v >> = << w >> <=> v = w
OBVIOUS

\* The texts that the string is made of.
LEMMA SessionTyped ==
  ASSUME NEW T, NEW R, NEW session, session.results \in Seq(R), NEW i,
         Line(3, "SessionNum", i) \in T, Line(3, "SessionLaps", session.laps) \in T,
         Heading(3, "ResultsPositions") \in T,
         \A p \in 1 .. Len(session.results) :
           /\ Line(5, "Position", p) \in T
           /\ Line(5, "ClassPosition", session.results[p].classPosition) \in T
           /\ Line(5, "CarIdx", session.results[p].car) \in T
  PROVE  SessionLines(session, i) \in Seq(T)
<1> DEFINE list == [p \in DOMAIN session.results |-> ResultLines(session.results[p], p)]
           N == Len(session.results)
           head == <<Line(3, "SessionNum", i), Line(3, "SessionLaps", session.laps),
                     Heading(3, "ResultsPositions")>>
<1>1. N \in Nat /\ DOMAIN session.results = 1 .. N
  BY LenProperties
<1>2. ASSUME NEW p \in 1 .. N
      PROVE  list[p] \in Seq(T)
  <2>1. list[p] = ResultLines(session.results[p], p)
    BY <1>1
  <2> HIDE DEF list
  <2>2. ResultLines(session.results[p], p) \in Seq(T)
    <3> DEFINE a == Line(5, "Position", p)
               b == Line(5, "ClassPosition", session.results[p].classPosition)
               d == Line(5, "CarIdx", session.results[p].car)
    <3>1. a \in T /\ b \in T /\ d \in T
      OBVIOUS
    <3>2. ResultLines(session.results[p], p) = << a, b, d >>
      BY DEF ResultLines
    <3> HIDE DEF a, b, d
    <3>3. << a, b, d >> \in Seq(T)
      BY ONLY <3>1
    <3> QED BY <3>2, <3>3
  <2> QED BY <2>1, <2>2
<1>3. Concat(list, N) \in Seq(T)
  <2> HIDE DEF list, N
  <2> QED BY ONLY <1>1, <1>2, ConcatSeq
<1>4. head \in Seq(T)
  <2> DEFINE a == Line(3, "SessionNum", i)
             b == Line(3, "SessionLaps", session.laps)
             d == Heading(3, "ResultsPositions")
  <2>1. a \in T /\ b \in T /\ d \in T /\ head = << a, b, d >>
    OBVIOUS
  <2> HIDE DEF a, b, d, head
  <2> QED BY ONLY <2>1
<1>5. SessionLines(session, i) = head \o Concat(list, N)
  BY DEF SessionLines
<1> HIDE DEF head, list, N
<1> QED BY <1>3, <1>4, <1>5, ConcatProperties

\* The lines of a driver are a text.
LEMMA DriverTyped ==
  ASSUME NEW T, NEW driver, Line(3, "CarIdx", driver.car) \in T, Line(3, "CarNumber", driver.number) \in T,
         Line(3, "CarClassShortName", driver.class) \in T
  PROVE  DriverLines(driver) \in Seq(T)
<1> DEFINE a == Line(3, "CarIdx", driver.car)
           b == Line(3, "CarNumber", driver.number)
           d == Line(3, "CarClassShortName", driver.class)
<1>1. a \in T /\ b \in T /\ d \in T
  OBVIOUS
<1>2. DriverLines(driver) = << a, b, d >>
  BY DEF DriverLines
<1> HIDE DEF a, b, d
<1> QED BY ONLY <1>1, <1>2

\* The search is over: it stays as it is.
LEMMA ScanDone ==
  ASSUME NEW path, NEW T, NEW text \in Seq(T), NEW n, NEW d, NEW v
  PROVE  Scanned(path, Done(n, d, v), text, Done(n, d, v))
<1> DEFINE a == Done(n, d, v)
<1>1. \A line \in T : Read(path, a, line) = a
  BY ReadEnded
<1> HIDE DEF a
<1>2. Scanned(path, a, text, a)
  BY ONLY <1>1, text \in Seq(T), ScanSame
<1> QED BY <1>2 DEF a

\* The search goes past lines that are deep enough and not its next step.
LEMMA ScanOther ==
  ASSUME NEW path, NEW n, NEW d \in Nat, NEW T, NEW text \in Seq(T),
         \A line \in T : line.depth \in Nat /\ line.depth >= d /\ ~Matches(path[n], line)
  PROVE  Scanned(path, Seeks(n, d), text, Seeks(n, d))
<1> DEFINE a == Seeks(n, d)
<1>1. \A line \in T : Read(path, a, line) = a
  BY ReadOther
<1> HIDE DEF a
<1>2. Scanned(path, a, text, a)
  BY ONLY <1>1, text \in Seq(T), ScanSame
<1> QED BY <1>2 DEF a

\* The paths, step by step.
LEMMA PathJoin ==
  ASSUME NEW T, NEW s \in Seq(T), NEW t \in Seq(T)
  PROVE  /\ s \o t \in Seq(T) /\ Len(s \o t) = Len(s) + Len(t)
         /\ \A i \in 1 .. Len(s) : (s \o t)[i] = s[i]
         /\ \A i \in 1 .. Len(t) : (s \o t)[Len(s) + i] = t[i]
BY ConcatProperties

Result(path, n, p, k) ==
  /\ Len(path) = 6 /\ path[1] = At("SessionInfo") /\ path[2] = At("Sessions")
  /\ path[3] = Item("SessionNum", n) /\ path[4] = At("ResultsPositions")
  /\ path[5] = Item("Position", p) /\ path[6] = At(k)

\* The paths that getDataFromSessionInfo makes for the results name a session, a position
\* and a key.
LEMMA ResultPathIs ==
  ASSUME NEW n, NEW p, NEW k
  PROVE  Result(ResultPath(n, p) \o << At(k) >>, n, p, k)
<1> DEFINE a == At("SessionInfo")
           b == At("Sessions")
           d == Item("SessionNum", n)
           e == At("ResultsPositions")
           f == Item("Position", p)
           g == At(k)
           T == {a, b, d, e, f, g}
           s == << a, b, d >>
           t == << e, f >>
           u == << g >>
<1>1. ResultPath(n, p) = s \o t
  BY DEF ResultPath, SessionPath
<1> HIDE DEF a, b, d, e, f, g
<1>2. s \in Seq(T) /\ t \in Seq(T) /\ u \in Seq(T)
  OBVIOUS
<1>3. Len(s) = 3 /\ Len(t) = 2 /\ Len(u) = 1 /\ s[1] = a /\ s[2] = b /\ s[3] = d /\ t[1] = e /\ t[2] = f /\ u[1] = g
  OBVIOUS
<1> HIDE DEF s, t, u, T
<1> DEFINE v == s \o t
           w == v \o u
<1>4. /\ v \in Seq(T) /\ Len(v) = 5
      /\ \A i \in 1 .. 3 : v[i] = s[i]
      /\ \A i \in 1 .. 2 : v[3 + i] = t[i]
  BY <1>2, <1>3, PathJoin
<1> HIDE DEF v
<1>5. /\ Len(w) = 6
      /\ \A i \in 1 .. 5 : w[i] = v[i]
      /\ \A i \in 1 .. 1 : w[5 + i] = u[i]
  <2>0. v \in Seq(T) /\ u \in Seq(T)
    BY <1>2, <1>4
  <2>1. /\ Len(w) = Len(v) + Len(u)
        /\ \A i \in 1 .. Len(v) : w[i] = v[i]
        /\ \A i \in 1 .. Len(u) : w[Len(v) + i] = u[i]
    BY ONLY <2>0, PathJoin
  <2> HIDE DEF w
  <2>2. Len(w) = 5 + 1 /\ \A i \in 1 .. 1 : w[5 + i] = u[i]
    BY ONLY <1>3, <1>4, <2>1
  <2>3. \A i \in 1 .. 5 : w[i] = v[i]
    BY ONLY <1>4, <2>1
  <2> QED BY ONLY <2>2, <2>3
<1> HIDE DEF w
<1>6. v[1] = a /\ v[2] = b /\ v[3] = d /\ v[4] = e /\ v[5] = f
  <2>1. v[3 + 1] = t[1] /\ v[3 + 2] = t[2] /\ v[1] = s[1] /\ v[2] = s[2] /\ v[3] = s[3]
    BY <1>4
  <2>2. 3 + 1 = 4 /\ 3 + 2 = 5
    OBVIOUS
  <2> QED BY <1>3, <2>1, <2>2
<1>7. w[1] = a /\ w[2] = b /\ w[3] = d /\ w[4] = e /\ w[5] = f /\ w[6] = g
  <2>1. w[5 + 1] = u[1] /\ w[1] = v[1] /\ w[2] = v[2] /\ w[3] = v[3] /\ w[4] = v[4] /\ w[5] = v[5]
    BY <1>5
  <2> QED BY <1>3, <1>6, <2>1
<1>8. ResultPath(n, p) \o << At(k) >> = w
  BY <1>1 DEF w, v, u, g
<1> QED BY <1>5, <1>7, <1>8 DEF Result, a, b, d, e, f, g

ClassOfCar(path, car) ==
  /\ Len(path) = 4 /\ path[1] = At("DriverInfo") /\ path[2] = At("Drivers")
  /\ path[3] = Item("CarIdx", car) /\ path[4] = At("CarClassShortName")

\* The path it makes for the class of a car names that car.
LEMMA DriverPathIs ==
  ASSUME NEW car
  PROVE  ClassOfCar(DriverPath(car) \o << At("CarClassShortName") >>, car)
<1> DEFINE a == At("DriverInfo")
           b == At("Drivers")
           d == Item("CarIdx", car)
           e == At("CarClassShortName")
           T == {a, b, d, e}
           s == << a, b, d >>
           t == << e >>
           v == s \o t
<1>1. DriverPath(car) \o << At("CarClassShortName") >> = v
  BY DEF DriverPath
<1> HIDE DEF a, b, d, e
<1>2. s \in Seq(T) /\ t \in Seq(T)
  OBVIOUS
<1>3. Len(s) = 3 /\ Len(t) = 1 /\ s[1] = a /\ s[2] = b /\ s[3] = d /\ t[1] = e
  OBVIOUS
<1> HIDE DEF s, t, T
<1>4. /\ v \in Seq(T) /\ Len(v) = 4
      /\ \A i \in 1 .. 3 : v[i] = s[i]
      /\ \A i \in 1 .. 1 : v[3 + i] = t[i]
  <2>1. /\ v \in Seq(T) /\ Len(v) = Len(s) + Len(t)
        /\ \A i \in 1 .. Len(s) : v[i] = s[i]
        /\ \A i \in 1 .. Len(t) : v[Len(s) + i] = t[i]
    BY ONLY <1>2, PathJoin
  <2> HIDE DEF v
  <2>2. v \in Seq(T) /\ Len(v) = 3 + 1 /\ \A i \in 1 .. 1 : v[3 + i] = t[i]
    BY ONLY <1>3, <2>1
  <2>3. \A i \in 1 .. 3 : v[i] = s[i]
    BY ONLY <1>3, <2>1
  <2> QED BY ONLY <2>2, <2>3
<1> HIDE DEF v
<1>5. v[3 + 1] = t[1] /\ v[1] = s[1] /\ v[2] = s[2] /\ v[3] = s[3] /\ 3 + 1 = 4
  BY <1>4
<1>6. v[1] = a /\ v[2] = b /\ v[3] = d /\ v[4] = e
  BY <1>3, <1>5
<1> QED BY <1>1, <1>4, <1>6 DEF ClassOfCar, a, b, d, e

-------------------------------------------------------------------------------
(***************************************************************************)
(* Standings: the search for the car, or the class position, at a place of *)
(* the results.                                                            *)
(***************************************************************************)

Row == [car : Cars, classPosition : Nat]
SessionRow == [laps : {"unlimited"}, results : Seq(Row)]
Asked(r, k) == IF k = "CarIdx" THEN r.car ELSE r.classPosition

\* The results of a session, and the values its lines have.
LEMMA RowTypes ==
  ASSUME NEW session \in SessionRow
  PROVE  /\ session.results \in Seq(Row) /\ Len(session.results) \in Nat /\ session.laps \in Fields
         /\ DOMAIN session.results = 1 .. Len(session.results)
         /\ \A p \in 1 .. Len(session.results) :
              /\ session.results[p] \in Row
              /\ session.results[p].car \in Fields /\ session.results[p].classPosition \in Fields
<1>1. session.results \in Seq(Row) /\ session.laps = "unlimited"
  BY DEF SessionRow
<1>2. Len(session.results) \in Nat /\ DOMAIN session.results = 1 .. Len(session.results)
  BY <1>1, LenProperties
<1>3. ASSUME NEW p \in 1 .. Len(session.results)
      PROVE  /\ session.results[p] \in Row
             /\ session.results[p].car \in Fields /\ session.results[p].classPosition \in Fields
  <2> DEFINE r == session.results[p]
  <2>1. r \in Row
    BY <1>1, <1>3, ElementOfSeq
  <2> HIDE DEF r
  <2>2. r.car \in Nat /\ r.classPosition \in Nat
    <3>1. Cars \subseteq Nat
      BY StandingsAssumption, FS_CardinalityType
    <3> QED BY <2>1, <3>1 DEF Row
  <2> QED BY <2>1, <2>2 DEF Fields, r
<1> QED BY <1>1, <1>2, <1>3 DEF Fields

\* The lines of a session are a text.
LEMMA SessionLinesSeq ==
  ASSUME NEW session \in SessionRow, NEW i \in Nat
  PROVE  SessionLines(session, i) \in Seq(Written)
<1>1. /\ Line(3, "SessionNum", i) \in Written /\ Line(3, "SessionLaps", session.laps) \in Written
      /\ Heading(3, "ResultsPositions") \in Written
  <2>1. i \in Fields /\ session.laps \in Fields
    BY RowTypes DEF Fields
  <2> QED BY ONLY <2>1, LinesWritten, HeadingsWritten
<1>2. \A p \in 1 .. Len(session.results) :
           /\ Line(5, "Position", p) \in Written
           /\ Line(5, "ClassPosition", session.results[p].classPosition) \in Written
           /\ Line(5, "CarIdx", session.results[p].car) \in Written
  <2> TAKE p \in 1 .. Len(session.results)
  <2>1. p \in Fields
    BY RowTypes DEF Fields
  <2>2. session.results[p].car \in Fields /\ session.results[p].classPosition \in Fields
    BY RowTypes
  <2> QED BY ONLY <2>1, <2>2, LinesWritten
<1>3. session.results \in Seq(Row)
  BY RowTypes
<1> QED BY ONLY <1>1, <1>2, <1>3, SessionTyped

\* The sessions before the one of the path.
LEMMA EarlierSession ==
  ASSUME NEW path, NEW n, NEW p, NEW k, Result(path, n, p, k),
         NEW session \in SessionRow, NEW i \in Nat, i # n
  PROVE  Scanned(path, Seeks(3, 1), SessionLines(session, i), Seeks(3, 1))
<1> DEFINE T == {l \in Written : l.depth \in Nat /\ l.depth >= 1 /\ ~Matches(path[3], l)}
<1>1. \A l : Matches(path[3], l) <=> l.key = "SessionNum" /\ l.value = << n >>
  BY ItemMatches DEF Result
<1>2. Line(3, "SessionNum", i) \in T
  <2> DEFINE l == Line(3, "SessionNum", i)
  <2>1. l \in Written /\ l.depth = 3 /\ l.value = << i >>
    <3>1. i \in Fields
      BY DEF Fields
    <3> QED BY ONLY <3>1, LineIs, LinesWritten DEF l
  <2> HIDE DEF l
  <2>2. ~Matches(path[3], l)
    BY <1>1, <2>1, OneValue
  <2> QED BY <2>1, <2>2 DEF l
<1>3. ASSUME NEW d \in {3, 5}, NEW key, key # "SessionNum", NEW v, Line(d, key, v) \in Written
      PROVE  Line(d, key, v) \in T
  <2> DEFINE l == Line(d, key, v)
  <2>1. l.depth = d /\ l.key = key
    BY LineIs
  <2>2. l \in Written
    BY <1>3
  <2> HIDE DEF l
  <2>3. ~Matches(path[3], l)
    BY <1>1, <1>3, <2>1
  <2> QED BY <2>1, <2>2, <2>3 DEF l
<1>4. Heading(3, "ResultsPositions") \in T
  <2> DEFINE l == Heading(3, "ResultsPositions")
  <2>1. l \in Written /\ l.depth = 3 /\ l.key = "ResultsPositions"
    BY ONLY HeadingIs, HeadingsWritten DEF l
  <2> HIDE DEF l
  <2>2. ~Matches(path[3], l)
    BY <1>1, <2>1
  <2> QED BY <2>1, <2>2 DEF l
<1>5. \A line \in T : line.depth \in Nat /\ line.depth >= 1 /\ ~Matches(path[3], line)
  OBVIOUS
<1> HIDE DEF T
<1>6. SessionLines(session, i) \in Seq(T)
  <2>1. Line(3, "SessionLaps", session.laps) \in T
    <3>1. Line(3, "SessionLaps", session.laps) \in Written
      BY RowTypes, LinesWritten
    <3> QED BY <1>3, <3>1
  <2>2. \A q \in 1 .. Len(session.results) :
           /\ Line(5, "Position", q) \in T
           /\ Line(5, "ClassPosition", session.results[q].classPosition) \in T
           /\ Line(5, "CarIdx", session.results[q].car) \in T
    <3> TAKE q \in 1 .. Len(session.results)
    <3>1. q \in Fields
      BY RowTypes DEF Fields
    <3>2. session.results[q].car \in Fields /\ session.results[q].classPosition \in Fields
      BY RowTypes
    <3>3. /\ Line(5, "Position", q) \in Written
          /\ Line(5, "ClassPosition", session.results[q].classPosition) \in Written
          /\ Line(5, "CarIdx", session.results[q].car) \in Written
      BY ONLY <3>1, <3>2, LinesWritten
    <3>4. 5 \in {3, 5} /\ "Position" # "SessionNum" /\ "ClassPosition" # "SessionNum" /\ "CarIdx" # "SessionNum"
      OBVIOUS
    <3> QED BY ONLY <1>3, <3>3, <3>4
  <2>3. session.results \in Seq(Row)
    BY RowTypes
  <2> QED BY ONLY <1>2, <1>4, <2>1, <2>2, <2>3, SessionTyped
<1> QED BY ONLY <1>5, <1>6, 1 \in Nat, ScanOther

\* A place before the one of the path, and the place itself.
LEMMA OtherPlace ==
  ASSUME NEW path, NEW n, NEW p, NEW k, Result(path, n, p, k), NEW r \in Row, NEW q \in Nat, q # p
  PROVE  Scanned(path, Seeks(5, 3), ResultLines(r, q), Seeks(5, 3))
<1> DEFINE a == Line(5, "Position", q)
           b == Line(5, "ClassPosition", r.classPosition)
           d == Line(5, "CarIdx", r.car)
           s == Seeks(5, 3)
           T == {a, b, d}
<1>1. /\ a.depth = 5 /\ a.key = "Position" /\ a.value = << q >>
      /\ b.depth = 5 /\ b.key = "ClassPosition" /\ d.depth = 5 /\ d.key = "CarIdx"
  BY LineIs
<1>2. ResultLines(r, q) = << a, b, d >>
  BY DEF ResultLines
<1> HIDE DEF a, b, d
<1>3. \A l : Matches(path[5], l) <=> l.key = "Position" /\ l.value = << p >>
  BY ItemMatches DEF Result
<1>4. \A l \in T : l.depth \in Nat /\ l.depth >= 3 /\ ~Matches(path[5], l)
  BY <1>1, <1>3, OneValue
<1>5. << a, b, d >> \in Seq(T)
  OBVIOUS
<1> HIDE DEF T
<1>6. Scanned(path, Seeks(5, 3), << a, b, d >>, Seeks(5, 3))
  BY ONLY <1>4, <1>5, 3 \in Nat, ScanOther
<1> QED BY <1>2, <1>6

\* Within the lines of the position that is asked for, the search finds the value that
\* is asked for.
LEMMA ThePlace ==
  ASSUME NEW path, NEW n, NEW p \in Nat, NEW k \in {"CarIdx", "ClassPosition"}, Result(path, n, p, k),
         NEW r \in Row
  PROVE  Scanned(path, Seeks(5, 3), ResultLines(r, p), Done(6, 5, << Asked(r, k) >>))
<1> DEFINE a == Line(5, "Position", p)
           b == Line(5, "ClassPosition", r.classPosition)
           d == Line(5, "CarIdx", r.car)
           s == Seeks(5, 3)
           m == Seeks(6, 5)
           e == Done(6, 5, << Asked(r, k) >>)
           T == {a, b, d}
<1>1. /\ a.depth = 5 /\ a.key = "Position" /\ a.value = << p >>
      /\ b.depth = 5 /\ b.key = "ClassPosition" /\ b.value = << r.classPosition >>
      /\ d.depth = 5 /\ d.key = "CarIdx" /\ d.value = << r.car >>
  BY LineIs
<1>2. ResultLines(r, p) = << a, b, d >>
  BY DEF ResultLines
<1> HIDE DEF a, b, d
<1>3. /\ Len(path) = 6 /\ Matches(path[5], a)
      /\ \A l : Matches(path[6], l) <=> l.key = k
  BY <1>1, ItemMatches, AtMatches DEF Result
<1>4. Read(path, s, a) = m
  <2>1. 5 \in Nat /\ 3 \in Nat /\ a.depth \in Nat /\ a.depth >= 3 /\ 5 # Len(path) /\ 5 + 1 = 6
    BY <1>1, <1>3
  <2>2. Read(path, Seeks(5, 3), a) = Seeks(5 + 1, a.depth)
    BY ONLY <1>3, <2>1, ReadStep
  <2> QED BY <1>1, <2>1, <2>2
<1>5. 6 \in Nat /\ 5 \in Nat /\ b.depth \in Nat /\ b.depth >= 5 /\ d.depth \in Nat /\ d.depth >= 5
  BY <1>1
<1>6. CASE k = "ClassPosition"
  <2>1. Read(path, m, b) = Done(6, 5, b.value)
    <3>1. Matches(path[6], b) /\ 6 = Len(path)
      BY <1>1, <1>3, <1>6
    <3> DEFINE x == 6
               y == 5
    <3>2. x \in Nat /\ y \in Nat /\ b.depth \in Nat /\ b.depth >= y /\ Matches(path[x], b) /\ x = Len(path)
      BY <1>5, <3>1
    <3> HIDE DEF x, y
    <3>3. Read(path, Seeks(x, y), b) = Done(x, y, b.value)
      BY ONLY <3>2, ReadLast
    <3> QED BY ONLY <3>3 DEF m, x, y
  <2>2. Read(path, m, b) = e
    BY <1>1, <1>6, <2>1 DEF Asked
  <2>3. Read(path, e, d) = e
    BY ReadEnded
  <2> HIDE DEF s, m, e
  <2>4. Scanned(path, s, << a, b, d >>, e)
    <3>1. a \in T /\ b \in T /\ d \in T
      OBVIOUS
    <3> HIDE DEF T
    <3> QED BY ONLY <1>4, <2>2, <2>3, <3>1, ScanThree
  <2> QED BY <1>2, <2>4 DEF s, e
<1>7. CASE k = "CarIdx"
  <2>1. Read(path, m, b) = m
    <3>1. ~Matches(path[6], b)
      BY <1>1, <1>3, <1>7
    <3> QED BY ONLY <1>5, <3>1, ReadOther DEF m
  <2>2. Read(path, m, d) = Done(6, 5, d.value)
    <3>1. Matches(path[6], d) /\ 6 = Len(path)
      BY <1>1, <1>3, <1>7
    <3> DEFINE x == 6
               y == 5
    <3>2. x \in Nat /\ y \in Nat /\ d.depth \in Nat /\ d.depth >= y /\ Matches(path[x], d) /\ x = Len(path)
      BY <1>5, <3>1
    <3> HIDE DEF x, y
    <3>3. Read(path, Seeks(x, y), d) = Done(x, y, d.value)
      BY ONLY <3>2, ReadLast
    <3> QED BY ONLY <3>3 DEF m, x, y
  <2>3. Read(path, m, d) = e
    BY <1>1, <1>7, <2>2 DEF Asked
  <2> HIDE DEF s, m, e
  <2>4. Scanned(path, s, << a, b, d >>, e)
    <3>1. a \in T /\ b \in T /\ d \in T
      OBVIOUS
    <3> HIDE DEF T
    <3> QED BY ONLY <1>4, <2>1, <2>3, <3>1, ScanThree
  <2> QED BY <1>2, <2>4 DEF s, e
<1> QED BY <1>6, <1>7

\* The lines of one position are a text.
LEMMA ResultLinesSeq ==
  ASSUME NEW r \in Row, NEW q \in Nat
  PROVE  ResultLines(r, q) \in Seq(Written)
<1> DEFINE a == Line(5, "Position", q)
           b == Line(5, "ClassPosition", r.classPosition)
           d == Line(5, "CarIdx", r.car)
<1>1. Cars \subseteq Nat
  BY StandingsAssumption, FS_CardinalityType
<1>2. r.car \in Fields /\ r.classPosition \in Fields /\ q \in Fields
  BY <1>1 DEF Row, Fields
<1>3. a \in Written /\ b \in Written /\ d \in Written
  BY ONLY <1>2, LinesWritten
<1>4. ResultLines(r, q) = << a, b, d >>
  BY DEF ResultLines
<1> HIDE DEF a, b, d
<1>5. << a, b, d >> \in Seq(Written)
  BY ONLY <1>3
<1> QED BY <1>4, <1>5

\* The places of the session of the path.
LEMMA PlacesScanned ==
  ASSUME NEW path, NEW n, NEW p \in Nat, NEW k \in {"CarIdx", "ClassPosition"}, Result(path, n, p, k),
         NEW session \in SessionRow, p # 0, NEW N, N = Len(session.results), NEW list,
         list = [q \in DOMAIN session.results |-> ResultLines(session.results[q], q)]
  PROVE  Scanned(path, Seeks(5, 3), Concat(list, N),
                 IF p <= N THEN Done(6, 5, << Asked(session.results[p], k) >>) ELSE Seeks(5, 3))
<1> DEFINE s == Seeks(5, 3)
           e == Done(6, 5, << Asked(session.results[p], k) >>)
           g == [q \in 0 .. N |-> IF q < p THEN s ELSE e]
<1>1. /\ N \in Nat /\ DOMAIN session.results = 1 .. N
      /\ \A q \in 1 .. N : session.results[q] \in Row /\ list[q] = ResultLines(session.results[q], q)
  BY RowTypes
<1>2. \A q \in 1 .. N : list[q] \in Seq(Written)
  BY <1>1, ResultLinesSeq, SMTT(30)
<1>3. ASSUME NEW q \in 1 .. N
      PROVE  Scanned(path, g[q - 1], list[q], g[q])
  <2>1. q \in Nat /\ q \in 0 .. N /\ q - 1 \in 0 .. N /\ session.results[q] \in Row
        /\ list[q] = ResultLines(session.results[q], q)
    <3>1. q \in Nat /\ q \in 0 .. N /\ q - 1 \in 0 .. N
      BY ONLY <1>1, q \in 1 .. N
    <3> QED BY <1>1, <3>1
  <2>2. g[q] = (IF q < p THEN s ELSE e) /\ g[q - 1] = IF q - 1 < p THEN s ELSE e
    BY <2>1
  <2>3. CASE q < p
    <3>1. q # p /\ g[q] = s /\ g[q - 1] = s
      BY <2>1, <2>2, <2>3
    <3>2. Scanned(path, Seeks(5, 3), ResultLines(session.results[q], q), Seeks(5, 3))
      BY ONLY Result(path, n, p, k), <2>1, <3>1, OtherPlace
    <3> QED BY <2>1, <3>1, <3>2
  <2>4. CASE q = p
    <3>1. g[q] = e /\ g[q - 1] = s
      BY <2>1, <2>2, <2>4
    <3>2. session.results[p] \in Row
      BY <2>1, <2>4
    <3>3. Scanned(path, Seeks(5, 3), ResultLines(session.results[p], p),
                  Done(6, 5, << Asked(session.results[p], k) >>))
      BY ONLY Result(path, n, p, k), k \in {"CarIdx", "ClassPosition"}, p \in Nat, <3>2, ThePlace
    <3> QED BY <2>1, <2>4, <3>1, <3>3
  <2>5. CASE q > p
    <3>1. g[q] = e /\ g[q - 1] = e
      BY <2>1, <2>2, <2>5
    <3>2. Scanned(path, e, list[q], e)
      BY <1>2, ScanDone
    <3> QED BY <3>1, <3>2
  <2> QED BY <2>1, <2>3, <2>4, <2>5
<1>4. 0 \in 0 .. N /\ N \in 0 .. N /\ 0 < p
  BY <1>1
<1>5. g[0] = s /\ g[N] = IF p <= N THEN e ELSE s
  BY <1>1, <1>4
<1> HIDE DEF g, s, e
<1>6. Scanned(path, g[0], Concat(list, N), g[N])
  BY ONLY <1>1, <1>2, <1>3, ScanConcat
<1> QED BY <1>5, <1>6 DEF s, e

\* The session of the path.
LEMMA TheSession ==
  ASSUME NEW path, NEW n \in Nat, NEW p \in Nat, NEW k \in {"CarIdx", "ClassPosition"},
         Result(path, n, p, k), NEW session \in SessionRow, p # 0
  PROVE  Scanned(path, Seeks(3, 1), SessionLines(session, n),
                 IF p <= Len(session.results)
                 THEN Done(6, 5, << Asked(session.results[p], k) >>) ELSE Seeks(5, 3))
<1> DEFINE a == Line(3, "SessionNum", n)
           b == Line(3, "SessionLaps", session.laps)
           d == Heading(3, "ResultsPositions")
           list == [q \in DOMAIN session.results |-> ResultLines(session.results[q], q)]
           N == Len(session.results)
           z == IF p <= Len(session.results)
                THEN Done(6, 5, << Asked(session.results[p], k) >>) ELSE Seeks(5, 3)
           head == << a, b, d >>
<1>1. /\ a.depth = 3 /\ a.key = "SessionNum" /\ a.value = << n >>
      /\ b.depth = 3 /\ b.key = "SessionLaps" /\ d.depth = 3 /\ d.key = "ResultsPositions"
  BY LineIs, HeadingIs
<1>2. SessionLines(session, n) = head \o Concat(list, N)
  BY DEF SessionLines
<1>3. a \in Written /\ b \in Written /\ d \in Written
  <2>1. n \in Fields /\ session.laps \in Fields
    BY RowTypes DEF Fields
  <2> QED BY ONLY <2>1, LinesWritten, HeadingsWritten
<1>4. Scanned(path, Seeks(5, 3), Concat(list, N), z)
  BY PlacesScanned
<1>5. N \in Nat /\ \A q \in 1 .. N : list[q] \in Seq(Written)
  <2>1. N \in Nat /\ DOMAIN session.results = 1 .. N
    BY RowTypes
  <2>2. ASSUME NEW q \in 1 .. N
        PROVE  list[q] \in Seq(Written)
    <3>1. list[q] = ResultLines(session.results[q], q) /\ session.results[q] \in Row
      BY <2>1, RowTypes
    <3> QED BY <3>1, ResultLinesSeq
  <2> HIDE DEF list
  <2> QED BY <2>1, <2>2
<1> HIDE DEF a, b, d, list, N, z
<1>6. Concat(list, N) \in Seq(Written)
  BY ONLY <1>5, ConcatSeq
<1>7. Scanned(path, Seeks(3, 1), << a, b, d >>, Seeks(5, 3)) /\ << a, b, d >> \in Seq(Written)
  <2>1. /\ Len(path) = 6 /\ Matches(path[3], a) /\ Matches(path[4], d) /\ ~Matches(path[4], b)
    BY <1>1, ItemMatches, AtMatches DEF Result
  <2>2. /\ 3 \in Nat /\ 1 \in Nat /\ 4 \in Nat /\ 5 \in Nat /\ 3 >= 1 /\ 3 >= 3 /\ 4 = 3 + 1 /\ 5 = 4 + 1
        /\ 3 # Len(path) /\ 4 # Len(path) /\ b.depth \in Nat /\ b.depth >= 3
    BY <1>1, <2>1
  <2>3. Read(path, Seeks(3, 1), a) = Seeks(4, 3)
    BY ONLY <1>1, <2>1, <2>2, ReadNext
  <2>4. Read(path, Seeks(4, 3), b) = Seeks(4, 3)
    BY ONLY <1>1, <2>1, <2>2, ReadOther
  <2>5. Read(path, Seeks(4, 3), d) = Seeks(5, 3)
    BY ONLY <1>1, <2>1, <2>2, ReadNext
  <2> QED BY ONLY <1>3, <2>3, <2>4, <2>5, ScanThree
<1> HIDE DEF head
<1>8. Scanned(path, Seeks(3, 1), head \o Concat(list, N), z)
  <2>1. head \in Seq(Written) /\ Scanned(path, Seeks(3, 1), head, Seeks(5, 3))
    BY <1>7 DEF head
  <2> QED BY ONLY <1>4, <1>6, <2>1, ScanAppend
<1> QED BY <1>2, <1>8 DEF z

\* A session after it, which has no results yet.
LEMMA LaterSession ==
  ASSUME NEW path, NEW n, NEW p, NEW k, Result(path, n, p, k), NEW session \in SessionRow,
         session.results = << >>, NEW i \in Nat
  PROVE  Scanned(path, Seeks(5, 3), SessionLines(session, i), Seeks(5, 3))
<1> DEFINE a == Line(3, "SessionNum", i)
           b == Line(3, "SessionLaps", session.laps)
           d == Heading(3, "ResultsPositions")
           T == {a, b, d}
<1>1. a.depth = 3 /\ a.key = "SessionNum" /\ b.depth = 3 /\ b.key = "SessionLaps"
      /\ d.depth = 3 /\ d.key = "ResultsPositions"
  BY LineIs, HeadingIs
<1>2. \A l : Matches(path[5], l) <=> l.key = "Position" /\ l.value = << p >>
  BY ItemMatches DEF Result
<1>3. a \in T /\ b \in T /\ d \in T
  OBVIOUS
<1>4. SessionLines(session, i) \in Seq(T)
  <2> HIDE DEF T
  <2>1. session.results \in Seq(Row)
    BY RowTypes
  <2>2. \A q \in 1 .. Len(session.results) : FALSE
    OBVIOUS
  <2> QED BY ONLY <1>3, <2>1, <2>2, SessionTyped DEF a, b, d
<1> HIDE DEF a, b, d
<1>5. \A l \in T : l.depth \in Nat /\ l.depth >= 3 /\ ~Matches(path[5], l)
  BY <1>1, <1>2
<1> HIDE DEF T
<1> QED BY ONLY <1>4, <1>5, 3 \in Nat, ScanOther

-------------------------------------------------------------------------------
(***************************************************************************)
(* Standings: the whole string, the sessions and then the drivers.         *)
(***************************************************************************)

DriverRow == [car : Cars, number : Cars, class : {ClassOf[c] : c \in Cars}]

SessionsText(list) == Concat([n \in DOMAIN list |-> SessionLines(list[n], n)], Len(list))
DriversText(list) == Concat([d \in DOMAIN list |-> DriverLines(list[d])], Len(list))

\* The values that a driver's lines have.
LEMMA DriverValues ==
  ASSUME NEW driver \in DriverRow
  PROVE  driver.car \in Fields /\ driver.number \in Fields /\ driver.class \in Fields /\ driver.car \in Cars
<1>1. Cars \subseteq Nat
  BY StandingsAssumption, FS_CardinalityType
<1> QED BY <1>1 DEF DriverRow, Fields

\* The lines of a driver are a text.
LEMMA DriverLinesSeq ==
  ASSUME NEW driver \in DriverRow
  PROVE  DriverLines(driver) \in Seq(Written)
<1>1. /\ Line(3, "CarIdx", driver.car) \in Written /\ Line(3, "CarNumber", driver.number) \in Written
      /\ Line(3, "CarClassShortName", driver.class) \in Written
  BY ONLY driver \in DriverRow, DriverValues, LinesWritten
<1> QED BY ONLY <1>1, DriverTyped

\* The lines of the sessions, and those of the drivers, are texts.
LEMMA ListTexts ==
  ASSUME NEW M \in Nat, NEW list \in [1 .. M -> SessionRow], NEW drivers \in Seq(DriverRow)
  PROVE  /\ Len(list) = M /\ DOMAIN list = 1 .. M
         /\ \A n \in 1 .. M : [i \in DOMAIN list |-> SessionLines(list[i], i)][n] = SessionLines(list[n], n)
         /\ SessionsText(list) \in Seq(Written) /\ DriversText(drivers) \in Seq(Written)
         /\ Len(drivers) \in Nat /\ DOMAIN drivers = 1 .. Len(drivers)
<1> DEFINE f == [n \in DOMAIN list |-> SessionLines(list[n], n)]
           g == [d \in DOMAIN drivers |-> DriverLines(drivers[d])]
           N == Len(drivers)
<1>1. Len(list) = M /\ DOMAIN list = 1 .. M
  <2>1. list \in Seq(SessionRow)
    BY SeqDef
  <2>2. DOMAIN list = 1 .. M
    OBVIOUS
  <2> QED BY ONLY <2>1, <2>2, M \in Nat, LenProperties
<1>2. \A n \in 1 .. M : f[n] = SessionLines(list[n], n)
  BY <1>1
<1>3. \A n \in 1 .. M : f[n] \in Seq(Written)
  BY <1>2, SessionLinesSeq
<1>4. N \in Nat /\ DOMAIN drivers = 1 .. N /\ \A d \in 1 .. N : drivers[d] \in DriverRow
  BY LenProperties, ElementOfSeq
<1>5. \A d \in 1 .. N : g[d] \in Seq(Written)
  BY <1>4, DriverLinesSeq
<1> HIDE DEF f, g
<1>6. Concat(f, M) \in Seq(Written)
  BY ONLY <1>3, M \in Nat, ConcatSeq
<1> HIDE DEF N
<1>7. Concat(g, N) \in Seq(Written)
  BY ONLY <1>4, <1>5, ConcatSeq
<1> QED BY <1>1, <1>2, <1>4, <1>6, <1>7 DEF SessionsText, DriversText, f, g, N

\* The search goes through its four parts.
LEMMA TextScanned ==
  ASSUME NEW me \in Fields, NEW M \in Nat, NEW list \in [1 .. M -> SessionRow],
         NEW drivers \in Seq(DriverRow), NEW path, NEW a, NEW b, NEW d, NEW e,
         Scanned(path, Begin, << Heading(0, "SessionInfo"), Heading(1, "Sessions") >>, a),
         Scanned(path, a, SessionsText(list), b),
         Scanned(path, b, << Heading(0, "DriverInfo"), Line(1, "DriverCarIdx", me), Heading(1, "Drivers") >>, d),
         Scanned(path, d, DriversText(drivers), e)
  PROVE  parseYaml(Text(me, drivers, list), path) = e.found
<1> DEFINE p == << Heading(0, "SessionInfo"), Heading(1, "Sessions") >>
           q == SessionsText(list)
           r == << Heading(0, "DriverInfo"), Line(1, "DriverCarIdx", me), Heading(1, "Drivers") >>
           t == DriversText(drivers)
<1>1. Text(me, drivers, list) = p \o q \o r \o t
  BY DEF Text, SessionsText, DriversText
<1>2. p \in Seq(Written) /\ r \in Seq(Written)
  <2> DEFINE h == Heading(0, "SessionInfo")
             i == Heading(1, "Sessions")
             j == Heading(0, "DriverInfo")
             k == Line(1, "DriverCarIdx", me)
             l == Heading(1, "Drivers")
  <2>1. h \in Written /\ i \in Written /\ j \in Written /\ k \in Written /\ l \in Written
    BY LinesWritten, HeadingsWritten
  <2> HIDE DEF h, i, j, k, l
  <2>2. << h, i >> \in Seq(Written) /\ << j, k, l >> \in Seq(Written)
    BY ONLY <2>1
  <2> QED BY <2>2 DEF h, i, j, k, l
<1>3. q \in Seq(Written) /\ t \in Seq(Written)
  BY ListTexts
<1>4. Scanned(path, Begin, p, a) /\ Scanned(path, a, q, b) /\ Scanned(path, b, r, d) /\ Scanned(path, d, t, e)
  OBVIOUS
<1> HIDE DEF p, q, r, t
<1>5. Scanned(path, Begin, p \o q, b) /\ p \o q \in Seq(Written)
  BY ONLY <1>2, <1>3, <1>4, ScanAppend, ConcatProperties
<1>6. Scanned(path, Begin, (p \o q) \o r, d) /\ (p \o q) \o r \in Seq(Written)
  BY ONLY <1>2, <1>4, <1>5, ScanAppend, ConcatProperties
<1>7. Scanned(path, Begin, ((p \o q) \o r) \o t, e) /\ ((p \o q) \o r) \o t \in Seq(Written)
  BY ONLY <1>3, <1>4, <1>6, ScanAppend, ConcatProperties
<1> DEFINE all == p \o q \o r \o t
<1>8. Scanned(path, Begin, all, e) /\ all \in Seq(Written)
  BY <1>7
<1> HIDE DEF all
<1>9. parseYaml(all, path) = e.found
  BY ONLY <1>8, ScanIs
<1> QED BY <1>1, <1>9 DEF all

\* The search starts.
LEMMA BeginSeeks == Begin = Seeks(1, 0)
BY DEF Begin, Seeks

\* What a search that has ended has found.
LEMMA DoneFound ==
  ASSUME NEW n, NEW d, NEW v
  PROVE  Done(n, d, v).found = v
BY DEF Done

\* The path of a result in the sessions.
LEMMA SessionsScanned ==
  ASSUME NEW path, NEW M \in Nat, NEW list \in [1 .. M -> SessionRow], NEW n \in 1 .. M,
         \A i \in n + 1 .. M : list[i].results = << >>,
         NEW p \in Nat, NEW k \in {"CarIdx", "ClassPosition"}, Result(path, n, p, k), p # 0
  PROVE  Scanned(path, Seeks(3, 1), SessionsText(list),
                 IF p <= Len(list[n].results)
                 THEN Done(6, 5, << Asked(list[n].results[p], k) >>) ELSE Seeks(5, 3))
<1> DEFINE f == [i \in DOMAIN list |-> SessionLines(list[i], i)]
           s == Seeks(3, 1)
           e == Done(6, 5, << Asked(list[n].results[p], k) >>)
           o == Seeks(5, 3)
           z == IF p <= Len(list[n].results) THEN e ELSE o
           g == [i \in 0 .. M |-> IF i < n THEN s ELSE z]
<1>1. Len(list) = M /\ \A i \in 1 .. M : f[i] = SessionLines(list[i], i) /\ list[i] \in SessionRow
  <2>1. << >> \in Seq(DriverRow)
    OBVIOUS
  <2>2. \A i \in 1 .. M : list[i] \in SessionRow
    OBVIOUS
  <2> QED BY <2>1, <2>2, ListTexts
<1>2. SessionsText(list) = Concat(f, M)
  BY <1>1 DEF SessionsText
<1>3. \A i \in 1 .. M : f[i] \in Seq(Written)
  BY <1>1, SessionLinesSeq
<1>4. n \in Nat /\ n \in 1 .. M /\ 0 \in 0 .. M /\ M \in 0 .. M /\ 0 < n /\ ~(M < n)
  OBVIOUS
<1> HIDE DEF f
<1>5. ASSUME NEW i \in 1 .. M
      PROVE  Scanned(path, g[i - 1], f[i], g[i])
  <2>1. i \in Nat /\ i \in 0 .. M /\ i - 1 \in 0 .. M
    BY ONLY i \in 1 .. M, M \in Nat
  <2>2. g[i] = (IF i < n THEN s ELSE z) /\ g[i - 1] = IF i - 1 < n THEN s ELSE z
    BY <2>1
  <2>3. CASE i < n
    <3>1. i # n /\ i - 1 < n
      BY ONLY <1>4, <2>1, <2>3
    <3>2. list[i] \in SessionRow
      BY <1>1
    <3>3. Scanned(path, s, SessionLines(list[i], i), s)
      BY ONLY Result(path, n, p, k), <2>1, <3>1, <3>2, EarlierSession
    <3> QED BY <1>1, <2>2, <2>3, <3>1, <3>3
  <2>4. CASE i = n
    <3>1. ~(i < n) /\ i - 1 < n
      BY ONLY <1>4, <2>1, <2>4
    <3>2. list[n] \in SessionRow
      BY <1>1, <1>4
    <3>3. Scanned(path, s, SessionLines(list[n], n), z)
      BY ONLY Result(path, n, p, k), p \in Nat, p # 0, k \in {"CarIdx", "ClassPosition"}, <1>4, <3>2, TheSession
    <3> QED BY <1>1, <2>2, <2>4, <3>1, <3>3
  <2>5. CASE i > n
    <3>1. ~(i < n) /\ ~(i - 1 < n) /\ i \in n + 1 .. M
      BY ONLY <1>4, <2>1, <2>5, i \in 1 .. M, M \in Nat
    <3>2. list[i] \in SessionRow /\ list[i].results = << >>
      BY <1>1, <3>1
    <3>3. Scanned(path, o, SessionLines(list[i], i), o)
      BY ONLY Result(path, n, p, k), <2>1, <3>2, LaterSession
    <3>4. Scanned(path, e, f[i], e)
      BY <1>3, ScanDone
    <3> HIDE DEF e, o
    <3>5. Scanned(path, z, f[i], z)
      BY <1>1, <3>3, <3>4
    <3> QED BY <2>2, <3>1, <3>5
  <2> QED BY <1>4, <2>1, <2>3, <2>4, <2>5
<1>6. g[0] = s /\ g[M] = z
  BY <1>4
<1> HIDE DEF g
<1>7. Scanned(path, g[0], Concat(f, M), g[M])
  BY ONLY <1>3, <1>5, M \in Nat, ScanConcat
<1> HIDE DEF z, s
<1>8. Scanned(path, s, SessionsText(list), z)
  BY <1>2, <1>6, <1>7
<1> QED BY <1>8 DEF z, s

\* The parser finds the car, or the class position, at a place of the session's results.
LEMMA ResultFound ==
  ASSUME NEW me \in Fields, NEW M \in Nat, NEW list \in [1 .. M -> SessionRow], NEW drivers \in Seq(DriverRow),
         NEW n \in 1 .. M, \A i \in n + 1 .. M : list[i].results = << >>,
         NEW p \in Nat, p # 0, NEW k \in {"CarIdx", "ClassPosition"}
  PROVE  parseYaml(Text(me, drivers, list), ResultPath(n, p) \o << At(k) >>)
           = IF p <= Len(list[n].results) THEN << Asked(list[n].results[p], k) >> ELSE << >>
<1> DEFINE path == ResultPath(n, p) \o << At(k) >>
           v == << Asked(list[n].results[p], k) >>
           z == IF p <= Len(list[n].results) THEN Done(6, 5, v) ELSE Seeks(5, 3)
           y == IF p <= Len(list[n].results) THEN Done(6, 5, v) ELSE Done(5, 3, << >>)
           a == Heading(0, "DriverInfo")
           b == Line(1, "DriverCarIdx", me)
           d == Heading(1, "Drivers")
<1>1. Result(path, n, p, k)
  BY ResultPathIs
<1> HIDE DEF path
<1>2. Scanned(path, Begin, << Heading(0, "SessionInfo"), Heading(1, "Sessions") >>, Seeks(3, 1))
  <2> DEFINE l == Heading(0, "SessionInfo")
             m == Heading(1, "Sessions")
             T == {l, m}
  <2>1. l.depth = 0 /\ l.key = "SessionInfo" /\ m.depth = 1 /\ m.key = "Sessions" /\ l \in T /\ m \in T
    BY HeadingIs
  <2> HIDE DEF l, m, T
  <2>2. Len(path) = 6 /\ Matches(path[1], l) /\ Matches(path[2], m)
    BY <1>1, <2>1, AtMatches DEF Result
  <2>3. /\ 1 \in Nat /\ 2 \in Nat /\ 0 \in Nat /\ 0 >= 0 /\ 1 >= 0 /\ 2 = 1 + 1 /\ 3 = 2 + 1
        /\ 1 # Len(path) /\ 2 # Len(path)
    BY <2>2
  <2>4. Read(path, Seeks(1, 0), l) = Seeks(2, 0)
    BY ONLY <2>1, <2>2, <2>3, ReadNext
  <2>5. Read(path, Seeks(2, 0), m) = Seeks(3, 1)
    BY ONLY <2>1, <2>2, <2>3, ReadNext, SMTT(30)
  <2>6. Read(path, Begin, l) = Seeks(2, 0)
    BY <2>4, BeginSeeks
  <2>7. Scanned(path, Begin, << l, m >>, Seeks(3, 1))
    BY ONLY <2>1, <2>5, <2>6, ScanTwo
  <2> QED BY <2>7 DEF l, m
<1>3. Scanned(path, Seeks(3, 1), SessionsText(list), z)
  BY ONLY <1>1, M \in Nat, list \in [1 .. M -> SessionRow], n \in 1 .. M, p \in Nat, p # 0,
          \A i \in n + 1 .. M : list[i].results = << >>, k \in {"CarIdx", "ClassPosition"}, SessionsScanned
<1>4. a.depth = 0 /\ a \in Written /\ b \in Written /\ d \in Written
  BY HeadingIs, HeadingsWritten, LinesWritten
<1>5. << a, b, d >> \in Seq(Written)
  <2> HIDE DEF a, b, d
  <2> QED BY ONLY <1>4
<1>6. Scanned(path, z, << a, b, d >>, y)
  <2> HIDE DEF a, b, d, v
  <2>1. CASE p <= Len(list[n].results)
    <3>1. Scanned(path, Done(6, 5, v), << a, b, d >>, Done(6, 5, v))
      BY ONLY <1>5, ScanDone
    <3> QED BY <2>1, <3>1
  <2>2. CASE ~(p <= Len(list[n].results))
    <3> DEFINE e == Done(5, 3, << >>)
    <3>1. Read(path, Seeks(5, 3), a) = e
      <4>1. 3 \in Nat /\ a.depth \in Nat /\ a.depth < 3
        BY <1>4
      <4> QED BY ONLY <4>1, ReadShallow
    <3>2. Read(path, e, b) = e /\ Read(path, e, d) = e
      BY ReadEnded
    <3> HIDE DEF e
    <3>3. Scanned(path, Seeks(5, 3), << a, b, d >>, e)
      BY ONLY <1>4, <3>1, <3>2, ScanThree
    <3> QED BY <2>2, <3>3 DEF e
  <2> QED BY <2>1, <2>2
<1>7. Scanned(path, y, DriversText(drivers), y)
  <2>1. DriversText(drivers) \in Seq(Written)
    BY ListTexts
  <2> HIDE DEF v
  <2>2. /\ Scanned(path, Done(6, 5, v), DriversText(drivers), Done(6, 5, v))
        /\ Scanned(path, Done(5, 3, << >>), DriversText(drivers), Done(5, 3, << >>))
    BY ONLY <2>1, ScanDone
  <2> QED BY <2>2
<1>8. y.found = IF p <= Len(list[n].results) THEN v ELSE << >>
  <2> HIDE DEF v
  <2> QED BY DoneFound
<1> HIDE DEF y, z, v
<1>9. parseYaml(Text(me, drivers, list), path) = y.found
  BY ONLY <1>2, <1>3, <1>6, <1>7, me \in Fields, M \in Nat, list \in [1 .. M -> SessionRow],
          drivers \in Seq(DriverRow), TextScanned, SMTT(30) DEF a, b, d
<1> QED BY <1>8, <1>9 DEF path, v

\* The lines of the sessions are none of the drivers'.
LEMMA SessionsPassed ==
  ASSUME NEW M \in Nat, NEW list \in [1 .. M -> SessionRow], NEW path, path[1] = At("DriverInfo")
  PROVE  /\ Scanned(path, Begin, << Heading(0, "SessionInfo"), Heading(1, "Sessions") >>, Seeks(1, 0))
         /\ Scanned(path, Seeks(1, 0), SessionsText(list), Seeks(1, 0))
<1> DEFINE T == {l \in Written : l.depth \in Nat /\ l.depth >= 0 /\ ~Matches(path[1], l)}
           f == [i \in DOMAIN list |-> SessionLines(list[i], i)]
<1>1. \A l : Matches(path[1], l) <=> l.key = "DriverInfo"
  BY AtMatches
<1>2. \A line \in T : line.depth \in Nat /\ line.depth >= 0 /\ ~Matches(path[1], line)
  OBVIOUS
<1>3. ASSUME NEW l \in Written, l.key # "DriverInfo"
      PROVE  l \in T
  <2>1. l.depth \in Nat
    BY DEF Written
  <2>2. ~Matches(path[1], l)
    BY <1>1, <1>3
  <2> HIDE DEF Written
  <2> QED BY <2>1, <2>2
<1> HIDE DEF T
<1>4. Scanned(path, Begin, << Heading(0, "SessionInfo"), Heading(1, "Sessions") >>, Seeks(1, 0))
  <2> DEFINE a == Heading(0, "SessionInfo")
             b == Heading(1, "Sessions")
  <2>1. a \in Written /\ b \in Written /\ a.key = "SessionInfo" /\ b.key = "Sessions"
    BY ONLY HeadingsWritten, HeadingIs
  <2> HIDE DEF a, b
  <2>2. a \in T /\ b \in T
    <3>1. a.key # "DriverInfo" /\ b.key # "DriverInfo"
      BY <2>1
    <3> QED BY ONLY <1>3, <2>1, <3>1
  <2>3. << a, b >> \in Seq(T)
    BY ONLY <2>2
  <2>4. Scanned(path, Seeks(1, 0), << a, b >>, Seeks(1, 0))
    BY ONLY <1>2, <2>3, 0 \in Nat, ScanOther
  <2> QED BY <2>4, BeginSeeks DEF a, b
<1>5. Len(list) = M /\ \A i \in 1 .. M : f[i] = SessionLines(list[i], i) /\ list[i] \in SessionRow
  <2>1. << >> \in Seq(DriverRow)
    OBVIOUS
  <2>2. \A i \in 1 .. M : list[i] \in SessionRow
    OBVIOUS
  <2> QED BY <2>1, <2>2, ListTexts
<1>6. SessionsText(list) = Concat(f, M)
  BY <1>5 DEF SessionsText
<1>7. ASSUME NEW i \in 1 .. M
      PROVE  f[i] \in Seq(T)
  <2> DEFINE session == list[i]
  <2>1. f[i] = SessionLines(session, i) /\ session \in SessionRow /\ i \in Nat
    BY <1>5
  <2> HIDE DEF session, f
  <2>2. /\ Line(3, "SessionNum", i) \in T /\ Line(3, "SessionLaps", session.laps) \in T
        /\ Heading(3, "ResultsPositions") \in T
    <3>1. i \in Fields /\ session.laps \in Fields
      BY <2>1, RowTypes DEF Fields
    <3> DEFINE a == Line(3, "SessionNum", i)
               b == Line(3, "SessionLaps", session.laps)
               d == Heading(3, "ResultsPositions")
    <3>2. a \in Written /\ b \in Written /\ d \in Written
      BY ONLY <3>1, LinesWritten, HeadingsWritten
    <3>3. a.key # "DriverInfo" /\ b.key # "DriverInfo" /\ d.key # "DriverInfo"
      <4>1. a.key = "SessionNum" /\ b.key = "SessionLaps" /\ d.key = "ResultsPositions"
        BY ONLY LineIs, HeadingIs
      <4> HIDE DEF a, b, d
      <4> QED BY ONLY <4>1
    <3> HIDE DEF a, b, d
    <3>4. a \in T /\ b \in T /\ d \in T
      BY ONLY <1>3, <3>2, <3>3
    <3> QED BY <3>4 DEF a, b, d
  <2>3. \A q \in 1 .. Len(session.results) :
           /\ Line(5, "Position", q) \in T
           /\ Line(5, "ClassPosition", session.results[q].classPosition) \in T
           /\ Line(5, "CarIdx", session.results[q].car) \in T
    <3> TAKE q \in 1 .. Len(session.results)
    <3>1. session.results[q].car \in Fields /\ session.results[q].classPosition \in Fields /\ q \in Fields
      BY <2>1, RowTypes DEF Fields
    <3> DEFINE a == Line(5, "Position", q)
               b == Line(5, "ClassPosition", session.results[q].classPosition)
               d == Line(5, "CarIdx", session.results[q].car)
    <3>2. a \in Written /\ b \in Written /\ d \in Written
      BY ONLY <3>1, LinesWritten
    <3>3. a.key # "DriverInfo" /\ b.key # "DriverInfo" /\ d.key # "DriverInfo"
      <4>1. a.key = "Position" /\ b.key = "ClassPosition" /\ d.key = "CarIdx"
        BY ONLY LineIs
      <4> HIDE DEF a, b, d
      <4> QED BY ONLY <4>1
    <3> HIDE DEF a, b, d
    <3>4. a \in T /\ b \in T /\ d \in T
      BY ONLY <1>3, <3>2, <3>3
    <3> QED BY <3>4 DEF a, b, d
  <2>4. session.results \in Seq(Row)
    BY <2>1, RowTypes
  <2>5. SessionLines(session, i) \in Seq(T)
    BY ONLY <2>2, <2>3, <2>4, SessionTyped
  <2> QED BY <2>1, <2>5
<1> HIDE DEF f
<1>8. SessionsText(list) \in Seq(T)
  <2>1. Concat(f, M) \in Seq(T)
    BY ONLY <1>7, M \in Nat, ConcatSeq
  <2> QED BY <1>6, <2>1
<1>9. Scanned(path, Seeks(1, 0), SessionsText(list), Seeks(1, 0))
  BY ONLY <1>2, <1>8, 0 \in Nat, ScanOther
<1> QED BY <1>4, <1>9

\* The parser finds the driver's own car.
LEMMA MeFound ==
  ASSUME NEW me \in Fields, NEW M \in Nat, NEW list \in [1 .. M -> SessionRow], NEW drivers \in Seq(DriverRow)
  PROVE  parseYaml(Text(me, drivers, list), << At("DriverInfo"), At("DriverCarIdx") >>) = << me >>
<1> DEFINE path == << At("DriverInfo"), At("DriverCarIdx") >>
           a == Heading(0, "DriverInfo")
           b == Line(1, "DriverCarIdx", me)
           d == Heading(1, "Drivers")
           e == Done(2, 0, << me >>)
<1>1. Len(path) = 2 /\ path[1] = At("DriverInfo") /\ path[2] = At("DriverCarIdx")
  OBVIOUS
<1> HIDE DEF path
<1>2. /\ Scanned(path, Begin, << Heading(0, "SessionInfo"), Heading(1, "Sessions") >>, Seeks(1, 0))
      /\ Scanned(path, Seeks(1, 0), SessionsText(list), Seeks(1, 0))
  BY <1>1, SessionsPassed
<1>3. /\ a.depth = 0 /\ a.key = "DriverInfo" /\ b.depth = 1 /\ b.key = "DriverCarIdx" /\ b.value = << me >>
      /\ a \in Written /\ b \in Written /\ d \in Written
  BY HeadingIs, LineIs, HeadingsWritten, LinesWritten
<1> HIDE DEF a, b, d
<1>4. Scanned(path, Seeks(1, 0), << a, b, d >>, e)
  <2>1. Matches(path[1], a) /\ Matches(path[2], b)
    BY <1>1, <1>3, AtMatches
  <2>2. /\ 1 \in Nat /\ 2 \in Nat /\ 0 \in Nat /\ 0 >= 0 /\ 1 # Len(path) /\ 2 = Len(path) /\ 2 = 1 + 1
        /\ b.depth \in Nat /\ b.depth >= 0
    BY <1>1, <1>3
  <2>3. Read(path, Seeks(1, 0), a) = Seeks(2, 0)
    BY ONLY <1>3, <2>1, <2>2, ReadNext
  <2>4. Read(path, Seeks(2, 0), b) = e
    <3> DEFINE x == 2
               y == 0
    <3>1. x \in Nat /\ y \in Nat /\ b.depth \in Nat /\ b.depth >= y /\ Matches(path[x], b) /\ x = Len(path)
      BY <2>1, <2>2
    <3> HIDE DEF x, y
    <3>2. Read(path, Seeks(x, y), b) = Done(x, y, b.value)
      BY ONLY <3>1, ReadLast
    <3> QED BY <1>3, <3>2 DEF x, y
  <2>5. Read(path, e, d) = e
    BY ReadEnded
  <2> HIDE DEF e
  <2> QED BY ONLY <1>3, <2>3, <2>4, <2>5, ScanThree
<1>5. Scanned(path, e, DriversText(drivers), e)
  <2>1. DriversText(drivers) \in Seq(Written)
    BY ListTexts
  <2> QED BY ONLY <2>1, ScanDone
<1>6. e.found = << me >>
  BY DoneFound
<1> HIDE DEF e
<1>7. parseYaml(Text(me, drivers, list), path) = e.found
  BY ONLY <1>2, <1>4, <1>5, me \in Fields, M \in Nat, list \in [1 .. M -> SessionRow],
          drivers \in Seq(DriverRow), TextScanned, SMTT(30) DEF a, b, d
<1> QED BY <1>6, <1>7 DEF path

\* The lines of one driver.
LEMMA OtherDriver ==
  ASSUME NEW path, NEW car, ClassOfCar(path, car), NEW driver \in DriverRow, driver.car # car
  PROVE  Scanned(path, Seeks(3, 1), DriverLines(driver), Seeks(3, 1))
<1> DEFINE a == Line(3, "CarIdx", driver.car)
           b == Line(3, "CarNumber", driver.number)
           d == Line(3, "CarClassShortName", driver.class)
           T == {a, b, d}
<1>1. /\ a.depth = 3 /\ a.key = "CarIdx" /\ a.value = << driver.car >> /\ b.depth = 3 /\ b.key = "CarNumber"
      /\ d.depth = 3 /\ d.key = "CarClassShortName"
  BY LineIs
<1>2. DriverLines(driver) = << a, b, d >>
  BY DEF DriverLines
<1> HIDE DEF a, b, d
<1>3. \A l : Matches(path[3], l) <=> l.key = "CarIdx" /\ l.value = << car >>
  BY ItemMatches DEF ClassOfCar
<1>4. \A l \in T : l.depth \in Nat /\ l.depth >= 1 /\ ~Matches(path[3], l)
  BY <1>1, <1>3, OneValue
<1>5. << a, b, d >> \in Seq(T)
  OBVIOUS
<1> HIDE DEF T
<1>6. Scanned(path, Seeks(3, 1), << a, b, d >>, Seeks(3, 1))
  BY ONLY <1>4, <1>5, 1 \in Nat, ScanOther
<1> QED BY <1>2, <1>6

\* Within the lines of the car that is asked for, the search finds its class.
LEMMA TheDriver ==
  ASSUME NEW path, NEW car, ClassOfCar(path, car), NEW driver \in DriverRow, driver.car = car
  PROVE  Scanned(path, Seeks(3, 1), DriverLines(driver), Done(4, 3, << driver.class >>))
<1> DEFINE a == Line(3, "CarIdx", driver.car)
           b == Line(3, "CarNumber", driver.number)
           d == Line(3, "CarClassShortName", driver.class)
           e == Done(4, 3, << driver.class >>)
<1>1. /\ a.depth = 3 /\ a.key = "CarIdx" /\ a.value = << driver.car >> /\ b.depth = 3 /\ b.key = "CarNumber"
      /\ d.depth = 3 /\ d.key = "CarClassShortName" /\ d.value = << driver.class >>
  BY LineIs
<1>2. DriverLines(driver) = << a, b, d >>
  BY DEF DriverLines
<1>3. a \in Written /\ b \in Written /\ d \in Written
  BY ONLY driver \in DriverRow, DriverValues, LinesWritten
<1> HIDE DEF a, b, d
<1>4. Len(path) = 4 /\ Matches(path[3], a) /\ Matches(path[4], d) /\ ~Matches(path[4], b)
  BY <1>1, ItemMatches, AtMatches DEF ClassOfCar
<1>5. /\ 3 \in Nat /\ 1 \in Nat /\ 4 \in Nat /\ 3 >= 1 /\ 4 = 3 + 1 /\ 3 # Len(path) /\ b.depth \in Nat
      /\ b.depth >= 3
  BY <1>1, <1>4
<1>6. Read(path, Seeks(3, 1), a) = Seeks(4, 3)
  BY ONLY <1>1, <1>4, <1>5, ReadNext
<1>7. Read(path, Seeks(4, 3), b) = Seeks(4, 3)
  BY ONLY <1>4, <1>5, ReadOther
<1>8. Read(path, Seeks(4, 3), d) = e
  <2> DEFINE x == 4
             y == 3
  <2>1. x \in Nat /\ y \in Nat /\ d.depth \in Nat /\ d.depth >= y /\ Matches(path[x], d) /\ x = Len(path)
    BY <1>1, <1>4
  <2> HIDE DEF x, y
  <2>2. Read(path, Seeks(x, y), d) = Done(x, y, d.value)
    BY ONLY <2>1, ReadLast
  <2> QED BY <1>1, <2>2 DEF x, y
<1> HIDE DEF e
<1>9. Scanned(path, Seeks(3, 1), << a, b, d >>, e)
  BY ONLY <1>3, <1>6, <1>7, <1>8, ScanThree
<1> QED BY <1>2, <1>9 DEF e

\* The parser finds the class of a car that is entered once.
LEMMA ClassFound ==
  ASSUME NEW me \in Fields, NEW M \in Nat, NEW list \in [1 .. M -> SessionRow], NEW drivers \in Seq(DriverRow),
         NEW m \in 1 .. Len(drivers),
         \A d \in 1 .. Len(drivers) : drivers[d].car = drivers[m].car => d = m
  PROVE  parseYaml(Text(me, drivers, list), DriverPath(drivers[m].car) \o << At("CarClassShortName") >>)
           = << drivers[m].class >>
<1> DEFINE car == drivers[m].car
           path == DriverPath(car) \o << At("CarClassShortName") >>
           a == Heading(0, "DriverInfo")
           b == Line(1, "DriverCarIdx", me)
           d == Heading(1, "Drivers")
           N == Len(drivers)
           f == [i \in DOMAIN drivers |-> DriverLines(drivers[i])]
           s == Seeks(3, 1)
           e == Done(4, 3, << drivers[m].class >>)
           g == [i \in 0 .. N |-> IF i < m THEN s ELSE e]
<1>1. ClassOfCar(path, car)
  BY DriverPathIs
<1> HIDE DEF path
<1>2. /\ Scanned(path, Begin, << Heading(0, "SessionInfo"), Heading(1, "Sessions") >>, Seeks(1, 0))
      /\ Scanned(path, Seeks(1, 0), SessionsText(list), Seeks(1, 0))
  <2>1. path[1] = At("DriverInfo")
    BY <1>1 DEF ClassOfCar
  <2> QED BY <2>1, SessionsPassed
<1>3. /\ a.depth = 0 /\ a.key = "DriverInfo" /\ b.depth = 1 /\ b.key = "DriverCarIdx"
      /\ d.depth = 1 /\ d.key = "Drivers" /\ a \in Written /\ b \in Written /\ d \in Written
  BY HeadingIs, LineIs, HeadingsWritten, LinesWritten
<1> HIDE DEF a, b, d
<1>4. Scanned(path, Seeks(1, 0), << a, b, d >>, s)
  <2>1. Matches(path[1], a) /\ ~Matches(path[2], b) /\ Matches(path[2], d) /\ Len(path) = 4
    BY <1>1, <1>3, AtMatches DEF ClassOfCar
  <2>2. /\ 1 \in Nat /\ 2 \in Nat /\ 0 \in Nat /\ 0 >= 0 /\ 1 >= 0 /\ 1 # Len(path) /\ 2 # Len(path)
        /\ 2 = 1 + 1 /\ 3 = 2 + 1 /\ b.depth \in Nat /\ b.depth >= 0
    BY <1>3, <2>1
  <2>3. Read(path, Seeks(1, 0), a) = Seeks(2, 0)
    BY ONLY <1>3, <2>1, <2>2, ReadNext
  <2>4. Read(path, Seeks(2, 0), b) = Seeks(2, 0)
    BY ONLY <2>1, <2>2, ReadOther
  <2>5. Read(path, Seeks(2, 0), d) = Seeks(3, 1)
    <3> DEFINE w == 1
               x == 2
               y == 0
               z == 3
    <3>1. /\ x \in Nat /\ y \in Nat /\ w \in Nat /\ d.depth = w /\ w >= y /\ Matches(path[x], d)
          /\ x # Len(path) /\ z = x + 1
      BY <1>3, <2>1
    <3> HIDE DEF w, x, y, z
    <3>2. Read(path, Seeks(x, y), d) = Seeks(z, w)
      BY ONLY <3>1, ReadNext
    <3> QED BY ONLY <3>2 DEF w, x, y, z
  <2> QED BY ONLY <1>3, <2>3, <2>4, <2>5, ScanThree DEF s
<1>5. /\ N \in Nat /\ m \in 1 .. N
      /\ \A i \in 1 .. N : drivers[i] \in DriverRow /\ f[i] = DriverLines(drivers[i])
  BY LenProperties, ElementOfSeq
<1>6. DriversText(drivers) = Concat(f, N)
  BY DEF DriversText
<1> HIDE DEF f, N
<1>7. \A i \in 1 .. N : f[i] \in Seq(Written)
  BY <1>5, DriverLinesSeq
<1>8. m \in Nat /\ 0 \in 0 .. N /\ N \in 0 .. N /\ 0 < m /\ ~(N < m)
  BY ONLY <1>5
<1>9. ASSUME NEW i \in 1 .. N
      PROVE  Scanned(path, g[i - 1], f[i], g[i])
  <2>1. i \in Nat /\ i \in 0 .. N /\ i - 1 \in 0 .. N
    BY ONLY i \in 1 .. N, <1>5
  <2>2. g[i] = (IF i < m THEN s ELSE e) /\ g[i - 1] = IF i - 1 < m THEN s ELSE e
    BY <2>1
  <2>3. drivers[i] \in DriverRow /\ f[i] = DriverLines(drivers[i]) /\ f[i] \in Seq(Written)
    BY <1>5, <1>7
  <2>4. CASE i < m
    <3>1. i # m /\ i - 1 < m
      BY ONLY <1>8, <2>1, <2>4
    <3>2. drivers[i].car # car
      BY <3>1 DEF N
    <3>3. Scanned(path, s, DriverLines(drivers[i]), s)
      BY ONLY <1>1, <2>3, <3>2, OtherDriver
    <3> QED BY <2>2, <2>3, <2>4, <3>1, <3>3
  <2>5. CASE i = m
    <3>1. ~(i < m) /\ i - 1 < m
      BY ONLY <1>8, <2>1, <2>5
    <3>2. drivers[m] \in DriverRow /\ drivers[m].car = car
      BY <2>3, <2>5
    <3>3. Scanned(path, s, DriverLines(drivers[m]), e)
      BY ONLY <1>1, <3>2, TheDriver
    <3> QED BY <2>2, <2>3, <2>5, <3>1, <3>3
  <2>6. CASE i > m
    <3>1. ~(i < m) /\ ~(i - 1 < m)
      BY ONLY <1>8, <2>1, <2>6
    <3>2. Scanned(path, e, f[i], e)
      BY ONLY <2>3, ScanDone
    <3> QED BY <2>2, <3>1, <3>2
  <2> QED BY <1>8, <2>1, <2>4, <2>5, <2>6
<1>10. g[0] = s /\ g[N] = e
  BY <1>8
<1>11. e.found = << drivers[m].class >>
  BY DoneFound
<1> HIDE DEF g, e
<1>12. Scanned(path, g[0], Concat(f, N), g[N])
  BY ONLY <1>5, <1>7, <1>9, ScanConcat
<1>13. Scanned(path, s, DriversText(drivers), e)
  BY ONLY <1>6, <1>10, <1>12
<1>14. parseYaml(Text(me, drivers, list), path) = e.found
  BY ONLY <1>2, <1>4, <1>13, me \in Fields, M \in Nat, list \in [1 .. M -> SessionRow],
          drivers \in Seq(DriverRow), TextScanned, SMTT(30) DEF a, b, d
<1> HIDE DEF path
<1>15. parseYaml(Text(me, drivers, list), path) = << drivers[m].class >>
  BY ONLY <1>11, <1>14
<1> QED BY ONLY <1>15 DEF path

-------------------------------------------------------------------------------
(***************************************************************************)
(* Standings: the results of a session.                                    *)
(***************************************************************************)

\* Results in which each car is one of the cars, and at one place.
Placed(results, cars) ==
  /\ results \in Seq(Row) /\ Len(results) <= Cardinality(Cars)
  /\ \A p \in 1 .. Len(results) : results[p].car \in cars
  /\ \A p, q \in 1 .. Len(results) : results[p].car = results[q].car => p = q

Ranked == {c \in ToSet(entries) : dist[c] >= Q}
Rank(c) == Better(c, Ranked)

\* The order by distance leaves no place empty.
LEMMA EveryPlace ==
  ASSUME dist \in [Cars -> Nat], ToSet(entries) \subseteq Cars
  PROVE  /\ IsFiniteSet(Ranked) /\ Ranked \subseteq Cars
         /\ Cardinality(Ranked) \in Nat /\ Cardinality(Ranked) <= Cardinality(Cars)
         /\ \A p \in 1 .. Cardinality(Ranked) : \E c \in Ranked : Rank(c) = p - 1
<1> DEFINE n == Cardinality(Ranked)
           above(c) == {o \in Ranked : Ahead(o, c)}
           f == [c \in Ranked |-> Rank(c)]
           T == 0 .. n - 1
<1>1. /\ IsFiniteSet(Cars) /\ Cars \subseteq Nat
  BY StandingsAssumption, FS_CardinalityType
<1>2. Ranked \subseteq Cars
  BY DEF Ranked
<1>3. IsFiniteSet(Ranked) /\ n \in Nat /\ n <= Cardinality(Cars)
  BY <1>1, <1>2, FS_Subset, FS_CardinalityType
<1>4. \A c \in Ranked : dist[c] \in Nat /\ c \in Nat
  BY <1>1, <1>2
<1>5. ASSUME NEW c \in Ranked
      PROVE  /\ IsFiniteSet(above(c)) /\ Rank(c) = Cardinality(above(c)) /\ Rank(c) \in Nat /\ Rank(c) < n
             /\ c \notin above(c)
  <2>1. c \notin above(c)
    BY <1>4 DEF Ahead
  <2>2. IsFiniteSet(Ranked \ {c}) /\ Cardinality(Ranked \ {c}) = n - 1
    BY ONLY <1>3, c \in Ranked, FS_RemoveElement
  <2>3. above(c) \subseteq Ranked \ {c}
    BY <2>1
  <2> DEFINE u == above(c)
             v == Ranked \ {c}
  <2>4. Rank(c) = Cardinality(u)
    BY DEF Rank, Better
  <2>5. u \subseteq v
    BY <2>3
  <2> HIDE DEF u
  <2>6. IsFiniteSet(u) /\ Cardinality(u) <= Cardinality(v) /\ Cardinality(u) \in Nat
    BY ONLY <2>2, <2>5, FS_Subset, FS_CardinalityType
  <2>7. Cardinality(u) < n
    BY ONLY <1>3, <2>2, <2>6
  <2> QED BY <2>1, <2>4, <2>6, <2>7 DEF u
<1>6. ASSUME NEW a \in Ranked, NEW b \in Ranked, Ahead(a, b)
      PROVE  Rank(a) < Rank(b)
  <2>1. above(a) \subseteq above(b)
    <3>1. ASSUME NEW o \in Ranked, Ahead(o, a)
          PROVE  Ahead(o, b)
      BY <1>4, <1>6, <3>1 DEF Ahead
    <3> QED BY <3>1
  <2>2. a \in above(b) /\ a \notin above(a)
    BY <1>5, <1>6
  <2> DEFINE u == above(a)
             v == above(b)
  <2>3. u \subseteq v /\ a \in v /\ a \notin u /\ Rank(a) = Cardinality(u) /\ Rank(b) = Cardinality(v)
        /\ IsFiniteSet(v) /\ IsFiniteSet(u)
    BY <1>5, <2>1, <2>2
  <2> HIDE DEF u, v
  <2>4. Cardinality(u) <= Cardinality(v) /\ (Cardinality(v) = Cardinality(u) => v = u)
    BY ONLY <2>3, FS_Subset
  <2>5. Cardinality(u) \in Nat /\ Cardinality(v) \in Nat
    BY ONLY <2>3, FS_CardinalityType
  <2> QED BY <2>3, <2>4, <2>5
<1>7. f \in Injection(Ranked, T)
  <2>1. ASSUME NEW a \in Ranked, NEW b \in Ranked, Rank(a) = Rank(b)
        PROVE  a = b
    <3>1. ~Ahead(a, b) /\ ~Ahead(b, a)
      <4>1. Rank(a) \in Nat /\ Rank(b) \in Nat
        BY <1>5
      <4> QED BY <1>6, <2>1, <4>1
    <3> QED BY <1>4, <3>1 DEF Ahead
  <2>2. ASSUME NEW c \in Ranked
        PROVE  Rank(c) \in T
    <3> DEFINE r == Rank(c)
    <3>1. r \in Nat /\ r < n
      BY <1>5
    <3> HIDE DEF r, n
    <3>2. r \in 0 .. n - 1
      BY ONLY <1>3, <3>1
    <3> QED BY <3>2 DEF r, n
  <2> QED BY <2>1, <2>2 DEF Injection, IsInjective
<1>8. IsFiniteSet(T) /\ Cardinality(T) = n
  <2>1. 0 \in Int /\ n - 1 \in Int
    BY <1>3
  <2>2. IsFiniteSet(T) /\ Cardinality(T) = IF 0 > n - 1 THEN 0 ELSE (n - 1) - 0 + 1
    BY ONLY <2>1, FS_Interval
  <2> HIDE DEF T
  <2> QED BY ONLY <1>3, <2>2
<1>9. f \in Surjection(Ranked, T)
  <2> HIDE DEF f, T
  <2> QED BY ONLY <1>7, <1>8, FS_Injection
<1>10. ASSUME NEW p \in 1 .. n
       PROVE  \E c \in Ranked : Rank(c) = p - 1
  <2>1. p - 1 \in T
    BY <1>3
  <2> QED BY <1>9, <2>1 DEF Surjection
<1> QED BY <1>2, <1>3, <1>10

\* The results that the simulator makes place each car once, and cars entered only.
LEMMA ResultsPlaced ==
  ASSUME dist \in [Cars -> Nat], ToSet(entries) \subseteq Cars
  PROVE  Placed(Results, ToSet(entries))
<1> DEFINE n == Cardinality(Ranked)
           Place(p) == CHOOSE c \in Ranked : Rank(c) = p - 1
           Class(c) == {o \in Ranked : ClassOf[o] = ClassOf[c]}
           row(p) == [car |-> Place(p), classPosition |-> Better(Place(p), Class(Place(p)))]
<1>1. Results = [p \in 1 .. n |-> row(p)]
  BY DEF Results, Ranked, Rank
<1>2. /\ IsFiniteSet(Ranked) /\ Ranked \subseteq Cars /\ n \in Nat /\ n <= Cardinality(Cars)
      /\ \A p \in 1 .. n : \E c \in Ranked : Rank(c) = p - 1
  BY EveryPlace
<1>3. \A p \in 1 .. n : Place(p) \in Ranked /\ Rank(Place(p)) = p - 1
  BY <1>2
<1>4. ASSUME NEW p \in 1 .. n
      PROVE  row(p) \in Row /\ row(p).car = Place(p)
  <2> DEFINE c == Place(p)
             u == {o \in Class(c) : Ahead(o, c)}
  <2>1. c \in Cars
    BY <1>2, <1>3
  <2>2. u \subseteq Ranked
    OBVIOUS
  <2> HIDE DEF u
  <2>3. Cardinality(u) \in Nat
    BY ONLY <1>2, <2>2, FS_Subset, FS_CardinalityType
  <2>4. row(p) = [car |-> c, classPosition |-> Cardinality(u)]
    BY DEF Better, u
  <2> HIDE DEF row, c
  <2> QED BY <2>1, <2>3, <2>4 DEF Row, c
<1> HIDE DEF row, Place
<1>5. /\ Results \in Seq(Row) /\ Len(Results) = n /\ \A p \in 1 .. n : Results[p] = row(p)
  <2> DEFINE r == [p \in 1 .. n |-> row(p)]
  <2>1. r \in [1 .. n -> Row]
    BY <1>4
  <2>2. r \in Seq(Row) /\ DOMAIN r = 1 .. n
    BY <1>2, <2>1, SeqDef
  <2>3. Len(r) = n
    <3> HIDE DEF r
    <3> QED BY ONLY <1>2, <2>2, LenProperties
  <2> QED BY <1>1, <2>2, <2>3
<1>6. \A p \in 1 .. n : Results[p].car \in ToSet(entries)
  BY <1>3, <1>4, <1>5 DEF Ranked
<1>7. ASSUME NEW p \in 1 .. n, NEW q \in 1 .. n, Results[p].car = Results[q].car
      PROVE  p = q
  <2>1. p - 1 = q - 1
    BY <1>3, <1>4, <1>5, <1>7
  <2> QED BY <1>2, <2>1
<1> QED BY <1>2, <1>5, <1>6, <1>7 DEF Placed

-------------------------------------------------------------------------------
(***************************************************************************)
(* Standings: the simulator's state, and what the branch publishes of it.  *)
(***************************************************************************)

Scene ==
  /\ num \in 1 .. MaxNum /\ dist \in [Cars -> 0 .. MaxDist] /\ inWorld \subseteq ToSet(entries)
  /\ entries \in Seq(Cars) /\ IsInjective(entries) /\ Me \in ToSet(entries)
  /\ sessions \in [1 .. MaxNum -> SessionRow]
  /\ \A n \in 1 .. MaxNum : Placed(sessions[n].results, ToSet(entries))
  /\ \A n \in num + 1 .. MaxNum : sessions[n].results = << >>

Drivers == [d \in DOMAIN entries |->
              [car |-> entries[d], number |-> entries[d], class |-> ClassOf[entries[d]]]]

\* The cars entered are the drivers in the string, each once.
LEMMA EntryFacts ==
  ASSUME Scene
  PROVE  /\ Drivers \in Seq(DriverRow) /\ Len(Drivers) = Len(entries) /\ Len(entries) \in Nat
         /\ ToSet(entries) \subseteq Cars /\ Cars \subseteq Nat /\ Me \in Cars /\ Me \in Fields
         /\ \A c : c \in ToSet(entries) <=> \E m \in 1 .. Len(entries) : entries[m] = c
         /\ \A m \in 1 .. Len(entries) :
              /\ entries[m] \in Cars
              /\ Drivers[m].car = entries[m] /\ Drivers[m].class = ClassOf[entries[m]]
              /\ \A d \in 1 .. Len(entries) : entries[d] = entries[m] => d = m
         /\ String = Text(Me, Drivers, sessions) /\ MaxNum \in Nat
<1> DEFINE N == Len(entries)
<1>1. N \in Nat /\ DOMAIN entries = 1 .. N /\ \A m \in 1 .. N : entries[m] \in Cars
  BY LenProperties, ElementOfSeq DEF Scene
<1>2. ToSet(entries) \subseteq Cars /\ \A c : c \in ToSet(entries) <=> \E m \in 1 .. N : entries[m] = c
  BY <1>1 DEF ToSet
<1>3. Cars \subseteq Nat /\ Me \in Cars /\ MaxNum \in Nat
  BY StandingsAssumption, FS_CardinalityType
<1>4. Me \in Fields
  BY <1>3 DEF Fields
<1>5. \A m \in 1 .. N : /\ Drivers[m] \in DriverRow
                        /\ Drivers[m].car = entries[m] /\ Drivers[m].class = ClassOf[entries[m]]
  <2> TAKE m \in 1 .. N
  <2>1. Drivers[m] = [car |-> entries[m], number |-> entries[m], class |-> ClassOf[entries[m]]]
    BY <1>1 DEF Drivers
  <2>2. entries[m] \in Cars
    BY <1>1
  <2> QED BY <2>1, <2>2 DEF DriverRow
<1>6. Drivers \in Seq(DriverRow) /\ Len(Drivers) = N
  <2>1. DOMAIN Drivers = 1 .. N
    BY <1>1 DEF Drivers
  <2>2. Drivers = [d \in 1 .. N |-> Drivers[d]]
    BY <1>1 DEF Drivers
  <2>3. Drivers \in [1 .. N -> DriverRow]
    BY <1>5, <2>2
  <2>4. Drivers \in Seq(DriverRow)
    BY ONLY <1>1, <2>3, SeqDef
  <2> QED BY ONLY <1>1, <2>1, <2>4, LenProperties
<1>7. \A m \in 1 .. N : \A d \in 1 .. N : entries[d] = entries[m] => d = m
  BY <1>1 DEF Scene, IsInjective
<1>8. String = Text(Me, Drivers, sessions)
  BY DEF String, Drivers
<1> HIDE DEF N
<1> QED BY <1>1, <1>2, <1>3, <1>4, <1>5, <1>6, <1>7, <1>8 DEF N

\* What the parser returns of the simulator's string.
LEMMA Classes ==
  ASSUME Scene, NEW c \in ToSet(entries)
  PROVE  ClassIn(String, c) = ClassOf[c]
<1>1. PICK m \in 1 .. Len(entries) : entries[m] = c
  BY EntryFacts
<1>2. /\ Me \in Fields /\ MaxNum \in Nat /\ sessions \in [1 .. MaxNum -> SessionRow]
      /\ Drivers \in Seq(DriverRow) /\ m \in 1 .. Len(Drivers) /\ Drivers[m].car = c
      /\ \A d \in 1 .. Len(Drivers) : Drivers[d].car = c => d = m
      /\ Drivers[m].class = ClassOf[c] /\ String = Text(Me, Drivers, sessions)
  <2>1. /\ Len(Drivers) = Len(entries) /\ Drivers[m].car = c /\ Drivers[m].class = ClassOf[c]
        /\ \A d \in 1 .. Len(entries) : Drivers[d].car = entries[d] /\ (entries[d] = c => d = m)
    BY <1>1, EntryFacts
  <2>2. /\ Me \in Fields /\ MaxNum \in Nat /\ sessions \in [1 .. MaxNum -> SessionRow]
        /\ Drivers \in Seq(DriverRow) /\ String = Text(Me, Drivers, sessions)
    BY EntryFacts DEF Scene
  <2> QED BY ONLY <1>1, <2>1, <2>2
<1> DEFINE path == DriverPath(c) \o <<At("CarClassShortName")>>
           x == parseYaml(String, path)
<1>3. parseYaml(Text(Me, Drivers, sessions), path) = << Drivers[m].class >>
  <2>1. /\ Me \in Fields /\ MaxNum \in Nat /\ sessions \in [1 .. MaxNum -> SessionRow]
        /\ Drivers \in Seq(DriverRow) /\ m \in 1 .. Len(Drivers)
        /\ \A d \in 1 .. Len(Drivers) : Drivers[d].car = Drivers[m].car => d = m
    BY ONLY <1>2
  <2>2. parseYaml(Text(Me, Drivers, sessions), DriverPath(Drivers[m].car) \o <<At("CarClassShortName")>>)
          = << Drivers[m].class >>
    BY ONLY <2>1, ClassFound
  <2> QED BY ONLY <1>2, <2>2
<1>4. ClassIn(String, c) = x[1]
  BY DEF ClassIn, Value
<1>5. x = << ClassOf[c] >>
  BY <1>2, <1>3
<1> HIDE DEF x
<1> QED BY <1>4, <1>5

\* The car that the string says is the driver's own.
LEMMA Mine ==
  ASSUME Scene
  PROVE  DriverCarIdx(String) = Me
<1> DEFINE path == <<At("DriverInfo"), At("DriverCarIdx")>>
           x == parseYaml(String, path)
<1>1. /\ Me \in Fields /\ MaxNum \in Nat /\ sessions \in [1 .. MaxNum -> SessionRow]
      /\ Drivers \in Seq(DriverRow) /\ String = Text(Me, Drivers, sessions)
  BY EntryFacts DEF Scene
<1>2. parseYaml(Text(Me, Drivers, sessions), path) = << Me >>
  BY ONLY <1>1, MeFound
<1>3. DriverCarIdx(String) = x[1]
  BY DEF DriverCarIdx, Value
<1>4. x = << Me >>
  BY <1>1, <1>2
<1> HIDE DEF x
<1> QED BY <1>3, <1>4

\* For every position of a session's results the parser finds the value asked for, and
\* past the last position nothing, if no later session has results: the lines of the later
\* sessions follow.
LEMMA PlaceFound ==
  ASSUME Scene, NEW n \in 1 .. MaxNum, \A i \in n + 1 .. MaxNum : sessions[i].results = << >>,
         NEW p \in Nat, p # 0
  PROVE  LET results == sessions[n].results
             there == p <= Len(results)
         IN /\ CarIdxAt(String, n, p) = IF there THEN << results[p].car >> ELSE << >>
            /\ ClassPositionAt(String, n, p) = IF there THEN << results[p].classPosition >> ELSE << >>
<1> DEFINE R == sessions[n].results
<1>1. /\ Me \in Fields /\ MaxNum \in Nat /\ sessions \in [1 .. MaxNum -> SessionRow]
      /\ Drivers \in Seq(DriverRow) /\ String = Text(Me, Drivers, sessions)
  BY EntryFacts DEF Scene
<1> HIDE DEF Scene
<1>2. ASSUME NEW k \in {"CarIdx", "ClassPosition"}
      PROVE  parseYaml(Text(Me, Drivers, sessions), ResultPath(n, p) \o <<At(k)>>)
               = IF p <= Len(R) THEN << Asked(R[p], k) >> ELSE << >>
  BY ONLY <1>1, n \in 1 .. MaxNum, \A i \in n + 1 .. MaxNum : sessions[i].results = << >>,
          p \in Nat, p # 0, k \in {"CarIdx", "ClassPosition"}, ResultFound
<1> HIDE DEF R
<1>3. CarIdxAt(String, n, p) = IF p <= Len(R) THEN << R[p].car >> ELSE << >>
  BY <1>1, <1>2 DEF CarIdxAt, Asked
<1>4. ClassPositionAt(String, n, p) = IF p <= Len(R) THEN << R[p].classPosition >> ELSE << >>
  <2>1. "ClassPosition" \in {"CarIdx", "ClassPosition"} /\ Asked(R[p], "ClassPosition") = R[p].classPosition
    BY DEF Asked
  <2> QED BY <1>1, <1>2, <2>1 DEF ClassPositionAt
<1> QED BY <1>3, <1>4 DEF R

\* The parser finds what the simulator wrote.
LEMMA Parses ==
  ASSUME Scene
  PROVE  ParsesItem
<1> DEFINE R == sessions[num].results
<1>1. /\ num \in 1 .. MaxNum /\ num \in Nat /\ \A i \in num + 1 .. MaxNum : sessions[i].results = << >>
      /\ Len(R) \in Nat
  <2>1. Placed(R, ToSet(entries)) /\ num \in 1 .. MaxNum
    BY DEF Scene
  <2> HIDE DEF R
  <2>2. Len(R) \in Nat
    BY <2>1, LenProperties DEF Placed
  <2> QED BY <2>1, <2>2 DEF Scene
<1>2. \A c \in ToSet(entries) : ClassIn(String, c) = ClassOf[c]
  BY Classes
<1>3. ASSUME NEW p \in 1 .. Len(R)
      PROVE  CarIdxAt(String, num, p) = << R[p].car >> /\ ClassPositionAt(String, num, p) = << R[p].classPosition >>
  <2>1. p \in Nat /\ p # 0 /\ p <= Len(R)
    BY <1>1
  <2> QED BY <1>1, <2>1, PlaceFound
<1>4. CarIdxAt(String, num, Len(R) + 1) = << >>
  <2>1. Len(R) + 1 \in Nat /\ Len(R) + 1 # 0 /\ ~(Len(R) + 1 <= Len(R))
    BY <1>1
  <2> QED BY <1>1, <2>1, PlaceFound
<1> QED BY <1>2, <1>3, <1>4 DEF ParsesItem

\* A search under way, or ended, has found nothing or the value of a line that matches the
\* last part of the path.
Sound(path, T, b) ==
  \/ \E n, d \in Nat : b = Seeks(n, d)
  \/ \E n, d, v : b = Done(n, d, v) /\ (v = << >> \/ \E l \in T : Matches(path[Len(path)], l) /\ v = l.value)

\* A line keeps a search sound.
LEMMA SoundRead ==
  ASSUME NEW path, NEW T, NEW b, Sound(path, T, b), NEW l \in T, l.depth \in Nat
  PROVE  Sound(path, T, Read(path, b, l))
<1>1. ASSUME NEW n, NEW d, NEW v, b = Done(n, d, v)
      PROVE  Sound(path, T, Read(path, b, l))
  <2>1. Read(path, b, l) = b
    BY <1>1, ReadEnded
  <2> QED BY <2>1
<1>2. ASSUME NEW n \in Nat, NEW d \in Nat, b = Seeks(n, d)
      PROVE  Sound(path, T, Read(path, b, l))
  <2>1. CASE l.depth < d
    <3>1. Read(path, b, l) = Done(n, d, << >>)
      BY <1>2, <2>1, ReadShallow
    <3> QED BY <3>1 DEF Sound
  <2>2. CASE l.depth >= d /\ ~Matches(path[n], l)
    <3>1. Read(path, b, l) = b
      BY <1>2, <2>2, ReadOther
    <3> QED BY <3>1
  <2>3. CASE l.depth >= d /\ Matches(path[n], l) /\ n # Len(path)
    <3>1. Read(path, b, l) = Seeks(n + 1, l.depth)
      BY <1>2, <2>3, ReadStep
    <3>2. n + 1 \in Nat
      OBVIOUS
    <3> QED BY <3>1, <3>2 DEF Sound
  <2>4. CASE l.depth >= d /\ Matches(path[n], l) /\ n = Len(path)
    <3>1. Read(path, b, l) = Done(n, d, l.value)
      BY <1>2, <2>4, ReadStep
    <3>2. Matches(path[Len(path)], l)
      BY <2>4
    <3> QED BY <3>1, <3>2 DEF Sound
  <2>5. l.depth < d \/ l.depth >= d
    OBVIOUS
  <2> QED BY <2>1, <2>2, <2>3, <2>4, <2>5
<1> QED BY <1>1, <1>2 DEF Sound

\* What the parser finds in a text is the value of a line of the text that the last part of
\* the path matches, whatever else stands in it.
LEMMA FoundInLine ==
  ASSUME NEW path, NEW T, NEW text \in Seq(T), \A l \in T : l.depth \in Nat, NEW x, x = parseYaml(text, path)
  PROVE  x = << >> \/ \E l \in T : Matches(path[Len(path)], l) /\ x = l.value
<1> DEFINE N == Len(text)
           Part(f, m) == /\ f[0] = Begin /\ \A i \in 1 .. m : f[i] = Read(path, f[i - 1], text[i])
                         /\ \A i \in 0 .. m : Sound(path, T, f[i])
           Can == [m \in 0 .. N |-> {TRUE}]
           Has == [m \in 0 .. N |-> \E f : Part(f, m)]
<1>1. N \in Nat /\ \A i \in 1 .. N : text[i] \in T
  BY LenProperties, ElementOfSeq
<1> HIDE DEF N
<1>2. Has[0] \in Can[0]
  <2> DEFINE f == [i \in 0 .. 0 |-> Begin]
  <2>1. Sound(path, T, Begin)
    <3>1. 1 \in Nat /\ 0 \in Nat
      OBVIOUS
    <3> QED BY <3>1, BeginSeeks DEF Sound
  <2>2. f[0] = Begin /\ (\A i \in 1 .. 0 : FALSE) /\ (\A i \in 0 .. 0 : f[i] = Begin)
    OBVIOUS
  <2> HIDE DEF f
  <2>3. Part(f, 0)
    BY <2>1, <2>2
  <2> HIDE DEF Part
  <2>4. 0 \in 0 .. N
    BY <1>1
  <2> QED BY <2>3, <2>4
<1>3. ASSUME NEW m \in 1 .. N, Has[m - 1] \in Can[m - 1]
      PROVE  Has[m] \in Can[m]
  <2>1. m \in Nat /\ m - 1 \in 0 .. N /\ m \in 0 .. N /\ m - 1 \in 0 .. m - 1
    BY <1>1
  <2> HIDE DEF Part
  <2>2. PICK f : Part(f, m - 1)
    BY <1>3, <2>1
  <2> DEFINE g == [i \in 0 .. m |-> IF i = m THEN Read(path, f[m - 1], text[m]) ELSE f[i]]
  <2>3. Sound(path, T, Read(path, f[m - 1], text[m]))
    <3>1. Sound(path, T, f[m - 1]) /\ text[m] \in T
      BY <1>1, <2>1, <2>2 DEF Part
    <3> QED BY <3>1, SoundRead
  <2>4. g[m] = Read(path, f[m - 1], text[m]) /\ \A i \in 0 .. m - 1 : g[i] = f[i]
    BY <2>1
  <2> HIDE DEF g
  <2>5. \A i \in 0 .. m : i = m \/ i \in 0 .. m - 1
    BY <2>1
  <2>6. \A i \in 0 .. m : Sound(path, T, g[i])
    BY <2>2, <2>3, <2>4, <2>5 DEF Part
  <2>7. ASSUME NEW i \in 1 .. m
        PROVE  g[i] = Read(path, g[i - 1], text[i])
    <3>1. i - 1 \in 0 .. m - 1
      BY <2>1
    <3>2. CASE i = m
      BY <2>4, <3>1, <3>2
    <3>3. CASE i # m
      <4>1. i \in 1 .. m - 1 /\ i \in 0 .. m - 1
        BY <2>1, <3>3
      <4>2. f[i] = Read(path, f[i - 1], text[i])
        BY <2>2, <4>1 DEF Part
      <4> QED BY <2>4, <3>1, <4>1, <4>2
    <3> QED BY <3>2, <3>3
  <2>8. g[0] = Begin
    <3>1. 0 \in 0 .. m - 1
      BY <2>1
    <3> QED BY <2>2, <2>4, <3>1 DEF Part
  <2>9. Part(g, m)
    BY <2>6, <2>7, <2>8 DEF Part
  <2> QED BY <2>1, <2>9
<1>4. \E f : Part(f, N)
  <2> HIDE DEF Has, Can
  <2>1. \A m \in 0 .. N : Has[m] \in Can[m]
    BY ONLY <1>1, <1>2, <1>3, LoopKeeps
  <2>2. N \in 0 .. N
    BY <1>1
  <2> HIDE DEF Part
  <2> QED BY <2>1, <2>2 DEF Has, Can
<1>5. PICK f : Part(f, N)
  <2> HIDE DEF Part
  <2> QED BY <1>4
<1> DEFINE b == f[N]
<1>6. Sound(path, T, b)
  <2>1. N \in 0 .. N
    BY <1>1
  <2> QED BY <1>5, <2>1
<1>7. Scanned(path, Begin, text, b)
  BY <1>5 DEF Scanned, N
<1> HIDE DEF b
<1>8. x = b.found
  BY <1>7, ScanIs
<1>9. \A n, d : Seeks(n, d).found = << >>
  BY DEF Seeks
<1> QED BY <1>6, <1>8, <1>9, DoneFound DEF Sound

\* The lines of the string in which a CarIdx is a car entered, and a ClassPosition a
\* number: all of them.
Proper == {l \in Written : /\ l.key = "CarIdx" => \E c \in ToSet(entries) : l.value = << c >>
                           /\ l.key = "ClassPosition" => \E n \in Nat : l.value = << n >>}

\* Every line of the string is one of them.
LEMMA StringProper ==
  ASSUME Scene
  PROVE  String \in Seq(Proper)
<1> DEFINE T == Proper
           h == Heading(0, "SessionInfo")
           i == Heading(1, "Sessions")
           j == Heading(0, "DriverInfo")
           k == Line(1, "DriverCarIdx", Me)
           l == Heading(1, "Drivers")
<1>1. /\ Me \in Fields /\ MaxNum \in Nat /\ sessions \in [1 .. MaxNum -> SessionRow]
      /\ Drivers \in Seq(DriverRow) /\ String = Text(Me, Drivers, sessions)
      /\ Len(Drivers) = Len(entries) /\ Len(entries) \in Nat
  BY EntryFacts DEF Scene
<1>2. ASSUME NEW d, NEW key, key \notin {"CarIdx", "ClassPosition"}, NEW v, Line(d, key, v) \in Written
      PROVE  Line(d, key, v) \in T
  BY <1>2, LineIs DEF Proper
<1>3. ASSUME NEW d, NEW key, key \notin {"CarIdx", "ClassPosition"}, Heading(d, key) \in Written
      PROVE  Heading(d, key) \in T
  BY <1>3, HeadingIs DEF Proper
<1>4. ASSUME NEW d, NEW c \in ToSet(entries), Line(d, "CarIdx", c) \in Written
      PROVE  Line(d, "CarIdx", c) \in T
  BY <1>4, LineIs DEF Proper
<1>5. ASSUME NEW d, NEW n \in Nat, Line(d, "ClassPosition", n) \in Written
      PROVE  Line(d, "ClassPosition", n) \in T
  BY <1>5, LineIs DEF Proper
<1>6. /\ h \in T /\ i \in T /\ j \in T /\ k \in T /\ l \in T
  <2>1. k \in Written
    BY <1>1, LinesWritten
  <2>2. k \in T
    BY <1>2, <2>1
  <2> HIDE DEF T
  <2> QED BY <1>3, <2>2, HeadingsWritten
<1>7. ASSUME NEW n \in 1 .. MaxNum
      PROVE  SessionLines(sessions[n], n) \in Seq(T)
  <2> DEFINE s == sessions[n]
  <2>1. s \in SessionRow /\ Placed(s.results, ToSet(entries))
    BY <1>1 DEF Scene
  <2> HIDE DEF s, T
  <2>2. /\ s.results \in Seq(Row) /\ Len(s.results) \in Nat /\ s.laps \in Fields
        /\ \A p \in 1 .. Len(s.results) : /\ s.results[p] \in Row /\ s.results[p].car \in Fields
                                          /\ s.results[p].classPosition \in Fields
    BY <2>1, RowTypes
  <2>3. n \in Fields
    BY <1>1 DEF Fields
  <2>4. Line(3, "SessionNum", n) \in T /\ Line(3, "SessionLaps", s.laps) \in T
    <3>1. Line(3, "SessionNum", n) \in Written /\ Line(3, "SessionLaps", s.laps) \in Written
      BY <2>2, <2>3, LinesWritten
    <3> QED BY <1>2, <3>1
  <2>5. Heading(3, "ResultsPositions") \in T
    BY <1>3, HeadingsWritten
  <2>6. ASSUME NEW p \in 1 .. Len(s.results)
        PROVE  /\ Line(5, "Position", p) \in T
               /\ Line(5, "ClassPosition", s.results[p].classPosition) \in T
               /\ Line(5, "CarIdx", s.results[p].car) \in T
    <3>1. p \in Fields
      BY <2>2 DEF Fields
    <3>2. /\ Line(5, "Position", p) \in Written /\ Line(5, "CarIdx", s.results[p].car) \in Written
          /\ Line(5, "ClassPosition", s.results[p].classPosition) \in Written
      BY <2>2, <3>1, LinesWritten
    <3>3. s.results[p].car \in ToSet(entries) /\ s.results[p].classPosition \in Nat
      BY <2>1, <2>2 DEF Placed, Row
    <3> QED BY <1>2, <1>4, <1>5, <3>2, <3>3
  <2>7. SessionLines(s, n) \in Seq(T)
    BY ONLY <2>2, <2>4, <2>5, <2>6, SessionTyped
  <2> QED BY <2>7 DEF s
<1>8. ASSUME NEW d \in 1 .. Len(Drivers)
      PROVE  DriverLines(Drivers[d]) \in Seq(T)
  <2> DEFINE x == Drivers[d]
  <2>1. x \in DriverRow /\ x.car \in ToSet(entries)
    <3>1. x \in DriverRow
      BY <1>1, ElementOfSeq
    <3>2. x.car = entries[d]
      BY <1>1, EntryFacts
    <3>3. entries[d] \in ToSet(entries)
      BY <1>1, EntryFacts
    <3> QED BY <3>1, <3>2, <3>3
  <2> HIDE DEF x, T
  <2>2. /\ Line(3, "CarIdx", x.car) \in Written /\ Line(3, "CarNumber", x.number) \in Written
        /\ Line(3, "CarClassShortName", x.class) \in Written
    BY <2>1, DriverValues, LinesWritten
  <2>3. /\ Line(3, "CarIdx", x.car) \in T /\ Line(3, "CarNumber", x.number) \in T
        /\ Line(3, "CarClassShortName", x.class) \in T
    BY <1>2, <1>4, <2>1, <2>2
  <2>4. DriverLines(x) \in Seq(T)
    BY ONLY <2>3, DriverTyped
  <2> QED BY <2>4 DEF x
<1>9. SessionsText(sessions) \in Seq(T)
  <2> DEFINE f == [n \in DOMAIN sessions |-> SessionLines(sessions[n], n)]
  <2>1. Len(sessions) = MaxNum /\ \A n \in 1 .. MaxNum : f[n] = SessionLines(sessions[n], n)
    BY ONLY <1>1, ListTexts
  <2> HIDE DEF f, T
  <2>2. Concat(f, MaxNum) \in Seq(T)
    BY ONLY <1>1, <1>7, <2>1, ConcatSeq
  <2> QED BY <2>1, <2>2 DEF SessionsText, f
<1>10. DriversText(Drivers) \in Seq(T)
  <2> DEFINE f == [d \in DOMAIN Drivers |-> DriverLines(Drivers[d])]
             m == Len(Drivers)
  <2>1. m \in Nat /\ \A d \in 1 .. m : f[d] = DriverLines(Drivers[d])
    <3>1. m \in Nat /\ DOMAIN Drivers = 1 .. m
      BY <1>1, ListTexts
    <3> QED BY <3>1
  <2>2. \A d \in 1 .. m : DriverLines(Drivers[d]) \in Seq(T)
    BY <1>8
  <2> HIDE DEF f, T, m
  <2>3. Concat(f, m) \in Seq(T)
    BY ONLY <2>1, <2>2, ConcatSeq
  <2> QED BY <2>3 DEF DriversText, f, m
<1>11. << h, i >> \in Seq(T) /\ << j, k, l >> \in Seq(T)
  <2> HIDE DEF h, i, j, k, l, T
  <2> QED BY <1>6
<1> DEFINE p == << h, i >>
           r == << j, k, l >>
           s == SessionsText(sessions)
           t == DriversText(Drivers)
<1>12. Text(Me, Drivers, sessions) = p \o s \o r \o t
  BY DEF Text, SessionsText, DriversText
<1>13. p \in Seq(T) /\ s \in Seq(T) /\ r \in Seq(T) /\ t \in Seq(T)
  BY <1>9, <1>10, <1>11
<1> HIDE DEF p, s, r, t, T
<1>14. p \o s \o r \o t \in Seq(T)
  BY ONLY <1>13, ConcatProperties
<1> QED BY <1>1, <1>12, <1>14 DEF T

\* Whatever session and position the parser is asked for, the CarIdx that it finds is a
\* car entered and the ClassPosition a number, also where the lines are another session's.
LEMMA RowFound ==
  ASSUME Scene, NEW n, NEW p
  PROVE  /\ CarIdxAt(String, n, p) = << >> \/ \E c \in ToSet(entries) : CarIdxAt(String, n, p) = << c >>
         /\ \/ ClassPositionAt(String, n, p) = << >>
            \/ \E m \in Nat : ClassPositionAt(String, n, p) = << m >>
<1>1. ASSUME NEW k, NEW x, x = parseYaml(String, ResultPath(n, p) \o <<At(k)>>)
      PROVE  x = << >> \/ \E l \in Proper : l.key = k /\ x = l.value
  <2> DEFINE path == ResultPath(n, p) \o <<At(k)>>
  <2>1. Len(path) = 6 /\ path[6] = At(k)
    BY ResultPathIs DEF Result
  <2>2. String \in Seq(Proper) /\ \A l \in Proper : l.depth \in Nat
    BY StringProper DEF Proper, Written
  <2>3. x = parseYaml(String, path)
    BY <1>1
  <2> HIDE DEF path
  <2>4. x = << >> \/ \E l \in Proper : Matches(path[Len(path)], l) /\ x = l.value
    BY ONLY <2>2, <2>3, FoundInLine
  <2>5. \A l : Matches(path[Len(path)], l) <=> l.key = k
    BY <2>1, AtMatches
  <2> QED BY <2>4, <2>5
<1>2. CarIdxAt(String, n, p) = << >> \/ \E c \in ToSet(entries) : CarIdxAt(String, n, p) = << c >>
  <2> DEFINE x == CarIdxAt(String, n, p)
  <2>1. x = parseYaml(String, ResultPath(n, p) \o <<At("CarIdx")>>)
    BY DEF CarIdxAt
  <2> HIDE DEF x
  <2>2. x = << >> \/ \E l \in Proper : l.key = "CarIdx" /\ x = l.value
    BY <1>1, <2>1
  <2>3. x = << >> \/ \E c \in ToSet(entries) : x = << c >>
    BY <2>2 DEF Proper
  <2> QED BY <2>3 DEF x
<1>3. \/ ClassPositionAt(String, n, p) = << >>
      \/ \E m \in Nat : ClassPositionAt(String, n, p) = << m >>
  <2> DEFINE x == ClassPositionAt(String, n, p)
  <2>1. x = parseYaml(String, ResultPath(n, p) \o <<At("ClassPosition")>>)
    BY DEF ClassPositionAt
  <2> HIDE DEF x
  <2>2. x = << >> \/ \E l \in Proper : l.key = "ClassPosition" /\ x = l.value
    BY <1>1, <2>1
  <2>3. x = << >> \/ \E m \in Nat : x = << m >>
    BY <2>2 DEF Proper
  <2> QED BY <2>3 DEF x
<1> QED BY <1>2, <1>3

-------------------------------------------------------------------------------
(***************************************************************************)
(* Standings: the telemetry of a pass, and the intervals.                  *)
(***************************************************************************)

\* The distance that is reckoned is the car's, or a lap more.
LEMMA TotalIs ==
  ASSUME Scene, NEW c \in Cars, NEW lagging
  PROVE  Total(c, lagging) \in {dist[c], dist[c] + Q}
<1> DEFINE d == dist[c]
           b == d \div Q
<1>1. d \in Nat /\ Q \in Nat \ {0}
  BY StandingsAssumption DEF Scene
<1>2. b \in Nat /\ d % Q \in Nat /\ Q * b + (d % Q) = d
  <2> HIDE DEF d
  <2> QED BY ONLY <1>1 DEF b
<1>3. Total(c, lagging) = IF c \in lagging THEN Q * b + (d % Q) ELSE Q * (b + 1) + (d % Q)
  BY DEF Total, CarIdxLap
<1> DEFINE r == d % Q
<1>4. b \in Nat /\ r \in Nat /\ Q * b + r = d
  BY <1>2
<1> HIDE DEF b, d, r
<1>5. Q * (b + 1) = Q * b + Q
  BY ONLY <1>1, <1>4
<1>6. Q * b \in Nat
  BY ONLY <1>1, <1>4
<1> DEFINE x == Q * b
<1>7. Q * (b + 1) + r = d + Q
  <2>1. x \in Nat /\ Q * (b + 1) = x + Q /\ x + r = d
    BY ONLY <1>4, <1>5, <1>6
  <2> HIDE DEF x
  <2> QED BY ONLY <1>1, <1>4, <2>1
<1>8. Total(c, lagging) = IF c \in lagging THEN d ELSE d + Q
  BY ONLY <1>3, <1>4, <1>7 DEF r
<1> QED BY <1>8 DEF d

\* The copied telemetry: a car on the track is where it is, or a lap further; the driver's
\* own place is right while his car is on the track, and no further than a lap.
Sampled ==
  /\ sample.num \in 1 .. num
  /\ \A c \in Cars : /\ sample.dist[c] \in 0 .. MaxDist
                     /\ sample.cars[c] \in {-1, sample.dist[c], sample.dist[c] + Q}
  /\ sample.own \in -2 * Q .. MaxDist + Q
  /\ sample.cars[Me] # -1 => sample.own \in {sample.dist[Me], sample.dist[Me] + Q}

\* The telemetry that a pass reads is of this moment.
LEMMA TelemetryRead ==
  ASSUME Scene, ReadTelemetry, num' = num
  PROVE  Sampled' /\ sample'.num = num
<1>1. PICK lagging, own : own \in Own(lagging) /\ sample' = Sample(lagging, own)
  BY DEF ReadTelemetry
<1> DEFINE f == [c \in Cars |-> IF c \in inWorld THEN Total(c, lagging) ELSE -1]
<1>2. sample' = [num |-> num, dist |-> dist, own |-> own, cars |-> f]
  BY <1>1 DEF Sample
<1> HIDE DEF f
<1>3. sample'.num = num /\ sample'.dist = dist /\ sample'.own = own /\ sample'.cars = f
  BY ONLY <1>2
<1>4. /\ num \in 1 .. MaxNum /\ Me \in Cars /\ Q \in Nat \ {0} /\ MaxDist \in Nat
      /\ \A c \in Cars : dist[c] \in 0 .. MaxDist
  BY EntryFacts, StandingsAssumption DEF Scene
<1>5. \A c \in Cars : f[c] \in {-1, dist[c], dist[c] + Q} /\ (f[c] # -1 => c \in inWorld)
  <2>1. \A c \in Cars : f[c] = IF c \in inWorld THEN Total(c, lagging) ELSE -1
    BY DEF f
  <2> QED BY <2>1, TotalIs
<1>6. CASE Me \in inWorld
  <2>1. own = Total(Me, lagging)
    BY <1>1, <1>6 DEF Own
  <2>2. own \in {dist[Me], dist[Me] + Q}
    BY <1>4, <2>1, TotalIs
  <2>3. own \in -2 * Q .. MaxDist + Q
    BY ONLY <1>4, <2>2
  <2>4. Sampled'
    BY <1>3, <1>4, <1>5, <2>2, <2>3 DEF Sampled
  <2> QED BY <1>3, <2>4
<1>7. CASE Me \notin inWorld
  <2> DEFINE d == dist[Me]
             y == Q * (d \div Q)
  <2>1. own \in {-2 * Q, y} /\ f[Me] = -1
    BY <1>1, <1>4, <1>5, <1>7 DEF Own
  <2>2. d \in 0 .. MaxDist /\ d \in Nat
    BY <1>4
  <2>3. y \in 0 .. d
    <3> DEFINE b == d \div Q
               r == d % Q
    <3> HIDE DEF d
    <3>1. b \in Nat /\ r \in Nat /\ Q * b + r = d
      BY ONLY <1>4, <2>2
    <3>2. Q * b \in Nat
      <4> HIDE DEF b
      <4> QED BY ONLY <1>4, <3>1
    <3> DEFINE z == Q * b
    <3>3. z \in Nat /\ z + r = d
      BY <3>1, <3>2
    <3>4. y = z
      OBVIOUS
    <3> HIDE DEF y, z, r
    <3> QED BY ONLY <2>2, <3>1, <3>3, <3>4
  <2> HIDE DEF y, d
  <2>4. own \in -2 * Q .. MaxDist + Q
    BY ONLY <1>4, <2>1, <2>2, <2>3
  <2>5. Sampled'
    BY <1>3, <1>4, <1>5, <2>1, <2>4 DEF Sampled
  <2> QED BY <1>3, <2>5
<1> QED BY <1>6, <1>7

\* An interval is given to a car on the track, and is at most one lap off the distance
\* between it and the driver while he is there too.
LEMMA GapIs ==
  ASSUME Sampled, NEW c \in Cars, NEW off \in {-1, 1}, NEW g, g = Gap(c, Way(c, off))
  PROVE  /\ g \in -1 .. MaxDist + 3 * Q
         /\ g >= 0 =>
              /\ sample.cars[c] # -1
              /\ sample.cars[Me] # -1 =>
                   LET gap == (IF off = -1 THEN 1 ELSE -1) * (sample.dist[c] - sample.dist[Me])
                   IN g \in {gap - Q, gap, gap + Q}
<1> DEFINE a == sample.dist[Me]
           b == sample.dist[c]
           x == sample.own
           y == sample.cars[c]
           z == sample.cars[Me]
           w == Way(c, off)
<1>1. /\ a \in 0 .. MaxDist /\ b \in 0 .. MaxDist /\ Q \in Nat \ {0} /\ MaxDist \in Nat
      /\ y \in {-1, b, b + Q} /\ x \in -2 * Q .. MaxDist + Q /\ (z # -1 => x \in {a, a + Q})
  BY StandingsAssumption DEF Sampled
<1>2. g = IF y # -1 /\ w >= 0 THEN w ELSE -1
  BY DEF Gap
<1>3. w = IF off = -1 THEN y - x ELSE x - y
  BY DEF Way
<1> HIDE DEF a, b, x, y, z, w
<1>4. CASE y # -1 /\ w >= 0
  <2>1. g = w
    BY ONLY <1>2, <1>4
  <2>2. y \in {b, b + Q}
    BY ONLY <1>1, <1>4
  <2>3. CASE off = -1
    <3>1. w = y - x /\ (IF off = -1 THEN 1 ELSE -1) * (b - a) = b - a
      BY ONLY <1>1, <1>3, <2>3
    <3>2. g \in -1 .. MaxDist + 3 * Q
      BY ONLY <1>1, <1>4, <2>1, <2>2, <3>1
    <3>3. z # -1 => g \in {(b - a) - Q, b - a, (b - a) + Q}
      BY ONLY <1>1, <2>1, <2>2, <3>1
    <3> QED BY <1>4, <3>1, <3>2, <3>3 DEF a, b, y, z
  <2>4. CASE off = 1
    <3>1. w = x - y /\ (IF off = -1 THEN 1 ELSE -1) * (b - a) = a - b
      BY ONLY <1>1, <1>3, <2>4
    <3>2. g \in -1 .. MaxDist + 3 * Q
      BY ONLY <1>1, <1>4, <2>1, <2>2, <3>1
    <3>3. z # -1 => g \in {(a - b) - Q, a - b, (a - b) + Q}
      BY ONLY <1>1, <2>1, <2>2, <3>1
    <3> QED BY <1>4, <3>1, <3>2, <3>3 DEF a, b, y, z
  <2> QED BY <2>3, <2>4
<1>5. CASE ~(y # -1 /\ w >= 0)
  <2>1. g = -1
    BY <1>2, <1>5
  <2> QED BY ONLY <1>1, <2>1
<1> QED BY <1>4, <1>5

-------------------------------------------------------------------------------
(***************************************************************************)
(* Standings: the invariant, which is Scene, of what the string is made    *)
(* from, and PassInv, of the pass that reads it: the telemetry it has      *)
(* copied (Sampled), the cars it has found so far (Reads) and what it      *)
(* publishes of the two sides (Told). What Reads and Told say of the       *)
(* results holds only while the string has not been written again.         *)
(***************************************************************************)

SessionResults == sessions[sample.num].results
Off(side) == IF side = "ahead" THEN -1 ELSE 1

\* What is published of the car on one side is true of it.
Told(p, side) ==
  /\ p.car \in Cars \cup {-1} /\ p.interval \in -1 .. MaxDist + 3 * Q
  /\ p.car >= 0 =>
       /\ ClassOf[p.car] = ClassOf[Me]
       /\ ~rewritten =>
            /\ p.car # Me
            /\ \E r, mine \in ToSet(SessionResults) :
                 /\ r.car = p.car /\ mine.car = Me
                 /\ r.classPosition = mine.classPosition + (IF side = "ahead" THEN -1 ELSE 1)
                 /\ p.position = r.classPosition + 1
  /\ p.interval >= 0 =>
       /\ p.car >= 0 /\ sample.cars[p.car] # -1
       /\ sample.cars[Me] # -1 =>
            LET gap == (IF side = "ahead" THEN 1 ELSE -1) * (sample.dist[p.car] - sample.dist[Me])
            IN p.interval \in {gap - Q, gap, gap + Q}

\* The cars found so far are of the driver's class, and at their places in the results.
Reads ==
  /\ call.class = ClassOf[Me] /\ call.position \in Nat \ {0} /\ call.mine \in Nat \cup {-1}
  /\ \A p \in DOMAIN call.places :
       /\ p \in Nat /\ call.places[p] \in ToSet(entries) /\ ClassOf[call.places[p]] = ClassOf[Me]
  /\ call.at = "class" => call.car \in ToSet(entries) /\ ClassOf[call.car] = ClassOf[Me]
  /\ ~rewritten =>
       /\ \A n \in sample.num + 1 .. MaxNum : sessions[n].results = << >>
       /\ \A p \in DOMAIN call.places : \E r \in ToSet(SessionResults) :
            r.car = call.places[p] /\ r.classPosition = p
       /\ call.mine # -1 => \E r \in ToSet(SessionResults) : r.car = Me /\ r.classPosition = call.mine
       /\ call.at = "class" =>
            call.position <= Len(SessionResults) /\ SessionResults[call.position].car = call.car

IsCall(c) ==
  c = [at |-> c.at, class |-> c.class, position |-> c.position, car |-> c.car,
       places |-> c.places, mine |-> c.mine]

PassInv ==
  /\ call.at \in {"idle", "place", "class", "neighbours", "published"} /\ IsCall(call)
  /\ call.at = "idle" => call = Idle
  /\ pub # Nothing <=> call.at = "published"
  /\ rewritten \in BOOLEAN /\ moves \in 0 .. MaxMoves
  /\ call.at # "idle" => Sampled
  /\ call.at \in {"place", "class", "neighbours"} => Reads
  /\ pub # Nothing => \A side \in {"ahead", "behind"} : Told(pub[side], side)

StandingsInv == Scene /\ PassInv

\* The parts of the invariant that the steps use.
LEMMA SceneFacts ==
  ASSUME StandingsInv
  PROVE  /\ num \in 1 .. MaxNum /\ dist \in [Cars -> 0 .. MaxDist] /\ inWorld \subseteq ToSet(entries)
         /\ entries \in Seq(Cars) /\ IsInjective(entries) /\ Me \in ToSet(entries)
         /\ sessions \in [1 .. MaxNum -> SessionRow]
         /\ \A n \in 1 .. MaxNum : Placed(sessions[n].results, ToSet(entries))
         /\ \A n \in num + 1 .. MaxNum : sessions[n].results = << >>
BY DEF StandingsInv, Scene

\* The locals before a call.
LEMMA IdleIs ==
  /\ Idle.at = "idle" /\ Idle.position = 1 /\ Idle.car = -1 /\ Idle.mine = -1
  /\ Idle.places = Nothing /\ DOMAIN Idle.places = {} /\ IsCall(Idle)
BY DEF Idle, Nothing, IsCall

\* A step of the simulator, which does not move the pass: it goes on, the cars entered are
\* still entered, and new lines in the string are known to be new.
LEMMA SimulatorKeeps ==
  ASSUME StandingsInv, Scene', NEW rewrites \in BOOLEAN, Meanwhile(rewrites), num' >= num,
         ToSet(entries) \subseteq ToSet(entries'), rewrites \/ sessions' = sessions
  PROVE  StandingsInv'
<1>1. /\ sample' = sample /\ call' = call /\ pub' = pub /\ rewritten' = (rewritten \/ (rewrites /\ call # Idle))
      /\ IF call = Idle THEN moves' = moves ELSE moves < MaxMoves /\ moves' = moves + 1
  BY DEF Meanwhile, passVars
<1>2. PassInv /\ MaxMoves \in Nat /\ num \in Nat /\ num' \in Nat
  BY SceneFacts, StandingsAssumption DEF StandingsInv, Scene
<1>3. rewritten' \in BOOLEAN /\ moves' \in 0 .. MaxMoves
  BY <1>1, <1>2 DEF PassInv
<1>4. call.at # "idle" => Sampled'
  <2> HAVE call.at # "idle"
  <2>1. Sampled
    BY <1>2 DEF PassInv
  <2>2. sample.num \in 1 .. num'
    BY <1>2, <2>1 DEF Sampled
  <2> QED BY <1>1, <2>1, <2>2 DEF Sampled
<1>5. call.at # "idle" /\ ~rewritten' => ~rewritten /\ sessions' = sessions
  <2>1. call.at # "idle" => call # Idle
    BY IdleIs
  <2> QED BY <1>1, <1>2, <2>1 DEF PassInv
<1>6. call.at \in {"place", "class", "neighbours"} => Reads'
  <2> HAVE call.at \in {"place", "class", "neighbours"}
  <2>1. Reads
    BY <1>2 DEF PassInv
  <2>2. ~rewritten' => ~rewritten /\ sessions' = sessions /\ SessionResults' = SessionResults
    BY <1>1, <1>5 DEF SessionResults
  <2> QED BY <1>1, <2>1, <2>2 DEF Reads
<1>7. pub # Nothing => \A side \in {"ahead", "behind"} : Told(pub[side], side)'
  <2> HAVE pub # Nothing
  <2> TAKE side \in {"ahead", "behind"}
  <2> DEFINE p == pub[side]
  <2>1. Told(p, side) /\ call.at = "published"
    BY <1>2 DEF PassInv
  <2>2. ~rewritten' => ~rewritten /\ SessionResults' = SessionResults
    BY <1>1, <1>5, <2>1 DEF SessionResults
  <2>3. p' = p
    BY <1>1
  <2> HIDE DEF p
  <2>4. Told(p, side)'
    BY <1>1, <2>1, <2>2, <2>3 DEF Told
  <2> QED BY <2>4 DEF p
<1>8. PassInv'
  BY <1>1, <1>2, <1>3, <1>4, <1>6, <1>7 DEF PassInv, IsCall
<1> QED BY <1>8 DEF StandingsInv

\* The simulator's first string satisfies the invariant.
LEMMA InitHolds ==
  ASSUME StandingsInit
  PROVE  StandingsInv
<1>1. /\ Cars \subseteq Nat /\ Me \in Cars /\ MaxNum \in Nat \ {0} /\ MaxDist \in Nat
      /\ Cardinality(Cars) \in Nat
  BY StandingsAssumption, FS_CardinalityType
<1>2. entries \in Seq(Cars) /\ IsInjective(entries) /\ Me \in ToSet(entries)
  BY StandingsAssumption DEF StandingsInit
<1>3. Placed(<< >>, ToSet(entries))
  <2> DEFINE r == << >>
  <2>1. r \in Seq(Row) /\ Len(r) = 0
    OBVIOUS
  <2> HIDE DEF r
  <2>2. Placed(r, ToSet(entries))
    BY ONLY <1>1, <2>1 DEF Placed
  <2> QED BY <2>2 DEF r
<1>4. \A n \in 1 .. MaxNum : sessions[n].results = << >>
  BY DEF StandingsInit
<1>5. sessions \in [1 .. MaxNum -> SessionRow]
  <2>1. [laps |-> "unlimited", results |-> << >>] \in SessionRow
    BY DEF SessionRow
  <2> QED BY <2>1 DEF StandingsInit
<1>6. num \in 1 .. MaxNum /\ dist \in [Cars -> 0 .. MaxDist] /\ inWorld \subseteq ToSet(entries) /\ num = 1
  BY <1>1 DEF StandingsInit
<1>7. \A n \in num + 1 .. MaxNum : n \in 1 .. MaxNum
  BY <1>1, <1>6
<1>8. Scene
  BY <1>2, <1>3, <1>4, <1>5, <1>6, <1>7 DEF Scene
<1>9. PassInv
  <2>1. /\ call = Idle /\ pub = Nothing /\ rewritten = FALSE /\ moves = 0 /\ MaxMoves \in Nat
    BY StandingsAssumption DEF StandingsInit
  <2>2. call.at = "idle" /\ IsCall(call)
    BY <2>1, IdleIs
  <2>3. rewritten \in BOOLEAN /\ moves \in 0 .. MaxMoves
    <3>1. moves \in 0 .. MaxMoves
      BY ONLY <2>1
    <3>2. rewritten \in BOOLEAN
      BY ONLY <2>1, Zenon
    <3> QED BY <3>1, <3>2
  <2>4. (pub # Nothing <=> call.at = "published") /\ ~(pub # Nothing)
    BY ONLY <2>1, <2>2
  <2>5. ~(call.at # "idle") /\ ~(call.at \in {"place", "class", "neighbours"})
    BY ONLY <2>2
  <2>6. call.at \in {"idle", "place", "class", "neighbours", "published"}
    BY ONLY <2>2
  <2> QED BY ONLY <2>1, <2>2, <2>3, <2>4, <2>5, <2>6 DEF PassInv
<1> QED BY <1>8, <1>9 DEF StandingsInv

\* A car that enters is entered once, and the results stay those of cars entered.
LEMMA JoinStep ==
  ASSUME StandingsInv, NEW c \in Cars, Join(c)
  PROVE  StandingsInv'
<1>1. /\ UNCHANGED << num, dist, inWorld, sessions >> /\ Meanwhile(TRUE)
      /\ c \notin ToSet(entries) /\ entries' = Append(entries, c)
  BY DEF Join
<1> DEFINE N == Len(entries)
<1>2. entries \in Seq(Cars) /\ IsInjective(entries)
  BY SceneFacts
<1>3. N \in Nat /\ DOMAIN entries = 1 .. N
  BY <1>2, LenProperties
<1>4. /\ entries' \in Seq(Cars) /\ DOMAIN entries' = 1 .. N + 1 /\ entries'[N + 1] = c
      /\ \A i \in 1 .. N : entries'[i] = entries[i]
  <2> DEFINE s == Append(entries, c)
  <2>1. /\ s \in Seq(Cars) /\ Len(s) = N + 1
        /\ \A i \in 1 .. N : s[i] = entries[i]
        /\ s[N + 1] = c
    BY ONLY <1>2, c \in Cars, AppendProperties
  <2> HIDE DEF s
  <2>2. DOMAIN s = 1 .. N + 1
    BY ONLY <1>3, <2>1, LenProperties
  <2> QED BY <1>1, <2>1, <2>2 DEF s
<1> HIDE DEF N
<1>5. ToSet(entries) \subseteq ToSet(entries')
  <2>1. \A i \in 1 .. N : i \in 1 .. N + 1
    BY <1>3
  <2> QED BY <1>3, <1>4, <2>1 DEF ToSet
<1>6. IsInjective(entries')
  <2>1. \A i \in 1 .. N : entries[i] # c
    BY <1>1, <1>3 DEF ToSet
  <2>2. \A i \in 1 .. N + 1 : i \in 1 .. N \/ i = N + 1
    BY <1>3
  <2>3. \A i, j \in 1 .. N : entries[i] = entries[j] => i = j
    BY <1>2, <1>3 DEF IsInjective
  <2>4. ASSUME NEW i \in 1 .. N + 1, NEW j \in 1 .. N + 1, entries'[i] = entries'[j]
        PROVE  i = j
    BY <1>4, <2>1, <2>2, <2>3, <2>4
  <2> QED BY <1>4, <2>4 DEF IsInjective
<1>7. \A n \in 1 .. MaxNum : Placed(sessions[n].results, ToSet(entries'))
  <2>1. \A n \in 1 .. MaxNum : Placed(sessions[n].results, ToSet(entries))
    BY SceneFacts
  <2>2. ASSUME NEW r, Placed(r, ToSet(entries))
        PROVE  Placed(r, ToSet(entries'))
    BY <1>5, <2>2 DEF Placed
  <2> QED BY <2>1, <2>2
<1>8. Scene'
  <2>1. inWorld' \subseteq ToSet(entries') /\ Me \in ToSet(entries')
    BY <1>1, <1>5, SceneFacts
  <2>2. /\ num' \in 1 .. MaxNum /\ dist' \in [Cars -> 0 .. MaxDist]
        /\ sessions' \in [1 .. MaxNum -> SessionRow]
        /\ \A n \in num' + 1 .. MaxNum : sessions'[n].results = << >>
    BY <1>1, SceneFacts
  <2>3. \A n \in 1 .. MaxNum : Placed(sessions'[n].results, ToSet(entries'))
    BY <1>1, <1>7
  <2> QED BY <1>4, <1>6, <2>1, <2>2, <2>3 DEF Scene
<1>9. num' >= num /\ TRUE \in BOOLEAN
  <2>1. num \in Nat
    BY SceneFacts, StandingsAssumption
  <2> QED BY <1>1, <2>1
<1> QED BY <1>1, <1>5, <1>8, <1>9, SimulatorKeeps

\* Entering and leaving the track keep the invariant.
LEMMA TrackStep ==
  ASSUME StandingsInv, NEW c \in Cars, EnterTrack(c) \/ LeaveTrack(c)
  PROVE  StandingsInv'
<1>1. /\ UNCHANGED << num, dist, entries, sessions >> /\ Meanwhile(FALSE)
      /\ inWorld' \subseteq inWorld \cup ToSet(entries)
  BY DEF EnterTrack, LeaveTrack
<1>2. inWorld' \subseteq ToSet(entries)
  BY <1>1, SceneFacts
<1>3. Scene'
  BY <1>1, <1>2, SceneFacts DEF Scene
<1>4. num' >= num /\ FALSE \in BOOLEAN /\ ToSet(entries) \subseteq ToSet(entries')
  <2>1. num \in Nat
    BY SceneFacts, StandingsAssumption
  <2> QED BY <1>1, <2>1
<1> QED BY <1>1, <1>3, <1>4, SimulatorKeeps

\* Driving a step keeps the invariant.
LEMMA DriveStep ==
  ASSUME StandingsInv, NEW c \in Cars, Drive(c)
  PROVE  StandingsInv'
<1>1. /\ UNCHANGED << num, inWorld, entries, sessions >> /\ Meanwhile(FALSE)
      /\ dist[c] < MaxDist /\ dist' = [dist EXCEPT ![c] = @ + 1]
  BY DEF Drive
<1>2. dist' \in [Cars -> 0 .. MaxDist]
  <2>1. dist \in [Cars -> 0 .. MaxDist] /\ MaxDist \in Nat
    BY SceneFacts, StandingsAssumption
  <2>2. dist[c] + 1 \in 0 .. MaxDist
    BY <1>1, <2>1
  <2> QED BY <1>1, <2>1, <2>2
<1>3. Scene'
  BY <1>1, <1>2, SceneFacts DEF Scene
<1>4. num' >= num /\ FALSE \in BOOLEAN /\ ToSet(entries) \subseteq ToSet(entries')
  <2>1. num \in Nat
    BY SceneFacts, StandingsAssumption
  <2> QED BY <1>1, <2>1
<1> QED BY <1>1, <1>3, <1>4, SimulatorKeeps

\* New results of the session that runs keep the invariant.
LEMMA UpdateStep ==
  ASSUME StandingsInv, UpdateResults
  PROVE  StandingsInv'
<1>1. /\ UNCHANGED << num, dist, inWorld, entries >> /\ Meanwhile(TRUE)
      /\ sessions' = [sessions EXCEPT ![num].results = Results]
  BY DEF UpdateResults
<1> DEFINE row == [sessions[num] EXCEPT !.results = Results]
<1>2. Placed(Results, ToSet(entries))
  <2>1. dist \in [Cars -> Nat] /\ ToSet(entries) \subseteq Cars
    <3>1. dist \in [Cars -> 0 .. MaxDist] /\ Scene
      BY SceneFacts DEF StandingsInv
    <3>2. 0 .. MaxDist \subseteq Nat
      OBVIOUS
    <3> QED BY <3>1, <3>2, EntryFacts
  <2> QED BY <2>1, ResultsPlaced
<1>3. /\ num \in 1 .. MaxNum /\ sessions \in [1 .. MaxNum -> SessionRow] /\ MaxNum \in Nat
      /\ \A n \in 1 .. MaxNum : Placed(sessions[n].results, ToSet(entries))
      /\ \A n \in num + 1 .. MaxNum : sessions[n].results = << >>
  BY SceneFacts, StandingsAssumption
<1>4. row \in SessionRow /\ row.results = Results
  <2> DEFINE s == sessions[num]
             r == Results
  <2>1. s \in SessionRow /\ r \in Seq(Row)
    BY <1>2, <1>3 DEF Placed
  <2> HIDE DEF s, r
  <2>2. [s EXCEPT !.results = r] \in SessionRow /\ [s EXCEPT !.results = r].results = r
    BY ONLY <2>1 DEF SessionRow
  <2> QED BY <2>2 DEF s, r
<1>5. sessions' = [sessions EXCEPT ![num] = row]
  BY <1>1
<1> HIDE DEF row
<1>6. /\ sessions' \in [1 .. MaxNum -> SessionRow]
      /\ \A n \in 1 .. MaxNum : sessions'[n] = IF n = num THEN row ELSE sessions[n]
  BY <1>3, <1>4, <1>5
<1>7. \A n \in 1 .. MaxNum : Placed(sessions'[n].results, ToSet(entries))
  BY <1>2, <1>3, <1>4, <1>6
<1>8. \A n \in num + 1 .. MaxNum : sessions'[n].results = << >>
  <2>1. \A n \in num + 1 .. MaxNum : n \in 1 .. MaxNum /\ n # num
    BY <1>3
  <2> QED BY <1>3, <1>6, <2>1
<1>9. Scene'
  <2>1. /\ num' \in 1 .. MaxNum /\ dist' \in [Cars -> 0 .. MaxDist] /\ inWorld' \subseteq ToSet(entries')
        /\ entries' \in Seq(Cars) /\ IsInjective(entries') /\ Me \in ToSet(entries')
    BY <1>1, SceneFacts
  <2>2. /\ \A n \in 1 .. MaxNum : Placed(sessions'[n].results, ToSet(entries'))
        /\ \A n \in num' + 1 .. MaxNum : sessions'[n].results = << >>
    BY <1>1, <1>7, <1>8
  <2> QED BY <1>6, <2>1, <2>2 DEF Scene
<1>10. num' >= num /\ TRUE \in BOOLEAN /\ ToSet(entries) \subseteq ToSet(entries')
  <2>1. num \in Nat
    BY SceneFacts, StandingsAssumption
  <2> QED BY <1>1, <2>1
<1> QED BY <1>1, <1>9, <1>10, SimulatorKeeps

\* The next session has no results yet, and the invariant is kept.
LEMMA SessionStep ==
  ASSUME StandingsInv, NextSession
  PROVE  StandingsInv'
<1>1. /\ UNCHANGED << entries, sessions >> /\ Meanwhile(FALSE) /\ num < MaxNum /\ num' = num + 1
      /\ dist' = [c \in Cars |-> 0] /\ inWorld' = {}
  BY DEF NextSession
<1>2. num \in 1 .. MaxNum /\ MaxNum \in Nat /\ MaxDist \in Nat
  BY SceneFacts, StandingsAssumption
<1>3. /\ num' \in 1 .. MaxNum /\ dist' \in [Cars -> 0 .. MaxDist]
      /\ \A n \in num' + 1 .. MaxNum : n \in num + 1 .. MaxNum
  BY <1>1, <1>2
<1>4. Scene'
  <2>1. \A n \in num' + 1 .. MaxNum : sessions'[n].results = << >>
    BY <1>1, <1>3, SceneFacts
  <2>2. /\ inWorld' \subseteq ToSet(entries') /\ entries' \in Seq(Cars) /\ IsInjective(entries')
        /\ Me \in ToSet(entries') /\ sessions' \in [1 .. MaxNum -> SessionRow]
        /\ \A n \in 1 .. MaxNum : Placed(sessions'[n].results, ToSet(entries'))
    BY <1>1, SceneFacts
  <2> QED BY <1>3, <2>1, <2>2 DEF Scene
<1>5. num' >= num /\ FALSE \in BOOLEAN /\ ToSet(entries) \subseteq ToSet(entries')
  <2>1. num \in Nat
    BY SceneFacts, StandingsAssumption
  <2> QED BY <1>1, <2>1
<1> QED BY <1>1, <1>4, <1>5, SimulatorKeeps

\* A pass begins with the telemetry of this moment, and with no car found.
LEMMA BeginStep ==
  ASSUME StandingsInv, NoEstimate \/ getDataFromSessionInfo
  PROVE  StandingsInv'
<1>1. /\ UNCHANGED << num, dist, inWorld, entries, sessions, rewritten, moves >> /\ ReadTelemetry
      /\ call = Idle /\ Scene /\ PassInv
  BY DEF NoEstimate, getDataFromSessionInfo, simVars, StandingsInv
<1>2. Scene'
  BY <1>1 DEF Scene
<1>3. Sampled' /\ sample'.num = num /\ num \in 1 .. MaxNum /\ num \in Nat
  BY <1>1, SceneFacts, TelemetryRead
<1>4. rewritten' \in BOOLEAN /\ moves' \in 0 .. MaxMoves
  BY <1>1 DEF PassInv
<1>5. pub = Nothing
  BY <1>1, IdleIs DEF PassInv
<1>6. CASE NoEstimate
  <2>1. call' = [Idle EXCEPT !.at = "published"] /\ pub' = [ahead |-> NoCar, behind |-> NoCar]
    BY <1>6 DEF NoEstimate
  <2>2. call'.at = "published" /\ IsCall(call')
    BY <2>1 DEF Idle, IsCall
  <2>3. pub'["ahead"] = NoCar /\ pub'["behind"] = NoCar /\ pub' # Nothing
    BY <2>1 DEF Nothing
  <2>4. NoCar.car = -1 /\ NoCar.interval = -1
    BY DEF NoCar
  <2>5. \A side \in {"ahead", "behind"} : Told(NoCar, side)'
    <3>1. -1 \in -1 .. MaxDist + 3 * Q /\ ~(-1 >= 0)
      BY StandingsAssumption
    <3> QED BY <2>4, <3>1 DEF Told, NoCar
  <2>6. \A side \in {"ahead", "behind"} : pub'[side] = NoCar
    BY <2>3
  <2>7. \A side \in {"ahead", "behind"} : Told(pub[side], side)'
    BY <2>5, <2>6
  <2>8. PassInv'
    BY <1>3, <1>4, <2>2, <2>3, <2>7 DEF PassInv
  <2> QED BY <1>2, <2>8 DEF StandingsInv
<1>7. CASE getDataFromSessionInfo
  <2> DEFINE k == ClassIn(String, DriverCarIdx(String))
  <2>1. call' = [Idle EXCEPT !.at = "place", !.class = k] /\ pub' = pub
    BY <1>7 DEF getDataFromSessionInfo
  <2>2. k = ClassOf[Me]
    <3>1. DriverCarIdx(String) = Me /\ Me \in ToSet(entries)
      BY <1>1, Mine, SceneFacts
    <3> QED BY <1>1, <3>1, Classes
  <2> HIDE DEF k
  <2>3. /\ call'.at = "place" /\ call'.class = ClassOf[Me] /\ call'.position = 1 /\ call'.mine = -1
        /\ DOMAIN call'.places = {} /\ IsCall(call')
    <3> DEFINE c == [at |-> "place", class |-> k, position |-> 1, car |-> -1, places |-> Nothing, mine |-> -1]
    <3>1. call' = c
      BY <2>1 DEF Idle
    <3>2. /\ c.at = "place" /\ c.class = k /\ c.position = 1 /\ c.mine = -1 /\ c.places = Nothing
          /\ c = [at |-> c.at, class |-> c.class, position |-> c.position, car |-> c.car,
                  places |-> c.places, mine |-> c.mine]
      OBVIOUS
    <3> HIDE DEF c
    <3>3. DOMAIN Nothing = {}
      BY DEF Nothing
    <3> QED BY <2>2, <3>1, <3>2, <3>3 DEF IsCall
  <2>4. \A n \in num + 1 .. MaxNum : sessions'[n].results = << >>
    BY <1>1, SceneFacts
  <2>5. Reads'
    BY <1>3, <2>3, <2>4 DEF Reads
  <2>6. PassInv'
    BY <1>3, <1>4, <1>5, <2>1, <2>3, <2>5 DEF PassInv
  <2> QED BY <1>2, <2>6 DEF StandingsInv
<1> QED BY <1>6, <1>7

\* What a step of the loop keeps, whatever it reads.
LEMMA LoopStep ==
  ASSUME StandingsInv, UNCHANGED << simVars, sample, pub, rewritten, moves >>,
         call.at \in {"place", "class"}, IsCall(call'), call'.at \in {"place", "class", "neighbours"}, Reads'
  PROVE  StandingsInv'
<1>1. /\ UNCHANGED << num, dist, inWorld, entries, sessions, sample, pub, rewritten, moves >>
      /\ Scene /\ PassInv
  BY DEF simVars, StandingsInv
<1>2. Scene'
  BY <1>1 DEF Scene
<1>3. pub = Nothing /\ Sampled /\ rewritten \in BOOLEAN /\ moves \in 0 .. MaxMoves
  BY <1>1 DEF PassInv
<1>4. Sampled'
  BY <1>1, <1>3 DEF Sampled
<1>5. PassInv'
  BY <1>1, <1>3, <1>4 DEF PassInv
<1> QED BY <1>2, <1>5 DEF StandingsInv

\* The car at a position of the results.
LEMMA CarIdxStep ==
  ASSUME StandingsInv, ReadCarIdx
  PROVE  StandingsInv'
<1> DEFINE found == CarIdxAt(String, sample.num, call.position)
<1>1. /\ UNCHANGED << simVars, sample, pub, rewritten, moves >> /\ call.at = "place"
      /\ \/ found = << >> /\ call' = [call EXCEPT !.at = "neighbours"]
         \/ found # << >> /\ SameClass(found[1]) /\ call' = [call EXCEPT !.at = "class", !.car = found[1]]
         \/ found # << >> /\ ~SameClass(found[1]) /\ call' = [call EXCEPT !.position = @ + 1]
  BY DEF ReadCarIdx
<1>2. /\ UNCHANGED << num, dist, inWorld, entries, sessions, sample, pub, rewritten, moves >>
      /\ Scene /\ IsCall(call) /\ Sampled /\ Reads
  BY <1>1 DEF simVars, StandingsInv, PassInv
<1>3. found = << >> \/ \E c \in ToSet(entries) : found = << c >>
  BY <1>2, RowFound
<1>4. ~rewritten =>
        found = IF call.position <= Len(SessionResults) THEN << SessionResults[call.position].car >> ELSE << >>
  <2> HAVE ~rewritten
  <2>1. sample.num \in 1 .. MaxNum
    <3>1. sample.num \in 1 .. num /\ num \in 1 .. MaxNum /\ MaxNum \in Nat
      BY <1>2, SceneFacts, StandingsAssumption DEF Sampled
    <3> QED BY ONLY <3>1
  <2>2. \A n \in sample.num + 1 .. MaxNum : sessions[n].results = << >>
    BY <1>2 DEF Reads
  <2>3. call.position \in Nat /\ call.position # 0
    BY <1>2 DEF Reads
  <2> QED BY <1>2, <2>1, <2>2, <2>3, PlaceFound DEF SessionResults
<1> HIDE DEF found
<1>5. SessionResults' = SessionResults
  BY <1>2 DEF SessionResults
<1>6. CASE found = << >>
  <2>1. call' = [call EXCEPT !.at = "neighbours"]
    BY <1>1, <1>6
  <2>2. /\ call'.at = "neighbours" /\ call'.class = call.class /\ call'.position = call.position
        /\ call'.car = call.car /\ call'.places = call.places /\ call'.mine = call.mine /\ IsCall(call')
    BY <1>2, <2>1 DEF IsCall
  <2>3. Reads'
    BY <1>2, <1>5, <2>2 DEF Reads
  <2> QED BY <1>1, <2>2, <2>3, LoopStep
<1>7. ASSUME NEW c \in ToSet(entries), found = << c >>
      PROVE  StandingsInv'
  <2>1. found # << >> /\ found[1] = c
    BY <1>7
  <2>2. SameClass(c) <=> ClassOf[c] = ClassOf[Me]
    <3>1. ClassIn(String, c) = ClassOf[c]
      BY <1>2, <1>7, Classes
    <3> QED BY <1>2, <3>1 DEF SameClass, Reads
  <2>3. CASE SameClass(c)
    <3>1. call' = [call EXCEPT !.at = "class", !.car = c]
      BY <1>1, <2>1, <2>3
    <3>2. /\ call'.at = "class" /\ call'.class = call.class /\ call'.position = call.position
          /\ call'.car = c /\ call'.places = call.places /\ call'.mine = call.mine /\ IsCall(call')
      BY <1>2, <3>1 DEF IsCall
    <3>3. ~rewritten => call.position <= Len(SessionResults) /\ SessionResults[call.position].car = c
      BY <1>4, <1>7, <2>1
    <3>4. Reads'
      BY <1>2, <1>5, <2>2, <2>3, <3>2, <3>3 DEF Reads
    <3> QED BY <1>1, <3>2, <3>4, LoopStep
  <2>4. CASE ~SameClass(c)
    <3>1. call' = [call EXCEPT !.position = call.position + 1]
      BY <1>1, <2>1, <2>4
    <3>2. /\ call'.at = call.at /\ call'.class = call.class /\ call'.position = call.position + 1
          /\ call'.car = call.car /\ call'.places = call.places /\ call'.mine = call.mine /\ IsCall(call')
      BY <1>2, <3>1 DEF IsCall
    <3>3. call.position + 1 \in Nat \ {0}
      BY <1>2 DEF Reads
    <3>4. Reads'
      BY <1>1, <1>2, <1>5, <3>2, <3>3 DEF Reads
    <3> QED BY <1>1, <3>2, <3>4, LoopStep
  <2> QED BY <2>3, <2>4
<1> QED BY <1>3, <1>6, <1>7

\* The class position of that car, under which the map keeps the first car.
LEMMA ClassPositionStep ==
  ASSUME StandingsInv, ReadClassPosition
  PROVE  StandingsInv'
<1> DEFINE found == ClassPositionAt(String, sample.num, call.position)
           isMine == call.mine = -1 /\ call.car = DriverCarIdx(String)
           mine == IF isMine THEN found[1] ELSE call.mine
           places == Inserted(found[1])
<1>1. /\ UNCHANGED << simVars, sample, pub, rewritten, moves >> /\ call.at = "class"
      /\ call' = IF found = << >> THEN [call EXCEPT !.at = "neighbours"]
                 ELSE [call EXCEPT !.at = "place", !.position = call.position + 1, !.places = places,
                                   !.mine = mine]
  BY DEF ReadClassPosition
<1>2. /\ UNCHANGED << num, dist, inWorld, entries, sessions, sample, pub, rewritten, moves >>
      /\ Scene /\ IsCall(call) /\ Sampled /\ Reads
  BY <1>1 DEF simVars, StandingsInv, PassInv
<1>3. found = << >> \/ \E m \in Nat : found = << m >>
  BY <1>2, RowFound
<1>4. DriverCarIdx(String) = Me
  BY <1>2, Mine
<1>5. ~rewritten => \E r \in ToSet(SessionResults) : r.car = call.car /\ found = << r.classPosition >>
  <2> HAVE ~rewritten
  <2> DEFINE R == SessionResults
             p == call.position
  <2>1. sample.num \in 1 .. MaxNum
    <3>1. sample.num \in 1 .. num /\ num \in 1 .. MaxNum /\ MaxNum \in Nat
      BY <1>2, SceneFacts, StandingsAssumption DEF Sampled
    <3> QED BY ONLY <3>1
  <2>2. /\ \A n \in sample.num + 1 .. MaxNum : sessions[n].results = << >>
        /\ p \in Nat /\ p # 0 /\ p <= Len(R) /\ R[p].car = call.car
    BY <1>1, <1>2 DEF Reads
  <2>3. found = << R[p].classPosition >>
    BY <1>2, <2>1, <2>2, PlaceFound DEF SessionResults
  <2>4. R[p] \in ToSet(R)
    <3>1. R \in Seq(Row)
      BY <1>2, <2>1 DEF Scene, Placed, SessionResults
    <3> HIDE DEF R, p
    <3>2. DOMAIN R = 1 .. Len(R) /\ Len(R) \in Nat
      BY <3>1, LenProperties
    <3> QED BY <2>2, <3>2 DEF ToSet
  <2> HIDE DEF R, p, found
  <2>5. \E r \in ToSet(R) : r.car = call.car /\ found = << r.classPosition >>
    BY <2>2, <2>3, <2>4
  <2> QED BY <2>5 DEF R
<1>6. SessionResults' = SessionResults
  BY <1>2 DEF SessionResults
<1> HIDE DEF found
<1>7. CASE found = << >>
  <2>1. call' = [call EXCEPT !.at = "neighbours"]
    BY <1>1, <1>7
  <2>2. /\ call'.at = "neighbours" /\ call'.class = call.class /\ call'.position = call.position
        /\ call'.car = call.car /\ call'.places = call.places /\ call'.mine = call.mine /\ IsCall(call')
    BY <1>2, <2>1 DEF IsCall
  <2>3. Reads'
    BY <1>2, <1>6, <2>2 DEF Reads
  <2> QED BY <1>1, <2>2, <2>3, LoopStep
<1>8. ASSUME NEW m \in Nat, found = << m >>
      PROVE  StandingsInv'
  <2>1. found # << >> /\ found[1] = m
    BY <1>8
  <2>2. /\ mine = IF call.mine = -1 /\ call.car = Me THEN m ELSE call.mine
        /\ places = [p \in DOMAIN call.places \cup {m} |->
                       IF p \in DOMAIN call.places THEN call.places[p] ELSE call.car]
    BY <1>4, <2>1 DEF Inserted
  <2>3. call' = [call EXCEPT !.at = "place", !.position = call.position + 1, !.places = places, !.mine = mine]
    BY <1>1, <2>1
  <2> HIDE DEF mine, places
  <2>4. /\ call'.at = "place" /\ call'.class = call.class /\ call'.position = call.position + 1
        /\ call'.car = call.car /\ call'.places = places /\ call'.mine = mine /\ IsCall(call')
    BY <1>2, <2>3 DEF IsCall
  <2>5. /\ call.position + 1 \in Nat \ {0} /\ mine \in Nat \cup {-1}
        /\ call.car \in ToSet(entries) /\ ClassOf[call.car] = ClassOf[Me]
    BY <1>1, <1>2, <2>2 DEF Reads
  <2>6. \A p \in DOMAIN places :
          \/ p \in DOMAIN call.places /\ places[p] = call.places[p]
          \/ p = m /\ places[p] = call.car
    BY <2>2
  <2>7. \A p \in DOMAIN places : p \in Nat /\ places[p] \in ToSet(entries) /\ ClassOf[places[p]] = ClassOf[Me]
    BY <1>2, <2>5, <2>6 DEF Reads
  <2>8. ~rewritten =>
          /\ \A p \in DOMAIN places : \E r \in ToSet(SessionResults) : r.car = places[p] /\ r.classPosition = p
          /\ mine # -1 => \E r \in ToSet(SessionResults) : r.car = Me /\ r.classPosition = mine
    <3> HAVE ~rewritten
    <3>1. PICK r \in ToSet(SessionResults) : r.car = call.car /\ found = << r.classPosition >>
      BY <1>5
    <3>2. r.classPosition = m
      BY <1>8, <3>1
    <3>3. /\ \A p \in DOMAIN call.places : \E s \in ToSet(SessionResults) :
               s.car = call.places[p] /\ s.classPosition = p
          /\ call.mine # -1 => \E s \in ToSet(SessionResults) : s.car = Me /\ s.classPosition = call.mine
      BY <1>2 DEF Reads
    <3>4. \A p \in DOMAIN places : \E s \in ToSet(SessionResults) : s.car = places[p] /\ s.classPosition = p
      BY <2>6, <3>1, <3>2, <3>3
    <3>5. mine # -1 => \E s \in ToSet(SessionResults) : s.car = Me /\ s.classPosition = mine
      BY <2>2, <3>1, <3>2, <3>3
    <3> QED BY <3>4, <3>5
  <2>9. Reads'
    BY <1>2, <1>6, <2>4, <2>5, <2>7, <2>8 DEF Reads
  <2> QED BY <1>1, <2>4, <2>9, LoopStep
<1> QED BY <1>3, <1>7, <1>8

\* What is published of a car at the place beside the driver's is true of it.
LEMMA NeighbourTold ==
  ASSUME Scene, Sampled, Reads, NEW side \in {"ahead", "behind"}
  PROVE  Told(Neighbour(Off(side)), side)
<1> DEFINE off == Off(side)
           position == call.mine + off
           car == call.places[position]
           g == Gap(car, Way(car, off))
           p == Neighbour(off)
<1>1. off \in {-1, 1} /\ (off = -1 <=> side = "ahead")
  BY DEF Off
<1>2. -1 \in -1 .. MaxDist + 3 * Q /\ ~(-1 >= 0)
  BY StandingsAssumption
<1>3. CASE ~(call.mine # -1 /\ position >= 0 /\ position \in DOMAIN call.places)
  <2>1. p = NoCar
    BY <1>3 DEF Neighbour
  <2>2. NoCar.car = -1 /\ NoCar.interval = -1
    BY DEF NoCar
  <2> HIDE DEF p
  <2>3. p.car = -1 /\ p.interval = -1
    BY <2>1, <2>2
  <2>4. Told(p, side)
    BY ONLY <1>2, <2>3 DEF Told
  <2> QED BY <2>4 DEF p, off
<1>4. CASE call.mine # -1 /\ position >= 0 /\ position \in DOMAIN call.places
  <2>1. p = [car |-> car, position |-> position + 1, interval |-> g]
    BY <1>4 DEF Neighbour
  <2> HIDE DEF p
  <2>2. p.car = car /\ p.position = position + 1 /\ p.interval = g
    BY <2>1
  <2>3. /\ car \in ToSet(entries) /\ ClassOf[car] = ClassOf[Me] /\ position \in Nat
        /\ call.mine \in Nat
    BY <1>4 DEF Reads
  <2>4. car \in Cars /\ car \in Nat
    <3>1. ToSet(entries) \subseteq Cars /\ Cars \subseteq Nat
      BY EntryFacts
    <3> HIDE DEF car
    <3> QED BY <2>3, <3>1
  <2>5. car >= 0
    <3> HIDE DEF car
    <3> QED BY ONLY <2>4
  <2>6. /\ g \in -1 .. MaxDist + 3 * Q
        /\ g >= 0 =>
              /\ sample.cars[car] # -1
              /\ sample.cars[Me] # -1 =>
                   LET gap == (IF off = -1 THEN 1 ELSE -1) * (sample.dist[car] - sample.dist[Me])
                   IN g \in {gap - Q, gap, gap + Q}
    BY ONLY Sampled, <1>1, <2>4, GapIs
  <2>7. ~rewritten =>
          /\ car # Me
          /\ \E r, mine \in ToSet(SessionResults) :
               /\ r.car = car /\ mine.car = Me
               /\ r.classPosition = mine.classPosition + off
               /\ p.position = r.classPosition + 1
    <3> HAVE ~rewritten
    <3>1. PICK r \in ToSet(SessionResults) : r.car = car /\ r.classPosition = position
      BY <1>4 DEF Reads
    <3>2. PICK mine \in ToSet(SessionResults) : mine.car = Me /\ mine.classPosition = call.mine
      BY <1>4 DEF Reads
    <3>3. r = mine => r.classPosition = mine.classPosition
      OBVIOUS
    <3>4. r # mine
      <4>1. position # call.mine
        <5> HIDE DEF off
        <5> QED BY <1>1, <2>3
      <4> QED BY <3>1, <3>2, <3>3, <4>1
    <3>5. car # Me
      <4> DEFINE R == SessionResults
      <4>1. sample.num \in 1 .. MaxNum
        <5>1. sample.num \in 1 .. num /\ num \in 1 .. MaxNum /\ MaxNum \in Nat
          BY StandingsAssumption DEF Sampled, Scene
        <5> QED BY ONLY <5>1
      <4>2. Placed(R, ToSet(entries))
        BY <4>1 DEF Scene, SessionResults
      <4> HIDE DEF R
      <4>3. /\ DOMAIN R = 1 .. Len(R)
            /\ \A i, j \in 1 .. Len(R) : R[i].car = R[j].car => i = j
        BY <4>2, LenProperties DEF Placed
      <4>4. PICK i \in 1 .. Len(R) : r = R[i]
        BY <3>1, <4>3 DEF ToSet, R
      <4>5. PICK j \in 1 .. Len(R) : mine = R[j]
        BY <3>2, <4>3 DEF ToSet, R
      <4> HIDE DEF car
      <4> QED BY <3>1, <3>2, <3>4, <4>3, <4>4, <4>5
    <3>6. /\ r.car = car /\ mine.car = Me /\ r.classPosition = mine.classPosition + off
          /\ p.position = r.classPosition + 1
      BY <2>2, <3>1, <3>2
    <3> HIDE DEF car, off, position
    <3> QED BY <3>5, <3>6
  <2> HIDE DEF car, g
  <2>8. CASE side = "ahead"
    <3>1. off = -1
      BY <1>1, <2>8
    <3> QED BY <2>2, <2>3, <2>4, <2>5, <2>6, <2>7, <2>8, <3>1 DEF Told, p
  <2>9. CASE side = "behind"
    <3>1. off = 1
      BY <1>1, <2>9
    <3> QED BY <2>2, <2>3, <2>4, <2>5, <2>6, <2>7, <2>9, <3>1 DEF Told, p
  <2> QED BY <2>8, <2>9
<1> QED BY <1>3, <1>4

\* The call ends with what it has found of the two sides.
LEMMA ShowStep ==
  ASSUME StandingsInv, ShowNeighbours
  PROVE  StandingsInv'
<1>1. /\ UNCHANGED << num, dist, inWorld, entries, sessions, sample, rewritten, moves >>
      /\ call.at = "neighbours" /\ call' = [call EXCEPT !.at = "published"]
      /\ pub' = [ahead |-> Neighbour(-1), behind |-> Neighbour(1)]
  BY DEF ShowNeighbours, simVars
<1>2. Scene /\ PassInv /\ Sampled /\ Reads /\ IsCall(call) /\ rewritten \in BOOLEAN /\ moves \in 0 .. MaxMoves
  BY <1>1 DEF StandingsInv, PassInv
<1>3. Scene' /\ Sampled'
  BY <1>1, <1>2 DEF Scene, Sampled
<1>4. call'.at = "published" /\ IsCall(call')
  BY <1>1, <1>2 DEF IsCall
<1> DEFINE x == Neighbour(-1)
           y == Neighbour(1)
<1>5. Told(x, "ahead") /\ Told(y, "behind")
  <2>1. Off("ahead") = -1 /\ Off("behind") = 1
    BY DEF Off
  <2> QED BY <1>2, <2>1, NeighbourTold
<1>6. pub' = [ahead |-> x, behind |-> y]
  BY <1>1
<1> HIDE DEF x, y
<1>7. pub'["ahead"] = x /\ pub'["behind"] = y /\ pub' # Nothing
  BY <1>6 DEF Nothing
<1>8. \A side \in {"ahead", "behind"} : Told(pub'[side], side)
  BY <1>5, <1>7
<1>9. SessionResults' = SessionResults
  BY <1>1 DEF SessionResults
<1>10. \A side \in {"ahead", "behind"} : Told(pub[side], side)'
  BY <1>1, <1>8, <1>9 DEF Told
<1>11. PassInv'
  BY <1>1, <1>2, <1>3, <1>4, <1>7, <1>10 DEF PassInv
<1> QED BY <1>3, <1>11 DEF StandingsInv

\* The map is handed over.
LEMMA SetDataStep ==
  ASSUME StandingsInv, setData
  PROVE  StandingsInv'
<1>1. /\ UNCHANGED << num, dist, inWorld, entries, sessions >> /\ pub' = Nothing /\ call' = Idle
      /\ rewritten' = FALSE /\ moves' = 0
  BY DEF setData, simVars
<1>2. Scene'
  BY <1>1, SceneFacts DEF Scene
<1>3. 0 \in 0 .. MaxMoves
  BY StandingsAssumption
<1>4. PassInv'
  BY <1>1, <1>3, IdleIs DEF PassInv
<1> QED BY <1>2, <1>4 DEF StandingsInv

\* Every step of the simulator and of the data branch keeps the invariant.
LEMMA InvariantStep ==
  ASSUME StandingsInv, [StandingsNext]_standingsVars
  PROVE  StandingsInv'
<1>1. CASE \E c \in Cars : Join(c) \/ EnterTrack(c) \/ LeaveTrack(c) \/ Drive(c)
  BY <1>1, JoinStep, TrackStep, DriveStep
<1>2. CASE UpdateResults \/ NextSession
  BY <1>2, UpdateStep, SessionStep
<1>3. CASE NoEstimate \/ getDataFromSessionInfo
  BY <1>3, BeginStep
<1>4. CASE ReadCarIdx
  BY <1>4, CarIdxStep
<1>5. CASE ReadClassPosition
  BY <1>5, ClassPositionStep
<1>6. CASE ShowNeighbours
  BY <1>6, ShowStep
<1>7. CASE setData
  BY <1>7, SetDataStep
<1>8. CASE UNCHANGED standingsVars
  <2>1. UNCHANGED << num, dist, inWorld, entries, sessions, sample, call, pub, rewritten, moves >>
    BY <1>8 DEF standingsVars, simVars, passVars
  <2>2. Scene' /\ (Sampled => Sampled') /\ (Reads => Reads')
    BY <2>1, SceneFacts DEF Scene, Sampled, Reads, SessionResults
  <2>3. \A side : Told(pub[side], side) => Told(pub[side], side)'
    BY <2>1 DEF Told, SessionResults
  <2>4. PassInv'
    BY <2>1, <2>2, <2>3 DEF StandingsInv, PassInv, IsCall
  <2> QED BY <2>2, <2>4 DEF StandingsInv
<1> QED BY <1>1, <1>2, <1>3, <1>4, <1>5, <1>6, <1>7, <1>8 DEF StandingsNext

\* Where the invariant holds, what is published of the two neighbours is true.
LEMMA InvariantShows ==
  ASSUME StandingsInv
  PROVE  ShowsNeighbours
<1>1. Scene /\ PassInv
  BY DEF StandingsInv
<1>2. pub # Nothing => \A side \in {"ahead", "behind"} : Told(pub[side], side)
  BY <1>1 DEF PassInv
<1>3. StandingsTypeOK
  <2>1. ToSet(entries) \subseteq Cars /\ DOMAIN sessions = 1 .. MaxNum /\ num \in 1 .. MaxNum
    BY <1>1, EntryFacts, SceneFacts
  <2>2. \A n \in 1 .. num : \A r \in ToSet(sessions[n].results) : r.car \in ToSet(entries)
    <3> TAKE n \in 1 .. num
    <3> DEFINE R == sessions[n].results
    <3>1. n \in 1 .. MaxNum
      BY <2>1, StandingsAssumption
    <3>2. Placed(R, ToSet(entries))
      BY <3>1, SceneFacts
    <3> HIDE DEF R
    <3>3. DOMAIN R = 1 .. Len(R) /\ \A p \in 1 .. Len(R) : R[p].car \in ToSet(entries)
      BY <3>2, LenProperties DEF Placed
    <3>4. \A r \in ToSet(R) : r.car \in ToSet(entries)
      BY ONLY <3>3 DEF ToSet
    <3> QED BY <3>4 DEF R
  <2>3. pub # Nothing => \A side \in {"ahead", "behind"} :
          pub[side].car \in Cars \cup {-1} /\ pub[side].interval \in -1 .. MaxDist + 3 * Q
    BY <1>2 DEF Told
  <2>4. /\ call.at \in {"idle", "place", "class", "neighbours", "published"}
        /\ rewritten \in BOOLEAN /\ moves \in 0 .. MaxMoves /\ (pub # Nothing <=> call.at = "published")
    BY <1>1 DEF PassInv
  <2> QED BY <2>1, <2>2, <2>3, <2>4, SceneFacts DEF StandingsTypeOK
<1>4. NeighboursOfClass
  BY <1>2, Zenon DEF NeighboursOfClass, Told, SessionResults
<1>5. IntervalIsGap
  BY <1>2, Zenon DEF IntervalIsGap, Told
<1> QED BY <1>3, <1>4, <1>5 DEF ShowsNeighbours

\* In every reachable state the string describes cars that are entered, each once, with
\* results for no session later than this one; a pass of the data branch that is under way
\* (getDataFromSessionInfo) has found cars of the driver's class, at their places in the
\* results unless the string was written again; and what it publishes is true.
THEOREM StandingsInvariant == StandingsSpec => []StandingsInv
<1>1. StandingsInit => StandingsInv
  BY InitHolds
<1>2. StandingsInv /\ [StandingsNext]_standingsVars => StandingsInv'
  BY InvariantStep
<1> QED BY <1>1, <1>2, PTL DEF StandingsSpec

\* However the simulator writes the string between the parses of getDataFromSessionInfo, the
\* cars published are of the driver's class and an interval is the distance to the car it
\* names, one lap off at most, while the driver is on the track; and if it does not write,
\* they are the cars next to him in the results: for any number of cars, classes, sessions
\* and laps.
THEOREM NeighboursShown == StandingsSpec => []ShowsNeighbours
<1>1. StandingsInv => ShowsNeighbours
  BY InvariantShows
<1> QED BY <1>1, StandingsInvariant, PTL

\* irsdk's parser (parseYaml) finds in every session string that the simulator writes the
\* class of every car and the results of the session that runs, all and no more, although it
\* would go on into the next item of a list.
THEOREM ParserFinds == StandingsSpec => []ParsesItem
<1>1. StandingsInv => ParsesItem
  BY Parses DEF StandingsInv
<1> QED BY <1>1, StandingsInvariant, PTL

===============================================================================
