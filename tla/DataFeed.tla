------------------------------- MODULE DataFeed -------------------------------
(***************************************************************************)
(* How telemetry travels from the main loop of irPitCrew.exe to the page:  *)
(*                                                                         *)
(*   main loop ----> SharedData + two flags ----> web-server thread        *)
(*   (irplugin.cpp)  (SharedData.cpp, WebServerLWS)      |                 *)
(*                                                       | websocket       *)
(*   page (irPitCrew.js, UpdateData.js)  <---------------+                 *)
(*                                                                         *)
(* The main loop and the web-server thread run concurrently; SharedData's  *)
(* operations are atomic (one mutex), the flags m_updateClient and         *)
(* m_resetConnection are plain bools.  The server sends only the variables *)
(* that changed since the map it sent last, and keeps one such map for all *)
(* connections, so the page is right only if every message since a full    *)
(* one reached it.                                                         *)
(***************************************************************************)
EXTENDS Naturals, Sequences

CONSTANTS
  Vars,           \* names of telemetry variables
  Values,         \* their values
  MaxSession,     \* bound: headers (sim sessions) the main loop ever sees
  FrameVars,      \* the variables the data branch publishes in each session
  Conns,          \* websocket connections
  NoConn,         \* the page has no connection
  MaxInFlight,    \* messages a connection holds before the socket is choked
  OneConnection   \* the server never has two connections at once

DataMaps == UNION {[D -> Values] : D \in SUBSET Vars}
EmptyMap == [v \in {} |-> v]
Frames(s) == [FrameVars[s] -> Values]

\* Session 0 is the empty session string the server starts with; in a message
\* it means that the message has no session part.
NoSession == 0
Sessions == 0 .. MaxSession

ASSUME DataFeedAssumption ==
  /\ MaxSession \in Nat \ {0}
  /\ MaxInFlight \in Nat \ {0}
  /\ FrameVars \in [1 .. MaxSession -> SUBSET Vars]
  /\ NoConn \notin Conns
  /\ OneConnection \in BOOLEAN

\* "snap" is the map the message was computed from. The page never sees it:
\* it is a history of what the server read, used only by the properties.
Messages == [session : Sessions, data : DataMaps, snap : DataMaps]

VARIABLES
  \* main loop
  mainPc,       \* where the main loop is
  haveData,     \* data != NULL: the main loop is in a sim session
  \* SharedData
  sessionInfo,  \* m_sessionInfoStr
  dataMap,      \* m_dataStrMap
  \* flags of WebServerLWS
  updateFlag,   \* m_updateClient
  resetFlag,    \* m_resetConnection
  \* web-server thread
  wsPc,         \* where the thread is
  sawReset,     \* the value of m_resetConnection it read
  wsConn,       \* the connection whose WRITEABLE callback runs
  wsMap,        \* the callback's copy of the data map (dataStrMap)
  connReset,    \* s_connectionReset
  lastSent,     \* s_lastSentDataStrMap
  open,         \* connections established on the server
  wantWrite,    \* connections with a pending WRITEABLE request
  \* network
  connecting,   \* connections the page opened and the server has not seen yet
  wire,         \* messages on the way to the page, per connection
  \* page
  cur,          \* the page's current websocket
  view,         \* serverData: the last value received of each variable
  viewSession,  \* sessionData: the last session info received
  heard,        \* the page handled a message on its current websocket
  shown         \* history: the map behind the last message handled

mainVars  == <<mainPc, haveData>>
shared    == <<sessionInfo, dataMap>>
flags     == <<updateFlag, resetFlag>>
wsVars    == <<wsPc, sawReset, wsConn, wsMap, connReset, lastSent, open, wantWrite>>
pageVars  == <<cur, view, viewSession, heard, shown>>
vars == <<mainVars, shared, flags, wsVars, connecting, wire, pageVars>>

TypeOK ==
  /\ mainPc \in {"loop", "clearData", "reset", "updateClient"}
  /\ haveData \in BOOLEAN
  /\ sessionInfo \in Sessions
  /\ dataMap \in DataMaps
  /\ updateFlag \in BOOLEAN
  /\ resetFlag \in BOOLEAN
  /\ wsPc \in {"service", "write", "flags", "clear", "read", "lateClear", "request"}
  /\ sawReset \in BOOLEAN
  /\ wsConn \in Conns \cup {NoConn}
  /\ wsMap \in DataMaps
  /\ connReset \in BOOLEAN
  /\ lastSent \in DataMaps
  /\ open \in SUBSET Conns
  /\ wantWrite \in SUBSET open
  /\ connecting \in SUBSET Conns
  /\ wire \in [Conns -> Seq(Messages)]
  /\ cur \in Conns \cup {NoConn}
  /\ view \in DataMaps
  /\ viewSession \in Sessions
  /\ heard \in BOOLEAN
  /\ shown \in DataMaps

Init ==
  /\ mainPc = "loop" /\ haveData = FALSE
  /\ sessionInfo = NoSession /\ dataMap = EmptyMap
  /\ updateFlag = FALSE /\ resetFlag = FALSE
  /\ wsPc = "service" /\ sawReset = FALSE
  /\ wsConn = NoConn /\ wsMap = EmptyMap
  /\ connReset = TRUE /\ lastSent = EmptyMap
  /\ open = {} /\ wantWrite = {}
  /\ connecting = {} /\ wire = [c \in Conns |-> <<>>]
  /\ cur = NoConn /\ view = EmptyMap /\ viewSession = NoSession
  /\ heard = FALSE /\ shown = EmptyMap

-------------------------------------------------------------------------------
(***************************************************************************)
(* The main loop.  One iteration takes the header branch (a new sim        *)
(* connection), the data branch, or finds the sim gone.                    *)
(***************************************************************************)

\* The header branch begins: the header is new to the main loop, or its buffer
\* length changed.
HeaderSession ==
  /\ mainPc = "loop"
  /\ sessionInfo < MaxSession
  /\ haveData' = TRUE
  /\ sessionInfo' = sessionInfo + 1
  /\ mainPc' = "clearData"
  /\ UNCHANGED <<dataMap, flags, wsVars, connecting, wire, pageVars>>

HeaderClearData ==
  /\ mainPc = "clearData"
  /\ dataMap' = EmptyMap
  /\ mainPc' = "reset"
  /\ UNCHANGED <<haveData, sessionInfo, flags, wsVars, connecting, wire, pageVars>>

ResetConnection ==
  /\ mainPc = "reset"
  /\ resetFlag' = TRUE
  /\ mainPc' = "updateClient"
  /\ UNCHANGED <<haveData, shared, updateFlag, wsVars, connecting, wire, pageVars>>

UpdateClient ==
  /\ mainPc = "updateClient"
  /\ updateFlag' = TRUE
  /\ mainPc' = "loop"
  /\ UNCHANGED <<haveData, shared, resetFlag, wsVars, connecting, wire, pageVars>>

\* Broken variant: the web server is not told (irplugin.cpp:1155 missing).
PublishDataUntold ==
  /\ mainPc = "loop"
  /\ haveData
  /\ dataMap' \in Frames(sessionInfo)
  /\ UNCHANGED <<mainPc, haveData, sessionInfo, flags, wsVars, connecting, wire, pageVars>>

\* The data branch: the map built from this tick of telemetry is published. Its
\* variables are those of the session, their values are arbitrary.
PublishData ==
  /\ mainPc = "loop"
  /\ haveData
  /\ dataMap' \in Frames(sessionInfo)
  /\ mainPc' = "updateClient"
  /\ UNCHANGED <<haveData, sessionInfo, flags, wsVars, connecting, wire, pageVars>>

\* The sim is no longer connected: data = NULL.
SimGone ==
  /\ mainPc = "loop"
  /\ haveData
  /\ haveData' = FALSE
  /\ UNCHANGED <<mainPc, shared, flags, wsVars, connecting, wire, pageVars>>

-------------------------------------------------------------------------------
(***************************************************************************)
(* The web-server thread.  libwebsocket_service runs the callbacks of      *)
(* whatever happened; between two calls the thread looks at the flags.     *)
(***************************************************************************)

\* Broken variant: a new connection does not reset the feed.
EstablishedNoReset(c) ==
  /\ wsPc = "service"
  /\ c \in connecting
  /\ OneConnection => open = {}
  /\ open' = open \cup {c}
  /\ connecting' = connecting \ {c}
  /\ UNCHANGED <<mainVars, shared, flags, wsPc, sawReset, wsConn, wsMap, connReset,
                 lastSent, wantWrite, wire, pageVars>>

\* LWS_CALLBACK_ESTABLISHED
Established(c) ==
  /\ wsPc = "service"
  /\ c \in connecting
  /\ OneConnection => open = {}
  /\ connReset' = TRUE
  /\ open' = open \cup {c}
  /\ connecting' = connecting \ {c}
  /\ UNCHANGED <<mainVars, shared, flags, wsPc, sawReset, wsConn, wsMap, lastSent,
                 wantWrite, wire, pageVars>>

\* The server learns that a connection is gone: the page closed it, or TCP gave
\* up. The callback has no case for it.
Closed(c) ==
  /\ wsPc = "service"
  /\ c \in open
  /\ open' = open \ {c}
  /\ wantWrite' = wantWrite \ {c}
  /\ wire' = [wire EXCEPT ![c] = <<>>]
  /\ UNCHANGED <<mainVars, shared, flags, wsPc, sawReset, wsConn, wsMap, connReset,
                 lastSent, connecting, pageVars>>

\* LWS_CALLBACK_SERVER_WRITEABLE, first half: the copy of the data map.
WriteableGetData(c) ==
  /\ wsPc = "service"
  /\ c \in wantWrite
  /\ Len(wire[c]) < MaxInFlight
  /\ wantWrite' = wantWrite \ {c}
  /\ wsConn' = c
  /\ wsMap' = dataMap
  /\ wsPc' = "write"
  /\ UNCHANGED <<mainVars, shared, flags, sawReset, connReset, lastSent, open,
                 connecting, wire, pageVars>>

\* Broken variants: a variable that is new to the last map sent is not sent; a
\* variable is sent only when it is new.
IsSendValueIfKnown(m, last, v) == v \in DOMAIN last /\ last[v] # m[v]
IsSendValueOnce(m, last, v) == v \notin DOMAIN last

\* The variables of m that are sent when the last map sent was "last".
IsSendValue(m, last, v) == v \notin DOMAIN last \/ last[v] # m[v]

Delta(m, last) == [v \in {w \in DOMAIN m : IsSendValue(m, last, w)} |-> m[v]]

\* Second half: the session info and everything after a reset, else what
\* changed; the map becomes the last one sent. The callback's locals end with it.
WriteableSend ==
  /\ wsPc = "write"
  /\ LET last == IF connReset THEN EmptyMap ELSE lastSent
         msg  == [session |-> IF connReset THEN sessionInfo ELSE NoSession,
                  data    |-> Delta(wsMap, last),
                  snap    |-> wsMap]
     IN  wire' = [wire EXCEPT ![wsConn] = Append(@, msg)]
  /\ lastSent' = wsMap
  /\ connReset' = FALSE
  /\ wsPc' = "service"
  /\ wsConn' = NoConn
  /\ wsMap' = EmptyMap
  /\ UNCHANGED <<mainVars, shared, flags, sawReset, open, wantWrite, connecting,
                 pageVars>>

\* libwebsocket_service returns.
ServiceReturns ==
  /\ wsPc = "service"
  /\ wsPc' = "flags"
  /\ UNCHANGED <<mainVars, shared, flags, sawReset, wsConn, wsMap, connReset, lastSent,
                 open, wantWrite, connecting, wire, pageVars>>

\* if (m_updateClient)
TestUpdateFlag ==
  /\ wsPc = "flags"
  /\ wsPc' = IF updateFlag THEN "clear" ELSE "service"
  /\ UNCHANGED <<mainVars, shared, flags, sawReset, wsConn, wsMap, connReset, lastSent,
                 open, wantWrite, connecting, wire, pageVars>>

\* m_updateClient = false; if (m_resetConnection) ...  The two accesses are to
\* different plain bools with no lock between them, so the load may be done
\* before the store is visible: the two steps come in either order.
ClearUpdateFlag ==
  /\ wsPc \in {"clear", "lateClear"}
  /\ updateFlag' = FALSE
  /\ wsPc' = IF wsPc = "clear" THEN "read" ELSE "request"
  /\ UNCHANGED <<mainVars, shared, resetFlag, sawReset, wsConn, wsMap, connReset,
                 lastSent, open, wantWrite, connecting, wire, pageVars>>

ReadResetFlag ==
  /\ wsPc \in {"clear", "read"}
  /\ sawReset' = resetFlag
  /\ wsPc' = IF wsPc = "clear" THEN "lateClear" ELSE "request"
  /\ UNCHANGED <<mainVars, shared, flags, wsConn, wsMap, connReset, lastSent, open,
                 wantWrite, connecting, wire, pageVars>>

\* Broken variant: the reset flag is cleared whether or not it was seen set.
RequestWriteClearsReset ==
  /\ wsPc = "request"
  /\ connReset' = (connReset \/ sawReset)
  /\ resetFlag' = FALSE
  /\ sawReset' = FALSE
  /\ wantWrite' = open
  /\ wsPc' = "service"
  /\ UNCHANGED <<mainVars, shared, updateFlag, wsConn, wsMap, lastSent, open,
                 connecting, wire, pageVars>>

\* Broken variant: a write is requested for connections not yet established, too.
RequestWriteAll ==
  /\ wsPc = "request"
  /\ connReset' = (connReset \/ sawReset)
  /\ resetFlag' = (resetFlag /\ ~sawReset)
  /\ sawReset' = FALSE
  /\ wantWrite' = open \cup connecting
  /\ wsPc' = "service"
  /\ UNCHANGED <<mainVars, shared, updateFlag, wsConn, wsMap, lastSent, open,
                 connecting, wire, pageVars>>

\* The reset, if one was seen, becomes the server's; a WRITEABLE callback is
\* requested for every connection.
RequestWrite ==
  /\ wsPc = "request"
  /\ connReset' = (connReset \/ sawReset)
  /\ resetFlag' = (resetFlag /\ ~sawReset)
  /\ sawReset' = FALSE
  /\ wantWrite' = open
  /\ wsPc' = "service"
  /\ UNCHANGED <<mainVars, shared, updateFlag, wsConn, wsMap, lastSent, open,
                 connecting, wire, pageVars>>

-------------------------------------------------------------------------------
(***************************************************************************)
(* The page.                                                               *)
(***************************************************************************)

\* A websocket the page may create: nothing is left of its last use.
Fresh(c) == c # cur /\ c \notin open \cup connecting /\ wire[c] = <<>>

\* The page gives up its current websocket, with all it carried, and creates
\* another one.
CreateWebSocket(c) ==
  /\ Fresh(c)
  /\ cur' = c
  /\ heard' = FALSE
  /\ connecting' = connecting \cup {c}
  /\ wire' = [d \in Conns |-> IF d = cur THEN <<>> ELSE wire[d]]

\* A missed heartbeat: close and create again. The page keeps what it shows.
Reconnect(c) ==
  /\ cur # NoConn
  /\ CreateWebSocket(c)
  /\ UNCHANGED <<mainVars, shared, flags, wsVars, view, viewSession, shown>>

\* The page is loaded, or loaded again.
LoadPage(c) ==
  /\ CreateWebSocket(c)
  /\ view' = EmptyMap
  /\ viewSession' = NoSession
  /\ shown' = EmptyMap
  /\ UNCHANGED <<mainVars, shared, flags, wsVars>>

\* A connection attempt comes to nothing.
ConnectFails(c) ==
  /\ c \in connecting
  /\ connecting' = connecting \ {c}
  /\ UNCHANGED <<mainVars, shared, flags, wsVars, wire, pageVars>>

\* Broken variant: what the message does not carry is forgotten.
MergeForgets(new, old) == new

Merge(new, old) ==
  [v \in DOMAIN new \cup DOMAIN old |-> IF v \in DOMAIN new THEN new[v] ELSE old[v]]

\* onWebSocketMessage: the variables the message carries are updated, the
\* others keep their values.
HandleMessage ==
  /\ cur # NoConn
  /\ wire[cur] # <<>>
  /\ LET msg == Head(wire[cur])
     IN  /\ view' = Merge(msg.data, view)
         /\ viewSession' = IF msg.session = NoSession THEN viewSession ELSE msg.session
         /\ shown' = msg.snap
  /\ heard' = TRUE
  /\ wire' = [wire EXCEPT ![cur] = Tail(@)]
  /\ UNCHANGED <<mainVars, shared, flags, wsVars, connecting, cur>>

-------------------------------------------------------------------------------
MainLoop ==
  \/ HeaderSession \/ HeaderClearData \/ ResetConnection \/ UpdateClient
  \/ PublishData
  \/ SimGone

WebServer ==
  \/ \E c \in Conns : Established(c) \/ Closed(c) \/ WriteableGetData(c)
  \/ WriteableSend
  \/ ServiceReturns
  \/ TestUpdateFlag
  \/ ClearUpdateFlag
  \/ ReadResetFlag
  \/ RequestWrite

Page ==
  \/ \E c \in Conns : Reconnect(c) \/ LoadPage(c) \/ ConnectFails(c)
  \/ HandleMessage

Next == MainLoop \/ WebServer \/ Page

Spec == Init /\ [][Next]_vars

\* The main loop iterates every 200 ms and publishes while the sim runs. The
\* web-server thread loops forever; libwebsocket_service serves every socket
\* that is ready, so what is ready again and again is served (strong
\* fairness), and it notices a connection the page has left. The browser runs
\* the message handler. Nothing obliges the sim, the network or the user.
Fairness ==
  /\ WF_vars(HeaderClearData \/ ResetConnection \/ UpdateClient \/ PublishData)
  /\ WF_vars(WriteableSend \/ ServiceReturns \/ TestUpdateFlag \/ ClearUpdateFlag
             \/ ReadResetFlag \/ RequestWrite)
  /\ \A c \in Conns : /\ SF_vars(WriteableGetData(c))
                      /\ SF_vars(Established(c))
                      /\ SF_vars(c # cur /\ Closed(c))
  /\ WF_vars(HandleMessage)

FairSpec == Spec /\ Fairness

-------------------------------------------------------------------------------
(***************************************************************************)
(* Properties                                                              *)
(***************************************************************************)

\* The page agrees with map m on every variable of m.
Agrees(m) == \A v \in DOMAIN m : v \in DOMAIN view /\ view[v] = m[v]

\* After the page has handled a message its variables have exactly the values
\* of the map the server read for that message, although the message carried
\* only some of them (WebServerLWS.cpp:537-575 against UpdateData.js:243-723).
ViewIsSnapshot == Agrees(shown)

\* The first message on a new connection has the session info and everything
\* else ("If reset (by client, or irsdk), send all data", WebServerLWS.cpp:511):
\* what the page missed before, it gets now.
FirstMessageFull ==
  cur # NoConn /\ ~heard /\ wire[cur] # <<>> => Head(wire[cur]).session # NoSession

\* A reset of the feed is on its way: the main loop is about to ask for one, or
\* a flag records that one was asked for.
ResetPending ==
  mainPc \in {"clearData", "reset"} \/ resetFlag \/ sawReset \/ connReset

\* No new session is lost between the threads: if no reset is pending, the last
\* session info on its way to the page (or there already) is the shared one,
\* whatever the order of the unsynchronised flag accesses (WebServerLWS.cpp:94-104
\* and 257-268: "should really be made thread safe, but is not critical...").
NoLostReset ==
  cur \in open /\ ~ResetPending =>
    \E i \in 0 .. Len(wire[cur]) :
      /\ sessionInfo = IF i = 0 THEN viewSession ELSE wire[cur][i].session
      /\ \A j \in i + 1 .. Len(wire[cur]) : wire[cur][j].session = NoSession

\* A write of the current data is on its way.
WritePending ==
  \/ mainPc \in {"reset", "updateClient"} \/ updateFlag
  \/ wsPc \in {"clear", "read", "lateClear", "request"}
  \/ cur \in wantWrite
  \/ wsPc = "write" /\ wsConn = cur

\* No published map is lost between the threads: if no write is pending, the
\* last message to a page that has been served is about the map now published.
NoLostUpdate ==
  cur \in open /\ ~connReset /\ ~WritePending =>
    dataMap = IF wire[cur] = <<>> THEN shown ELSE wire[cur][Len(wire[cur])].snap

\* What DataFeed implements: the feed that sends whole maps. The page's part of
\* the mapping is what it really holds of the variables of the last map.
FullFeed == INSTANCE FullFeed WITH
  published <- dataMap,
  latched   <- wsMap,
  queue     <- [c \in Conns |-> [i \in 1 .. Len(wire[c]) |-> wire[c][i].snap]],
  shown     <- [v \in DOMAIN shown \cap DOMAIN view |-> view[v]]

\* Sending differences cannot be told from sending whole maps.
ImplementsFullFeed == FullFeed!Spec

\* A page that stays connected while the sim runs gets its data.
Served ==
  \A c \in Conns :
    cur = c ~> heard \/ cur # c \/ c \notin open \cup connecting \/ ~haveData

\* If the telemetry and the connection settle while the sim runs, the page ends
\* up with the session and the values published.
Converges ==
  /\ <>[](haveData /\ cur \in open)
  /\ <>[][UNCHANGED <<sessionInfo, dataMap, cur, open>>]_vars
  => <>[](viewSession = sessionInfo /\ Agrees(dataMap))

===============================================================================
