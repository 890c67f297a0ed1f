---------------------------- MODULE SocketInput -----------------------------
(***************************************************************************)
(* The input half of libwebsockets and the two callbacks of the program:   *)
(* the request's header, the websocket handshake and the frames.           *)
(*                                                                         *)
(* A request is a sequence of header lines: <<"get", file>>, <<"upgrade",  *)
(* protocol, version>>, <<"unknown">> and the empty line <<"end">>; the    *)
(* bytes of a line are abstracted.  A frame is <<"head", opcode, length>>  *)
(* followed by that many bytes of payload <<"byte", b>>.  A read may end   *)
(* after any of these units.                                               *)
(***************************************************************************)
EXTENDS SocketOutput

NoFile == "none"
Control == {"close", "ping", "pong"}

-----------------------------------------------------------------------------
(* The program's callbacks, WebServerLWS.cpp. *)

\* callback_http for LWS_CALLBACK_HTTP: -1 closes the connection, on
\* completion as on error
callback_http(st, c, file) ==
  LET served == libwebsockets_serve_http_file(st, c, file # NoFile)
  IN  IF served.wsi[c].ret # 0 THEN [served EXCEPT !.wsi[c].ret = -1] ELSE served

\* callback_iracing_data for LWS_CALLBACK_RECEIVE: a heartbeat is sent back at
\* once, anything else is a command for the main loop
Receive(st, c, message) ==
  IF message = << >>
  THEN st
  ELSE LET heard == [st EXCEPT !.wsi[c].got = Append(@, message)]
       IN  IF message = <<"heartbeat">>
           THEN libwebsocket_write(heard, c, <<"heartbeat">>)
           ELSE heard

\* callback_iracing_data for LWS_CALLBACK_SERVER_WRITEABLE; version stands for
\* the data of that moment
Writeable(st, c, version) == libwebsocket_write(st, c, <<"data", version>>)

-----------------------------------------------------------------------------
(* The header, libwebsocket_parse: what is known of it is the set of lines *)
(* it recognised.                                                          *)

MethodSeen(hdr) == \E line \in hdr : line[1] = "get"

ParseFails(hdr, line) ==
  \/ line[1] = "unknown" /\ ~MethodSeen(hdr)
  \/ line[1] = "get" /\ MethodSeen(hdr)

libwebsocket_parse(hdr, line) ==
  IF line[1] \in {"unknown", "end"} THEN hdr ELSE hdr \cup {line}

Upgrades(hdr) == {line \in hdr : line[1] = "upgrade"}

Speaks(line) == line[2] = "iracing-data-protocol" /\ line[3] = 13

ShakenKeeps(st, c) ==          \* mutant: the header table is not given back
  [st EXCEPT !.wsi[c] = [@ EXCEPT !.state = "established", !.mode = "ws", !.hears = TRUE, !.ret = 0]]
Shaken(st, c) ==
  [st EXCEPT !.wsi[c] = [@ EXCEPT !.state = "established", !.mode = "ws", !.hears = TRUE,
                                  !.hdr = {}, !.ret = 0]]

\* the request is a websocket's: find its protocol and shake hands
\* (handshake_0405), or bail
HandshakeWebsocket(st, c, hdr) ==
  IF \E line \in Upgrades(hdr) : Speaks(line)
  THEN LET answered == WriteHttp(st, c, <<"101">>)
       IN  IF answered.wsi[c].ret < 0 THEN answered ELSE Shaken(answered, c)
  ELSE [st EXCEPT !.wsi[c].ret = -1]

HandshakeHttpUnlimited(st, c, hdr) ==   \* mutant: no time limit on a file
  callback_http([st EXCEPT !.wsi[c].mode = "accepted", !.wsi[c].hdr = {}], c,
                (CHOOSE line \in hdr : line[1] = "get")[2])

\* the request is for a file: there is a time limit on it from here
HandshakeHttp(st, c, hdr) ==
  LET file    == (CHOOSE line \in hdr : line[1] = "get")[2]
      limited == libwebsocket_set_timeout(st, c, Awaiting)
  IN  callback_http([limited EXCEPT !.wsi[c].mode = "accepted", !.wsi[c].hdr = {}],
                    c, file)

\* lws_handshake_server, one line at a time; ret < 0 bails
lws_handshake_server(st, c, line) ==
  LET hdr  == st.wsi[c].hdr
      next == libwebsocket_parse(hdr, line)
      free == libwebsocket_set_timeout(st, c, NoTimeout)
  IN  IF ParseFails(hdr, line)
      THEN [st EXCEPT !.wsi[c].ret = -1]
      ELSE IF line[1] # "end"
      THEN [st EXCEPT !.wsi[c].hdr = next, !.wsi[c].ret = 0]
      ELSE IF Upgrades(next) # {}
      THEN HandshakeWebsocket(free, c, next)
      ELSE IF MethodSeen(next)
      THEN HandshakeHttp(free, c, next)
      ELSE [free EXCEPT !.wsi[c].ret = -1]

-----------------------------------------------------------------------------
(* Frames, libwebsocket_rx_sm. *)

\* ready for the next frame
EmptiedNot(st, c) ==           \* mutant: the buffer's length is not reset
  [st EXCEPT !.wsi[c].rx = [@ EXCEPT !.left = -1], !.wsi[c].ret = 0]
Emptied(st, c) ==
  [st EXCEPT !.wsi[c].rx = [@ EXCEPT !.left = -1, !.buffer = << >>], !.wsi[c].ret = 0]

\* the frame is complete
Spill(st, c) ==
  LET w       == st.wsi[c]
      emptied == Emptied(st, c)
  IN  CASE w.rx.opcode = "close" ->
             LET parroted == libwebsocket_write(st, c, <<"close">>)
             IN  [parroted EXCEPT !.wsi[c].state = "returned_close", !.wsi[c].ret = -1]
        [] w.rx.opcode = "ping" ->
             LET answered == libwebsocket_write(emptied, c, <<"pong">>)
             IN  IF answered.wsi[c].ret < 0
                 THEN answered
                 ELSE [answered EXCEPT !.wsi[c].ret = 0]
        [] w.rx.opcode = "pong" -> emptied
        [] OTHER -> [Receive(emptied, c, w.rx.buffer) EXCEPT !.wsi[c].ret = 0]

\* one unit of a frame; rx.left is the payload to come, -1 between frames
OneMore(rx, unit) ==
  IF rx.left = -1
  THEN [rx EXCEPT !.opcode = unit[2], !.left = unit[3]]
  ELSE [rx EXCEPT !.buffer = Append(@, unit[2]), !.left = @ - 1]

libwebsocket_rx_sm(st, c, unit) ==
  LET now == [st EXCEPT !.wsi[c].rx = OneMore(@, unit), !.wsi[c].ret = 0]
  IN  IF now.wsi[c].rx.left = 0 THEN Spill(now, c) ELSE now

\* one unit, through the parser of the state the connection is in
ReadUnit(st, c, unit) ==
  LET one == IF st.wsi[c].state = "established"
             THEN libwebsocket_rx_sm(st, c, unit)
             ELSE lws_handshake_server(st, c, unit)
  IN  IF one.wsi[c].ret < 0 /\ ~one.wsi[c].clash
      THEN libwebsocket_close_and_free_session(one, c)
      ELSE one

\* libwebsocket_read: all that came, until the connection is closed
libwebsocket_read(st, c) ==
  LET units == st.wsi[c].in
      after[n \in 0 .. Len(units)] ==
        IF n = 0
        THEN [st EXCEPT !.wsi[c].in = << >>]
        ELSE IF after[n - 1].wsi[c].clash \/ after[n - 1].wsi[c].state = "dead"
        THEN after[n - 1]
        ELSE ReadUnit(after[n - 1], c, units[n])
  IN  after[Len(units)]
=============================================================================
