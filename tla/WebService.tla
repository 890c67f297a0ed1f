----------------------------- MODULE WebService -----------------------------
(***************************************************************************)
(* The web server's thread: WebServerLWS::runThread around                 *)
(* libwebsocket_service, with the main loop that asks for updates and the  *)
(* clients at the other end of the sockets.                                *)
(*                                                                         *)
(* One pass of the thread serves the sockets that wait to write, then      *)
(* waits for one network event (or 50 ms), then asks for a writeable       *)
(* callback of every websocket if the main loop updated the data.  Steps   *)
(* of the clients, of the clock and of the main loop come between any two  *)
(* sockets served.                                                         *)
(***************************************************************************)
EXTENDS SocketInput

CONSTANTS
  Scripts,     \* what the clients may send: for each client the units, and the
               \* cuts between the pieces in which they are sent
  MaxUpdates   \* bound on the updates of the main loop

\* one request, with header lines the parser tells apart, and whole frames after it
\* if it asks for a websocket
OneRequest(units) ==
  /\ \A i, j \in DOMAIN units :
       units[i][1] = "end" /\ i < j => units[j][1] \in {"head", "byte"}
  /\ \A j \in DOMAIN units :
       \/ units[j][1] \in {"get", "upgrade", "unknown", "end"}
       \/ /\ units[j][1] \in {"head", "byte"}
          /\ \E i, k \in 1 .. j - 1 : units[i][1] = "end" /\ units[k][1] = "upgrade"

WholeFrames(units) ==
  LET Heads   == {n \in DOMAIN units : units[n][1] = "head"}
      Bytes(n) == {j \in DOMAIN units : n < j /\ j <= n + units[n][3]}
  IN  /\ \A n \in Heads : units[n][2] \in Control \cup {"text"} /\ units[n][3] \in Nat
      /\ {j \in DOMAIN units : units[j][1] = "byte"} = UNION {Bytes(n) : n \in Heads}

ASSUME ServiceAssumption ==
  /\ MaxUpdates \in Nat
  /\ \A s \in Scripts : \A c \in Conns :
       /\ s[c].units \in Seq({s[c].units[i] : i \in DOMAIN s[c].units})
       /\ OneRequest(s[c].units) /\ WholeFrames(s[c].units)

VARIABLES
  st,        \* the state of the library
  sends,     \* what each client means to send
  sent,      \* how many units of it each client has sent
  svc,       \* the service thread: "poll" at socket i, "wait", "app", "gone"
  second,    \* a second began since the last timeout check
  update,    \* m_updateClient
  version    \* the data of the main loop

vars == << st, sends, sent, svc, second, update, version >>

Fresh ==
  [net |-> "none", in |-> << >>, room |-> Room, wire |-> << >>, handed |-> << >>,
   state |-> "new", mode |-> "http", timeout |-> NoTimeout, blocking |-> FALSE,
   selected |-> FALSE, trunc |-> << >>, tmalloc |-> FALSE, hears |-> FALSE,
   hdr |-> {}, rx |-> [opcode |-> "text", left |-> -1, buffer |-> << >>],
   got |-> << >>, filepos |-> 0, whole |-> FALSE, clash |-> FALSE, ret |-> 0]

Init ==
  /\ st = [fds |-> << [fd |-> Listener, out |-> FALSE] >>,
           pos |-> [c \in Conns \cup {Listener} |-> IF c = Listener THEN 1 ELSE 0],
           wsi |-> [c \in Conns |-> Fresh]]
  /\ sends \in Scripts
  /\ sent = [c \in Conns |-> 0]
  /\ svc = [at |-> "poll", i |-> 1]
  /\ second = FALSE
  /\ update = FALSE
  /\ version = 0

-----------------------------------------------------------------------------
(* Serving one socket, libwebsocket_service_fd. *)

Pending(s) == {c \in Conns : s.wsi[c].net = "pending"}

\* lws_server_socket_service for the listener
accept(s, c) ==
  [insert_wsi_socket_into_fds(libwebsocket_set_timeout(s, c, Awaiting), c) EXCEPT
     !.wsi[c].net = "open", !.wsi[c].state = "http"]

\* the timeout check once a second: closing the socket at n moves the last one
\* of the table to n, and the loop goes on at n + 1
Late(s, n) ==
  n <= Len(s.fds) /\ s.fds[n].fd # Listener /\ s.wsi[s.fds[n].fd].timeout = Expired

CloseLate(s) ==
  LET after[n \in 0 .. Len(s.fds)] ==
        IF n = 0
        THEN s
        ELSE IF Late(after[n - 1], n)
        THEN libwebsocket_close_and_free_session(after[n - 1], after[n - 1].fds[n].fd)
        ELSE after[n - 1]
  IN  after[Len(s.fds)]

TimeoutCheck(s) == IF second THEN CloseLate(s) ELSE s

\* every tenth service takes a waiting client in as well
Piggyback(s) == {s} \cup {accept(s, c) : c \in Pending(s)}

lws_handle_POLLOUT_event(s, c) ==
  IF s.wsi[c].trunc # << >>
  THEN IssuePending(s, c)
  ELSE Writeable(lws_change_pollfd(s, c, FALSE), c, version)

ServeWebsocket(s, c, in, out) ==
  LET wrote == IF out /\ s.wsi[c].state = "established"
               THEN lws_handle_POLLOUT_event(s, c)
               ELSE s
  IN  IF in THEN libwebsocket_read(wrote, c) ELSE wrote

\* lws_server_socket_service for a connection that is not (yet) a websocket
ServeHttp(s, c, in, out) ==
  LET w == s.wsi[c]
  IN  IF w.tmalloc
      THEN IF out THEN IssuePending(s, c) ELSE s
      ELSE IF in
      THEN libwebsocket_read(s, c)
      ELSE IF ~out
      THEN s
      ELSE LET once == lws_change_pollfd(s, c, FALSE)
           IN  IF w.state # "issuing"
               THEN once
               ELSE LET fragment == libwebsockets_serve_http_file_fragment(once, c)
                    IN  IF fragment.wsi[c].ret # 0
                        THEN libwebsocket_close_and_free_session(fragment, c)
                        ELSE fragment

\* c with what the network says of it: data to read, room to write, closed
Serve(s, c, in, out, hup) ==
  IF hup /\ ~in
  THEN libwebsocket_close_and_free_session(s, c)
  ELSE IF s.wsi[c].mode = "ws"
  THEN ServeWebsocket(s, c, in, out)
  ELSE ServeHttp(s, c, in, out)

libwebsocket_service_fd(s0, c, in, out, hup) ==
  LET timed == TimeoutCheck(s0)
  IN  /\ second' = FALSE
      /\ IF timed.wsi[c].state = "dead"       \* "Socket timed out"
         THEN st' = timed
         ELSE \E s \in Piggyback(timed) :
                st' = [Serve(s, c, in, out, hup) EXCEPT !.wsi[c].ret = 0]

-----------------------------------------------------------------------------
(* The service thread. *)

ToWrite(i) ==
  LET e == st.fds[i] IN e.fd # Listener /\ e.out /\ ~st.wsi[e.fd].blocking

\* the sockets from svc.i on that wait to write, in the order of the table
PollNext ==
  /\ svc.at = "poll"
  /\ LET due == {i \in svc.i .. Len(st.fds) : ToWrite(i)}
     IN  IF due = {}
         THEN /\ svc' = [svc EXCEPT !.at = "wait", !.i = 0]
              /\ UNCHANGED << st, second >>
         ELSE LET i == CHOOSE j \in due : \A k \in due : j <= k
              IN  /\ libwebsocket_service_fd(st, st.fds[i].fd, FALSE, TRUE, FALSE)
                  /\ svc' = [svc EXCEPT !.i = i + 1]
  /\ UNCHANGED << sends, sent, update, version >>

CanRead(c)  == st.wsi[c].in # << >>
CanWrite(c) == st.wsi[c].blocking /\ st.wsi[c].room > 0
Closed(c)   == st.wsi[c].net = "left" /\ st.wsi[c].selected /\ ~CanRead(c)

Signaled == {i \in 1 .. Len(st.fds) :
               LET c == st.fds[i].fd
               IN  IF c = Listener
                   THEN Pending(st) # {}
                   ELSE CanRead(c) \/ CanWrite(c) \/ Closed(c)}

\* WSAWaitForMultipleEvents: the first socket with an event, or none in 50 ms
Wait ==
  /\ svc.at = "wait"
  /\ svc' = [svc EXCEPT !.at = "app"]
  /\ IF Signaled = {}
     THEN /\ st' = TimeoutCheck(st)
          /\ second' = FALSE
     ELSE LET i == CHOOSE j \in Signaled : \A k \in Signaled : j <= k
              c == st.fds[i].fd
          IN  IF c = Listener
              THEN /\ \E new \in Pending(st) : st' = accept(TimeoutCheck(st), new)
                   /\ second' = FALSE
              ELSE libwebsocket_service_fd(
                     [st EXCEPT !.wsi[c].blocking = @ /\ ~CanWrite(c)],
                     c, CanRead(c), CanWrite(c), Closed(c))
  /\ UNCHANGED << sends, sent, update, version >>

\* asking for a writeable callback of some slots of the table
Ask(s, slots) ==
  [s EXCEPT !.fds = [n \in 1 .. Len(s.fds) |->
                       [s.fds[n] EXCEPT !.out = @ \/ n \in slots]],
            !.wsi = [c \in Conns |->
                       [s.wsi[c] EXCEPT !.selected = @ \/ \E n \in slots :
                          s.fds[n].fd = c /\ ~s.fds[n].out]]]

IsWebsocket(s, n) == s.fds[n].fd # Listener /\ s.wsi[s.fds[n].fd].mode = "ws"

AllButLast(s) ==           \* mutant: the last of the table is not asked
  Ask(s, {n \in 1 .. Len(s.fds) - 1 : IsWebsocket(s, n)})

libwebsocket_callback_on_writable_all_protocol(s) ==
  Ask(s, {n \in 1 .. Len(s.fds) : IsWebsocket(s, n)})

\* after the service: is there an update, is the thread still to run?
App ==
  /\ svc.at = "app"
  /\ svc' = [at |-> "poll", i |-> 1]
  /\ update' = FALSE
  /\ st' = IF update THEN libwebsocket_callback_on_writable_all_protocol(st) ELSE st
  /\ UNCHANGED << sends, sent, second, version >>

\* libwebsocket_context_destroy closes the first of the table until it is empty
CloseFirst(s) ==
  LET c == s.fds[1].fd
  IN  IF c = Listener
      THEN remove_wsi_socket_from_fds(s, c)
      ELSE libwebsocket_close_and_free_session(s, c)

CloseAll(s) ==
  LET after[n \in 0 .. Len(s.fds)] == IF n = 0 THEN s ELSE CloseFirst(after[n - 1])
  IN  after[Len(s.fds)]

Destroy ==
  /\ svc = [at |-> "poll", i |-> 1]
  /\ svc' = [at |-> "gone", i |-> 0]
  /\ st' = CloseAll(st)
  /\ UNCHANGED << sends, sent, second, update, version >>

-----------------------------------------------------------------------------
(* The main loop, the clock and the clients. *)

\* WebServerLWS::updateClient after the data changed
updateClient ==
  /\ version < MaxUpdates /\ svc.at # "gone"
  /\ version' = version + 1
  /\ update' = TRUE
  /\ UNCHANGED << st, sends, sent, svc, second >>

Later(timeout) == IF timeout = NoTimeout \/ timeout = Expired THEN timeout ELSE timeout - 1

\* a second; while no timeout is pending it changes nothing
Tick ==
  /\ \E c \in Conns :
       /\ st.wsi[c].timeout # NoTimeout
       /\ ~second \/ Later(st.wsi[c].timeout) # st.wsi[c].timeout
  /\ second' = TRUE
  /\ st' = [st EXCEPT !.wsi = [c \in Conns |->
                                 [st.wsi[c] EXCEPT !.timeout = Later(@)]]]
  /\ UNCHANGED << sends, sent, svc, update, version >>

Connect(c) ==
  /\ st.wsi[c].net = "none"
  /\ svc.at # "gone"
  /\ st' = [st EXCEPT !.wsi[c].net = "pending"]
  /\ UNCHANGED << sends, sent, svc, second, update, version >>

\* a websocket client sends its first frame after the answer to its request
Send(c) ==
  LET units == sends[c].units
      w     == st.wsi[c]
      left  == sent[c] + 1 .. Len(units)
  IN  /\ left # {} /\ svc.at # "gone"
      /\ w.net \in {"pending", "open"} /\ w.state # "dead"
      /\ \E end \in left :
           /\ end = Len(units) \/ end \in sends[c].cuts
           /\ \A k \in sent[c] + 1 .. end - 1 : k \notin sends[c].cuts
           /\ (\E k \in sent[c] + 1 .. end : units[k][1] \in {"head", "byte"}) => w.wire # << >>
           /\ st' = [st EXCEPT !.wsi[c].in = @ \o SubSeq(units, sent[c] + 1, end)]
           /\ sent' = [sent EXCEPT ![c] = end]
      /\ UNCHANGED << sends, svc, second, update, version >>

Drain(c) ==
  /\ st.wsi[c].room < Room
  /\ st.wsi[c].net = "open" /\ st.wsi[c].state # "dead"
  /\ st' = [st EXCEPT !.wsi[c].room = Room]
  /\ UNCHANGED << sends, sent, svc, second, update, version >>

Leave(c) ==
  /\ st.wsi[c].net = "open" /\ st.wsi[c].state # "dead"
  /\ st' = [st EXCEPT !.wsi[c].net = "left"]
  /\ UNCHANGED << sends, sent, svc, second, update, version >>

Service == PollNext \/ Wait \/ App

\* The assertion of lws_issue_raw: nothing new is sent on a connection that
\* still has a truncated send pending. The code does not keep it: a heartbeat is
\* answered as it is read, whatever is pending (WebServerLWS.cpp:482).
NoSendPastPending == \A c \in Conns : ~st.wsi[c].clash

\* an assertion that fails ends the process
Next ==
  /\ NoSendPastPending
  /\ \/ Service
     \/ Destroy
     \/ updateClient
     \/ Tick
     \/ \E c \in Conns : Connect(c) \/ Send(c) \/ Drain(c) \/ Leave(c)

Spec == Init /\ [][Next]_vars

\* every step of Service, and no other step, takes the thread on to a position
\* of its loop, and one is always possible until the thread is gone; said of svc
\* alone, its fairness is cheap to check
ServiceRuns ==
  /\ svc.at # "gone" /\ NoSendPastPending
  /\ svc' \in [at : {"poll", "wait", "app"}, i : 0 .. Cardinality(Conns) + 2]

\* the service thread runs, time passes, and a client that is not gone reads
FairSpec ==
  /\ Spec
  /\ WF_svc(ServiceRuns)
  /\ WF_vars(NoSendPastPending /\ Tick)
  /\ \A c \in Conns : WF_vars(NoSendPastPending /\ Drain(c))

-----------------------------------------------------------------------------
(* Properties. *)

Polled == {st.fds[n].fd : n \in 1 .. Len(st.fds)}

\* Every variable stays in its type: the rows of a connection are numbers,
\* flags and states the library has names for, and the table of header lines
\* is held only until the request is complete.
TypeOK ==
  /\ \A c \in Conns :
       LET w == st.wsi[c]
       IN  /\ w.net \in {"none", "pending", "open", "left"}
           /\ w.room \in 0 .. Room
           /\ w.state \in {"new", "http", "issuing", "established",
                          "returned_close", "dead"}
           /\ w.mode \in {"http", "accepted", "ws"}
           /\ w.timeout \in Expired .. NoTimeout
           /\ {w.blocking, w.selected, w.tmalloc, w.hears, w.whole, w.clash}
                \subseteq BOOLEAN
           /\ w.filepos \in 0 .. Chunks
           /\ w.rx.left >= -1
           /\ w.hdr # {} => w.mode = "http"
  /\ svc.at \in {"poll", "wait", "app", "gone"}
  /\ {second, update} \subseteq BOOLEAN
  /\ version \in 0 .. MaxUpdates

\* The table of polled sockets and position_in_fds_table agree, whatever
\* sockets were closed and in what order the last ones took up their slots:
\* a connection that is not closed is polled in one slot, its own.
TableConsistent ==
  /\ \A n \in 1 .. Len(st.fds) : st.pos[st.fds[n].fd] = n
  /\ Polled \ {Listener} = {c \in Conns : st.wsi[c].state \notin {"new", "dead"}}

\* What the program writes to a websocket reaches its network once, whole and
\* in order: what was sent, and after it what the library still holds back, is
\* exactly what it accepted from the program after the handshake.
NothingLost ==
  \A c \in Conns :
    LET w == st.wsi[c]
    IN  w.state = "established" =>
          << <<"101">> >> \o w.handed = w.wire \o w.trunc

\* the text frames among the units, by their heads
Texts(units) ==
  {n \in DOMAIN units : units[n][1] = "head" /\ units[n][2] = "text" /\ units[n][3] > 0}
Payload(units, n) == [k \in 1 .. units[n][3] |-> units[n + k][2]]

\* The i-th message the program hears is the payload of the i-th text frame the
\* client sent, however its frames are cut up by reads and whatever control frames
\* are between them.
ReceivedInOrder ==
  \A c \in Conns :
    LET units == sends[c].units
    IN  \A i \in DOMAIN st.wsi[c].got :
          \E n \in Texts(units) :
            /\ Cardinality({m \in Texts(units) : m <= n}) = i
            /\ st.wsi[c].got[i] = Payload(units, n)

\* the frames that the library answers, or the program, as they are read
Answered(units) ==
  \E n \in DOMAIN units :
    /\ units[n][1] = "head"
    /\ units[n][2] \in {"close", "ping"} \/ Payload(units, n) = <<"heartbeat">>

\* How far the assertion of lws_issue_raw can be trusted: only a client that does
\* not read fast enough and sends something that is answered at once makes it fail,
\* never the data, the page's file or the requests.
OnlyAnswersOverlap ==
  \A c \in Conns : st.wsi[c].clash => c \in Slow /\ Answered(sends[c].units)

\* Neither direction of a websocket loses, repeats or reorders anything.
Delivered == NothingLost /\ ReceivedInOrder

\* A file is declared completed only when its header and all its chunks went
\* out, also when the socket could not take them at once.
FileWhole ==
  \A c \in Conns :
    st.wsi[c].whole =>
      st.wsi[c].wire = << <<"200">> >> \o [k \in 1 .. Chunks |-> <<"chunk", k>>]

\* The program hears of a connection's end exactly if it heard of its start,
\* and from a server that is gone it has heard of the end of each: ESTABLISHED
\* and CLOSED come in pairs.
CallbacksPaired ==
  /\ \A c \in Conns : st.wsi[c].hears <=> st.wsi[c].state = "established"
  /\ svc.at = "gone" => \A c \in Conns : ~st.wsi[c].hears

\* The library and the program agree on which connections there are.
ConnectionsAgree == TypeOK /\ TableConsistent /\ CallbacksPaired

\* A connection that does not become a websocket does not stay: its client
\* may stop in the middle of a request or stop reading a file, the timeout
\* closes it, unless the assertion of lws_issue_raw ends the process.
Negotiates ==
  \A c \in Conns :
    (c \in Polled /\ st.wsi[c].mode # "ws") ~>
      (c \notin Polled \/ st.wsi[c].mode = "ws" \/ ~NoSendPastPending)

Reached(c, v) ==
  \E k \in 1 .. Len(st.wsi[c].wire) :
    LET unit == st.wsi[c].wire[k]
    IN  unit[1] = "payload" /\ unit[2][1] = "data" /\ unit[2][2] >= v

\* Every update of the main loop reaches every open websocket whose client
\* reads, or a later one does: neither a full send buffer nor the traffic of
\* the other sockets makes the server forget it, unless the assertion ends the process.
Refreshed ==
  \A c \in Conns : \A v \in 1 .. MaxUpdates :
    (st.wsi[c].state = "established" /\ version = v /\ update) ~>
      (\/ st.wsi[c].state # "established"
       \/ Reached(c, v)
       \/ ~NoSendPastPending)
=============================================================================
