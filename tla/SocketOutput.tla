---------------------------- MODULE SocketOutput ----------------------------
(***************************************************************************)
(* The output half of libwebsockets as irPitCrew builds it: no extensions, *)
(* no SSL, Windows.  The library's state is one value st:                  *)
(*                                                                         *)
(*   st.fds     context->fds: who is polled, and whether for POLLOUT       *)
(*   st.pos     wsi->position_in_fds_table (0: in no position)             *)
(*   st.wsi     the connections, with what their network has taken         *)
(*                                                                         *)
(* Every operator is a function of the library: it takes st and returns    *)
(* the st it leaves, with its return value in wsi[c].ret where it has one. *)
(* A message is a sequence of units; send() takes all the units of a call  *)
(* while the socket's buffer has room for one more call and none when it   *)
(* has not, which is what a non-blocking Winsock socket does.              *)
(***************************************************************************)
EXTENDS Integers, Sequences, FiniteSets

Listener == "listener"

CONSTANTS
  Conns,      \* client sockets
  Slow,       \* those whose send buffer can be full
  Room,       \* calls of send() that an empty send buffer takes
  Chunks,     \* length of the page's file, in service buffers
  Awaiting    \* AWAITING_TIMEOUT, in seconds

ASSUME OutputAssumption ==
  /\ Slow \subseteq Conns
  /\ {Room, Chunks, Awaiting} \subseteq Nat \ {0}
  /\ Listener \notin Conns

NoTimeout == Awaiting + 1     \* NO_PENDING_TIMEOUT
Expired == -1                 \* the second is past pending_timeout_limit

-----------------------------------------------------------------------------
(* The table of polled sockets. *)

\* a change selects the socket's FD_WRITE and FD_CLOSE: until the first one
\* only FD_READ is
lws_change_pollfd(st, c, out) ==
  IF st.fds[st.pos[c]].out = out
  THEN st
  ELSE [st EXCEPT !.fds[st.pos[c]].out = out, !.wsi[c].selected = TRUE]

libwebsocket_callback_on_writable(st, c) == lws_change_pollfd(st, c, TRUE)

insert_wsi_socket_into_fds(st, c) ==
  [st EXCEPT !.pos[c] = Len(st.fds) + 1,
             !.fds = Append(@, [fd |-> c, out |-> FALSE])]

\* the last one of the table takes up the vacant slot
RemoveUnmoved(st, c) ==       \* mutant: the one that moved keeps its position
  LET m    == st.pos[c]
      last == st.fds[Len(st.fds)]
  IN  [st EXCEPT !.fds = SubSeq([@ EXCEPT ![m] = last], 1, Len(@) - 1),
                 !.pos[c] = 0]

remove_wsi_socket_from_fds(st, c) ==
  LET m    == st.pos[c]
      last == st.fds[Len(st.fds)]
  IN  [st EXCEPT !.fds = SubSeq([@ EXCEPT ![m] = last], 1, Len(@) - 1),
                 !.pos = [[@ EXCEPT ![last.fd] = m] EXCEPT ![c] = 0]]

libwebsocket_set_timeout(st, c, secs) == [st EXCEPT !.wsi[c].timeout = secs]

\* libwebsocket_close_and_free_session, always without a status here, so that
\* no close frame is sent; the user hears CLOSED of an established connection
ToldEstablished(w) == w.state = "established"  \* mutant: no CLOSED after its close
Told(w) == w.state \in {"established", "returned_close"}

Freed(w) ==
  [w EXCEPT !.state = "dead", !.timeout = NoTimeout, !.trunc = <<>>, !.tmalloc = FALSE,
            !.in = <<>>, !.hdr = {}, !.handed = <<>>,
            !.hears = IF Told(w) THEN FALSE ELSE @]

libwebsocket_close_and_free_session(st, c) ==
  [remove_wsi_socket_from_fds(st, c) EXCEPT !.wsi[c] = Freed(@)]

-----------------------------------------------------------------------------
(* Sending. *)

\* what send() leaves when it takes the units
Taken(w, c, units) ==
  [w EXCEPT !.wire = @ \o units, !.room = IF c \in Slow THEN @ - 1 ELSE @]

\* lws_issue_raw for a buffer of the caller's
lws_issue_raw(st, c, units) ==
  LET w == st.wsi[c]
  IN  IF w.trunc # <<>>      \* "Sending new, pending truncated", assert(0)
      THEN [st EXCEPT !.wsi[c].clash = TRUE, !.wsi[c].ret = -1]
      ELSE IF w.net = "left"
      THEN [st EXCEPT !.wsi[c].ret = -1]
      ELSE IF w.room = 0     \* newly truncated: buffer all of it
      THEN [libwebsocket_callback_on_writable(st, c) EXCEPT
              !.wsi[c].blocking = TRUE, !.wsi[c].trunc = units,
              !.wsi[c].tmalloc = TRUE, !.wsi[c].ret = Len(units)]
      ELSE [st EXCEPT !.wsi[c] = [Taken(w, c, units) EXCEPT !.ret = Len(units)]]

IssuePendingAgain(st, c) ==    \* mutant: what was sent stays pending
  LET w == st.wsi[c]
  IN  IF w.trunc = <<>> \/ w.net = "left" \/ w.room = 0
      THEN st
      ELSE [st EXCEPT !.wsi[c] = Taken(w, c, w.trunc)]

\* lws_issue_raw for what is left of a truncated send
IssuePending(st, c) ==
  LET w == st.wsi[c]
  IN  IF w.trunc = <<>> \/ w.net = "left"
      THEN st
      ELSE IF w.room = 0
      THEN [libwebsocket_callback_on_writable(st, c) EXCEPT !.wsi[c].blocking = TRUE]
      ELSE [st EXCEPT !.wsi[c] = [Taken(w, c, w.trunc) EXCEPT !.trunc = <<>>]]

\* a frame is its header and its payload; what the library took on is in handed
libwebsocket_write(st, c, frame) ==
  IF st.wsi[c].state # "established"
  THEN [st EXCEPT !.wsi[c].ret = -1]
  ELSE LET units == << <<"frame", frame>>, <<"payload", frame>> >>
           done  == lws_issue_raw(st, c, units)
       IN  IF done.wsi[c].ret < 0
           THEN done
           ELSE [done EXCEPT !.wsi[c].handed = @ \o units]

WriteHttp(st, c, unit) == lws_issue_raw(st, c, << unit >>)

-----------------------------------------------------------------------------
(* Files. *)

CompletedAtEnd(w) == w.filepos = Chunks   \* mutant: a pending send is forgotten
Completed(w) == w.trunc = <<>> /\ w.filepos = Chunks

GoesOn == 2      \* the loop's round is not its last

RoundEnd(st, c) ==
  IF Completed(st.wsi[c])
  THEN [st EXCEPT !.wsi[c].state = "http", !.wsi[c].ret = 1, !.wsi[c].whole = TRUE]
  ELSE [st EXCEPT !.wsi[c].ret = GoesOn]

FragmentRound(st, c) ==
  LET w     == st.wsi[c]
      wrote == WriteHttp(st, c, <<"chunk", w.filepos + 1>>)
  IN  IF w.blocking
      THEN [libwebsocket_callback_on_writable(st, c) EXCEPT !.wsi[c].ret = 0]
      ELSE IF w.trunc # <<>>
      THEN [IssuePending(st, c) EXCEPT !.wsi[c].ret = GoesOn]
      ELSE IF w.filepos = Chunks
      THEN RoundEnd(st, c)
      ELSE IF wrote.wsi[c].ret < 0
      THEN wrote
      ELSE RoundEnd([wrote EXCEPT !.wsi[c].filepos = @ + 1], c)

\* > 0: all sent, < 0: error, the caller closes on both; 0: more to send
libwebsockets_serve_http_file_fragment(st, c) ==
  LET after[n \in 0 .. Chunks + 1] ==
        IF n = 0
        THEN FragmentRound(st, c)
        ELSE IF after[n - 1].wsi[c].ret = GoesOn
        THEN FragmentRound(after[n - 1], c)
        ELSE after[n - 1]
  IN  after[Chunks + 1]

libwebsockets_serve_http_file(st, c, exists) ==
  IF ~exists
  THEN [WriteHttp(st, c, <<"404">>) EXCEPT !.wsi[c].ret = -1]
  ELSE LET head == WriteHttp(st, c, <<"200">>)
       IN  IF head.wsi[c].ret < 0
           THEN head
           ELSE libwebsockets_serve_http_file_fragment(
                  [head EXCEPT !.wsi[c].filepos = 0, !.wsi[c].state = "issuing"], c)
=============================================================================
