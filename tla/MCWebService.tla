---------------------------- MODULE MCWebService ----------------------------
(* Two clients at a time, one of them slow to read: a slow page that only    *)
(* shows, with a page that sends a ping, its heartbeat, a command and a      *)
(* close; a slow and a fast reader of the page's file, or of one that does   *)
(* not exist; and, to meet the assertion of lws_issue_raw, a slow page with  *)
(* its heartbeat and a client that sends nothing.                            *)
EXTENDS WebService, SequencesExt

WsRequest == << <<"get", "ws">>, <<"upgrade", "iracing-data-protocol", 13>>, <<"end">> >>
TextHead(n) == <<"head", "text", n>>
Ping == <<"head", "ping", 0>>
Close == <<"head", "close", 0>>
Byte(b) == <<"byte", b>>

Viewer == << WsRequest >>
\* the command is cut in two by the network
Pit ==
  << WsRequest,
     << Ping, TextHead(1), Byte("heartbeat"), TextHead(2), Byte("fuel") >>,
     << Byte("tires"), Close >> >>
Reader == << << <<"get", "page">> >>, << <<"end">> >> >>
Lost   == << << <<"get", NoFile>>, <<"end">> >> >>
SlowPit == << WsRequest, << TextHead(1), Byte("heartbeat") >> >>
Silent == << >>

\* a script from its pieces
Script(pieces) ==
  [units |-> FlattenSeq(pieces),
   cuts  |-> {Len(FlattenSeq(SubSeq(pieces, 1, n))) : n \in DOMAIN pieces}]

Together(slow, fast) ==
  [c \in Conns |-> IF c \in Slow THEN Script(slow) ELSE Script(fast)]

MCScripts ==
  {Together(Viewer, Pit), Together(Reader, Reader), Together(Reader, Lost),
   Together(SlowPit, Silent)}
=============================================================================
