--------------------------- MODULE WebServiceProofs ---------------------------
(***************************************************************************)
(* Theorems about WebService, for every value of its constants.            *)
(***************************************************************************)
EXTENDS WebService, FiniteSetTheorems, SequenceTheorems, WellFoundedInduction, TLAPS

(* The states of the library. *)

\* What the clients send, what the library sends, what the program hears.
Pieces == UNION {{s[c].units[i] : i \in DOMAIN s[c].units} : s \in Scripts, c \in Conns}
Bytes == {p[2] : p \in {q \in Pieces : q[1] = "byte"}}
Frames == {<< f >> : f \in {"heartbeat", "close", "pong"}} \cup {<<"data", v>> : v \in 0 .. MaxUpdates}
Outs == {<< a >> : a \in {"101", "200", "404"}} \cup {<<"chunk", k>> : k \in 1 .. Chunks}
        \cup {<< kind, f >> : kind \in {"frame", "payload"}, f \in Frames}

\* A connection: its fields, and what they may be.
Fields ==
  {"net", "in", "room", "wire", "handed", "state", "mode", "timeout", "blocking", "selected",
   "trunc", "tmalloc", "hears", "hdr", "rx", "got", "filepos", "whole", "clash", "ret"}

Types(f) ==
  CASE f = "net" -> {"none", "pending", "open", "left"}
    [] f = "in" -> Seq(Pieces)
    [] f = "room" -> 0 .. Room
    [] f \in {"wire", "handed", "trunc"} -> Seq(Outs)
    [] f = "state" -> {"new", "http", "issuing", "established", "returned_close", "dead"}
    [] f = "mode" -> {"http", "accepted", "ws"}
    [] f = "timeout" -> Expired .. NoTimeout
    [] f \in {"blocking", "selected", "tmalloc", "hears", "whole", "clash"} -> BOOLEAN
    [] f = "hdr" -> SUBSET Pieces
    [] f = "rx" -> [opcode : Control \cup {"text"}, left : Nat \cup {-1}, buffer : Seq(Bytes)]
    [] f = "got" -> Seq(Seq(Bytes))
    [] f = "filepos" -> 0 .. Chunks
    [] f = "ret" -> Int

Row(w) == w = [f \in Fields |-> w[f]] /\ \A f \in Fields : w[f] \in Types(f)

Fds == [fd : Conns \cup {Listener}, out : BOOLEAN]
Lib(s) ==
  /\ s = [fds |-> s.fds, pos |-> s.pos, wsi |-> s.wsi]
  /\ s.fds \in Seq(Fds) /\ s.pos \in [Conns \cup {Listener} -> Nat]
  /\ s.wsi = [c \in Conns |-> s.wsi[c]] /\ \A c \in Conns : Row(s.wsi[c])

Polls(s, c) == \E n \in 1 .. Len(s.fds) : s.fds[n].fd = c
Positioned(s) == \A n \in 1 .. Len(s.fds) : s.pos[s.fds[n].fd] = n
TableInv(s) ==
  /\ Positioned(s)
  /\ \A c \in Conns : Polls(s, c) <=> s.wsi[c].state \notin {"new", "dead"}

(* A connection w whose client's script is u, of which r units have been read. *)

Header(u, r) == {u[i] : i \in {j \in 1 .. r : u[j][1] \in {"get", "upgrade"}}}

\* Its request is not complete.
Asking(w, u, r) ==
  /\ w.state \in {"new", "http"} /\ w.mode = "http" /\ ~w.hears /\ ~w.whole
  /\ w.wire = << >> /\ w.trunc = << >> /\ w.handed = << >> /\ w.got = << >>
  /\ w.rx.left = -1 /\ w.rx.buffer = << >>
  /\ w.hdr = Header(u, r) /\ \A i \in 1 .. r : u[i][1] # "end"

\* It is sent a file, of which n chunks are written.
FileUpTo(n) == << <<"200">> >> \o [k \in 1 .. n |-> <<"chunk", k>>]

Filing(w, u, r) ==
  /\ w.state = "issuing" /\ w.mode = "accepted" /\ ~w.hears /\ ~w.whole
  /\ w.wire \o w.trunc = FileUpTo(w.filepos) /\ w.got = << >> /\ w.hdr = {}
  /\ r = Len(u)

\* The frames of a script: of the first r units one may be incomplete.
Heads(u) == {n \in DOMAIN u : u[n][1] = "head"}

Framed(rx, u, r) ==
  \/ /\ rx.left = -1 /\ rx.buffer = << >>
     /\ \A n \in Heads(u) : n <= r => n + u[n][3] <= r
  \/ \E h \in Heads(u) :
       /\ h <= r /\ r < h + u[h][3] /\ rx.left = h + u[h][3] - r
       /\ rx.opcode = u[h][2] /\ rx.buffer = [k \in 1 .. r - h |-> u[h + k][2]]
       /\ \A n \in Heads(u) : n < h => n + u[n][3] < h

Complete(u, r) == {n \in Texts(u) : n + u[n][3] <= r}

Heard(got, u, r) ==
  /\ Len(got) = Cardinality(Complete(u, r))
  /\ \A i \in 1 .. Len(got) : \E n \in Complete(u, r) :
       Cardinality({m \in Texts(u) : m <= n}) = i /\ got[i] = Payload(u, n)

\* What it was sent, and what is held back of it, is what the program wrote.
InOrder(w) == << <<"101">> >> \o w.handed = w.wire \o w.trunc

\* It is a websocket.
Talking(w, u, r) ==
  /\ w.state = "established" /\ w.mode = "ws" /\ w.hears /\ ~w.whole /\ w.hdr = {}
  /\ InOrder(w)
  /\ \E i \in 1 .. r : u[i][1] = "end"
  /\ Framed(w.rx, u, r) /\ Heard(w.got, u, r)

Alive(w, u, r) == Asking(w, u, r) \/ Filing(w, u, r) \/ Talking(w, u, r)

\* It is closed.
Dead(w, u) ==
  /\ w.state = "dead" /\ ~w.hears /\ w.hdr = {}
  /\ w.whole => w.wire = FileUpTo(Chunks)
  /\ \E r \in 0 .. Len(u) : Heard(w.got, u, r)

RowInv(w, u, s) ==
  /\ w.state = "new" <=> w.net \in {"none", "pending"}
  /\ \/ Dead(w, u)
     \/ \E r \in 0 .. s : w.in = SubSeq(u, r + 1, s) /\ Alive(w, u, r)

(* All of it. *)

\* A client that reads has room for what is sent, and nothing is held back.
Roomy(c, w) == c \notin Slow => w.room = Room /\ w.trunc = << >>

\* Two sends on a connection may overlap.
Overlaps(c, u) == c \in Slow /\ Answered(u)

\* x is what the clients mean to send, k how much of it they did.
Intended(x, k) ==
  /\ x \in Scripts /\ k \in [Conns -> Nat]
  /\ \A c \in Conns : k[c] <= Len(x[c].units)

\* A connection of the client c, until two of its sends overlap.
RowSound(c, w, u, n) ==
  /\ w.clash => Overlaps(c, u)
  /\ ~w.clash => RowInv(w, u, n) /\ Roomy(c, w)

\* The library, when the clients mean to send x and have sent k.
Sound(s, x, k) ==
  /\ Lib(s) /\ TableInv(s)
  /\ \A c \in Conns : RowSound(c, s.wsi[c], x[c].units, k[c])

\* The inductive invariant.
ServiceInv ==
  /\ Intended(sends, sent) /\ Sound(st, sends, sent)
  /\ svc \in [at : {"poll", "wait", "app", "gone"}, i : Nat]
  /\ svc.at = "gone" => st.fds = << >>
  /\ svc.at = "poll" => svc.i # 0
  /\ second \in BOOLEAN /\ update \in BOOLEAN /\ version \in 0 .. MaxUpdates

-----------------------------------------------------------------------------
(* Changes of one connection. *)

\* The types of the fields, one by one.
LEMMA TypesOf ==
  /\ Types("net") = {"none", "pending", "open", "left"} /\ Types("in") = Seq(Pieces)
  /\ Types("room") = 0 .. Room /\ Types("wire") = Seq(Outs) /\ Types("handed") = Seq(Outs)
  /\ Types("trunc") = Seq(Outs) /\ Types("mode") = {"http", "accepted", "ws"}
  /\ Types("state") = {"new", "http", "issuing", "established", "returned_close", "dead"}
  /\ Types("timeout") = Expired .. NoTimeout /\ Types("blocking") = BOOLEAN
  /\ Types("selected") = BOOLEAN /\ Types("tmalloc") = BOOLEAN /\ Types("hears") = BOOLEAN
  /\ Types("whole") = BOOLEAN /\ Types("clash") = BOOLEAN /\ Types("hdr") = SUBSET Pieces
  /\ Types("rx") = [opcode : Control \cup {"text"}, left : Nat \cup {-1}, buffer : Seq(Bytes)]
  /\ Types("got") = Seq(Seq(Bytes)) /\ Types("filepos") = 0 .. Chunks /\ Types("ret") = Int
BY DEF Types

\* The fields of a connection have their types.
LEMMA RowTypes ==
  ASSUME NEW w, Row(w)
  PROVE  /\ w.net \in {"none", "pending", "open", "left"} /\ w.in \in Seq(Pieces)
         /\ w.room \in 0 .. Room /\ w.wire \in Seq(Outs) /\ w.handed \in Seq(Outs)
         /\ w.trunc \in Seq(Outs) /\ w.mode \in {"http", "accepted", "ws"}
         /\ w.state \in {"new", "http", "issuing", "established", "returned_close", "dead"}
         /\ w.timeout \in Expired .. NoTimeout /\ w.blocking \in BOOLEAN
         /\ w.selected \in BOOLEAN /\ w.tmalloc \in BOOLEAN /\ w.hears \in BOOLEAN
         /\ w.whole \in BOOLEAN /\ w.clash \in BOOLEAN /\ w.hdr \in SUBSET Pieces
         /\ w.rx \in [opcode : Control \cup {"text"}, left : Nat \cup {-1}, buffer : Seq(Bytes)]
         /\ w.got \in Seq(Seq(Bytes)) /\ w.filepos \in 0 .. Chunks /\ w.ret \in Int
BY TypesOf DEF Row, Fields

\* The fields not in S are the same.
Keeps(w, v, S) == v = [f \in Fields |-> v[f]] /\ \A f \in Fields \ S : v[f] = w[f]

\* A connection of which some fields changed is one if they have their types.
LEMMA RowEdit ==
  ASSUME NEW w, Row(w), NEW v, NEW S, Keeps(w, v, S), \A f \in S : v[f] \in Types(f)
  PROVE  Row(v)
BY DEF Row, Keeps

\* Of the library's state nothing but the row of c and its place in the table changes.
Only(s, t, c) ==
  /\ Lib(t) /\ TableInv(t)
  /\ \A d \in Conns \ {c} : t.wsi[d] = s.wsi[d]

Live(w) == w.state \notin {"new", "dead"}

\* A new row for c.
Put(s, c, y) == [s EXCEPT !.wsi[c] = y]

\* A connection is replaced by another, open exactly if it was.
LEMMA RowSet ==
  ASSUME NEW s, Lib(s), TableInv(s), NEW c \in Conns, NEW w, w = s.wsi[c],
         NEW y, Row(y), Live(w) <=> Live(y), NEW t, t = Put(s, c, y)
  PROVE  Only(s, t, c) /\ t.wsi[c] = y /\ t.fds = s.fds /\ t.pos = s.pos
<1>1. /\ t.wsi = [s.wsi EXCEPT ![c] = y] /\ t.fds = s.fds /\ t.pos = s.pos
      /\ t = [fds |-> t.fds, pos |-> t.pos, wsi |-> t.wsi]
  BY DEF Lib, Put
<1>2. /\ t.wsi = [d \in Conns |-> t.wsi[d]] /\ t.wsi[c] = y
      /\ \A d \in Conns \ {c} : t.wsi[d] = s.wsi[d]
  BY <1>1 DEF Lib
<1>3. Lib(t)
  BY <1>1, <1>2 DEF Lib
<1>4. TableInv(t)
  BY <1>1, <1>2 DEF TableInv, Positioned, Polls, Live
<1> QED BY <1>1, <1>2, <1>3, <1>4 DEF Only

\* The same, by the fields that change.
LEMMA Edit ==
  ASSUME NEW s, Lib(s), TableInv(s), NEW c \in Conns, NEW w, w = s.wsi[c],
         NEW y, NEW S, Keeps(w, y, S), \A f \in S : y[f] \in Types(f), Live(w) <=> Live(y),
         NEW t, t = Put(s, c, y)
  PROVE  Only(s, t, c) /\ t.wsi[c] = y /\ Row(y)
<1>1. Row(y)
  BY RowEdit DEF Lib
<1> QED BY <1>1, RowSet

\* lws_change_pollfd of an open connection changes nothing of it but `selected`.
LEMMA PollSet ==
  ASSUME NEW s, Lib(s), TableInv(s), NEW c \in Conns, Live(s.wsi[c]), NEW out \in BOOLEAN,
         NEW t, t = lws_change_pollfd(s, c, out)
  PROVE  /\ Only(s, t, c)
         /\ \E x \in BOOLEAN : t.wsi[c] = [s.wsi[c] EXCEPT !.selected = x]
<1> DEFINE w == s.wsi[c]
           p == s.pos[c]
<1>1. Row(w) /\ p \in 1 .. Len(s.fds) /\ s.fds[p].fd = c
  <2>1. PICK n \in 1 .. Len(s.fds) : s.fds[n].fd = c
    BY DEF TableInv, Polls, Live
  <2>2. s.pos[s.fds[n].fd] = n
    BY <2>1 DEF TableInv, Positioned
  <2> QED BY <2>1, <2>2 DEF Lib
<1>2. CASE s.fds[p].out = out
  <2>1. t = s
    BY <1>2 DEF lws_change_pollfd
  <2>2. w = [w EXCEPT !.selected = w.selected]
    BY <1>1 DEF Row
  <2> QED BY <1>1, <2>1, <2>2, RowTypes DEF Only
<1>3. CASE s.fds[p].out # out
  <2> DEFINE v == [w EXCEPT !.selected = TRUE]
             f == [s.fds EXCEPT ![p].out = out]
  <2>1. /\ t.wsi = [s.wsi EXCEPT ![c] = v] /\ t.pos = s.pos /\ t.fds = f
        /\ t = [fds |-> t.fds, pos |-> t.pos, wsi |-> t.wsi]
    BY <1>3 DEF lws_change_pollfd, Lib
  <2>2. /\ f \in Seq(Fds) /\ Len(f) = Len(s.fds) /\ \A n \in 1 .. Len(f) : f[n].fd = s.fds[n].fd
    <3> DEFINE e == [s.fds[p] EXCEPT !.out = out]
    <3>1. s.fds \in Seq(Fds) /\ s.fds[p] \in Fds
      BY <1>1 DEF Lib
    <3>2. e \in Fds /\ e.fd = c
      BY <1>1, <3>1 DEF Fds
    <3>3. f = [s.fds EXCEPT ![p] = e]
      OBVIOUS
    <3> HIDE DEF e, f
    <3>4. f \in Seq(Fds) /\ Len(f) = Len(s.fds)
          /\ \A n \in 1 .. Len(s.fds) : f[n] = IF n = p THEN e ELSE s.fds[n]
      BY <1>1, <3>1, <3>2, <3>3, ExceptSeq
    <3> QED BY <1>1, <3>2, <3>4
  <2>3. Row(v) /\ v.state = w.state
    <3>1. Keeps(w, v, {"selected"}) /\ v.selected = TRUE
      BY <1>1 DEF Keeps, Row, Fields
    <3>2. v["selected"] \in Types("selected")
      BY <3>1, TypesOf
    <3>3. Row(v)
      BY <1>1, <3>1, <3>2, RowEdit
    <3> HIDE DEF v
    <3> QED BY <3>1, <3>3 DEF Keeps, Fields
  <2> HIDE DEF v, f
  <2>4. /\ t.wsi = [d \in Conns |-> t.wsi[d]] /\ t.wsi[c] = v
        /\ \A d \in Conns \ {c} : t.wsi[d] = s.wsi[d]
    BY <2>1 DEF Lib
  <2>5. Lib(t)
    BY <2>1, <2>2, <2>3, <2>4 DEF Lib
  <2>6. TableInv(t)
    BY <2>1, <2>2, <2>3, <2>4 DEF TableInv, Positioned, Polls
  <2> QED BY <2>4, <2>5, <2>6 DEF Only, v
<1> QED BY <1>2, <1>3

\* Two changes of the same connection are one.
LEMMA OnlyTrans ==
  ASSUME NEW s, NEW t, NEW u, NEW c \in Conns, Only(s, t, c), Only(t, u, c)
  PROVE  Only(s, u, c)
BY DEF Only

\* What two changes keep, both together keep.
LEMMA KeepsTrans ==
  ASSUME NEW w, NEW v, NEW x, NEW S, Keeps(w, v, S), Keeps(v, x, S)
  PROVE  Keeps(w, x, S)
BY DEF Keeps

\* Asking for a writeable callback.
LEMMA PollKeeps ==
  ASSUME NEW s, Lib(s), TableInv(s), NEW c \in Conns, Live(s.wsi[c]), NEW out \in BOOLEAN,
         NEW t, t = lws_change_pollfd(s, c, out)
  PROVE  Only(s, t, c) /\ Row(t.wsi[c]) /\ Keeps(s.wsi[c], t.wsi[c], {"selected"})
<1>1. Only(s, t, c) /\ \E x \in BOOLEAN : t.wsi[c] = [s.wsi[c] EXCEPT !.selected = x]
  BY PollSet
<1>2. Row(t.wsi[c]) /\ Row(s.wsi[c])
  BY <1>1 DEF Only, Lib
<1>3. Keeps(s.wsi[c], t.wsi[c], {"selected"})
  BY <1>1, <1>2 DEF Keeps, Row, Fields
<1> QED BY <1>1, <1>2, <1>3

-----------------------------------------------------------------------------
(* Sending. *)

SendFields == {"wire", "room", "trunc", "blocking", "selected", "tmalloc", "clash", "ret"}

\* What became of an attempt to send.
Refused(w, v) == /\ v.ret = -1 /\ v.wire = w.wire /\ v.trunc = w.trunc
                 /\ v.clash <=> w.clash \/ w.trunc # << >>
Accepted(w, v, units) == /\ v.ret = Len(units) /\ w.trunc = << >> /\ v.clash = w.clash
                         /\ v.wire \o v.trunc = w.wire \o units

\* lws_issue_raw refuses the units whole, or takes them whole: on the wire, or held back.
LEMMA IssueRaw ==
  ASSUME NEW s, Lib(s), TableInv(s), NEW c \in Conns, NEW w, w = s.wsi[c], Live(w),
         NEW units \in Seq(Outs), NEW t, t = lws_issue_raw(s, c, units), NEW v, v = t.wsi[c]
  PROVE  /\ Only(s, t, c) /\ Keeps(w, v, SendFields) /\ Row(v)
         /\ Roomy(c, w) => Roomy(c, v)
         /\ Refused(w, v) \/ Accepted(w, v, units)
<1>1. Row(w) /\ w.wire \in Seq(Outs) /\ w.trunc \in Seq(Outs) /\ w.room \in 0 .. Room
      /\ Room \in Nat \ {0} /\ w.clash \in BOOLEAN /\ Len(units) \in Int /\ -1 \in Int
  BY RowTypes, OutputAssumption DEF Lib
<1>2. CASE w.trunc # << >> \/ w.net = "left"
  <2>1. PICK x \in BOOLEAN : /\ x <=> w.clash \/ w.trunc # << >>
                             /\ t = [s EXCEPT !.wsi[c] = [w EXCEPT !.clash = x, !.ret = -1]]
    <3>1. CASE w.trunc # << >>
      BY <3>1 DEF lws_issue_raw, Lib
    <3>2. CASE w.trunc = << >> /\ w.net = "left"
      <4>1. w = [w EXCEPT !.clash = w.clash]
        BY <1>1 DEF Row
      <4>2. t = [s EXCEPT !.wsi[c] = [w EXCEPT !.clash = w.clash, !.ret = -1]]
        BY <3>2, <4>1 DEF lws_issue_raw, Lib
      <4> QED BY <1>1, <3>2, <4>2
    <3> QED BY <1>2, <3>1, <3>2
  <2> DEFINE y == [w EXCEPT !.clash = x, !.ret = -1]
  <2>2. Keeps(w, y, {"clash", "ret"}) /\ y.clash = x /\ y.ret = -1
    BY <1>1 DEF Keeps, Row, Fields
  <2> HIDE DEF y
  <2>3. Row(y)
    <3>1. y["clash"] \in Types("clash") /\ y["ret"] \in Types("ret")
      BY <1>1, <2>2, TypesOf
    <3> QED BY <1>1, <2>2, <3>1, RowEdit
  <2>4. Live(w) <=> Live(y)
    BY <2>2 DEF Live, Keeps, Fields
  <2>5. t = Put(s, c, y)
    BY <2>1 DEF y, Put
  <2>6. Only(s, t, c) /\ v = y
    BY <2>3, <2>4, <2>5, RowSet
  <2>7. Keeps(w, y, SendFields) /\ y.wire = w.wire /\ y.trunc = w.trunc /\ y.room = w.room
    BY <2>2 DEF Keeps, Fields, SendFields
  <2> QED BY <2>1, <2>2, <2>3, <2>6, <2>7 DEF Roomy, Refused
<1>3. CASE w.trunc = << >> /\ w.net # "left" /\ w.room = 0
  <2> DEFINE s1 == libwebsocket_callback_on_writable(s, c)
             w1 == s1.wsi[c]
             y == [w1 EXCEPT !.blocking = TRUE, !.trunc = units, !.tmalloc = TRUE, !.ret = Len(units)]
  <2>1. Only(s, s1, c) /\ Row(w1) /\ Keeps(w, w1, {"selected"})
    BY PollKeeps DEF libwebsocket_callback_on_writable
  <2>2. t = [s1 EXCEPT !.wsi[c].blocking = TRUE, !.wsi[c].trunc = units,
                       !.wsi[c].tmalloc = TRUE, !.wsi[c].ret = Len(units)]
    BY <1>3 DEF lws_issue_raw
  <2> HIDE DEF s1
  <2>11. Lib(s1) /\ TableInv(s1)
    BY <2>1 DEF Only
  <2>3. t = Put(s1, c, y)
    <3>1. /\ s1 = [fds |-> s1.fds, pos |-> s1.pos, wsi |-> s1.wsi]
          /\ s1.wsi = [d \in Conns |-> s1.wsi[d]]
      BY <2>11 DEF Lib
    <3> QED BY ONLY <2>2, <3>1, c \in Conns DEF Put
  <2> HIDE DEF w1
  <2>4. /\ Keeps(w1, y, {"blocking", "trunc", "tmalloc", "ret"})
        /\ y.blocking = TRUE /\ y.trunc = units /\ y.tmalloc = TRUE /\ y.ret = Len(units)
    BY <2>1 DEF Keeps, Row, Fields
  <2> HIDE DEF y
  <2>5. Row(y)
    <3>1. /\ y["blocking"] \in Types("blocking") /\ y["trunc"] \in Types("trunc")
          /\ y["tmalloc"] \in Types("tmalloc") /\ y["ret"] \in Types("ret")
      BY <1>1, <2>4, TypesOf
    <3> QED BY <2>1, <2>4, <3>1, RowEdit
  <2>6. /\ Keeps(w, y, SendFields) /\ y.wire = w.wire /\ y.state = w.state /\ y.clash = w.clash
        /\ w1.state = w.state
    BY <2>1, <2>4 DEF Keeps, Fields, SendFields
  <2>7. Live(w1) <=> Live(y)
    BY <2>6 DEF Live
  <2>8. Only(s1, t, c) /\ t.wsi[c] = y
    <3>1. w1 = s1.wsi[c]
      BY DEF w1
    <3> QED BY <2>3, <2>5, <2>7, <2>11, <3>1, RowSet
  <2>9. Only(s, t, c)
    BY <2>1, <2>8, OnlyTrans
  <2>10. ~(Roomy(c, w))  \/ c \in Slow
    BY <1>1, <1>3 DEF Roomy
  <2> QED BY <1>3, <2>4, <2>5, <2>6, <2>8, <2>9, <2>10 DEF Roomy, Accepted
<1>4. CASE w.trunc = << >> /\ w.net # "left" /\ w.room # 0
  <2> DEFINE y == [Taken(w, c, units) EXCEPT !.ret = Len(units)]
  <2>1. t = Put(s, c, y)
    BY <1>4 DEF lws_issue_raw, Put
  <2>2. /\ Keeps(w, y, {"wire", "room", "ret"}) /\ y.wire = w.wire \o units /\ y.ret = Len(units)
        /\ y.room = IF c \in Slow THEN w.room - 1 ELSE w.room
    BY <1>1, Zenon DEF Keeps, Row, Fields, Taken
  <2> HIDE DEF y
  <2>3. Row(y)
    <3>1. y.wire \in Seq(Outs)
      BY <1>1, <2>2, ConcatProperties
    <3>2. y.room \in 0 .. Room
      BY <1>1, <1>4, <2>2
    <3>3. y["wire"] \in Types("wire") /\ y["room"] \in Types("room") /\ y["ret"] \in Types("ret")
      BY <1>1, <2>2, <3>1, <3>2, TypesOf
    <3> QED BY <1>1, <2>2, <3>3, RowEdit
  <2>4. Keeps(w, y, SendFields) /\ y.trunc = w.trunc /\ y.state = w.state /\ y.clash = w.clash
    BY <2>2 DEF Keeps, Fields, SendFields
  <2>5. Only(s, t, c) /\ v = y
    <3>1. Live(w) <=> Live(y)
      BY <2>4 DEF Live
    <3> QED BY <2>1, <2>3, <3>1, RowSet
  <2>6. y.wire \o y.trunc = w.wire \o units
    <3>1. y.wire \in Seq(Outs) /\ y.trunc = << >>
      BY <1>4, <2>3, <2>4, RowTypes
    <3> QED BY <2>2, <3>1, ConcatEmptySeq
  <2> QED BY <1>4, <2>2, <2>3, <2>4, <2>5, <2>6 DEF Roomy, Accepted
<1> QED BY <1>1, <1>2, <1>3, <1>4

\* What was taken on for the network, sent or held back.
Line(w) == w.wire \o w.trunc

\* Sending what was held back does not change what was sent with what is held back.
LEMMA PendingSent ==
  ASSUME NEW s, Lib(s), TableInv(s), NEW c \in Conns, NEW w, w = s.wsi[c], Live(w),
         NEW t, t = IssuePending(s, c), NEW v, v = t.wsi[c]
  PROVE  /\ Only(s, t, c) /\ Row(v)
         /\ Keeps(w, v, {"wire", "room", "trunc", "blocking", "selected"})
         /\ Roomy(c, w) => Roomy(c, v)
         /\ Line(v) = Line(w)
<1> DEFINE Changed == {"wire", "room", "trunc", "blocking", "selected"}
<1>1. Row(w) /\ w.wire \in Seq(Outs) /\ w.trunc \in Seq(Outs) /\ w.room \in 0 .. Room
      /\ Room \in Nat \ {0}
  BY RowTypes, OutputAssumption DEF Lib
<1>2. CASE w.trunc = << >> \/ w.net = "left"
  <2>1. t = s
    BY <1>2 DEF IssuePending
  <2>2. Only(s, t, c) /\ v = w
    BY <2>1 DEF Only
  <2> QED BY <1>1, <2>2 DEF Keeps, Row, Line
<1>3. CASE w.trunc # << >> /\ w.net # "left" /\ w.room = 0
  <2> DEFINE s1 == libwebsocket_callback_on_writable(s, c)
             w1 == s1.wsi[c]
             y == [w1 EXCEPT !.blocking = TRUE]
  <2>1. Only(s, s1, c) /\ Row(w1) /\ Keeps(w, w1, {"selected"})
    BY PollKeeps DEF libwebsocket_callback_on_writable
  <2>2. t = [s1 EXCEPT !.wsi[c].blocking = TRUE]
    BY <1>3 DEF IssuePending
  <2> HIDE DEF s1
  <2>3. Lib(s1) /\ TableInv(s1)
    BY <2>1 DEF Only
  <2>4. t = Put(s1, c, y)
    <3>1. /\ s1 = [fds |-> s1.fds, pos |-> s1.pos, wsi |-> s1.wsi]
          /\ s1.wsi = [d \in Conns |-> s1.wsi[d]]
      BY <2>3 DEF Lib
    <3> QED BY ONLY <2>2, <3>1, c \in Conns DEF Put
  <2>5. Keeps(w1, y, {"blocking"}) /\ y.blocking = TRUE
    BY <2>1 DEF Keeps, Row, Fields
  <2> HIDE DEF y
  <2>6. Only(s1, t, c) /\ v = y /\ Row(y)
    <3>1. \A f \in {"blocking"} : y[f] \in Types(f)
      BY <2>5, TypesOf
    <3>2. Live(w1) <=> Live(y)
      BY <2>5 DEF Live, Keeps, Fields
    <3> QED BY <2>3, <2>4, <2>5, <3>1, <3>2, Edit
  <2> HIDE DEF w1
  <2>7. Only(s, t, c)
    BY <2>1, <2>6, OnlyTrans
  <2>8. Keeps(w, y, Changed)
    BY <2>1, <2>5 DEF Keeps
  <2>9. y.wire = w.wire /\ y.trunc = w.trunc /\ y.room = w.room
    BY <2>1, <2>5 DEF Keeps, Fields
  <2> QED BY <2>6, <2>7, <2>8, <2>9 DEF Roomy, Line
<1>4. CASE w.trunc # << >> /\ w.net # "left" /\ w.room # 0
  <2> DEFINE y == [Taken(w, c, w.trunc) EXCEPT !.trunc = << >>]
  <2>1. t = Put(s, c, y)
    BY <1>4 DEF IssuePending, Put
  <2>2. /\ Keeps(w, y, {"wire", "room", "trunc"}) /\ y.wire = w.wire \o w.trunc /\ y.trunc = << >>
        /\ y.room = IF c \in Slow THEN w.room - 1 ELSE w.room
    BY <1>1, Zenon DEF Keeps, Row, Fields, Taken
  <2> HIDE DEF y
  <2>3. y.wire \in Seq(Outs) /\ y.wire \o << >> = y.wire
    BY <1>1, <2>2, ConcatProperties, ConcatEmptySeq
  <2>4. Only(s, t, c) /\ v = y /\ Row(y)
    <3>1. y.room \in 0 .. Room
      BY <1>1, <1>4, <2>2
    <3>2. y.trunc \in Seq(Outs)
      BY <2>2
    <3>3. y["wire"] \in Types("wire") /\ y["room"] \in Types("room") /\ y["trunc"] \in Types("trunc")
      BY <2>3, <3>1, <3>2, TypesOf
    <3>4. Live(w) <=> Live(y)
      BY <2>2 DEF Live, Keeps, Fields
    <3>5. \A f \in {"wire", "room", "trunc"} : y[f] \in Types(f)
      BY <3>3
    <3>6. Keeps(w, y, {"wire", "room", "trunc"})
      BY <2>2
    <3> QED BY <2>1, <3>4, <3>5, <3>6, Edit
  <2>5. Keeps(w, y, Changed)
    BY <2>2 DEF Keeps
  <2>6. Roomy(c, w) => Roomy(c, y)
    BY <2>2 DEF Roomy
  <2> QED BY <2>2, <2>3, <2>4, <2>5, <2>6, Zenon DEF Line
<1> QED BY <1>2, <1>3, <1>4

\* What the library sends.
LEMMA OutFacts ==
  /\ << <<"101">> >> \in Seq(Outs) /\ << <<"200">> >> \in Seq(Outs) /\ << <<"404">> >> \in Seq(Outs)
  /\ \A k \in 1 .. Chunks : << <<"chunk", k>> >> \in Seq(Outs)
  /\ \A f \in Frames : << <<"frame", f>>, <<"payload", f>> >> \in Seq(Outs)
  /\ <<"heartbeat">> \in Frames /\ <<"close">> \in Frames /\ <<"pong">> \in Frames
  /\ \A n \in 0 .. MaxUpdates : <<"data", n>> \in Frames
<1>1. <<"101">> \in Outs /\ <<"200">> \in Outs /\ <<"404">> \in Outs
  BY DEF Outs
<1>2. \A k \in 1 .. Chunks : <<"chunk", k>> \in Outs
  BY DEF Outs
<1>3. \A f \in Frames : <<"frame", f>> \in Outs /\ <<"payload", f>> \in Outs
  BY DEF Outs
<1>4. \A n \in 0 .. MaxUpdates : <<"data", n>> \in Frames
  BY DEF Frames
<1>5. <<"heartbeat">> \in Frames /\ <<"close">> \in Frames /\ <<"pong">> \in Frames
  BY DEF Frames
<1>6. \A x, y \in Outs : << x >> \in Seq(Outs) /\ << x, y >> \in Seq(Outs)
  OBVIOUS
<1> HIDE DEF Outs, Frames
<1> QED BY <1>1, <1>2, <1>3, <1>4, <1>5, <1>6

\* Concatenation is associative.
LEMMA Associative ==
  ASSUME NEW S, NEW a \in Seq(S), NEW b \in Seq(S), NEW d \in Seq(S)
  PROVE  (a \o b) \o d = a \o (b \o d)
BY ConcatAssociative

WriteFields == SendFields \cup {"handed"}

\* libwebsocket_write keeps the order of what the program wrote, and overlaps only what is held back.
LEMMA Written ==
  ASSUME NEW s, Lib(s), TableInv(s), NEW c \in Conns, NEW w, w = s.wsi[c], Live(w),
         NEW frame \in Frames, NEW t, t = libwebsocket_write(s, c, frame), NEW v, v = t.wsi[c]
  PROVE  /\ Only(s, t, c) /\ Row(v) /\ Keeps(w, v, WriteFields)
         /\ Roomy(c, w) => Roomy(c, v)
         /\ InOrder(w) => InOrder(v)
         /\ v.clash => w.clash \/ w.trunc # << >>
<1>1. Row(w) /\ w.wire \in Seq(Outs) /\ w.trunc \in Seq(Outs) /\ w.handed \in Seq(Outs)
      /\ w.clash \in BOOLEAN
  BY RowTypes DEF Lib
<1>2. CASE w.state # "established"
  <2> DEFINE y == [w EXCEPT !.ret = -1]
  <2>1. t = Put(s, c, y)
    BY <1>2 DEF libwebsocket_write, Put
  <2>2. Keeps(w, y, {"ret"}) /\ y.ret = -1
    BY <1>1 DEF Keeps, Row, Fields
  <2> HIDE DEF y
  <2>3. Only(s, t, c) /\ v = y /\ Row(y)
    <3>1. \A f \in {"ret"} : y[f] \in Types(f)
      BY <2>2, TypesOf
    <3>2. Live(w) <=> Live(y)
      BY <2>2 DEF Live, Keeps, Fields
    <3> QED BY <2>1, <2>2, <3>1, <3>2, Edit
  <2>4. Keeps(w, y, WriteFields)
    BY <2>2 DEF Keeps, WriteFields, SendFields
  <2>5. /\ y.wire = w.wire /\ y.trunc = w.trunc /\ y.handed = w.handed /\ y.room = w.room
        /\ y.clash = w.clash
    BY <2>2 DEF Keeps, Fields
  <2> QED BY <2>3, <2>4, <2>5 DEF Roomy, InOrder
<1>3. CASE w.state = "established"
  <2> DEFINE units == << <<"frame", frame>>, <<"payload", frame>> >>
             s1 == lws_issue_raw(s, c, units)
             w1 == s1.wsi[c]
             y == [w1 EXCEPT !.handed = @ \o units]
  <2>1. units \in Seq(Outs) /\ Len(units) = 2
    BY OutFacts
  <2>2. t = IF w1.ret < 0 THEN s1 ELSE [s1 EXCEPT !.wsi[c].handed = @ \o units]
    BY <1>3 DEF libwebsocket_write
  <2> HIDE DEF units
  <2>3. /\ Only(s, s1, c) /\ Keeps(w, w1, SendFields) /\ Row(w1)
        /\ Roomy(c, w) => Roomy(c, w1)
        /\ Refused(w, w1) \/ Accepted(w, w1, units)
    BY <2>1, IssueRaw
  <2> HIDE DEF s1
  <2>4. Lib(s1) /\ TableInv(s1)
    BY <2>3 DEF Only
  <2>5. w1.handed = w.handed /\ Keeps(w, w1, WriteFields)
    BY <2>3 DEF Keeps, Fields, SendFields, WriteFields
  <2>6. CASE Refused(w, w1)
    <3>1. t = s1 /\ v = w1
      BY <2>2, <2>6 DEF Refused
    <3> HIDE DEF w1
    <3> QED BY <2>3, <2>5, <2>6, <3>1 DEF Refused, InOrder
  <2>7. CASE Accepted(w, w1, units)
    <3>1. t = Put(s1, c, y)
      <4>1. /\ s1 = [fds |-> s1.fds, pos |-> s1.pos, wsi |-> s1.wsi]
            /\ s1.wsi = [d \in Conns |-> s1.wsi[d]]
        BY ONLY <2>4 DEF Lib
      <4>2. t = [s1 EXCEPT !.wsi[c].handed = @ \o units]
        <5>1. ~(w1.ret < 0)
          BY ONLY <2>7 DEF Accepted
        <5> QED BY ONLY <2>2, <5>1
      <4> QED BY ONLY <4>1, <4>2, c \in Conns DEF Put
    <3>2. Keeps(w1, y, {"handed"}) /\ y.handed = w1.handed \o units
      BY <2>3, Zenon DEF Keeps, Row, Fields
    <3> HIDE DEF y
    <3>3. y.handed \in Seq(Outs)
      BY <1>1, <2>1, <2>5, <3>2, ConcatProperties
    <3>4. Only(s1, t, c) /\ v = y /\ Row(y)
      <4>1. \A f \in {"handed"} : y[f] \in Types(f)
        BY <3>3, TypesOf
      <4>2. Live(w1) <=> Live(y)
        BY <3>2 DEF Live, Keeps, Fields
      <4>3. w1 = s1.wsi[c]
        OBVIOUS
      <4>4. Keeps(w1, y, {"handed"})
        BY <3>2
      <4> HIDE DEF w1
      <4> QED BY <2>4, <3>1, <4>1, <4>2, <4>3, <4>4, Edit
    <3> HIDE DEF w1
    <3>5. Only(s, t, c)
      BY <2>3, <3>4, OnlyTrans
    <3>6. Keeps(w, y, WriteFields)
      BY <2>5, <3>2 DEF Keeps, WriteFields
    <3>7. y.wire = w1.wire /\ y.trunc = w1.trunc /\ y.room = w1.room /\ y.clash = w1.clash
      BY <3>2 DEF Keeps, Fields
    <3>8. InOrder(w) => InOrder(y)
      <4> DEFINE head == << <<"101">> >>
      <4>3. head \in Seq(Outs)
        BY OutFacts
      <4> HIDE DEF head
      <4>1. head \o (w.handed \o units) = (head \o w.handed) \o units
        <5> DEFINE h == w.handed
        <5>1. h \in Seq(Outs) /\ units \in Seq(Outs)
          BY <1>1, <2>1
        <5> HIDE DEF h
        <5>2. (head \o h) \o units = head \o (h \o units)
          BY ONLY <4>3, <5>1, Associative
        <5> QED BY <5>2 DEF h
      <4>2. w.wire \o w.trunc = w.wire
        BY <1>1, <2>7, ConcatEmptySeq DEF Accepted
      <4> QED BY <2>5, <2>7, <3>2, <3>7, <4>1, <4>2, Zenon DEF InOrder, Accepted, head
    <3> QED BY <2>3, <2>7, <3>4, <3>5, <3>6, <3>7, <3>8 DEF Accepted, Roomy
  <2> QED BY <2>3, <2>6, <2>7
<1> QED BY <1>2, <1>3

-----------------------------------------------------------------------------
(* The table. *)

Sockets == Conns \cup {Listener}

\* remove_wsi_socket_from_fds takes a socket out and keeps the positions of all others.
LEMMA Removed ==
  ASSUME NEW s, Lib(s), Positioned(s), NEW d \in Sockets, Polls(s, d),
         NEW t, t = remove_wsi_socket_from_fds(s, d)
  PROVE  /\ Lib(t) /\ Positioned(t) /\ t.wsi = s.wsi /\ Len(t.fds) = Len(s.fds) - 1
         /\ ~Polls(t, d) /\ \A e \in Sockets \ {d} : Polls(t, e) <=> Polls(s, e)
<1> DEFINE fds == s.fds
           L == Len(fds)
           m == s.pos[d]
           moved == [fds EXCEPT ![m] = fds[L]]
           short == SubSeq(moved, 1, L - 1)
           p == [[s.pos EXCEPT ![fds[L].fd] = m] EXCEPT ![d] = 0]
<1>1. fds \in Seq(Fds) /\ L \in Nat /\ s.pos \in [Sockets -> Nat]
  BY DEF Lib, Sockets
<1>2. m \in 1 .. L /\ fds[m].fd = d /\ L \in 1 .. L /\ fds[L] \in Fds /\ fds[L].fd \in Sockets
  <2>1. PICK n \in 1 .. L : fds[n].fd = d
    BY DEF Polls
  <2>2. m = n
    BY <2>1 DEF Positioned
  <2>3. L \in 1 .. L
    BY <1>1
  <2>4. fds[L] \in Fds
    BY <1>1, <2>3
  <2> QED BY <2>1, <2>2, <2>3, <2>4 DEF Fds, Sockets
<1>3. t.fds = short /\ t.pos = p /\ t.wsi = s.wsi /\ t = [fds |-> t.fds, pos |-> t.pos, wsi |-> t.wsi]
  BY DEF remove_wsi_socket_from_fds, Lib
<1>4. /\ moved \in Seq(Fds) /\ Len(moved) = L
      /\ \A n \in 1 .. L : moved[n] = IF n = m THEN fds[L] ELSE fds[n]
  BY <1>1, <1>2, ExceptSeq
<1> HIDE DEF moved
<1>5. short \in Seq(Fds) /\ Len(short) = L - 1 /\ \A n \in 1 .. L - 1 : short[n] = moved[n]
  <2>1. \A n \in 1 .. L - 1 : moved[n] \in Fds
    BY <1>1, <1>4
  <2>2. L - 1 \in Int /\ L - 1 >= 0
    BY <1>1, <1>2
  <2> QED BY <2>1, <2>2, SubSeqProperties
<1> HIDE DEF short
<1>6. \A n \in 1 .. L - 1 : short[n] = IF n = m THEN fds[L] ELSE fds[n]
  <2>1. \A n \in 1 .. L - 1 : n \in 1 .. L
    BY <1>1
  <2> QED BY <1>4, <1>5, <2>1
<1>7. \A n, k \in 1 .. L : fds[n].fd = fds[k].fd => n = k
  <2>1. \A n \in 1 .. L : s.pos[fds[n].fd] = n
    BY DEF Positioned
  <2> QED BY <2>1
<1>8. /\ p \in [Sockets -> Nat] /\ p[d] = 0 /\ (fds[L].fd # d => p[fds[L].fd] = m)
      /\ \A e \in Sockets \ {d, fds[L].fd} : p[e] = s.pos[e]
  BY <1>1, <1>2
<1> HIDE DEF p
<1>9. Lib(t)
  <2>1. t.pos \in [Sockets -> Nat] /\ t.fds \in Seq(Fds)
    BY <1>3, <1>5, <1>8
  <2> QED BY <1>3, <2>1 DEF Lib, Sockets
<1>10. ASSUME NEW n \in 1 .. L - 1
       PROVE  short[n].fd # d /\ p[short[n].fd] = n
  <2>1. n \in 1 .. L /\ n # L
    BY <1>1
  <2>2. CASE n = m
    <3>1. short[n] = fds[L] /\ fds[L].fd # d
      BY <1>2, <1>6, <1>7, <2>1, <2>2
    <3> QED BY <1>8, <2>2, <3>1
  <2>3. CASE n # m
    <3>1. short[n] = fds[n] /\ fds[n].fd # d /\ fds[n].fd # fds[L].fd /\ fds[n].fd \in Sockets
      <4>1. fds[n] \in Fds
        BY <1>1, <2>1
      <4> QED BY <1>2, <1>6, <1>7, <2>1, <2>3, <4>1 DEF Fds, Sockets
    <3>2. s.pos[fds[n].fd] = n
      BY <2>1 DEF Positioned
    <3> QED BY <1>8, <3>1, <3>2
  <2> QED BY <2>2, <2>3
<1>11. Positioned(t) /\ ~Polls(t, d)
  BY <1>3, <1>5, <1>10 DEF Positioned, Polls
<1>12. ASSUME NEW e \in Sockets \ {d}
       PROVE  Polls(t, e) <=> Polls(s, e)
  <2>1. ASSUME NEW n \in 1 .. L, fds[n].fd = e
        PROVE  \E k \in 1 .. L - 1 : short[k].fd = e
    <3>1. n # m
      BY <1>2, <2>1
    <3>2. CASE n = L
      <4>1. m \in 1 .. L - 1
        BY <1>1, <1>2, <3>1, <3>2
      <4> QED BY <1>6, <2>1, <3>2, <4>1
    <3>3. CASE n # L
      <4>1. n \in 1 .. L - 1
        BY <1>1, <3>3
      <4> QED BY <1>6, <2>1, <3>1, <4>1
    <3> QED BY <3>2, <3>3
  <2>2. ASSUME NEW k \in 1 .. L - 1, short[k].fd = e
        PROVE  \E n \in 1 .. L : fds[n].fd = e
    <3>1. k \in 1 .. L
      BY <1>1
    <3> QED BY <1>2, <1>6, <2>2, <3>1
  <2> QED BY <1>3, <1>5, <2>1, <2>2 DEF Polls
<1> QED BY <1>3, <1>5, <1>9, <1>11, <1>12

\* What is left of a connection.
ShutDown(w, v) ==
  /\ Keeps(w, v, {"state", "timeout", "trunc", "tmalloc", "in", "hdr", "handed", "hears"})
  /\ v.state = "dead" /\ v.timeout = NoTimeout /\ v.trunc = << >> /\ v.tmalloc = FALSE
  /\ v.in = << >> /\ v.hdr = {} /\ v.handed = << >>
  /\ v.hears = IF Told(w) THEN FALSE ELSE w.hears

\* libwebsocket_close_and_free_session closes this connection and no other.
LEMMA ClosedRow ==
  ASSUME NEW s, Lib(s), TableInv(s), NEW c \in Conns, NEW w, w = s.wsi[c], Live(w),
         NEW t, t = libwebsocket_close_and_free_session(s, c), NEW v, v = t.wsi[c]
  PROVE  /\ Only(s, t, c) /\ ShutDown(w, v) /\ Row(v)
         /\ Len(t.fds) = Len(s.fds) - 1
<1> DEFINE s1 == remove_wsi_socket_from_fds(s, c)
<1>1. /\ Lib(s1) /\ Positioned(s1) /\ s1.wsi = s.wsi /\ Len(s1.fds) = Len(s.fds) - 1
      /\ ~Polls(s1, c) /\ \A e \in Sockets \ {c} : Polls(s1, e) <=> Polls(s, e)
  <2>1. Positioned(s) /\ Polls(s, c) /\ c \in Sockets
    BY DEF TableInv, Live, Sockets
  <2> QED BY <2>1, Removed
<1> DEFINE y == Freed(w)
<1>2. t = Put(s1, c, y)
  <2>1. t = [s1 EXCEPT !.wsi[c] = Freed(s1.wsi[c])]
    BY ONLY t = libwebsocket_close_and_free_session(s, c) DEF libwebsocket_close_and_free_session
  <2>2. w = s1.wsi[c]
    BY <1>1
  <2> HIDE DEF s1
  <2> QED BY <2>1, <2>2 DEF Put
<1> HIDE DEF s1
<1>3. Row(w)
  BY DEF Lib
<1>4. ShutDown(w, y)
  <2>1. y = [f \in Fields |-> y[f]]
    BY <1>3 DEF Row, Freed
  <2> QED BY <1>3, <2>1 DEF Keeps, Row, Fields, ShutDown, Freed
<1> HIDE DEF y
<1>5. Row(y)
  <2> DEFINE Changed == {"state", "timeout", "trunc", "tmalloc", "in", "hdr", "handed", "hears"}
  <2>1. Keeps(w, y, Changed)
    BY <1>4 DEF ShutDown
  <2>2. /\ y["state"] \in Types("state") /\ y["trunc"] \in Types("trunc")
        /\ y["tmalloc"] \in Types("tmalloc") /\ y["in"] \in Types("in") /\ y["hdr"] \in Types("hdr")
        /\ y["handed"] \in Types("handed")
    <3>1. << >> \in Seq(Outs) /\ << >> \in Seq(Pieces) /\ {} \in SUBSET Pieces
      OBVIOUS
    <3>2. /\ y.state = "dead" /\ y.trunc = << >> /\ y.tmalloc = FALSE /\ y.in = << >> /\ y.hdr = {}
          /\ y.handed = << >>
      BY <1>4 DEF ShutDown
    <3> QED BY <3>1, <3>2, TypesOf
  <2>3. y["timeout"] \in Types("timeout")
    BY <1>4, TypesOf, OutputAssumption DEF ShutDown, NoTimeout, Expired
  <2>4. y["hears"] \in Types("hears")
    <3>1. w.hears \in BOOLEAN
      BY <1>3, RowTypes
    <3> QED BY <1>4, <3>1, TypesOf DEF ShutDown
  <2>5. \A f \in Changed : y[f] \in Types(f)
    BY <2>2, <2>3, <2>4
  <2> HIDE DEF Changed
  <2> QED BY <1>3, <2>1, <2>5, RowEdit
<1>6. /\ t.wsi = [s1.wsi EXCEPT ![c] = y] /\ t.fds = s1.fds /\ t.pos = s1.pos
      /\ t = [fds |-> t.fds, pos |-> t.pos, wsi |-> t.wsi]
  BY <1>1, <1>2 DEF Lib, Put
<1>7. /\ t.wsi = [d \in Conns |-> t.wsi[d]] /\ t.wsi[c] = y
      /\ \A d \in Conns \ {c} : t.wsi[d] = s.wsi[d]
  BY <1>1, <1>6 DEF Lib
<1>8. Lib(t)
  <2>1. \A d \in Conns : Row(t.wsi[d])
    BY <1>5, <1>7 DEF Lib
  <2>2. s1.fds \in Seq(Fds) /\ s1.pos \in [Conns \cup {Listener} -> Nat]
    BY <1>1 DEF Lib
  <2> QED BY <1>6, <1>7, <2>1, <2>2 DEF Lib
<1>9. TableInv(t)
  <2>1. Positioned(t) /\ \A e \in Sockets : Polls(t, e) <=> Polls(s1, e)
    BY <1>1, <1>6 DEF Positioned, Polls
  <2>2. ASSUME NEW e \in Conns
        PROVE  Polls(t, e) <=> t.wsi[e].state \notin {"new", "dead"}
    <3>1. CASE e = c
      BY <1>1, <1>4, <1>7, <2>1, <3>1 DEF Sockets, ShutDown
    <3>2. CASE e # c
      BY <1>1, <1>7, <2>1, <3>2 DEF Sockets, TableInv
    <3> QED BY <3>1, <3>2
  <2> QED BY <2>1, <2>2 DEF TableInv
<1> QED BY <1>1, <1>4, <1>5, <1>6, <1>7, <1>8, <1>9 DEF Only

\* A client taken in.
LEMMA AcceptedRow ==
  ASSUME NEW s, Lib(s), TableInv(s), NEW c \in Conns, NEW w, w = s.wsi[c], w.state = "new",
         NEW t, t = accept(s, c), NEW v, v = t.wsi[c]
  PROVE  /\ Only(s, t, c) /\ Row(v) /\ Keeps(w, v, {"net", "state", "timeout"})
         /\ v.net = "open" /\ v.state = "http"
<1> DEFINE y == [w EXCEPT !.timeout = Awaiting, !.net = "open", !.state = "http"]
           L == Len(s.fds)
           e == [fd |-> c, out |-> FALSE]
<1>1. /\ t.wsi = [s.wsi EXCEPT ![c] = y] /\ t.fds = Append(s.fds, e)
      /\ t.pos = [s.pos EXCEPT ![c] = L + 1]
      /\ t = [fds |-> t.fds, pos |-> t.pos, wsi |-> t.wsi]
  BY DEF accept, insert_wsi_socket_into_fds, libwebsocket_set_timeout, Lib
<1>2. Row(w) /\ s.fds \in Seq(Fds) /\ L \in Nat /\ e \in Fds /\ s.pos \in [Sockets -> Nat]
  BY DEF Lib, Fds, Sockets
<1>3. Keeps(w, y, {"net", "state", "timeout"}) /\ y.net = "open" /\ y.state = "http" /\ y.timeout = Awaiting
  BY <1>2 DEF Keeps, Row, Fields
<1> HIDE DEF y
<1>4. Row(y)
  <2>1. y["net"] \in Types("net") /\ y["state"] \in Types("state")
    BY <1>3, TypesOf
  <2>2. y["timeout"] \in Types("timeout")
    BY <1>3, TypesOf, OutputAssumption DEF NoTimeout, Expired
  <2>3. \A f \in {"net", "state", "timeout"} : y[f] \in Types(f)
    BY <2>1, <2>2
  <2>4. Keeps(w, y, {"net", "state", "timeout"})
    BY <1>3
  <2> QED BY <1>2, <2>3, <2>4, RowEdit
<1>5. /\ t.wsi = [d \in Conns |-> t.wsi[d]] /\ t.wsi[c] = y
      /\ \A d \in Conns \ {c} : t.wsi[d] = s.wsi[d]
  BY <1>1 DEF Lib
<1>6. /\ t.fds \in Seq(Fds) /\ Len(t.fds) = L + 1 /\ t.fds[L + 1] = e
      /\ \A n \in 1 .. L : t.fds[n] = s.fds[n]
  BY <1>1, <1>2, AppendProperties
<1>7. t.pos \in [Sockets -> Nat] /\ t.pos[c] = L + 1 /\ \A d \in Sockets \ {c} : t.pos[d] = s.pos[d]
  BY <1>1, <1>2 DEF Sockets
<1>8. Lib(t)
  <2>1. \A d \in Conns : Row(t.wsi[d])
    BY <1>4, <1>5 DEF Lib
  <2> QED BY <1>1, <1>5, <1>6, <1>7, <2>1 DEF Lib, Sockets
<1>9. ~Polls(s, c)
  BY DEF TableInv
<1>10. \A n \in 1 .. L + 1 : n = L + 1 \/ n \in 1 .. L
  BY <1>2
<1>11. Positioned(t)
  <2>1. ASSUME NEW n \in 1 .. L
        PROVE  t.pos[t.fds[n].fd] = n
    <3>1. s.fds[n] \in Fds /\ s.pos[s.fds[n].fd] = n
      BY <1>2 DEF TableInv, Positioned
    <3>2. s.fds[n].fd \in Sockets \ {c}
      BY <1>9, <3>1 DEF Polls, Fds, Sockets
    <3> QED BY <1>6, <1>7, <3>1, <3>2
  <2>2. t.pos[t.fds[L + 1].fd] = L + 1
    BY <1>6, <1>7
  <2> QED BY <1>6, <1>10, <2>1, <2>2 DEF Positioned
<1>12. ASSUME NEW d \in Conns
       PROVE  Polls(t, d) <=> t.wsi[d].state \notin {"new", "dead"}
  <2>1. CASE d = c
    <3>1. L + 1 \in 1 .. Len(t.fds)
      BY <1>2, <1>6
    <3> QED BY <1>3, <1>5, <1>6, <2>1, <3>1 DEF Polls
  <2>2. CASE d # c
    <3>1. Polls(t, d) <=> Polls(s, d)
      <4>1. e.fd = c /\ \A n \in 1 .. L : n \in 1 .. L + 1
        BY <1>2
      <4> QED BY <1>6, <1>10, <2>2, <4>1 DEF Polls
    <3> QED BY <1>5, <2>2, <3>1 DEF TableInv
  <2> QED BY <2>1, <2>2
<1>13. TableInv(t)
  BY <1>11, <1>12 DEF TableInv
<1> QED BY <1>3, <1>4, <1>5, <1>8, <1>13 DEF Only

-----------------------------------------------------------------------------
(* What a client may send. *)

Proper(u) == u \in Seq(Pieces) /\ OneRequest(u) /\ WholeFrames(u)

\* The scripts are proper, as ServiceAssumption says.
LEMMA Scripted ==
  ASSUME NEW x \in Scripts, NEW c \in Conns
  PROVE  Proper(x[c].units)
<1> DEFINE u == x[c].units
           own == {u[i] : i \in DOMAIN u}
<1>1. u \in Seq(own) /\ OneRequest(u) /\ WholeFrames(u)
  BY ServiceAssumption
<1>2. own \subseteq Pieces
  <2> DEFINE All == {{s[d].units[i] : i \in DOMAIN s[d].units} : s \in Scripts, d \in Conns}
  <2>1. own \in All
    OBVIOUS
  <2>2. Pieces = UNION All
    BY DEF Pieces
  <2> HIDE DEF own, All
  <2> QED BY <2>1, <2>2
<1> HIDE DEF own, u
<1>3. u \in Seq(Pieces)
  BY <1>1, <1>2
<1> QED BY <1>1, <1>3 DEF Proper, u

\* In a header there are only its lines, and its end if it is not a websocket's is
\* the script's.
LEMMA HeaderFacts ==
  ASSUME NEW u, Proper(u), NEW r \in 0 .. Len(u), \A i \in 1 .. r : u[i][1] # "end",
         r < Len(u)
  PROVE  /\ r + 1 \in DOMAIN u /\ u[r + 1] \in Pieces
         /\ u[r + 1][1] \in {"get", "upgrade", "unknown", "end"}
         /\ (u[r + 1][1] = "end" /\ \A i \in 1 .. r : u[i][1] # "upgrade") => r + 1 = Len(u)
<1>1. /\ Len(u) \in Nat /\ DOMAIN u = 1 .. Len(u) /\ r + 1 \in 1 .. Len(u)
      /\ \A i \in 1 .. Len(u) : u[i] \in Pieces
  BY DEF Proper
<1>2. \A j \in 1 .. Len(u) :
        \/ u[j][1] \in {"get", "upgrade", "unknown", "end"}
        \/ /\ u[j][1] \in {"head", "byte"}
           /\ \E i, k \in 1 .. j - 1 : u[i][1] = "end" /\ u[k][1] = "upgrade"
  BY <1>1 DEF Proper, OneRequest
<1>3. \A i, j \in 1 .. Len(u) : u[i][1] = "end" /\ i < j => u[j][1] \in {"head", "byte"}
  BY <1>1 DEF Proper, OneRequest
<1>4. u[r + 1][1] \in {"get", "upgrade", "unknown", "end"}
  <2>1. \A i \in 1 .. (r + 1) - 1 : i \in 1 .. r
    OBVIOUS
  <2> QED BY <1>1, <1>2, <2>1
<1>5. ASSUME u[r + 1][1] = "end", \A i \in 1 .. r : u[i][1] # "upgrade", r + 1 # Len(u)
      PROVE  FALSE
  <2>1. r + 2 \in 1 .. Len(u) /\ r + 1 < r + 2
    <3>1. r \in Nat /\ Len(u) \in Nat
      BY <1>1
    <3>2. r < Len(u) /\ r + 1 # Len(u)
      BY ONLY <1>5, r < Len(u)
    <3> QED BY ONLY <3>1, <3>2
  <2>2. u[r + 2][1] \in {"head", "byte"}
    BY <1>1, <1>3, <1>5, <2>1, Zenon
  <2>3. PICK k \in 1 .. (r + 2) - 1 : u[k][1] = "upgrade"
    BY <1>2, <2>1, <2>2
  <2>4. k \in 1 .. r \/ k = r + 1
    BY <2>3
  <2> QED BY <1>5, <2>3, <2>4
<1> QED BY <1>1, <1>4, <1>5, Zenon

-----------------------------------------------------------------------------
(* A connection that is closed. *)

\* It may be closed in this state.
Closable(w, u) ==
  /\ w.hears => Told(w)
  /\ w.whole => w.wire = FileUpTo(Chunks)
  /\ \E r \in 0 .. Len(u) : Heard(w.got, u, r)

\* Before the first frame nothing is heard.
LEMMA HeardNothing ==
  ASSUME NEW u, Proper(u), NEW got, got = << >>
  PROVE  Heard(got, u, 0)
<1>1. Complete(u, 0) = {}
  <2>1. ASSUME NEW n \in Texts(u), n + u[n][3] <= 0
        PROVE  FALSE
    <3>1. n \in DOMAIN u /\ u[n][1] = "head" /\ u[n][3] > 0
      BY <2>1 DEF Texts
    <3>2. DOMAIN u = 1 .. Len(u) /\ Len(u) \in Nat
      BY DEF Proper
    <3>3. u[n][3] \in Nat
      BY <3>1 DEF Proper, WholeFrames
    <3> QED BY <2>1, <3>1, <3>2, <3>3
  <2> QED BY <2>1 DEF Complete
<1>2. Cardinality({}) = 0
  BY FS_EmptySet
<1> QED BY <1>1, <1>2 DEF Heard

\* An open connection may be closed at any time.
LEMMA AliveClosable ==
  ASSUME NEW u, Proper(u), NEW r \in 0 .. Len(u), NEW w, Alive(w, u, r)
  PROVE  Closable(w, u)
<1>1. Len(u) \in Nat /\ 0 \in 0 .. Len(u)
  BY DEF Proper
<1>2. CASE w.got = << >>
  BY <1>1, <1>2, HeardNothing DEF Closable, Alive, Asking, Filing, Talking, Told
<1>3. CASE Talking(w, u, r)
  BY <1>3 DEF Closable, Talking, Told
<1> QED BY <1>2, <1>3 DEF Alive, Asking, Filing

\* And then it is closed as the invariant wants it.
LEMMA Closing ==
  ASSUME NEW s, Lib(s), TableInv(s), NEW c \in Conns, NEW w, w = s.wsi[c], Live(w),
         NEW u, Closable(w, u),
         NEW t, t = libwebsocket_close_and_free_session(s, c), NEW v, v = t.wsi[c]
  PROVE  /\ Only(s, t, c) /\ Row(v) /\ Dead(v, u) /\ v.net = w.net /\ v.in = << >>
         /\ v.clash = w.clash /\ (Roomy(c, w) => Roomy(c, v))
         /\ Len(t.fds) = Len(s.fds) - 1
<1>1. Only(s, t, c) /\ ShutDown(w, v) /\ Row(v) /\ Len(t.fds) = Len(s.fds) - 1
  BY ClosedRow
<1>2. Row(w) /\ w.hears \in BOOLEAN
  BY RowTypes DEF Lib
<1>3. /\ v.state = "dead" /\ v.hdr = {} /\ v.in = << >> /\ v.trunc = << >>
      /\ v.hears = IF Told(w) THEN FALSE ELSE w.hears
  BY <1>1 DEF ShutDown
<1>4. /\ v.net = w.net /\ v.whole = w.whole /\ v.wire = w.wire /\ v.got = w.got
      /\ v.clash = w.clash /\ v.room = w.room
  BY <1>1 DEF ShutDown, Keeps, Fields
<1>5. v.hears = FALSE
  BY <1>2, <1>3 DEF Closable
<1>6. Dead(v, u)
  BY <1>3, <1>4, <1>5 DEF Dead, Closable
<1> QED BY <1>1, <1>3, <1>4, <1>6 DEF Roomy

-----------------------------------------------------------------------------
(* The states of the library are a set. *)

RowSpace == [Fields -> UNION {Types(f) : f \in Fields}]
Libs == {s \in [fds : Seq(Fds), pos : [Conns \cup {Listener} -> Nat], wsi : [Conns -> RowSpace]] :
           Lib(s)}

\* The set has these states, and no others.
LEMMA LibsOf ==
  ASSUME NEW s
  PROVE  s \in Libs <=> Lib(s)
<1>1. ASSUME Lib(s)
      PROVE  s \in Libs
  <2>1. ASSUME NEW c \in Conns
        PROVE  s.wsi[c] \in RowSpace
    <3> DEFINE w == s.wsi[c]
    <3>1. w = [f \in Fields |-> w[f]] /\ \A f \in Fields : w[f] \in Types(f)
      BY <1>1 DEF Lib, Row
    <3> HIDE DEF w
    <3>2. \A f \in Fields : w[f] \in UNION {Types(g) : g \in Fields}
      BY <3>1
    <3>3. w \in RowSpace
      BY <3>1, <3>2 DEF RowSpace
    <3> QED BY <3>3 DEF w
  <2>2. s.wsi \in [Conns -> RowSpace]
    BY <1>1, <2>1 DEF Lib
  <2>3. /\ s = [fds |-> s.fds, pos |-> s.pos, wsi |-> s.wsi] /\ s.fds \in Seq(Fds)
        /\ s.pos \in [Conns \cup {Listener} -> Nat]
    BY <1>1 DEF Lib
  <2>4. s \in [fds : Seq(Fds), pos : [Conns \cup {Listener} -> Nat], wsi : [Conns -> RowSpace]]
    BY ONLY <2>2, <2>3
  <2> QED BY <1>1, <2>4 DEF Libs
<1> QED BY <1>1 DEF Libs

\* A new return value.
Ret(s, c, r) == [s EXCEPT !.wsi[c].ret = r]

\* A return value changes nothing else.
LEMMA Returns ==
  ASSUME NEW s, Lib(s), TableInv(s), NEW c \in Conns, NEW w, w = s.wsi[c], NEW r \in Int,
         NEW t, t = Ret(s, c, r), NEW v, v = t.wsi[c]
  PROVE  /\ Only(s, t, c) /\ Row(v) /\ Keeps(w, v, {"ret"}) /\ v.ret = r
<1> DEFINE y == [w EXCEPT !.ret = r]
<1>1. t = Put(s, c, y)
  BY DEF Ret, Put
<1>2. Keeps(w, y, {"ret"}) /\ y.ret = r
  <2>1. Row(w)
    BY DEF Lib
  <2> QED BY <2>1 DEF Keeps, Row, Fields
<1> HIDE DEF y
<1>3. \A f \in {"ret"} : y[f] \in Types(f)
  BY <1>2, TypesOf
<1>4. Live(w) <=> Live(y)
  BY <1>2 DEF Live, Keeps, Fields
<1>5. Keeps(w, y, {"ret"})
  BY <1>2
<1>6. Only(s, t, c) /\ t.wsi[c] = y /\ Row(y)
  BY <1>1, <1>3, <1>4, <1>5, Edit
<1> QED BY <1>2, <1>6

-----------------------------------------------------------------------------
(* Files. *)

\* A file and its next chunk.
LEMMA FileGrows ==
  ASSUME NEW n \in Nat
  PROVE  FileUpTo(n + 1) = FileUpTo(n) \o << <<"chunk", n + 1>> >>
<1> DEFINE S == {<<"200">>} \cup {<<"chunk", k>> : k \in Nat}
           head == << <<"200">> >>
           b == [k \in 1 .. n |-> <<"chunk", k>>]
           x == << <<"chunk", n + 1>> >>
           more == [k \in 1 .. n + 1 |-> <<"chunk", k>>]
<1>1. head \in Seq(S) /\ b \in Seq(S) /\ x \in Seq(S) /\ more \in Seq(S)
  <2>1. \A k \in 1 .. n + 1 : <<"chunk", k>> \in S
    OBVIOUS
  <2>2. <<"200">> \in S /\ <<"chunk", n + 1>> \in S
    OBVIOUS
  <2> HIDE DEF S
  <2> QED BY <2>1, <2>2
<1>2. more = b \o x
  <2>1. Len(b) = n /\ Len(x) = 1 /\ Len(more) = n + 1
    OBVIOUS
  <2>2. b \o x \in Seq(S) /\ Len(b \o x) = n + 1
    BY <1>1, <2>1, ConcatProperties
  <2>3. \A k \in 1 .. n + 1 : (b \o x)[k] = more[k]
    <3>1. \A k \in 1 .. n + 1 : (b \o x)[k] = IF k <= n THEN b[k] ELSE x[k - n]
      BY <1>1, <2>1, ConcatProperties
    <3>2. \A k \in 1 .. n + 1 : more[k] = <<"chunk", k>>
      OBVIOUS
    <3>3. \A k \in 1 .. n + 1 : k <= n => b[k] = <<"chunk", k>>
      OBVIOUS
    <3>4. \A k \in 1 .. n + 1 : ~(k <= n) => k = n + 1 /\ x[k - n] = <<"chunk", k>>
      OBVIOUS
    <3> HIDE DEF b, x, more
    <3> QED BY <3>1, <3>2, <3>3, <3>4
  <2> HIDE DEF b, x, more, S
  <2> QED BY <1>1, <2>1, <2>2, <2>3, SeqEqual
<1> HIDE DEF b, x, more, head, S
<1>3. head \o more = (head \o b) \o x
  <2>1. (head \o b) \o x = head \o (b \o x)
    BY ONLY <1>1, Associative
  <2> QED BY ONLY <1>2, <2>1
<1> QED BY <1>3 DEF head, more, b, x, FileUpTo

FileFields == SendFields \cup {"filepos", "state", "whole"}

\* What becomes of a connection that is sent a file.
Served(s, t, c, u) ==
  /\ Only(s, t, c) /\ Row(t.wsi[c]) /\ Keeps(s.wsi[c], t.wsi[c], FileFields)
  /\ Live(t.wsi[c]) /\ Closable(t.wsi[c], u) /\ ~t.wsi[c].clash
  /\ Roomy(c, s.wsi[c]) => Roomy(c, t.wsi[c])
  /\ t.wsi[c].ret \in {0, GoesOn} => Filing(t.wsi[c], u, Len(u))

\* Served twice is served.
LEMMA ServedTrans ==
  ASSUME NEW s, NEW t, NEW x, NEW c \in Conns, NEW u, Served(s, t, c, u), Served(t, x, c, u)
  PROVE  Served(s, x, c, u)
BY OnlyTrans, KeepsTrans DEF Served

\* The file's bytes in order are all that matters of a send.
LEMMA FilingKept ==
  ASSUME NEW u, Proper(u), NEW w, Filing(w, u, Len(u)), NEW v, Keeps(w, v, SendFields),
         v.wire \o v.trunc = w.wire \o w.trunc
  PROVE  Filing(v, u, Len(u)) /\ Live(v) /\ Closable(v, u) /\ Keeps(w, v, FileFields)
<1>1. Filing(v, u, Len(u)) /\ Keeps(w, v, FileFields)
  BY DEF Filing, Keeps, Fields, SendFields, FileFields
<1>2. Len(u) \in 0 .. Len(u)
  BY DEF Proper
<1> QED BY <1>1, <1>2, AliveClosable DEF Alive, Filing, Live

\* The end of a round: the file is completed, or the loop goes on.
LEMMA RoundEnds ==
  ASSUME NEW s, Lib(s), TableInv(s), NEW c \in Conns, NEW u, Proper(u), NEW w, w = s.wsi[c],
         Filing(w, u, Len(u)), ~w.clash, NEW t, t = RoundEnd(s, c)
  PROVE  Served(s, t, c, u)
<1>1. Row(w) /\ w.wire \in Seq(Outs)
  BY RowTypes DEF Lib
<1>2. CASE Completed(w)
  <2> DEFINE y == [w EXCEPT !.state = "http", !.ret = 1, !.whole = TRUE]
  <2>1. t = Put(s, c, y)
    <3>1. t = [s EXCEPT !.wsi[c].state = "http", !.wsi[c].ret = 1, !.wsi[c].whole = TRUE]
      BY <1>2 DEF RoundEnd
    <3>2. /\ s = [fds |-> s.fds, pos |-> s.pos, wsi |-> s.wsi]
          /\ s.wsi = [d \in Conns |-> s.wsi[d]]
      BY DEF Lib
    <3> QED BY ONLY <3>1, <3>2, c \in Conns, w = s.wsi[c] DEF Put
  <2>2. Keeps(w, y, {"state", "ret", "whole"}) /\ y.state = "http" /\ y.ret = 1 /\ y.whole = TRUE
    BY <1>1 DEF Keeps, Row, Fields
  <2> HIDE DEF y
  <2>3. \A f \in {"state", "ret", "whole"} : y[f] \in Types(f)
    <3>1. y["state"] \in Types("state")
      BY <2>2, TypesOf
    <3>2. y["ret"] \in Types("ret")
      BY <2>2, TypesOf
    <3>3. y["whole"] \in Types("whole")
      BY <2>2, TypesOf
    <3> QED BY <3>1, <3>2, <3>3
  <2>4. Live(w) <=> Live(y)
    BY <2>2 DEF Live, Filing
  <2>5. Keeps(w, y, {"state", "ret", "whole"})
    BY <2>2
  <2>6. Only(s, t, c) /\ t.wsi[c] = y /\ Row(y)
    BY ONLY Lib(s), TableInv(s), c \in Conns, w = s.wsi[c], <2>1, <2>3, <2>4, <2>5, Edit
  <2>7. /\ y.wire = w.wire /\ y.trunc = w.trunc /\ y.clash = w.clash /\ y.room = w.room
        /\ y.got = w.got /\ y.hears = w.hears
    BY <2>2 DEF Keeps, Fields
  <2>8. y.wire = FileUpTo(Chunks)
    <3>1. w.wire \o w.trunc = w.wire /\ w.filepos = Chunks
      BY <1>1, <1>2, ConcatEmptySeq DEF Completed
    <3> QED BY <2>7, <3>1 DEF Filing
  <2>9. Closable(y, u)
    <3>1. Heard(y.got, u, 0) /\ 0 \in 0 .. Len(u)
      BY <2>7, HeardNothing DEF Filing, Proper
    <3> QED BY <2>7, <2>8, <3>1 DEF Closable, Filing
  <2>10. Keeps(w, y, FileFields)
    BY <2>2 DEF Keeps, FileFields, SendFields
  <2> QED BY <2>2, <2>6, <2>7, <2>9, <2>10 DEF Served, Live, Roomy, GoesOn
<1>3. CASE ~Completed(w)
  <2> DEFINE v == t.wsi[c]
  <2>1. t = Ret(s, c, GoesOn) /\ GoesOn \in Int
    BY <1>3 DEF RoundEnd, Ret, GoesOn
  <2>2. Only(s, t, c) /\ Row(v) /\ Keeps(w, v, {"ret"}) /\ v.ret = GoesOn
    BY <2>1, Returns
  <2> HIDE DEF v
  <2>3. /\ Keeps(w, v, SendFields) /\ v.wire = w.wire /\ v.trunc = w.trunc
        /\ v.clash = w.clash /\ v.room = w.room
    BY <2>2 DEF Keeps, Fields, SendFields
  <2>4. Filing(v, u, Len(u)) /\ Live(v) /\ Closable(v, u) /\ Keeps(w, v, FileFields)
    BY <2>3, FilingKept
  <2> QED BY <2>2, <2>3, <2>4 DEF Served, Roomy, v
<1> QED BY <1>2, <1>3

\* A send of what is still held back of a file.
LEMMA FilingServed ==
  ASSUME NEW s, NEW t, NEW c \in Conns, NEW u, Proper(u), NEW w, w = s.wsi[c],
         Filing(w, u, Len(u)), Only(s, t, c), NEW v, v = t.wsi[c], Row(v),
         Keeps(w, v, SendFields), v.wire \o v.trunc = w.wire \o w.trunc, ~v.clash,
         Roomy(c, w) => Roomy(c, v)
  PROVE  Served(s, t, c, u)
<1>1. Filing(v, u, Len(u)) /\ Live(v) /\ Closable(v, u) /\ Keeps(w, v, FileFields)
  BY FilingKept
<1> QED BY <1>1 DEF Served

\* One round of libwebsockets_serve_http_file_fragment.
LEMMA Round ==
  ASSUME NEW s, Lib(s), TableInv(s), NEW c \in Conns, NEW u, Proper(u), NEW w, w = s.wsi[c],
         Filing(w, u, Len(u)), ~w.clash, NEW t, t = FragmentRound(s, c)
  PROVE  Served(s, t, c, u)
<1>1. /\ Row(w) /\ w.wire \in Seq(Outs) /\ w.filepos \in 0 .. Chunks /\ Live(w)
      /\ Chunks \in Nat
  BY RowTypes, OutputAssumption DEF Lib, Live, Filing
<1>2. CASE w.blocking
  <2> DEFINE s1 == libwebsocket_callback_on_writable(s, c)
             w1 == s1.wsi[c]
             v == t.wsi[c]
  <2>1. Only(s, s1, c) /\ Row(w1) /\ Keeps(w, w1, {"selected"})
    BY <1>1, PollKeeps DEF libwebsocket_callback_on_writable
  <2>2. t = Ret(s1, c, 0)
    BY <1>2 DEF FragmentRound, Ret
  <2>3. Lib(s1) /\ TableInv(s1)
    BY <2>1 DEF Only
  <2> HIDE DEF s1
  <2>4. Only(s1, t, c) /\ Row(v) /\ Keeps(w1, v, {"ret"})
    BY ONLY <2>2, <2>3, c \in Conns, Returns, 0 \in Int
  <2> HIDE DEF w1, v
  <2>5. Only(s, t, c)
    BY <2>1, <2>4, OnlyTrans
  <2>6. /\ Keeps(w, v, SendFields) /\ v.wire = w.wire /\ v.trunc = w.trunc /\ v.room = w.room
        /\ v.clash = w.clash
    BY <2>1, <2>4 DEF Keeps, Fields, SendFields
  <2>7. Roomy(c, w) => Roomy(c, v)
    BY <2>6 DEF Roomy
  <2> QED BY <2>4, <2>5, <2>6, <2>7, FilingServed DEF v
<1>3. CASE ~w.blocking /\ w.trunc # << >>
  <2> DEFINE s1 == IssuePending(s, c)
             w1 == s1.wsi[c]
             v == t.wsi[c]
  <2>1. /\ Only(s, s1, c) /\ Row(w1)
        /\ Keeps(w, w1, {"wire", "room", "trunc", "blocking", "selected"})
        /\ Roomy(c, w) => Roomy(c, w1)
        /\ w1.wire \o w1.trunc = w.wire \o w.trunc
    <3>1. Live(w) /\ s1 = IssuePending(s, c) /\ w1 = s1.wsi[c]
      BY <1>1
    <3> HIDE DEF s1, w1
    <3>2. Only(s, s1, c) /\ Row(w1)
      BY ONLY Lib(s), TableInv(s), c \in Conns, w = s.wsi[c], <3>1, PendingSent
    <3>3. Keeps(w, w1, {"wire", "room", "trunc", "blocking", "selected"})
      BY ONLY Lib(s), TableInv(s), c \in Conns, w = s.wsi[c], <3>1, PendingSent
    <3>4. Roomy(c, w) => Roomy(c, w1)
      BY ONLY Lib(s), TableInv(s), c \in Conns, w = s.wsi[c], <3>1, PendingSent
    <3>5. Line(w1) = Line(w)
      BY ONLY Lib(s), TableInv(s), c \in Conns, w = s.wsi[c], <3>1, PendingSent
    <3> QED BY <3>2, <3>3, <3>4, <3>5 DEF Line
  <2>2. t = Ret(s1, c, GoesOn) /\ GoesOn \in Int
    <3>1. FragmentRound(s, c) = Ret(IssuePending(s, c), c, GoesOn)
      BY ONLY <1>3, w = s.wsi[c] DEF FragmentRound, Ret
    <3> QED BY ONLY <3>1, t = FragmentRound(s, c) DEF GoesOn
  <2>3. Lib(s1) /\ TableInv(s1)
    BY <2>1 DEF Only
  <2> HIDE DEF s1
  <2>4. Only(s1, t, c) /\ Row(v) /\ Keeps(w1, v, {"ret"})
    BY ONLY <2>2, <2>3, c \in Conns, Returns
  <2> HIDE DEF w1, v
  <2>5. Only(s, t, c)
    BY <2>1, <2>4, OnlyTrans
  <2>6. /\ Keeps(w, v, SendFields) /\ v.wire = w1.wire /\ v.trunc = w1.trunc /\ v.room = w1.room
        /\ v.clash = w.clash
    BY <2>1, <2>4 DEF Keeps, Fields, SendFields
  <2>7. /\ Roomy(c, w) => Roomy(c, v)
        /\ v.wire \o v.trunc = w.wire \o w.trunc
    BY <2>1, <2>6 DEF Roomy
  <2> QED BY <2>4, <2>5, <2>6, <2>7, FilingServed DEF v
<1>4. CASE ~w.blocking /\ w.trunc = << >> /\ w.filepos = Chunks
  <2>1. t = RoundEnd(s, c)
    BY <1>4 DEF FragmentRound
  <2> QED BY <2>1, RoundEnds
<1>5. CASE ~w.blocking /\ w.trunc = << >> /\ w.filepos # Chunks
  <2> DEFINE n == w.filepos
             units == << <<"chunk", n + 1>> >>
             s1 == lws_issue_raw(s, c, units)
             w1 == s1.wsi[c]
             s2 == [s1 EXCEPT !.wsi[c].filepos = @ + 1]
             m == [w1 EXCEPT !.filepos = @ + 1]
             v == t.wsi[c]
  <2>1. n \in Nat /\ n + 1 \in 1 .. Chunks /\ units \in Seq(Outs)
    <3>1. n \in Nat /\ n + 1 \in 1 .. Chunks
      BY <1>1, <1>5
    <3> QED BY <3>1, OutFacts
  <2>2. t = IF w1.ret < 0 THEN s1 ELSE RoundEnd(s2, c)
    BY <1>5 DEF FragmentRound, WriteHttp
  <2>0. Len(units) = 1
    OBVIOUS
  <2> HIDE DEF units
  <2>3. /\ Only(s, s1, c) /\ Keeps(w, w1, SendFields) /\ Row(w1)
        /\ Roomy(c, w) => Roomy(c, w1)
        /\ Refused(w, w1) \/ Accepted(w, w1, units)
    BY <1>1, <2>1, IssueRaw
  <2>4. Lib(s1) /\ TableInv(s1)
    BY <2>3 DEF Only
  <2> HIDE DEF s1
  <2>5. CASE Refused(w, w1)
    <3>1. /\ t = s1 /\ w1.wire = w.wire /\ w1.trunc = w.trunc /\ ~w1.clash
      BY <1>5, <2>2, <2>5 DEF Refused
    <3> QED BY <2>3, <3>1, FilingServed
  <2>6. CASE Accepted(w, w1, units)
    <3> HIDE DEF w1, v
    <3>1. t = RoundEnd(s2, c)
      BY <2>0, <2>2, <2>6 DEF Accepted
    <3>2. s2 = Put(s1, c, m)
      <4>1. /\ s1 = [fds |-> s1.fds, pos |-> s1.pos, wsi |-> s1.wsi]
            /\ s1.wsi = [d \in Conns |-> s1.wsi[d]]
        BY <2>4 DEF Lib
      <4> QED BY ONLY <4>1, c \in Conns DEF Put, w1
    <3>3. Keeps(w1, m, {"filepos"}) /\ m.filepos = n + 1
      <4>1. w1.filepos = n
        BY <2>3 DEF Keeps, Fields, SendFields
      <4> QED BY <2>3, <4>1 DEF Keeps, Row, Fields
    <3> HIDE DEF m, s2
    <3>4. Only(s1, s2, c) /\ s2.wsi[c] = m /\ Row(m)
      <4>1. \A f \in {"filepos"} : m[f] \in Types(f)
        <5>1. m.filepos \in 0 .. Chunks
          BY <2>1, <3>3
        <5> QED BY <5>1, TypesOf
      <4>2. Live(w1) <=> Live(m)
        BY <3>3 DEF Live, Keeps, Fields
      <4>3. w1 = s1.wsi[c]
        BY DEF w1
      <4>4. Keeps(w1, m, {"filepos"})
        BY <3>3
      <4> QED BY ONLY <2>4, c \in Conns, <3>2, <4>1, <4>2, <4>3, <4>4, Edit
    <3>5. Only(s, s2, c) /\ Lib(s2) /\ TableInv(s2)
      <4>1. Only(s, s2, c)
        BY <2>3, <3>4, OnlyTrans
      <4> QED BY <4>1 DEF Only
    <3>6. /\ Keeps(w, m, FileFields) /\ m.wire = w1.wire /\ m.trunc = w1.trunc
          /\ m.clash = w1.clash /\ m.room = w1.room
          /\ \A f \in {"state", "mode", "hears", "whole", "got", "hdr"} : m[f] = w[f]
      BY <2>3, <3>3 DEF Keeps, Fields, SendFields, FileFields
    <3>7. m.wire \o m.trunc = FileUpTo(n + 1)
      <4>1. w.wire \o w.trunc = w.wire
        BY <1>1, <1>5, ConcatEmptySeq
      <4>2. m.wire \o m.trunc = FileUpTo(n) \o units
        BY <2>6, <3>6, <4>1 DEF Accepted, Filing
      <4> QED BY <2>1, <4>2, FileGrows DEF units
    <3>8. Filing(m, u, Len(u)) /\ ~m.clash
      BY <2>6, <3>3, <3>6, <3>7 DEF Filing, Accepted
    <3>9. Served(s2, t, c, u)
      BY <3>1, <3>4, <3>5, <3>8, RoundEnds
    <3>10. /\ Keeps(w, v, FileFields) /\ Only(s, t, c)
           /\ Roomy(c, w) => Roomy(c, v)
      <4>1. Keeps(m, v, FileFields) /\ Only(s2, t, c) /\ (Roomy(c, m) => Roomy(c, v))
        BY <3>4, <3>9 DEF Served, v
      <4>2. Roomy(c, w) => Roomy(c, m)
        BY <2>3, <3>6 DEF Roomy
      <4> QED BY <3>5, <3>6, <4>1, <4>2, OnlyTrans, KeepsTrans
    <3> QED BY <3>9, <3>10 DEF Served, v
  <2> QED BY <2>3, <2>5, <2>6
<1> QED BY <1>2, <1>3, <1>4, <1>5

-----------------------------------------------------------------------------
(* Loops: a recursive function over the rounds of one. *)

\* Induction on the rounds.
LEMMA Kept ==
  ASSUME NEW N \in Nat, NEW f, NEW X, f[0] \in X[0],
         \A n \in 1 .. N : f[n - 1] \in X[n - 1] => f[n] \in X[n]
  PROVE  \A n \in 0 .. N : f[n] \in X[n]
<1> DEFINE T == {n \in 0 .. N : f[n] \notin X[n]}
<1>1. SUFFICES ASSUME T # {} PROVE FALSE
  OBVIOUS
<1>2. T \subseteq Nat
  OBVIOUS
<1>3. PICK x \in T : \A y \in T : << y, x >> \notin OpToRel(<, Nat)
  <2> HIDE DEF T
  <2> QED BY <1>1, <1>2, NatLessThanWellFounded, WFMin
<1>4. x \in 1 .. N /\ x - 1 \in 0 .. N
  <2>1. x # 0
    OBVIOUS
  <2> QED BY <2>1
<1>5. x - 1 \notin T
  <2>1. x - 1 \in Nat /\ x \in Nat /\ x - 1 < x
    BY <1>4
  <2>2. << x - 1, x >> \in OpToRel(<, Nat)
    BY <2>1 DEF OpToRel
  <2> HIDE DEF T
  <2> QED BY <1>3, <2>2
<1>6. f[x - 1] \in X[x - 1]
  BY <1>4, <1>5
<1> QED BY <1>4, <1>6

\* There is one, if each round has a value.
Advances(N, X, F) == \A n \in 1 .. N : \A y \in X[n - 1] : F[n][y] \in X[n]
Run(f, N, X, F, a) ==
  /\ f = [n \in 0 .. N |-> IF n = 0 THEN a ELSE F[n][f[n - 1]]]
  /\ \A n \in 0 .. N : f[n] \in X[n]

\* A recursion whose every round stays in its set has a function that does.
LEMMA Running ==
  ASSUME NEW N \in Nat, NEW X, NEW F, Advances(N, X, F), NEW a, a \in X[0]
  PROVE  \E f : Run(f, N, X, F, a)
<1>0. \A n \in 1 .. N : \A y \in X[n - 1] : F[n][y] \in X[n]
  BY DEF Advances
<1> DEFINE Part(f, m) == /\ f = [n \in 0 .. m |-> IF n = 0 THEN a ELSE F[n][f[n - 1]]]
                         /\ \A n \in 0 .. m : f[n] \in X[n]
           Can == [n \in 0 .. N |-> {TRUE}]
           Has == [n \in 0 .. N |-> \E f : Part(f, n)]
<1>1. Has[0] \in Can[0]
  <2> DEFINE f == [n \in 0 .. 0 |-> a]
  <2>1. \A n \in 0 .. 0 : n = 0
    OBVIOUS
  <2>2. Part(f, 0)
    BY <2>1
  <2> HIDE DEF Part
  <2>3. 0 \in 0 .. N
    OBVIOUS
  <2> QED BY <2>2, <2>3
<1>2. ASSUME NEW m \in 1 .. N, Has[m - 1] \in Can[m - 1]
      PROVE  Has[m] \in Can[m]
  <2>0. m - 1 \in 0 .. N /\ m \in 0 .. N
    OBVIOUS
  <2>1. PICK f : Part(f, m - 1)
    <3> HIDE DEF Part
    <3> QED BY <1>2, <2>0
  <2> DEFINE g == [n \in 0 .. m |-> IF n = m THEN F[m][f[m - 1]] ELSE f[n]]
  <2>2. \A n \in 0 .. m - 1 : f[n] = (IF n = 0 THEN a ELSE F[n][f[n - 1]]) /\ f[n] \in X[n]
    BY <2>1
  <2>3. \A n \in 0 .. m : g[n] = IF n = m THEN F[m][f[m - 1]] ELSE f[n]
    OBVIOUS
  <2>4. g = [n \in 0 .. m |-> g[n]]
    OBVIOUS
  <2> HIDE DEF g
  <2>5. ASSUME NEW n \in 0 .. m
        PROVE  g[n] = (IF n = 0 THEN a ELSE F[n][g[n - 1]]) /\ g[n] \in X[n]
    <3>1. CASE n = m
      <4>1. m \in 0 .. m /\ m - 1 \in 0 .. m /\ m - 1 # m /\ m # 0 /\ m - 1 \in 0 .. m - 1
        OBVIOUS
      <4>2. g[m] = F[m][f[m - 1]] /\ g[m - 1] = f[m - 1] /\ f[m - 1] \in X[m - 1]
        BY <2>2, <2>3, <4>1
      <4> QED BY <1>0, <3>1, <4>1, <4>2
    <3>2. CASE n # m
      <4>1. n \in 0 .. m - 1 /\ (n # 0 => n - 1 \in 0 .. m /\ n - 1 # m)
        BY <3>2
      <4>2. g[n] = f[n] /\ (n # 0 => g[n - 1] = f[n - 1])
        BY <2>3, <3>2, <4>1
      <4> QED BY <2>2, <4>1, <4>2
    <3> QED BY <3>1, <3>2
  <2>6. Part(g, m)
    BY <2>4, <2>5
  <2> HIDE DEF Part
  <2> QED BY <2>0, <2>6
<1>3. \A n \in 0 .. N : Has[n] \in Can[n]
  <2> HIDE DEF Has, Can
  <2> QED BY <1>1, <1>2, Kept
<1>4. \E f : Part(f, N)
  <2>1. N \in 0 .. N
    OBVIOUS
  <2> HIDE DEF Part
  <2> QED BY <1>3, <2>1
<1> QED BY <1>4 DEF Run

\* libwebsockets_serve_http_file_fragment: by induction on its rounds.
LEMMA ServeFragment ==
  ASSUME NEW s, Lib(s), TableInv(s), NEW c \in Conns, NEW u, Proper(u), NEW w, w = s.wsi[c],
         Filing(w, u, Len(u)), ~w.clash, NEW t, t = libwebsockets_serve_http_file_fragment(s, c)
  PROVE  Served(s, t, c, u)
<1> DEFINE N == Chunks + 1
           A == FragmentRound(s, c)
           Body(y) == IF y.wsi[c].ret = GoesOn THEN FragmentRound(y, c) ELSE y
           R == {y \in Libs : Served(s, y, c, u)}
           X == [n \in 0 .. N |-> R]
           F == [n \in 0 .. N |-> [y \in R |-> Body(y)]]
           Runs(f) == f = [n \in 0 .. N |-> IF n = 0 THEN A ELSE Body(f[n - 1])]
           after == CHOOSE f : Runs(f)
<1>1. A \in R
  <2>1. Served(s, A, c, u)
    BY Round
  <2>2. A \in Libs
    BY <2>1, LibsOf DEF Served, Only
  <2> QED BY <2>1, <2>2
<1>2. ASSUME NEW y \in R
      PROVE  Body(y) \in R
  <2>1. Lib(y) /\ Served(s, y, c, u) /\ TableInv(y)
    BY LibsOf DEF Served, Only
  <2>2. CASE y.wsi[c].ret = GoesOn
    <3>1. Filing(y.wsi[c], u, Len(u)) /\ ~y.wsi[c].clash
      BY <2>1, <2>2 DEF Served
    <3> DEFINE z == FragmentRound(y, c)
    <3>2. Served(y, z, c, u)
      BY <2>1, <3>1, Round
    <3>3. z \in Libs
      BY <3>2, LibsOf DEF Served, Only
    <3>4. Served(s, z, c, u)
      BY <2>1, <3>2, ServedTrans
    <3> QED BY <2>2, <3>3, <3>4
  <2> QED BY <2>2
<1>3. N \in Nat
  BY OutputAssumption
<1> HIDE DEF A, Body, R, N
<1>4. \E f : Runs(f)
  <2>1. A \in X[0] /\ \A n \in 1 .. N : \A y \in X[n - 1] : F[n][y] \in X[n]
    <3>1. 0 \in 0 .. N /\ \A n \in 1 .. N : n \in 0 .. N /\ n - 1 \in 0 .. N
      BY <1>3
    <3> QED BY <1>1, <1>2, <3>1
  <2>2. \A n \in 0 .. N : \A y \in R : F[n][y] = Body(y)
    OBVIOUS
  <2>3. \A n \in 0 .. N : X[n] = R
    OBVIOUS
  <2> HIDE DEF X, F
  <2>4. \E f : Run(f, N, X, F, A)
    <3>1. Advances(N, X, F) /\ A \in X[0]
      BY <2>1 DEF Advances
    <3> QED BY ONLY <1>3, <3>1, Running
  <2> PICK f : Run(f, N, X, F, A)
    BY <2>4
  <2>5. \A n \in 1 .. N : n - 1 \in 0 .. N /\ n \in 0 .. N /\ F[n][f[n - 1]] = Body(f[n - 1])
    BY <1>3, <2>2, <2>3 DEF Run
  <2>6. \A n \in 0 .. N : n # 0 => n \in 1 .. N
    BY <1>3
  <2>7. Runs(f)
    BY <2>5, <2>6 DEF Run
  <2> QED BY <2>7
<1>5. Runs(after)
  <2> HIDE DEF Runs
  <2> QED BY <1>4
<1>6. t = after[N]
  BY DEF libwebsockets_serve_http_file_fragment, A, Body, N
<1> HIDE DEF after
<1>7. after[0] \in X[0] /\ \A n \in 1 .. N : after[n - 1] \in X[n - 1] => after[n] \in X[n]
  <2>1. 0 \in 0 .. N /\ \A n \in 1 .. N : n \in 0 .. N /\ n - 1 \in 0 .. N /\ n # 0
    BY <1>3
  <2>2. \A n \in 0 .. N : after[n] = IF n = 0 THEN A ELSE Body(after[n - 1])
    BY <1>5
  <2> QED BY <1>1, <1>2, <2>1, <2>2
<1>8. after[N] \in X[N]
  <2> HIDE DEF X
  <2>1. N \in 0 .. N
    BY <1>3
  <2> QED BY <1>3, <1>7, <2>1, Kept
<1>9. after[N] \in R
  <2>1. N \in 0 .. N
    BY <1>3
  <2> QED BY <1>8, <2>1
<1> QED BY <1>6, <1>9 DEF R

\* A failure that is returned of a file.
LEMMA ServedRet ==
  ASSUME NEW s, NEW t, NEW c \in Conns, NEW u, Served(s, t, c, u), NEW x, x = Ret(t, c, -1)
  PROVE  Served(s, x, c, u) /\ x.wsi[c].ret = -1
<1> DEFINE w == t.wsi[c]
           v == x.wsi[c]
<1>1. Lib(t) /\ TableInv(t) /\ Only(s, t, c)
  BY DEF Served, Only
<1>2. Only(t, x, c) /\ Row(v) /\ Keeps(w, v, {"ret"}) /\ v.ret = -1
  BY ONLY <1>1, c \in Conns, x = Ret(t, c, -1), -1 \in Int, Returns
<1> HIDE DEF w, v
<1>3. Only(s, x, c)
  BY <1>1, <1>2, OnlyTrans
<1>4. /\ v.state = w.state /\ v.hears = w.hears /\ v.whole = w.whole /\ v.wire = w.wire
      /\ v.got = w.got /\ v.clash = w.clash /\ v.room = w.room /\ v.trunc = w.trunc
      /\ Keeps(w, v, FileFields)
  BY <1>2 DEF Keeps, Fields, FileFields, SendFields
<1>5. /\ Keeps(s.wsi[c], w, FileFields) /\ Live(w) /\ Closable(w, u) /\ ~w.clash
      /\ Roomy(c, s.wsi[c]) => Roomy(c, w)
  BY DEF Served, w
<1>6. Live(v) /\ Closable(v, u) /\ ~v.clash /\ (Roomy(c, s.wsi[c]) => Roomy(c, v))
  BY <1>4, <1>5 DEF Live, Closable, Told, Roomy
<1>7. Keeps(s.wsi[c], v, FileFields)
  BY <1>4, <1>5, KeepsTrans
<1>8. v.ret \notin {0, GoesOn}
  BY <1>2 DEF GoesOn
<1> QED BY <1>2, <1>3, <1>6, <1>7, <1>8 DEF Served, v

\* Its request is read, and nothing is answered yet.
Requested(w) ==
  /\ w.state = "http" /\ w.mode = "accepted" /\ w.hdr = {} /\ ~w.hears /\ ~w.whole
  /\ w.wire = << >> /\ w.trunc = << >> /\ w.got = << >> /\ ~w.clash

\* libwebsockets_serve_http_file: the file's header is sent, or 404.
LEMMA Opened ==
  ASSUME NEW s, Lib(s), TableInv(s), NEW c \in Conns, NEW u, Proper(u), NEW w, w = s.wsi[c],
         Requested(w), NEW exists \in BOOLEAN,
         NEW t, t = libwebsockets_serve_http_file(s, c, exists)
  PROVE  Served(s, t, c, u)
<1>1. Row(w) /\ Live(w)
  BY DEF Lib, Live, Requested
<1>2. ASSUME NEW x, Only(s, x, c), NEW v, v = x.wsi[c], Row(v), Keeps(w, v, SendFields),
             ~v.clash, v.ret = -1, Roomy(c, w) => Roomy(c, v)
      PROVE  Served(s, x, c, u)
  <2>1. v.state = w.state /\ v.hears = w.hears /\ v.whole = w.whole /\ v.got = w.got
    BY <1>2 DEF Keeps, Fields, SendFields
  <2>2. Heard(v.got, u, 0) /\ 0 \in 0 .. Len(u)
    BY <2>1, HeardNothing DEF Requested, Proper
  <2>3. Closable(v, u) /\ Live(v)
    BY <2>1, <2>2 DEF Closable, Requested, Live
  <2>4. Keeps(w, v, FileFields)
    BY <1>2 DEF Keeps, FileFields
  <2>5. v.ret \notin {0, GoesOn}
    BY <1>2 DEF GoesOn
  <2> QED BY <1>2, <2>3, <2>4, <2>5 DEF Served
<1>3. CASE ~exists
  <2> DEFINE units == << <<"404">> >>
             s1 == lws_issue_raw(s, c, units)
             w1 == s1.wsi[c]
             v == t.wsi[c]
  <2>1. t = Ret(s1, c, -1)
    BY <1>3 DEF libwebsockets_serve_http_file, WriteHttp, Ret
  <2>2. units \in Seq(Outs)
    BY OutFacts
  <2> HIDE DEF units
  <2>3. /\ Only(s, s1, c) /\ Keeps(w, w1, SendFields) /\ Row(w1)
        /\ Roomy(c, w) => Roomy(c, w1)
        /\ Refused(w, w1) \/ Accepted(w, w1, units)
    BY <1>1, <2>2, IssueRaw
  <2>4. Lib(s1) /\ TableInv(s1)
    BY <2>3 DEF Only
  <2> HIDE DEF s1
  <2>5. Only(s1, t, c) /\ Row(v) /\ Keeps(w1, v, {"ret"}) /\ v.ret = -1
    BY ONLY <2>1, <2>4, c \in Conns, -1 \in Int, Returns
  <2> HIDE DEF w1, v
  <2>6. Only(s, t, c)
    BY <2>3, <2>5, OnlyTrans
  <2>7. /\ Keeps(w, v, SendFields) /\ v.clash = w1.clash /\ v.room = w1.room
        /\ v.trunc = w1.trunc
    BY <2>3, <2>5 DEF Keeps, Fields, SendFields
  <2>8. ~w1.clash
    BY <2>3 DEF Refused, Accepted, Requested
  <2>9. Roomy(c, w) => Roomy(c, v)
    BY <2>3, <2>7 DEF Roomy
  <2> QED BY <1>2, <2>5, <2>6, <2>7, <2>8, <2>9 DEF v
<1>4. CASE exists
  <2> DEFINE units == << <<"200">> >>
             s1 == lws_issue_raw(s, c, units)
             w1 == s1.wsi[c]
             s2 == [s1 EXCEPT !.wsi[c].filepos = 0, !.wsi[c].state = "issuing"]
             m == [w1 EXCEPT !.filepos = 0, !.state = "issuing"]
             v == t.wsi[c]
  <2>1. t = IF w1.ret < 0 THEN s1 ELSE libwebsockets_serve_http_file_fragment(s2, c)
    BY <1>4 DEF libwebsockets_serve_http_file, WriteHttp
  <2>2. units \in Seq(Outs)
    BY OutFacts
  <2>3. Len(units) = 1
    OBVIOUS
  <2> HIDE DEF units
  <2>4. /\ Only(s, s1, c) /\ Keeps(w, w1, SendFields) /\ Row(w1)
        /\ Roomy(c, w) => Roomy(c, w1)
        /\ Refused(w, w1) \/ Accepted(w, w1, units)
    BY <1>1, <2>2, IssueRaw
  <2>5. Lib(s1) /\ TableInv(s1)
    BY <2>4 DEF Only
  <2>6. ~w1.clash
    BY <2>4 DEF Refused, Accepted, Requested
  <2> HIDE DEF s1
  <2>7. CASE Refused(w, w1)
    <3>1. t = s1 /\ w1.ret = -1
      BY <2>1, <2>7 DEF Refused
    <3> QED BY <1>2, <2>4, <2>6, <3>1
  <2>8. CASE Accepted(w, w1, units)
    <3> HIDE DEF w1, v
    <3>1. t = libwebsockets_serve_http_file_fragment(s2, c)
      BY <2>1, <2>3, <2>8 DEF Accepted
    <3>2. s2 = Put(s1, c, m)
      <4>1. /\ s1 = [fds |-> s1.fds, pos |-> s1.pos, wsi |-> s1.wsi]
            /\ s1.wsi = [d \in Conns |-> s1.wsi[d]]
        BY <2>5 DEF Lib
      <4> QED BY ONLY <4>1, c \in Conns DEF Put, w1
    <3>3. Keeps(w1, m, {"filepos", "state"}) /\ m.filepos = 0 /\ m.state = "issuing"
      BY <2>4 DEF Keeps, Row, Fields
    <3> HIDE DEF m, s2
    <3>4. Only(s1, s2, c) /\ s2.wsi[c] = m /\ Row(m)
      <4>1. m["filepos"] \in Types("filepos")
        BY <3>3, TypesOf, OutputAssumption
      <4>2. m["state"] \in Types("state")
        BY <3>3, TypesOf
      <4>3. \A f \in {"filepos", "state"} : m[f] \in Types(f)
        BY <4>1, <4>2
      <4>4. Live(w1) <=> Live(m)
        <5>1. w1.state = "http"
          BY <2>4 DEF Keeps, Fields, SendFields, Requested
        <5> QED BY <3>3, <5>1 DEF Live
      <4>5. w1 = s1.wsi[c]
        BY DEF w1
      <4>6. Keeps(w1, m, {"filepos", "state"})
        BY <3>3
      <4>7. Row(m)
        BY ONLY <2>4, <4>3, <4>6, RowEdit
      <4> QED BY ONLY <2>5, c \in Conns, <3>2, <4>4, <4>5, <4>7, RowSet
    <3>5. Only(s, s2, c) /\ Lib(s2) /\ TableInv(s2)
      <4>1. Only(s, s2, c)
        BY <2>4, <3>4, OnlyTrans
      <4> QED BY <4>1 DEF Only
    <3>6. /\ Keeps(w, m, FileFields) /\ m.wire = w1.wire /\ m.trunc = w1.trunc
          /\ m.clash = w1.clash /\ m.room = w1.room
          /\ \A f \in {"mode", "hears", "got", "hdr"} : m[f] = w[f]
      BY <2>4, <3>3 DEF Keeps, Fields, SendFields, FileFields
    <3>0. m.whole = w.whole
      BY <2>4, <3>3 DEF Keeps, Fields, SendFields, FileFields
    <3>7. m.wire \o m.trunc = FileUpTo(0)
      <4>1. w1.wire \o w1.trunc = << >> \o units
        BY <2>8 DEF Accepted, Requested
      <4>2. << >> \o units = units
        BY <2>2, ConcatEmptySeq
      <4>3. FileUpTo(0) = units \o << >>
        <5>1. [k \in 1 .. 0 |-> <<"chunk", k>>] = << >>
          OBVIOUS
        <5> QED BY <5>1 DEF FileUpTo, units
      <4>4. units \o << >> = units
        BY <2>2, ConcatEmptySeq
      <4> QED BY <3>6, <4>1, <4>2, <4>3, <4>4
    <3>8. Filing(m, u, Len(u)) /\ ~m.clash
      BY <2>6, <3>0, <3>3, <3>6, <3>7 DEF Filing, Requested
    <3>9. Served(s2, t, c, u)
      BY ONLY <3>1, <3>4, <3>5, <3>8, c \in Conns, Proper(u), ServeFragment
    <3>10. /\ Keeps(w, v, FileFields) /\ Only(s, t, c)
           /\ Roomy(c, w) => Roomy(c, v)
      <4>1. Keeps(m, v, FileFields) /\ Only(s2, t, c) /\ (Roomy(c, m) => Roomy(c, v))
        BY <3>4, <3>9 DEF Served, v
      <4>2. Roomy(c, w) => Roomy(c, m)
        BY <2>4, <3>6 DEF Roomy
      <4> QED BY <3>5, <3>6, <4>1, <4>2, OnlyTrans, KeepsTrans
    <3> QED BY <3>9, <3>10 DEF Served, v
  <2> QED BY <2>4, <2>7, <2>8
<1> QED BY <1>3, <1>4

\* callback_http, the file of a request that is complete.
LEMMA CallbackHttp ==
  ASSUME NEW s, Lib(s), TableInv(s), NEW c \in Conns, NEW u, Proper(u), NEW w, w = s.wsi[c],
         Requested(w), NEW file, NEW t, t = callback_http(s, c, file)
  PROVE  Served(s, t, c, u) /\ t.wsi[c].ret \in {0, -1}
<1> DEFINE exists == file # NoFile
           s1 == libwebsockets_serve_http_file(s, c, exists)
<1>1. t = IF s1.wsi[c].ret # 0 THEN Ret(s1, c, -1) ELSE s1
  BY DEF callback_http, Ret
<1>2. exists \in BOOLEAN
  OBVIOUS
<1> HIDE DEF exists
<1>3. Served(s, s1, c, u)
  BY <1>2, Opened
<1> HIDE DEF s1
<1>4. CASE s1.wsi[c].ret # 0
  <2>1. t = Ret(s1, c, -1)
    BY <1>1, <1>4
  <2> QED BY ONLY <1>3, <2>1, c \in Conns, ServedRet
<1> QED BY <1>1, <1>3, <1>4

-----------------------------------------------------------------------------
(* The header. *)

\* What becomes of a connection of which r units are read.
Parsed(s, t, c, u, r) ==
  /\ Only(s, t, c) /\ Row(t.wsi[c]) /\ Live(t.wsi[c])
  /\ t.wsi[c].net = s.wsi[c].net /\ t.wsi[c].in = s.wsi[c].in
  /\ Roomy(c, s.wsi[c]) => Roomy(c, t.wsi[c])
  /\ t.wsi[c].clash => Overlaps(c, u)
  /\ ~t.wsi[c].clash => /\ Closable(t.wsi[c], u)
                        /\ t.wsi[c].ret >= 0 => Alive(t.wsi[c], u, r)

\* A unit is parsed after a change that the script does not see.
LEMMA ParsedVia ==
  ASSUME NEW s, NEW x, NEW t, NEW c \in Conns, NEW u, NEW r, Only(s, x, c),
         x.wsi[c].net = s.wsi[c].net, x.wsi[c].in = s.wsi[c].in,
         Roomy(c, s.wsi[c]) => Roomy(c, x.wsi[c]), Parsed(x, t, c, u, r)
  PROVE  Parsed(s, t, c, u, r)
BY OnlyTrans DEF Parsed

\* A request of which the file is served is parsed.
LEMMA ServedParsed ==
  ASSUME NEW s, NEW t, NEW c \in Conns, NEW u, Served(s, t, c, u), t.wsi[c].ret \in {0, -1}
  PROVE  Parsed(s, t, c, u, Len(u))
<1> DEFINE w == s.wsi[c]
           v == t.wsi[c]
<1>1. /\ Only(s, t, c) /\ Row(v) /\ Live(v) /\ Closable(v, u) /\ ~v.clash
      /\ Roomy(c, w) => Roomy(c, v)
      /\ v.ret \in {0, GoesOn} => Filing(v, u, Len(u))
  BY DEF Served
<1>2. v.net = w.net /\ v.in = w.in
  BY DEF Served, Keeps, Fields, FileFields, SendFields
<1>3. v.ret >= 0 => Alive(v, u, Len(u))
  BY <1>1 DEF Alive
<1> QED BY <1>1, <1>2, <1>3 DEF Parsed

\* libwebsocket_set_timeout sets the timeout.
LEMMA TimeSet ==
  ASSUME NEW s, Lib(s), TableInv(s), NEW c \in Conns, NEW w, w = s.wsi[c],
         NEW secs \in Expired .. NoTimeout,
         NEW t, t = libwebsocket_set_timeout(s, c, secs), NEW v, v = t.wsi[c]
  PROVE  Only(s, t, c) /\ Row(v) /\ Keeps(w, v, {"timeout"})
<1> DEFINE y == [w EXCEPT !.timeout = secs]
<1>1. t = Put(s, c, y)
  BY DEF libwebsocket_set_timeout, Put
<1>2. Keeps(w, y, {"timeout"}) /\ y.timeout = secs
  <2>1. Row(w)
    BY DEF Lib
  <2> QED BY <2>1 DEF Keeps, Row, Fields
<1> HIDE DEF y
<1>3. \A f \in {"timeout"} : y[f] \in Types(f)
  BY <1>2, TypesOf
<1>4. Live(w) <=> Live(y)
  BY <1>2 DEF Live, Keeps, Fields
<1>5. Keeps(w, y, {"timeout"})
  BY <1>2
<1>6. Only(s, t, c) /\ t.wsi[c] = y /\ Row(y)
  BY ONLY Lib(s), TableInv(s), c \in Conns, w = s.wsi[c], <1>1, <1>3, <1>4, <1>5, Edit
<1> QED BY <1>5, <1>6

\* A request that is turned down.
LEMMA Bailed ==
  ASSUME NEW s, Lib(s), TableInv(s), NEW c \in Conns, NEW u, NEW w, w = s.wsi[c], Live(w),
         Closable(w, u), ~w.clash, NEW q, NEW t, t = Ret(s, c, -1)
  PROVE  Parsed(s, t, c, u, q)
<1> DEFINE v == t.wsi[c]
<1>1. Only(s, t, c) /\ Row(v) /\ Keeps(w, v, {"ret"}) /\ v.ret = -1
  BY ONLY Lib(s), TableInv(s), c \in Conns, w = s.wsi[c], t = Ret(s, c, -1), -1 \in Int, Returns
<1> HIDE DEF v
<1>2. /\ v.state = w.state /\ v.hears = w.hears /\ v.whole = w.whole /\ v.wire = w.wire
      /\ v.got = w.got /\ v.clash = w.clash /\ v.room = w.room /\ v.trunc = w.trunc
      /\ v.net = w.net /\ v.in = w.in
  BY <1>1 DEF Keeps, Fields
<1>3. Live(v) /\ Closable(v, u) /\ ~v.clash /\ (Roomy(c, w) => Roomy(c, v)) /\ ~(v.ret >= 0)
  BY <1>1, <1>2 DEF Live, Closable, Told, Roomy
<1> QED BY <1>1, <1>2, <1>3 DEF Parsed, v

\* A frame comes after the end of the header.
LEMMA NoFrames ==
  ASSUME NEW u, Proper(u), NEW r \in 0 .. Len(u), \A i \in 1 .. r : u[i][1] # "end",
         r < Len(u), u[r + 1][1] = "end"
  PROVE  \A n \in Heads(u) : ~(n <= r + 1)
<1>1. /\ Len(u) \in Nat /\ DOMAIN u = 1 .. Len(u)
  BY DEF Proper
<1>2. \A j \in 1 .. Len(u) :
        \/ u[j][1] \in {"get", "upgrade", "unknown", "end"}
        \/ \E i \in 1 .. j - 1 : u[i][1] = "end"
  BY <1>1 DEF Proper, OneRequest
<1>3. ASSUME NEW n \in Heads(u), n <= r + 1
      PROVE  FALSE
  <2>1. n \in 1 .. Len(u) /\ u[n][1] = "head"
    BY <1>1 DEF Heads
  <2>2. PICK i \in 1 .. n - 1 : u[i][1] = "end"
    BY <1>2, <2>1
  <2>3. i \in 1 .. r
    BY <1>1, <1>3, <2>1, <2>2
  <2> QED BY <2>2, <2>3
<1> QED BY <1>3

\* After the header nothing of a frame is read, and nothing heard.
LEMMA FirstFrame ==
  ASSUME NEW u, Proper(u), NEW q \in Nat, \A n \in Heads(u) : ~(n <= q),
         NEW rx, rx.left = -1, rx.buffer = << >>, NEW got, got = << >>
  PROVE  Framed(rx, u, q) /\ Heard(got, u, q)
<1>1. Framed(rx, u, q)
  BY DEF Framed
<1>2. Complete(u, q) = {}
  <2>1. ASSUME NEW n \in Texts(u), n + u[n][3] <= q
        PROVE  FALSE
    <3>1. n \in DOMAIN u /\ u[n][1] = "head" /\ u[n][3] > 0
      BY <2>1 DEF Texts
    <3>2. DOMAIN u = 1 .. Len(u) /\ Len(u) \in Nat
      BY DEF Proper
    <3>3. u[n][3] \in Nat
      BY <3>1 DEF Proper, WholeFrames
    <3>4. n \in Heads(u) /\ n \in Nat
      BY <3>1, <3>2 DEF Heads
    <3>5. n <= q
      BY <2>1, <3>3, <3>4
    <3> QED BY <3>4, <3>5
  <2> QED BY <2>1 DEF Complete
<1>3. Cardinality({}) = 0
  BY FS_EmptySet
<1> QED BY <1>1, <1>2, <1>3 DEF Heard

\* The handshake, when the end of the header is read.
LEMMA Handshaken ==
  ASSUME NEW s, Lib(s), TableInv(s), NEW c \in Conns, NEW u, Proper(u), NEW r \in 0 .. Len(u),
         r < Len(u), u[r + 1][1] = "end", NEW w, w = s.wsi[c], Live(w), Asking(w, u, r), ~w.clash,
         NEW hdr, NEW t, t = HandshakeWebsocket(s, c, hdr)
  PROVE  Parsed(s, t, c, u, r + 1)
<1>1. Row(w) /\ Closable(w, u)
  BY AliveClosable DEF Lib, Alive
<1>2. CASE ~\E line \in Upgrades(hdr) : Speaks(line)
  <2>1. t = Ret(s, c, -1)
    BY <1>2 DEF HandshakeWebsocket, Ret
  <2> QED BY ONLY <1>1, <2>1, Bailed, Lib(s), TableInv(s), c \in Conns, w = s.wsi[c], Live(w), ~w.clash
<1>3. CASE \E line \in Upgrades(hdr) : Speaks(line)
  <2> DEFINE units == << <<"101">> >>
             s1 == lws_issue_raw(s, c, units)
             w1 == s1.wsi[c]
             y == [w1 EXCEPT !.state = "established", !.mode = "ws", !.hears = TRUE, !.hdr = {},
                             !.ret = 0]
             v == t.wsi[c]
  <2>1. t = IF w1.ret < 0 THEN s1 ELSE Shaken(s1, c)
    BY <1>3 DEF HandshakeWebsocket, WriteHttp
  <2>2. units \in Seq(Outs)
    BY OutFacts
  <2>3. Len(units) = 1
    OBVIOUS
  <2> HIDE DEF units
  <2>4. /\ Only(s, s1, c) /\ Keeps(w, w1, SendFields) /\ Row(w1)
        /\ Roomy(c, w) => Roomy(c, w1)
        /\ Refused(w, w1) \/ Accepted(w, w1, units)
    BY <2>2, IssueRaw
  <2>5. Lib(s1) /\ TableInv(s1)
    BY <2>4 DEF Only
  <2>6. ~w1.clash
    BY <2>4 DEF Refused, Accepted, Asking
  <2>7. /\ \A f \in {"net", "in", "state", "mode", "hears", "hdr", "got", "whole", "handed", "rx"} :
              w1[f] = w[f]
    BY <2>4 DEF Keeps, Fields, SendFields
  <2>77. w1.state = "http" /\ w1.rx.left = -1 /\ w1.rx.buffer = << >> /\ w1.got = << >>
         /\ ~w1.whole /\ ~w1.hears /\ w1.handed = << >> /\ w1.net = w.net /\ w1.in = w.in
    BY <2>7 DEF Asking, Live
  <2> HIDE DEF s1
  <2>8. CASE Refused(w, w1)
    <3>1. t = s1 /\ w1.ret = -1
      BY <2>1, <2>8 DEF Refused
    <3>2. Closable(w1, u) /\ Live(w1)
      <4>1. Heard(w1.got, u, 0) /\ 0 \in 0 .. Len(u)
        BY <2>77, HeardNothing DEF Proper
      <4> QED BY <2>77, <4>1 DEF Closable, Live
    <3> QED BY <2>4, <2>6, <2>77, <3>1, <3>2 DEF Parsed
  <2>9. CASE Accepted(w, w1, units)
    <3> HIDE DEF w1, v
    <3>1. t = Shaken(s1, c)
      BY <2>1, <2>3, <2>9 DEF Accepted
    <3>2. t = Put(s1, c, y)
      <4>1. /\ s1 = [fds |-> s1.fds, pos |-> s1.pos, wsi |-> s1.wsi]
            /\ s1.wsi = [d \in Conns |-> s1.wsi[d]]
        BY <2>5 DEF Lib
      <4>2. t = [s1 EXCEPT !.wsi[c] = [s1.wsi[c] EXCEPT !.state = "established", !.mode = "ws",
                                       !.hears = TRUE, !.hdr = {}, !.ret = 0]]
        BY ONLY <3>1, <4>1, c \in Conns DEF Shaken
      <4> QED BY <4>2 DEF Put, w1
    <3>3. /\ Keeps(w1, y, {"state", "mode", "hears", "hdr", "ret"})
          /\ y.state = "established" /\ y.mode = "ws" /\ y.hears = TRUE /\ y.hdr = {} /\ y.ret = 0
      BY <2>4 DEF Keeps, Row, Fields
    <3> HIDE DEF y
    <3>4. Row(y)
      <4>1. y["state"] \in Types("state")
        BY <3>3, TypesOf
      <4>2. y["mode"] \in Types("mode")
        BY <3>3, TypesOf
      <4>3. y["hears"] \in Types("hears")
        BY <3>3, TypesOf
      <4>4. y["hdr"] \in Types("hdr")
        BY <3>3, TypesOf
      <4>5. y["ret"] \in Types("ret")
        BY <3>3, TypesOf
      <4>6. \A f \in {"state", "mode", "hears", "hdr", "ret"} : y[f] \in Types(f)
        BY <4>1, <4>2, <4>3, <4>4, <4>5
      <4>7. Keeps(w1, y, {"state", "mode", "hears", "hdr", "ret"})
        BY <3>3
      <4> QED BY ONLY <2>4, <4>6, <4>7, RowEdit
    <3>5. Only(s1, t, c) /\ v = y
      <4>1. Live(w1) <=> Live(y)
        BY <2>77, <3>3 DEF Live
      <4>2. w1 = s1.wsi[c]
        BY DEF w1
      <4>3. Only(s1, t, c) /\ t.wsi[c] = y
        BY ONLY <2>5, c \in Conns, <3>2, <3>4, <4>1, <4>2, RowSet
      <4> QED BY <4>3 DEF v
    <3>6. Only(s, t, c)
      BY <2>4, <3>5, OnlyTrans
    <3>7. /\ y.wire = w1.wire /\ y.trunc = w1.trunc /\ y.room = w1.room /\ y.clash = w1.clash
          /\ y.net = w1.net /\ y.in = w1.in /\ y.rx = w1.rx /\ y.got = w1.got
          /\ y.handed = w1.handed /\ y.whole = w1.whole
      BY <3>3 DEF Keeps, Fields
    <3>8. InOrder(y)
      <4>1. w1.wire \o w1.trunc = << >> \o units
        BY <2>9 DEF Accepted, Asking
      <4>2. << >> \o units = units /\ units \o << >> = units
        BY <2>2, ConcatEmptySeq
      <4> QED BY <2>77, <3>7, <4>1, <4>2 DEF InOrder, units
    <3>9. Framed(y.rx, u, r + 1) /\ Heard(y.got, u, r + 1)
      <4>1. \A n \in Heads(u) : ~(n <= r + 1)
        BY NoFrames DEF Asking
      <4>2. r + 1 \in Nat
        OBVIOUS
      <4> DEFINE rx == y.rx
                 got == y.got
      <4>3. rx.left = -1 /\ rx.buffer = << >> /\ got = << >>
        BY <2>77, <3>7
      <4> HIDE DEF rx, got
      <4>4. Framed(rx, u, r + 1) /\ Heard(got, u, r + 1)
        BY ONLY Proper(u), <4>1, <4>2, <4>3, FirstFrame
      <4> QED BY <4>4 DEF rx, got
    <3>10. Talking(y, u, r + 1)
      <4>1. r + 1 \in 1 .. r + 1
        OBVIOUS
      <4> QED BY <2>77, <3>3, <3>7, <3>8, <3>9, <4>1 DEF Talking
    <3>11. Closable(y, u)
      <4>1. r + 1 \in 0 .. Len(u)
        BY DEF Proper
      <4> QED BY <3>10, <4>1, AliveClosable DEF Alive
    <3>12. Roomy(c, w) => Roomy(c, y)
      BY <2>4, <3>7 DEF Roomy
    <3>13. Live(y)
      BY <3>3 DEF Live
    <3> QED BY <2>6, <2>77, <3>4, <3>5, <3>6, <3>7, <3>10, <3>11, <3>12, <3>13 DEF Parsed, v, Alive
  <2> QED BY <2>4, <2>8, <2>9
<1> QED BY <1>2, <1>3

\* The answer to a request for a file, when the end of its header is read.
LEMMA FileAsked ==
  ASSUME NEW s, Lib(s), TableInv(s), NEW c \in Conns, NEW u, Proper(u), NEW r \in 0 .. Len(u),
         r + 1 = Len(u), NEW w, w = s.wsi[c], Live(w), Asking(w, u, r), ~w.clash,
         NEW hdr, NEW t, t = HandshakeHttp(s, c, hdr)
  PROVE  Parsed(s, t, c, u, r + 1)
<1> DEFINE file == (CHOOSE line \in hdr : line[1] = "get")[2]
           s1 == libwebsocket_set_timeout(s, c, Awaiting)
           w1 == s1.wsi[c]
           s2 == [s1 EXCEPT !.wsi[c].mode = "accepted", !.wsi[c].hdr = {}]
           m == [w1 EXCEPT !.mode = "accepted", !.hdr = {}]
<1>1. t = callback_http(s2, c, file)
  BY DEF HandshakeHttp
<1> HIDE DEF file
<1>2. Only(s, s1, c) /\ Row(w1) /\ Keeps(w, w1, {"timeout"})
  <2>1. Awaiting \in Expired .. NoTimeout
    BY OutputAssumption DEF Expired, NoTimeout
  <2> QED BY <2>1, TimeSet
<1>3. Lib(s1) /\ TableInv(s1)
  BY <1>2 DEF Only
<1> HIDE DEF s1
<1>4. s2 = Put(s1, c, m)
  <2>1. /\ s1 = [fds |-> s1.fds, pos |-> s1.pos, wsi |-> s1.wsi]
        /\ s1.wsi = [d \in Conns |-> s1.wsi[d]]
    BY <1>3 DEF Lib
  <2> QED BY ONLY <2>1, c \in Conns DEF Put
<1>0. w1 = s1.wsi[c]
  OBVIOUS
<1> HIDE DEF w1
<1>5. Keeps(w1, m, {"mode", "hdr"}) /\ m.mode = "accepted" /\ m.hdr = {}
  BY <1>2 DEF Keeps, Row, Fields
<1> HIDE DEF m, s2
<1>6. Row(m)
  <2>1. m["mode"] \in Types("mode")
    BY <1>5, TypesOf
  <2>2. m["hdr"] \in Types("hdr")
    BY <1>5, TypesOf
  <2>3. \A f \in {"mode", "hdr"} : m[f] \in Types(f)
    BY <2>1, <2>2
  <2>4. Keeps(w1, m, {"mode", "hdr"})
    BY <1>5
  <2> QED BY ONLY <1>2, <2>3, <2>4, RowEdit
<1>7. \A f \in Fields \ {"mode", "hdr", "timeout"} : m[f] = w[f]
  BY <1>2, <1>5 DEF Keeps
<1>8. /\ m.state = w.state /\ m.hears = w.hears /\ m.whole = w.whole /\ m.wire = w.wire
      /\ m.trunc = w.trunc /\ m.got = w.got /\ m.clash = w.clash /\ m.room = w.room
      /\ m.net = w.net /\ m.in = w.in
  BY <1>7 DEF Fields
<1>9. Only(s1, s2, c) /\ s2.wsi[c] = m
  <2>1. Live(w1) <=> Live(m)
    BY <1>5 DEF Live, Keeps, Fields
  <2> QED BY ONLY <1>0, <1>3, <1>4, <1>6, <2>1, c \in Conns, RowSet
<1>10. Only(s, s2, c) /\ Lib(s2) /\ TableInv(s2)
  <2>1. Only(s, s2, c)
    BY <1>2, <1>9, OnlyTrans
  <2> QED BY <2>1 DEF Only
<1>11. Requested(m)
  BY <1>5, <1>8 DEF Requested, Asking, Live
<1>12. Served(s2, t, c, u) /\ t.wsi[c].ret \in {0, -1}
  BY ONLY <1>1, <1>9, <1>10, <1>11, c \in Conns, Proper(u), CallbackHttp
<1>13. Parsed(s2, t, c, u, r + 1)
  BY <1>12, ServedParsed
<1>14. Roomy(c, w) => Roomy(c, m)
  BY <1>8 DEF Roomy
<1> QED BY <1>8, <1>9, <1>10, <1>13, <1>14, ParsedVia

\* The header lines, with one more unit.
LEMMA HeaderGrows ==
  ASSUME NEW u, NEW r \in Nat
  PROVE  Header(u, r + 1) = IF u[r + 1][1] \in {"get", "upgrade"}
                            THEN Header(u, r) \cup {u[r + 1]}
                            ELSE Header(u, r)
<1> DEFINE Is(j) == u[j][1] \in {"get", "upgrade"}
<1>1. \A x : x \in Header(u, r) <=> \E i \in 1 .. r : Is(i) /\ x = u[i]
  BY DEF Header
<1>2. \A x : x \in Header(u, r + 1) <=> \E i \in 1 .. r + 1 : Is(i) /\ x = u[i]
  BY DEF Header
<1>3. \A i : i \in 1 .. r + 1 <=> i \in 1 .. r \/ i = r + 1
  OBVIOUS
<1>4. CASE Is(r + 1)
  <2>1. \A x : x \in Header(u, r + 1) <=> x \in Header(u, r) \/ x = u[r + 1]
    <3> HIDE DEF Is
    <3> QED BY <1>1, <1>2, <1>3, <1>4
  <2>2. Header(u, r + 1) = Header(u, r) \cup {u[r + 1]}
    BY <2>1
  <2> QED BY <1>4, <2>2
<1>5. CASE ~Is(r + 1)
  <2>1. \A x : x \in Header(u, r + 1) <=> x \in Header(u, r)
    <3> HIDE DEF Is
    <3> QED BY <1>1, <1>2, <1>3, <1>5
  <2>2. Header(u, r + 1) = Header(u, r)
    <3> DEFINE A == Header(u, r + 1)
               B == Header(u, r)
    <3>1. A \subseteq B /\ B \subseteq A
      BY <2>1
    <3> HIDE DEF A, B
    <3>2. A = B
      BY <3>1
    <3> QED BY <3>2 DEF A, B
  <2> QED BY <1>5, <2>2
<1> QED BY <1>4, <1>5

\* One line of the header.
LEMMA LineRead ==
  ASSUME NEW s, Lib(s), TableInv(s), NEW c \in Conns, NEW u, Proper(u), NEW r \in 0 .. Len(u),
         r < Len(u), NEW w, w = s.wsi[c], Live(w), Asking(w, u, r), ~w.clash,
         NEW line, line = u[r + 1], NEW t, t = lws_handshake_server(s, c, line)
  PROVE  Parsed(s, t, c, u, r + 1)
<1> DEFINE hdr == w.hdr
           next == libwebsocket_parse(hdr, line)
           free == libwebsocket_set_timeout(s, c, NoTimeout)
           w1 == free.wsi[c]
<1>1. /\ t = IF ParseFails(hdr, line)
             THEN Ret(s, c, -1)
             ELSE IF line[1] # "end"
             THEN [s EXCEPT !.wsi[c].hdr = next, !.wsi[c].ret = 0]
             ELSE IF Upgrades(next) # {}
             THEN HandshakeWebsocket(free, c, next)
             ELSE IF MethodSeen(next)
             THEN HandshakeHttp(free, c, next)
             ELSE Ret(free, c, -1)
  BY DEF lws_handshake_server, Ret
<1>0. \A i \in 1 .. r : u[i][1] # "end"
  BY DEF Asking
<1>2. line[1] \in {"get", "upgrade", "unknown", "end"} /\ line \in Pieces
  BY <1>0, HeaderFacts
<1>6. line[1] = "end" => ((\A i \in 1 .. r : u[i][1] # "upgrade") => r + 1 = Len(u))
  BY <1>0, HeaderFacts
<1>7. Row(w)
  BY DEF Lib
<1>8. Closable(w, u)
  BY AliveClosable DEF Alive
<1>3. CASE ParseFails(hdr, line)
  <2>1. t = Ret(s, c, -1)
    BY <1>1, <1>3
  <2> QED BY ONLY <1>8, <2>1, Bailed, Lib(s), TableInv(s), c \in Conns, w = s.wsi[c], Live(w), ~w.clash
<1>4. CASE ~ParseFails(hdr, line) /\ line[1] # "end"
  <2> DEFINE y == [w EXCEPT !.hdr = next, !.ret = 0]
             v == t.wsi[c]
  <2>1. t = Put(s, c, y)
    <3>1. t = [s EXCEPT !.wsi[c].hdr = next, !.wsi[c].ret = 0]
      BY <1>1, <1>4
    <3>2. /\ s = [fds |-> s.fds, pos |-> s.pos, wsi |-> s.wsi]
          /\ s.wsi = [d \in Conns |-> s.wsi[d]]
      BY DEF Lib
    <3> HIDE DEF next
    <3> QED BY ONLY <3>1, <3>2, c \in Conns, w = s.wsi[c] DEF Put
  <2>2. next = Header(u, r + 1) /\ next \in SUBSET Pieces
    <3>1. hdr = Header(u, r)
      BY DEF Asking
    <3>2. hdr \in SUBSET Pieces
      BY <1>7, RowTypes
    <3>3. next = IF line[1] = "unknown" THEN hdr ELSE hdr \cup {line}
      BY <1>4 DEF libwebsocket_parse
    <3>4. Header(u, r + 1) = IF line[1] \in {"get", "upgrade"} THEN hdr \cup {line} ELSE hdr
      <4>1. r \in Nat
        OBVIOUS
      <4> HIDE DEF hdr
      <4> QED BY <3>1, <4>1, HeaderGrows
    <3> HIDE DEF hdr, next
    <3>5. next = Header(u, r + 1)
      BY <1>2, <1>4, <3>3, <3>4
    <3>6. next \in SUBSET Pieces
      BY <1>2, <3>2, <3>3
    <3> QED BY <3>5, <3>6
  <2> HIDE DEF next
  <2>3. Keeps(w, y, {"hdr", "ret"}) /\ y.hdr = next /\ y.ret = 0
    BY <1>7 DEF Keeps, Row, Fields
  <2> HIDE DEF y
  <2>4. Row(y)
    <3>1. y["hdr"] \in Types("hdr")
      BY <2>2, <2>3, TypesOf
    <3>2. y["ret"] \in Types("ret")
      BY <2>3, TypesOf
    <3>3. \A f \in {"hdr", "ret"} : y[f] \in Types(f)
      BY <3>1, <3>2
    <3>4. Keeps(w, y, {"hdr", "ret"})
      BY <2>3
    <3> QED BY ONLY <1>7, <3>3, <3>4, RowEdit
  <2>5. Only(s, t, c) /\ v = y /\ Live(y)
    <3>1. Live(w) <=> Live(y)
      BY <2>3 DEF Live, Keeps, Fields
    <3>2. Only(s, t, c) /\ t.wsi[c] = y
      BY ONLY Lib(s), TableInv(s), c \in Conns, w = s.wsi[c], <2>1, <2>4, <3>1, RowSet
    <3> QED BY <3>1, <3>2
  <2>6. /\ y.state = w.state /\ y.mode = w.mode /\ y.hears = w.hears /\ y.whole = w.whole
        /\ y.wire = w.wire /\ y.trunc = w.trunc /\ y.handed = w.handed /\ y.got = w.got
        /\ y.rx = w.rx /\ y.net = w.net /\ y.in = w.in /\ y.clash = w.clash /\ y.room = w.room
    BY <2>3 DEF Keeps, Fields
  <2>7. Asking(y, u, r + 1)
    <3>1. \A i \in 1 .. r + 1 : u[i][1] # "end"
      <4>1. \A i \in 1 .. r + 1 : i \in 1 .. r \/ i = r + 1
        OBVIOUS
      <4> QED BY <1>4, <4>1 DEF Asking
    <3> QED BY <2>2, <2>3, <2>6, <3>1 DEF Asking
  <2>8. Closable(y, u)
    <3>1. r + 1 \in 0 .. Len(u)
      BY DEF Proper
    <3> QED BY <2>7, <3>1, AliveClosable DEF Alive
  <2>9. Roomy(c, w) => Roomy(c, y)
    BY <2>6 DEF Roomy
  <2> HIDE DEF v
  <2> QED BY <2>4, <2>5, <2>6, <2>7, <2>8, <2>9 DEF Parsed, v, Alive
<1>5. CASE ~ParseFails(hdr, line) /\ line[1] = "end"
  <2>1. next = hdr /\ hdr = Header(u, r)
    BY <1>5 DEF libwebsocket_parse, Asking
  <2>2. Only(s, free, c) /\ Row(w1) /\ Keeps(w, w1, {"timeout"})
    <3>1. NoTimeout \in Expired .. NoTimeout
      BY OutputAssumption DEF Expired, NoTimeout
    <3> QED BY <3>1, TimeSet
  <2>3. Lib(free) /\ TableInv(free)
    BY <2>2 DEF Only
  <2> HIDE DEF free
  <2>4. w1 = free.wsi[c]
    OBVIOUS
  <2> HIDE DEF w1
  <2>5. /\ w1.state = w.state /\ w1.mode = w.mode /\ w1.hears = w.hears /\ w1.whole = w.whole
        /\ w1.wire = w.wire /\ w1.trunc = w.trunc /\ w1.handed = w.handed /\ w1.got = w.got
        /\ w1.rx = w.rx /\ w1.net = w.net /\ w1.in = w.in /\ w1.clash = w.clash
        /\ w1.room = w.room /\ w1.hdr = w.hdr
    BY <2>2 DEF Keeps, Fields
  <2>6. Asking(w1, u, r) /\ Live(w1) /\ ~w1.clash /\ (Roomy(c, w) => Roomy(c, w1))
    BY <2>5 DEF Asking, Live, Roomy
  <2>7. Closable(w1, u)
    BY <2>6, AliveClosable DEF Alive
  <2>8. Parsed(free, t, c, u, r + 1)
    <3>1. CASE Upgrades(next) # {}
      <4>1. t = HandshakeWebsocket(free, c, next)
        BY <1>1, <1>5, <3>1
      <4>2. u[r + 1][1] = "end"
        BY <1>5
      <4> HIDE DEF next
      <4> QED BY ONLY <2>3, <2>4, <2>6, <4>1, <4>2, c \in Conns, Proper(u), r \in 0 .. Len(u), r < Len(u),
                      Handshaken
    <3>2. CASE Upgrades(next) = {} /\ MethodSeen(next)
      <4>1. t = HandshakeHttp(free, c, next)
        BY <1>1, <1>5, <3>2
      <4>2. r + 1 = Len(u)
        <5>1. \A i \in 1 .. r : u[i][1] # "upgrade"
          BY <2>1, <3>2 DEF Upgrades, Header
        <5> QED BY <1>5, <1>6, <5>1
      <4> HIDE DEF next
      <4> QED BY ONLY <2>3, <2>4, <2>6, <4>1, <4>2, c \in Conns, Proper(u), r \in 0 .. Len(u), FileAsked
    <3>3. CASE Upgrades(next) = {} /\ ~MethodSeen(next)
      <4>1. t = Ret(free, c, -1)
        BY <1>1, <1>5, <3>3
      <4> QED BY ONLY <2>3, <2>4, <2>6, <2>7, <4>1, c \in Conns, Bailed
    <3> QED BY <3>1, <3>2, <3>3
  <2> QED BY <2>2, <2>4, <2>5, <2>6, <2>8, ParsedVia
<1> QED BY <1>3, <1>4, <1>5

-----------------------------------------------------------------------------
(* The frames of a script. *)

\* A proper script's frames.
LEMMA FrameFacts ==
  ASSUME NEW u, Proper(u)
  PROVE  /\ Len(u) \in Nat /\ DOMAIN u = 1 .. Len(u)
         /\ \A n \in Heads(u) : /\ n \in 1 .. Len(u) /\ u[n][1] = "head" /\ u[n][3] \in Nat
                                /\ u[n][2] \in Control \cup {"text"}
         /\ \A j \in 1 .. Len(u) :
              u[j][1] = "byte" <=> \E n \in Heads(u) : n < j /\ j <= n + u[n][3]
         /\ \A i, j \in 1 .. Len(u) : u[i][1] = "end" /\ i < j => u[j][1] \in {"head", "byte"}
         /\ \A j \in 1 .. Len(u) : u[j][1] = "byte" => u[j][2] \in Bytes
<1> DEFINE B(n) == {j \in DOMAIN u : n < j /\ j <= n + u[n][3]}
           W == UNION {B(n) : n \in Heads(u)}
<1>1. Len(u) \in Nat /\ DOMAIN u = 1 .. Len(u) /\ \A j \in 1 .. Len(u) : u[j] \in Pieces
  BY DEF Proper
<1>2. /\ \A n \in Heads(u) : u[n][2] \in Control \cup {"text"} /\ u[n][3] \in Nat
      /\ {j \in DOMAIN u : u[j][1] = "byte"} = W
  BY DEF Proper, WholeFrames, Heads
<1>3. \A j : j \in W <=> \E n \in Heads(u) : j \in B(n)
  OBVIOUS
<1>4. \A j \in 1 .. Len(u) : u[j][1] = "byte" <=> \E n \in Heads(u) : n < j /\ j <= n + u[n][3]
  <2>1. \A j \in 1 .. Len(u) : u[j][1] = "byte" <=> j \in W
    BY <1>1, <1>2
  <2>2. \A j \in 1 .. Len(u) : \A n : j \in B(n) <=> n < j /\ j <= n + u[n][3]
    BY <1>1
  <2> HIDE DEF W, B
  <2> QED BY <1>3, <2>1, <2>2
<1>5. \A i, j \in 1 .. Len(u) : u[i][1] = "end" /\ i < j => u[j][1] \in {"head", "byte"}
  BY <1>1 DEF Proper, OneRequest
<1>6. \A j \in 1 .. Len(u) : u[j][1] = "byte" => u[j][2] \in Bytes
  BY <1>1 DEF Bytes
<1>7. \A n \in Heads(u) : n \in 1 .. Len(u) /\ u[n][1] = "head"
  BY <1>1 DEF Heads
<1> QED BY <1>1, <1>2, <1>4, <1>5, <1>6, <1>7

\* The r-th unit is in the frame whose head is at h, or is its head.
InFrame(rx, u, r, h) ==
  /\ h \in Heads(u) /\ h <= r /\ r <= h + u[h][3] /\ rx.left = h + u[h][3] - r
  /\ rx.opcode = u[h][2] /\ rx.buffer = [k \in 1 .. r - h |-> u[h + k][2]]
  /\ \A n \in Heads(u) : n < h => n + u[n][3] < h

\* Within a frame there is no other.
LEMMA OneFrame ==
  ASSUME NEW u, Proper(u), NEW h \in Heads(u), NEW q \in 0 .. Len(u), q <= h + u[h][3],
         NEW n \in Heads(u), n <= q
  PROVE  n <= h
<1>1. n \in 1 .. Len(u) /\ h \in 1 .. Len(u) /\ u[n][1] = "head" /\ u[h][3] \in Nat /\ Len(u) \in Nat
  BY FrameFacts
<1>2. ASSUME ~(n <= h)
      PROVE  FALSE
  <2>1. h < n /\ n <= h + u[h][3]
    BY <1>1, <1>2
  <2>2. u[n][1] = "byte"
    BY <1>1, <2>1, FrameFacts
  <2> QED BY <1>1, <2>2
<1> QED BY <1>2

\* A byte that does not end its frame.
LEMMA FrameMid ==
  ASSUME NEW u, Proper(u), NEW r \in 0 .. Len(u), r + 1 <= Len(u), NEW rx, NEW h,
         InFrame(rx, u, r + 1, h), r + 1 < h + u[h][3], NEW got, Heard(got, u, r)
  PROVE  Heard(got, u, r + 1) /\ Framed(rx, u, r + 1)
<1>1. Framed(rx, u, r + 1)
  BY DEF Framed, InFrame
<1>2. Len(u) \in Nat /\ r \in Nat /\ h \in Heads(u) /\ h <= r + 1
  BY FrameFacts DEF InFrame
<1>3. ASSUME NEW n \in Texts(u)
      PROVE  n + u[n][3] <= r + 1 <=> n + u[n][3] <= r
  <2>1. n \in Heads(u) /\ u[n][3] > 0
    BY DEF Texts, Heads
  <2>2. n \in 1 .. Len(u) /\ h \in 1 .. Len(u) /\ u[n][3] \in Nat /\ u[h][3] \in Nat
    BY <1>2, <2>1, FrameFacts
  <2>3. ASSUME n + u[n][3] = r + 1
        PROVE  FALSE
    <3>1. n <= r + 1 /\ r + 1 \in 0 .. Len(u) /\ r + 1 <= h + u[h][3]
      BY <1>2, <2>2, <2>3
    <3>2. n <= h
      BY <1>2, <2>1, <3>1, OneFrame
    <3>3. CASE n = h
      BY <1>2, <2>2, <2>3, <3>3
    <3>4. CASE n # h
      <4>1. n < h
        BY <2>2, <3>2, <3>4
      <4>2. n + u[n][3] < h
        BY <2>1, <4>1 DEF InFrame
      <4> QED BY <1>2, <2>2, <2>3, <4>2
    <3> QED BY <3>3, <3>4
  <2> QED BY <1>2, <2>2, <2>3
<1>4. Complete(u, r + 1) = Complete(u, r)
  BY <1>3 DEF Complete
<1> QED BY <1>1, <1>4 DEF Heard

\* A unit that ends a frame: if it is a text, it is the next message to be heard.
LEMMA FrameEnds ==
  ASSUME NEW u, Proper(u), NEW r \in 0 .. Len(u), r + 1 <= Len(u), NEW rx, NEW h,
         InFrame(rx, u, r + 1, h), r + 1 = h + u[h][3], NEW S, NEW got \in Seq(S), Heard(got, u, r)
  PROVE  /\ \A n \in Heads(u) : n <= r + 1 => n + u[n][3] <= r + 1
         /\ h \notin Texts(u) => Heard(got, u, r + 1)
         /\ h \in Texts(u) => Heard(Append(got, Payload(u, h)), u, r + 1)
<1> DEFINE q == r + 1
           L == Len(u)
<1>1. L \in Nat /\ r \in Nat /\ q \in 0 .. L /\ h \in Heads(u) /\ h <= q /\ q <= h + u[h][3]
      /\ h \in 1 .. L /\ u[h][3] \in Nat
  BY FrameFacts DEF InFrame
<1>2. \A n \in Heads(u) : n < h => n + u[n][3] < h
  BY DEF InFrame
<1>3. \A n \in Heads(u) : n \in 1 .. L /\ u[n][3] \in Nat
  BY FrameFacts
<1>4. \A n \in Heads(u) : n <= q => n <= h
  BY <1>1, OneFrame
<1>5. \A n \in Heads(u) : n <= q => n + u[n][3] <= q
  <2>1. ASSUME NEW n \in Heads(u), n <= q
        PROVE  n + u[n][3] <= q
    <3>1. n <= h
      BY <1>4, <2>1
    <3>2. CASE n = h
      BY <1>1, <3>2
    <3>3. CASE n # h
      <4>1. n \in Nat /\ h \in Nat /\ u[n][3] \in Nat
        <5>1. n \in 1 .. L /\ u[n][3] \in Nat
          BY <1>3
        <5>2. h \in 1 .. L
          BY <1>1
        <5> HIDE DEF L
        <5> QED BY ONLY <5>1, <5>2
      <4>2. n < h
        BY ONLY <3>1, <3>3, <4>1
      <4>3. n + u[n][3] < h
        BY <1>2, <4>2
      <4> QED BY <1>1, <4>1, <4>3
    <3> QED BY <3>2, <3>3
  <2> QED BY <2>1
<1>6. Texts(u) \subseteq Heads(u)
  BY DEF Texts, Heads
<1>7. ASSUME NEW n \in Texts(u)
      PROVE  /\ n + u[n][3] <= q <=> n + u[n][3] <= r \/ n = h
             /\ ~(h + u[h][3] <= r)
             /\ n <= h <=> n + u[n][3] <= r \/ n = h
  <2>1. n \in Heads(u) /\ n \in 1 .. L /\ u[n][3] \in Nat
    BY <1>3, <1>6
  <2>2. n <= q => n <= h
    BY <1>4, <2>1
  <2>3. n < h => n + u[n][3] < h
    BY <1>2, <2>1
  <2>4. u[n][3] > 0
    BY DEF Texts
  <2> DEFINE a == u[n][3]
             b == u[h][3]
  <2>5. a \in Nat /\ b \in Nat /\ n \in Nat /\ h \in Nat /\ r \in Nat /\ r + 1 = h + b /\ a > 0
        /\ (n <= r + 1 => n <= h) /\ (n < h => n + a < h) /\ (n = h => a = b)
    BY <1>1, <2>1, <2>2, <2>3, <2>4
  <2> HIDE DEF a, b
  <2>6. /\ n + a <= r + 1 <=> n + a <= r \/ n = h
        /\ ~(h + b <= r)
        /\ n <= h <=> n + a <= r \/ n = h
    BY ONLY <2>5
  <2> QED BY <2>6 DEF a, b
<1>8. CASE h \notin Texts(u)
  <2>1. \A n \in Texts(u) : n + u[n][3] <= q <=> n + u[n][3] <= r
    BY <1>7, <1>8
  <2>2. Complete(u, q) = Complete(u, r)
    BY <2>1 DEF Complete
  <2> QED BY <1>5, <1>8, <2>2 DEF Heard
<1>9. CASE h \in Texts(u)
  <2> DEFINE C == Complete(u, r)
             D == Complete(u, q)
             p == Payload(u, h)
             g == Append(got, p)
  <2>1. D = C \cup {h} /\ h \notin C /\ {m \in Texts(u) : m <= h} = C \cup {h}
    <3>1. \A n \in Texts(u) : n \in D <=> n \in C \/ n = h
      BY <1>7 DEF Complete
    <3>2. h \notin C
      BY <1>7, <1>9 DEF Complete
    <3>3. \A n \in Texts(u) : n <= h <=> n \in C \/ n = h
      BY <1>7 DEF Complete
    <3>4. C \subseteq Texts(u) /\ D \subseteq Texts(u)
      BY DEF Complete
    <3> HIDE DEF C, D
    <3> QED BY <1>9, <3>1, <3>2, <3>3, <3>4
  <2>2. IsFiniteSet(C)
    <3>1. C \subseteq 1 .. L
      BY <1>3, <1>6 DEF Complete
    <3>2. IsFiniteSet(1 .. L)
      BY <1>1, FS_Interval
    <3> HIDE DEF C
    <3> QED BY <3>1, <3>2, FS_Subset
  <2>3. Len(got) = Cardinality(C) /\ Len(got) \in Nat
    BY DEF Heard
  <2>4. \A i \in 1 .. Len(got) : \E n \in C :
          Cardinality({m \in Texts(u) : m <= n}) = i /\ got[i] = Payload(u, n)
    BY DEF Heard
  <2> HIDE DEF C
  <2>5. Cardinality(C \cup {h}) = Len(got) + 1
    BY <2>1, <2>2, <2>3, FS_AddElement
  <2>6. /\ Len(g) = Len(got) + 1 /\ g[Len(got) + 1] = p
        /\ \A i \in 1 .. Len(got) : g[i] = got[i]
    <3> DEFINE T == S \cup {p}
    <3>1. got \in Seq(T) /\ p \in T
      OBVIOUS
    <3> HIDE DEF T, p
    <3> QED BY <3>1, AppendProperties
  <2>7. \A i \in 1 .. Len(g) : i \in 1 .. Len(got) \/ i = Len(got) + 1
    BY <2>3, <2>6
  <2> HIDE DEF g, D, p
  <2>8. \A i \in 1 .. Len(g) : \E n \in D :
          Cardinality({m \in Texts(u) : m <= n}) = i /\ g[i] = Payload(u, n)
    <3>1. ASSUME NEW i \in 1 .. Len(got)
          PROVE  \E n \in D : Cardinality({m \in Texts(u) : m <= n}) = i /\ g[i] = Payload(u, n)
      BY <2>1, <2>4, <2>6
    <3>2. Cardinality({m \in Texts(u) : m <= h}) = Len(got) + 1 /\ g[Len(got) + 1] = Payload(u, h)
      BY <2>1, <2>5, <2>6 DEF p
    <3> QED BY <2>1, <2>7, <3>1, <3>2
  <2>9. Heard(g, u, q)
    BY <2>1, <2>5, <2>6, <2>8 DEF Heard, D
  <2> QED BY <1>5, <1>9, <2>9 DEF g, p
<1> QED BY <1>8, <1>9

\* OneMore unit of a websocket belongs to one frame, as the parser counts.
LEMMA Stepped ==
  ASSUME NEW u, Proper(u), NEW r \in 0 .. Len(u), r < Len(u), \E i \in 1 .. r : u[i][1] = "end",
         NEW rx \in Types("rx"), Framed(rx, u, r), NEW more, more = OneMore(rx, u[r + 1])
  PROVE  more \in Types("rx") /\ \E h : InFrame(more, u, r + 1, h)
<1>0. Len(u) \in Nat
  BY FrameFacts
<1>1. /\ Len(u) \in Nat /\ r \in Nat /\ r + 1 \in 1 .. Len(u)
      /\ rx \in [opcode : Control \cup {"text"}, left : Nat \cup {-1}, buffer : Seq(Bytes)]
  <2>1. r \in Nat /\ r + 1 \in 1 .. Len(u)
    <3>1. r \in 0 .. Len(u) /\ r < Len(u)
      OBVIOUS
    <3> QED BY ONLY <1>0, <3>1
  <2>2. rx \in [opcode : Control \cup {"text"}, left : Nat \cup {-1}, buffer : Seq(Bytes)]
    BY TypesOf
  <2> QED BY <1>0, <2>1, <2>2
<1>2. CASE rx.left = -1
  <2>1. rx.buffer = << >> /\ \A n \in Heads(u) : n <= r => n + u[n][3] <= r
    <3>1. ASSUME NEW h \in Heads(u), r < h + u[h][3], rx.left = h + u[h][3] - r
          PROVE  FALSE
      <4>1. h \in 1 .. Len(u) /\ u[h][3] \in Nat
        BY FrameFacts
      <4> QED BY <1>1, <1>2, <3>1, <4>1
    <3> QED BY <3>1 DEF Framed
  <2>2. r + 1 \in Heads(u)
    <3>1. PICK i \in 1 .. r : u[i][1] = "end"
      OBVIOUS
    <3>2. i \in 1 .. Len(u) /\ i < r + 1
      BY <1>1
    <3>3. u[r + 1][1] \in {"head", "byte"}
      BY <1>1, <3>1, <3>2, FrameFacts
    <3>4. ASSUME u[r + 1][1] = "byte"
          PROVE  FALSE
      <4>1. PICK n \in Heads(u) : n < r + 1 /\ r + 1 <= n + u[n][3]
        BY <1>1, <3>4, FrameFacts
      <4>2. n \in 1 .. Len(u) /\ u[n][3] \in Nat
        BY FrameFacts
      <4>3. n <= r
        BY <1>1, <4>1, <4>2
      <4>4. n + u[n][3] <= r
        BY <2>1, <4>3
      <4> QED BY <1>1, <4>1, <4>2, <4>4
    <3> QED BY <1>1, <3>3, <3>4, FrameFacts DEF Heads
  <2> DEFINE h == r + 1
  <2>3. u[h][3] \in Nat /\ u[h][2] \in Control \cup {"text"}
    BY <2>2, FrameFacts
  <2>4. /\ more = [rx EXCEPT !.opcode = u[h][2], !.left = u[h][3]]
    BY <1>2 DEF OneMore
  <2>5. more.opcode = u[h][2] /\ more.left = u[h][3] /\ more.buffer = << >>
    BY <1>1, <2>1, <2>4
  <2>6. more \in Types("rx")
    BY <1>1, <2>3, <2>4, TypesOf
  <2>7. \A n \in Heads(u) : n < h => n + u[n][3] < h
    <3>1. ASSUME NEW n \in Heads(u), n < h
          PROVE  n + u[n][3] < h
      <4>1. n \in 1 .. Len(u) /\ u[n][3] \in Nat
        BY FrameFacts
      <4>2. n <= r
        BY <1>1, <3>1, <4>1
      <4>3. n + u[n][3] <= r
        BY <2>1, <4>2
      <4> QED BY <1>1, <4>1, <4>3
    <3> QED BY <3>1
  <2>8. [k \in 1 .. (r + 1) - h |-> u[h + k][2]] = << >>
    BY <1>1
  <2>9. h <= r + 1 /\ r + 1 <= h + u[h][3] /\ u[h][3] = h + u[h][3] - (r + 1)
    BY <1>1, <2>3
  <2>10. InFrame(more, u, r + 1, h)
    BY <2>2, <2>5, <2>7, <2>8, <2>9 DEF InFrame
  <2> QED BY <2>6, <2>10
<1>3. CASE rx.left # -1
  <2>1. PICK h \in Heads(u) :
          /\ h <= r /\ r < h + u[h][3] /\ rx.left = h + u[h][3] - r
          /\ rx.opcode = u[h][2] /\ rx.buffer = [k \in 1 .. r - h |-> u[h + k][2]]
          /\ \A n \in Heads(u) : n < h => n + u[n][3] < h
    BY <1>3 DEF Framed
  <2>2. h \in 1 .. Len(u) /\ u[h][3] \in Nat
    BY FrameFacts
  <2> DEFINE x == u[r + 1][2]
             b == rx.buffer
             n == r - h
             longer == [k \in 1 .. (r + 1) - h |-> u[h + k][2]]
  <2>3. x \in Bytes
    <3>1. h < r + 1 /\ r + 1 <= h + u[h][3]
      BY <1>1, <2>1, <2>2
    <3>2. u[r + 1][1] = "byte"
      BY <1>1, <3>1, FrameFacts
    <3> QED BY <1>1, <3>2, FrameFacts
  <2>4. n \in Nat /\ (r + 1) - h = n + 1 /\ h + (n + 1) = r + 1
    <3>1. r \in Nat /\ h \in Nat /\ h <= r
      BY <1>1, <2>1, <2>2
    <3> QED BY ONLY <3>1
  <2>5. b \in Seq(Bytes) /\ Len(b) = n /\ \A k \in 1 .. n : b[k] = u[h + k][2]
    <3>1. b \in Seq(Bytes)
      BY <1>1
    <3>2. b = [k \in 1 .. n |-> u[h + k][2]]
      BY <2>1
    <3> HIDE DEF b, n
    <3>3. DOMAIN b = 1 .. n
      BY <3>2
    <3>4. Len(b) = n
      BY <2>4, <3>1, <3>3, LenProperties
    <3> QED BY <3>1, <3>2, <3>4
  <2> HIDE DEF b, n, x
  <2>6. Append(b, x) = longer
    <3>1. /\ Append(b, x) \in Seq(Bytes) /\ Len(Append(b, x)) = n + 1
          /\ \A k \in 1 .. n : Append(b, x)[k] = b[k]
          /\ Append(b, x)[n + 1] = x
      BY <2>3, <2>5, AppendProperties
    <3>2. longer = [k \in 1 .. n + 1 |-> u[h + k][2]]
      BY <2>4
    <3>3. \A k \in 1 .. n + 1 : k \in 1 .. n \/ k = n + 1
      BY <2>4
    <3>4. u[h + (n + 1)][2] = x
      BY <2>4 DEF x
    <3>5. \A k \in 1 .. n + 1 : u[h + k][2] = Append(b, x)[k]
      BY <2>5, <3>1, <3>3, <3>4
    <3> HIDE DEF longer
    <3>6. \A k \in 1 .. n + 1 : longer[k] = Append(b, x)[k]
      BY <3>2, <3>5
    <3>7. n + 1 \in Nat /\ \A k \in 1 .. n + 1 : Append(b, x)[k] \in Bytes
      BY <2>3, <2>4, <2>5, <3>1, <3>3
    <3>8. longer \in Seq(Bytes) /\ Len(longer) = n + 1
      <4>1. \A k \in 1 .. n + 1 : longer[k] \in Bytes
        BY <3>6, <3>7
      <4>2. longer \in [1 .. n + 1 -> Bytes]
        BY <3>2, <4>1
      <4> QED BY <3>7, <4>2, IsASeq, LenProperties
    <3> QED BY <3>1, <3>6, <3>8, SeqEqual
  <2> HIDE DEF longer
  <2>7. more = [rx EXCEPT !.buffer = Append(@, x), !.left = @ - 1]
    BY <1>3 DEF OneMore, x
  <2>8. more.opcode = rx.opcode /\ more.left = rx.left - 1 /\ more.buffer = longer
    BY <1>1, <2>6, <2>7 DEF b
  <2>9. rx.left - 1 \in Nat /\ rx.left - 1 = h + u[h][3] - (r + 1)
        /\ h <= r + 1 /\ r + 1 <= h + u[h][3]
    <3> DEFINE a == u[h][3]
               l == rx.left
    <3>1. a \in Nat /\ h \in Nat /\ r \in Nat
      BY <1>1, <2>2
    <3>2. h <= r /\ r < h + a /\ l = h + a - r
      BY <2>1
    <3> HIDE DEF a, l
    <3>3. l - 1 \in Nat /\ l - 1 = h + a - (r + 1) /\ h <= r + 1 /\ r + 1 <= h + a
      BY ONLY <3>1, <3>2
    <3> QED BY <3>3 DEF a, l
  <2>10. more \in Types("rx")
    <3>1. Append(b, x) \in Seq(Bytes)
      BY <2>3, <2>5, AppendProperties
    <3>2. more = [opcode |-> rx.opcode, left |-> rx.left - 1, buffer |-> Append(b, x)]
      BY <1>1, <2>7 DEF b
    <3> QED BY <1>1, <2>9, <3>1, <3>2, TypesOf
  <2>11. InFrame(more, u, r + 1, h)
    BY <2>1, <2>8, <2>9 DEF InFrame, longer
  <2> QED BY <2>10, <2>11
<1> QED BY <1>2, <1>3

-----------------------------------------------------------------------------
(* A websocket that goes on. *)

Spoken(s, t, c, u, q) ==
  /\ Only(s, t, c) /\ Row(t.wsi[c]) /\ Talking(t.wsi[c], u, q)
  /\ t.wsi[c].net = s.wsi[c].net /\ t.wsi[c].in = s.wsi[c].in /\ Roomy(c, t.wsi[c])
  /\ t.wsi[c].clash => Overlaps(c, u)

\* A websocket is open, and may be closed.
LEMMA TalkingLive ==
  ASSUME NEW u, Proper(u), NEW q \in 0 .. Len(u), NEW w, Talking(w, u, q)
  PROVE  Live(w) /\ Closable(w, u)
BY AliveClosable DEF Talking, Live, Alive

\* A websocket that goes on is parsed.
LEMMA SpokenParsed ==
  ASSUME NEW s, NEW t, NEW c \in Conns, NEW u, Proper(u), NEW q \in 0 .. Len(u), Spoken(s, t, c, u, q)
  PROVE  Parsed(s, t, c, u, q)
<1> DEFINE v == t.wsi[c]
<1>1. Talking(v, u, q)
  BY DEF Spoken
<1> HIDE DEF v
<1>2. Live(v) /\ Closable(v, u)
  BY <1>1, TalkingLive
<1> QED BY <1>1, <1>2 DEF Parsed, Spoken, Alive, v

\* A write leaves a websocket one, if it keeps the order.
LEMMA TalkingKept ==
  ASSUME NEW u, NEW q, NEW w, Talking(w, u, q), NEW v, Keeps(w, v, WriteFields), InOrder(v)
  PROVE  Talking(v, u, q)
BY DEF Talking, Keeps, Fields, WriteFields, SendFields

\* An answer of the library or the program; this is where sends may overlap.
LEMMA Said ==
  ASSUME NEW s, Lib(s), TableInv(s), NEW c \in Conns, NEW u, Proper(u), NEW q \in 0 .. Len(u),
         NEW w, w = s.wsi[c], Talking(w, u, q), ~w.clash, Roomy(c, w), Answered(u),
         NEW frame \in Frames, NEW t, t = libwebsocket_write(s, c, frame)
  PROVE  Spoken(s, t, c, u, q)
<1> DEFINE v == t.wsi[c]
<1>1. Live(w)
  BY TalkingLive
<1>2. /\ Only(s, t, c) /\ Row(v) /\ Keeps(w, v, WriteFields)
      /\ Roomy(c, w) => Roomy(c, v)
      /\ InOrder(w) => InOrder(v)
      /\ v.clash => w.clash \/ w.trunc # << >>
  BY <1>1, Written
<1> HIDE DEF v
<1>3. Talking(v, u, q)
  <2>1. InOrder(w)
    BY DEF Talking
  <2> QED BY <1>2, <2>1, TalkingKept
<1>4. v.net = w.net /\ v.in = w.in
  BY <1>2 DEF Keeps, Fields, WriteFields, SendFields
<1>5. v.clash => Overlaps(c, u)
  BY <1>2 DEF Overlaps, Roomy
<1> QED BY <1>2, <1>3, <1>4, <1>5 DEF Spoken, v

\* A return value leaves a websocket one.
LEMMA SpokenRet ==
  ASSUME NEW s, NEW t, NEW c \in Conns, NEW u, NEW q, Spoken(s, t, c, u, q),
         NEW x, x = Ret(t, c, 0)
  PROVE  Spoken(s, x, c, u, q)
<1> DEFINE w == t.wsi[c]
           v == x.wsi[c]
<1>1. Lib(t) /\ TableInv(t) /\ Only(s, t, c)
  BY DEF Spoken, Only
<1>2. Only(t, x, c) /\ Row(v) /\ Keeps(w, v, {"ret"})
  BY ONLY <1>1, c \in Conns, x = Ret(t, c, 0), 0 \in Int, Returns
<1> HIDE DEF w, v
<1>3. Only(s, x, c)
  BY <1>1, <1>2, OnlyTrans
<1>4. /\ v.state = w.state /\ v.mode = w.mode /\ v.hears = w.hears /\ v.whole = w.whole
      /\ v.wire = w.wire /\ v.trunc = w.trunc /\ v.handed = w.handed /\ v.got = w.got
      /\ v.rx = w.rx /\ v.net = w.net /\ v.in = w.in /\ v.clash = w.clash /\ v.room = w.room
      /\ v.hdr = w.hdr
  BY <1>2 DEF Keeps, Fields
<1>5. /\ Talking(w, u, q) /\ w.net = s.wsi[c].net /\ w.in = s.wsi[c].in /\ Roomy(c, w)
      /\ w.clash => Overlaps(c, u)
  BY DEF Spoken, w
<1>6. Talking(v, u, q) /\ Roomy(c, v)
  BY <1>4, <1>5 DEF Talking, InOrder, Roomy
<1> QED BY <1>2, <1>3, <1>4, <1>5, <1>6 DEF Spoken, v

\* A websocket that goes on after a change that the script does not see.
LEMMA SpokenTrans ==
  ASSUME NEW s, NEW t, NEW x, NEW c \in Conns, NEW u, NEW q,
         Only(s, t, c), t.wsi[c].net = s.wsi[c].net, t.wsi[c].in = s.wsi[c].in,
         Spoken(t, x, c, u, q)
  PROVE  Spoken(s, x, c, u, q)
BY OnlyTrans DEF Spoken

\* A change of the frame, and of what the program heard.
Typed(y, S) == \A f \in S : y[f] \in Types(f)
Reframed(s, t, c, w, y) ==
  /\ Only(s, t, c) /\ t.wsi[c] = y /\ Row(y) /\ Live(y)
  /\ y.net = w.net /\ y.in = w.in /\ y.clash = w.clash
  /\ y.trunc = w.trunc /\ y.state = w.state /\ y.mode = w.mode /\ y.hears = w.hears
  /\ y.whole = w.whole /\ y.hdr = w.hdr /\ (Roomy(c, w) => Roomy(c, y))
  /\ InOrder(w) => InOrder(y)

\* A change of what the parser has of a frame.
LEMMA Framing ==
  ASSUME NEW s, Lib(s), TableInv(s), NEW c \in Conns, NEW w, w = s.wsi[c], Live(w), NEW S,
         S \subseteq {"rx", "got", "ret"}, NEW y, Keeps(w, y, S), Typed(y, S),
         NEW t, t = Put(s, c, y)
  PROVE  Reframed(s, t, c, w, y)
<1>1. Row(w)
  BY DEF Lib
<1>2. Row(y)
  BY <1>1, RowEdit DEF Typed
<1>3. \A f \in Fields \ {"rx", "got", "ret"} : y[f] = w[f]
  BY DEF Keeps
<1>4. /\ y.net = w.net /\ y.in = w.in /\ y.clash = w.clash
      /\ y.trunc = w.trunc /\ y.state = w.state /\ y.mode = w.mode /\ y.hears = w.hears
      /\ y.whole = w.whole /\ y.hdr = w.hdr /\ y.room = w.room /\ y.wire = w.wire
      /\ y.handed = w.handed
  BY <1>3 DEF Fields
<1>5. Live(w) <=> Live(y)
  BY <1>4 DEF Live
<1>6. Only(s, t, c) /\ t.wsi[c] = y
  BY ONLY Lib(s), TableInv(s), c \in Conns, w = s.wsi[c], <1>2, <1>5, t = Put(s, c, y), RowSet
<1> QED BY <1>2, <1>4, <1>5, <1>6 DEF Roomy, InOrder, Reframed

\* The last unit of a frame is read.
FullFrame(w, u, r, h) ==
  /\ w.state = "established" /\ w.mode = "ws" /\ w.hears /\ ~w.whole /\ w.hdr = {}
  /\ InOrder(w) /\ \E i \in 1 .. r : u[i][1] = "end"
  /\ InFrame(w.rx, u, r + 1, h) /\ r + 1 = h + u[h][3] /\ Heard(w.got, u, r) /\ ~w.clash

\* A close frame that is complete.
LEMMA CloseRead ==
  ASSUME NEW s, Lib(s), TableInv(s), NEW c \in Conns, NEW u, Proper(u), NEW r \in 0 .. Len(u),
         r + 1 <= Len(u), NEW h, NEW w, w = s.wsi[c], FullFrame(w, u, r, h), Roomy(c, w),
         u[h][2] = "close", NEW t, t = Spill(s, c)
  PROVE  Parsed(s, t, c, u, r + 1)
<1> DEFINE s1 == libwebsocket_write(s, c, <<"close">>)
           w1 == s1.wsi[c]
           y == [w1 EXCEPT !.state = "returned_close", !.ret = -1]
           v == t.wsi[c]
<1>1. h \in Heads(u) /\ w.rx.opcode = "close" /\ Live(w)
  BY DEF FullFrame, InFrame, Live
<1>2. t = [s1 EXCEPT !.wsi[c].state = "returned_close", !.wsi[c].ret = -1]
  BY <1>1 DEF Spill
<1>3. Answered(u)
  <2>1. h \in DOMAIN u /\ u[h][1] = "head"
    BY <1>1 DEF Heads
  <2> QED BY <2>1 DEF Answered
<1>4. /\ Only(s, s1, c) /\ Row(w1) /\ Keeps(w, w1, WriteFields)
      /\ Roomy(c, w) => Roomy(c, w1)
      /\ w1.clash => w.clash \/ w.trunc # << >>
  BY <1>1, OutFacts, Written
<1>5. Lib(s1) /\ TableInv(s1)
  BY <1>4 DEF Only
<1> HIDE DEF s1
<1>6. t = Put(s1, c, y)
  <2>1. /\ s1 = [fds |-> s1.fds, pos |-> s1.pos, wsi |-> s1.wsi]
        /\ s1.wsi = [d \in Conns |-> s1.wsi[d]]
    BY <1>5 DEF Lib
  <2> QED BY ONLY <1>2, <2>1, c \in Conns DEF Put
<1>7. w1 = s1.wsi[c]
  OBVIOUS
<1> HIDE DEF w1, v
<1>8. Keeps(w1, y, {"state", "ret"}) /\ y.state = "returned_close" /\ y.ret = -1
  BY <1>4 DEF Keeps, Row, Fields
<1> HIDE DEF y
<1>9. Row(y)
  <2>1. y["state"] \in Types("state")
    BY <1>8, TypesOf
  <2>2. y["ret"] \in Types("ret")
    BY <1>8, TypesOf
  <2>3. \A f \in {"state", "ret"} : y[f] \in Types(f)
    BY <2>1, <2>2
  <2>4. Keeps(w1, y, {"state", "ret"})
    BY <1>8
  <2> QED BY ONLY <1>4, <2>3, <2>4, RowEdit
<1>10. \A f \in Fields \ (WriteFields \cup {"state"}) : y[f] = w[f]
  BY <1>4, <1>8 DEF Keeps, WriteFields, SendFields
<1>11. y.net = w.net /\ y.in = w.in /\ y.whole = w.whole /\ y.got = w.got
  BY <1>10 DEF Fields, WriteFields, SendFields
<1>12. y.clash = w1.clash /\ y.room = w1.room /\ y.trunc = w1.trunc /\ w1.state = w.state
  BY <1>4, <1>8 DEF Keeps, Fields, WriteFields, SendFields
<1>13. Only(s1, t, c) /\ t.wsi[c] = y /\ Live(y)
  <2>1. Live(w1) <=> Live(y)
    BY <1>8, <1>12 DEF Live, FullFrame
  <2>2. Only(s1, t, c) /\ t.wsi[c] = y
    BY ONLY <1>5, <1>6, <1>7, <1>9, <2>1, c \in Conns, RowSet
  <2> QED BY <1>8, <2>2 DEF Live
<1>14. Only(s, t, c)
  BY <1>4, <1>13, OnlyTrans
<1>15. Closable(y, u)
  BY <1>8, <1>11 DEF Closable, Told, FullFrame
<1>16. (y.clash => Overlaps(c, u)) /\ Roomy(c, y) /\ ~(y.ret >= 0)
  BY <1>3, <1>4, <1>8, <1>12 DEF Overlaps, Roomy, FullFrame
<1> QED BY <1>9, <1>11, <1>13, <1>14, <1>15, <1>16 DEF Parsed

\* A frame that is complete, of whatever kind: Spill.
LEMMA Spilled ==
  ASSUME NEW s, Lib(s), TableInv(s), NEW c \in Conns, NEW u, Proper(u), NEW r \in 0 .. Len(u),
         r + 1 <= Len(u), NEW h, NEW w, w = s.wsi[c], FullFrame(w, u, r, h), Roomy(c, w),
         NEW t, t = Spill(s, c)
  PROVE  Parsed(s, t, c, u, r + 1)
<1> DEFINE q == r + 1
           x == Emptied(s, c)
           rx == [w.rx EXCEPT !.left = -1, !.buffer = << >>]
           z == [w EXCEPT !.rx = rx, !.ret = 0]
<1>1. /\ h \in Heads(u) /\ w.rx.opcode = u[h][2] /\ Live(w) /\ u[h][2] \in Control \cup {"text"}
      /\ h \in DOMAIN u /\ u[h][1] = "head" /\ u[h][3] \in Nat /\ q \in 0 .. Len(u)
  BY FrameFacts DEF FullFrame, InFrame, Live
<1>2. /\ Row(w) /\ w.got \in Seq(Seq(Bytes)) /\ w.clash = FALSE
      /\ w.rx \in [opcode : Control \cup {"text"}, left : Nat \cup {-1}, buffer : Seq(Bytes)]
  BY RowTypes DEF Lib, FullFrame
<1>3. x = Put(s, c, z)
  <2>1. x = [s EXCEPT !.wsi[c].rx = [@ EXCEPT !.left = -1, !.buffer = << >>], !.wsi[c].ret = 0]
    BY DEF Emptied
  <2>2. /\ s = [fds |-> s.fds, pos |-> s.pos, wsi |-> s.wsi]
        /\ s.wsi = [d \in Conns |-> s.wsi[d]]
    BY DEF Lib
  <2> HIDE DEF x
  <2> QED BY ONLY <2>1, <2>2, c \in Conns, w = s.wsi[c] DEF Put
<1>4. /\ rx \in [opcode : Control \cup {"text"}, left : Nat \cup {-1}, buffer : Seq(Bytes)]
      /\ rx.left = -1 /\ rx.buffer = << >>
  <2>1. rx = [w.rx EXCEPT !.left = -1, !.buffer = << >>]
    OBVIOUS
  <2>2. -1 \in Nat \cup {-1} /\ << >> \in Seq(Bytes)
    OBVIOUS
  <2> HIDE DEF rx
  <2> QED BY ONLY <1>2, <2>1, <2>2
<1> HIDE DEF rx
<1>5. Keeps(w, z, {"rx", "ret"}) /\ z.rx = rx /\ z.ret = 0
  BY <1>2 DEF Keeps, Row, Fields
<1>6. z.got = w.got
  BY <1>5 DEF Keeps, Fields
<1> HIDE DEF x, z
<1>7. Typed(z, {"rx", "ret"})
  <2>1. z["rx"] \in Types("rx")
    BY <1>4, <1>5, TypesOf
  <2>2. z["ret"] \in Types("ret")
    BY <1>5, TypesOf
  <2> QED BY <2>1, <2>2 DEF Typed
<1>8. /\ Only(s, x, c) /\ x.wsi[c] = z /\ Row(z) /\ Live(z)
      /\ z.net = w.net /\ z.in = w.in /\ z.clash = w.clash
      /\ z.trunc = w.trunc /\ z.state = w.state /\ z.mode = w.mode /\ z.hears = w.hears
      /\ z.whole = w.whole /\ z.hdr = w.hdr /\ (Roomy(c, w) => Roomy(c, z))
      /\ InOrder(w) => InOrder(z)
  <2>1. {"rx", "ret"} \subseteq {"rx", "got", "ret"}
    OBVIOUS
  <2>2. Keeps(w, z, {"rx", "ret"}) /\ Live(w)
    BY <1>1, <1>5
  <2>3. Reframed(s, x, c, w, z)
    BY ONLY <1>3, <1>7, <2>1, <2>2, Lib(s), TableInv(s), c \in Conns, w = s.wsi[c], Framing
  <2> QED BY <2>3 DEF Reframed
<1>9. Lib(x) /\ TableInv(x)
  BY <1>8 DEF Only
<1>10. /\ \A n \in Heads(u) : n <= q => n + u[n][3] <= q
       /\ h \notin Texts(u) => Heard(w.got, u, q)
       /\ h \in Texts(u) => Heard(Append(w.got, Payload(u, h)), u, q)
  <2> DEFINE g == w.got
             f == w.rx
  <2>1. g \in Seq(Seq(Bytes)) /\ InFrame(f, u, r + 1, h) /\ r + 1 = h + u[h][3] /\ Heard(g, u, r)
    BY <1>2 DEF FullFrame
  <2> HIDE DEF g, f
  <2>2. /\ \A n \in Heads(u) : n <= r + 1 => n + u[n][3] <= r + 1
        /\ h \notin Texts(u) => Heard(g, u, r + 1)
        /\ h \in Texts(u) => Heard(Append(g, Payload(u, h)), u, r + 1)
    BY ONLY <2>1, Proper(u), r \in 0 .. Len(u), r + 1 <= Len(u), FrameEnds
  <2> QED BY <2>2 DEF g
<1>11. Framed(rx, u, q)
  BY <1>4, <1>10 DEF Framed
<1>12. \E i \in 1 .. q : u[i][1] = "end"
  <2>1. PICK i \in 1 .. r : u[i][1] = "end"
    BY DEF FullFrame
  <2>2. i \in 1 .. q
    OBVIOUS
  <2> QED BY <2>1, <2>2
<1>13. ASSUME h \notin Texts(u)
       PROVE  Talking(z, u, q)
  <2>1. Heard(z.got, u, q)
    BY <1>6, <1>10, <1>13
  <2> QED BY <1>5, <1>8, <1>11, <1>12, <2>1 DEF Talking, FullFrame
<1>14. ASSUME h \notin Texts(u)
       PROVE  Spoken(s, x, c, u, q)
  BY <1>2, <1>8, <1>13, <1>14 DEF Spoken
<1>15. CASE u[h][2] = "close"
  BY <1>15, CloseRead
<1>16. CASE u[h][2] = "ping"
  <2> DEFINE s1 == libwebsocket_write(x, c, <<"pong">>)
  <2>1. t = IF s1.wsi[c].ret < 0 THEN s1 ELSE Ret(s1, c, 0)
    BY <1>1, <1>16 DEF Spill, x, Ret
  <2>2. h \notin Texts(u) /\ Answered(u) /\ <<"pong">> \in Frames
    BY <1>1, <1>16, OutFacts DEF Texts, Answered
  <2>3. Spoken(x, s1, c, u, q)
    <3>1. Talking(z, u, q) /\ ~z.clash /\ Roomy(c, z)
      BY <1>2, <1>8, <1>13, <2>2
    <3>2. z = x.wsi[c] /\ q \in 0 .. Len(u)
      BY <1>1, <1>8
    <3> HIDE DEF q
    <3> QED BY ONLY <1>9, <2>2, <3>1, <3>2, c \in Conns, Proper(u), Said
  <2> HIDE DEF s1
  <2>4. Spoken(x, t, c, u, q)
    <3>1. CASE s1.wsi[c].ret < 0
      BY <2>1, <2>3, <3>1
    <3>2. CASE ~(s1.wsi[c].ret < 0)
      <4>1. t = Ret(s1, c, 0)
        BY <2>1, <3>2
      <4> QED BY ONLY <2>3, <4>1, c \in Conns, SpokenRet
    <3> QED BY <3>1, <3>2
  <2>5. Spoken(s, t, c, u, q)
    BY <1>8, <2>4, SpokenTrans
  <2> QED BY <1>1, <2>5, SpokenParsed
<1>17. CASE u[h][2] = "pong"
  <2>1. t = x /\ h \notin Texts(u)
    BY <1>1, <1>17 DEF Spill, x, Texts
  <2>2. Spoken(s, t, c, u, q)
    BY <1>14, <2>1
  <2> QED BY <1>1, <2>2, SpokenParsed
<1>18. CASE u[h][2] = "text"
  <2> DEFINE message == w.rx.buffer
             s1 == Receive(x, c, message)
             g == Append(w.got, message)
             s2 == [x EXCEPT !.wsi[c].got = Append(@, message)]
             m == [z EXCEPT !.got = g]
  <2>1. t = Ret(s1, c, 0)
    BY <1>1, <1>18 DEF Spill, x, Ret
  <2>2. message = Payload(u, h) /\ message \in Seq(Bytes)
    <3>1. message = [k \in 1 .. (r + 1) - h |-> u[h + k][2]] /\ r + 1 = h + u[h][3]
      BY DEF FullFrame, InFrame
    <3>2. (r + 1) - h = u[h][3]
      <4> DEFINE a == u[h][3]
      <4>1. a \in Nat /\ h \in Nat /\ r + 1 = h + a /\ r \in Nat
        BY <1>1, <3>1, FrameFacts
      <4> HIDE DEF a
      <4>2. (r + 1) - h = a
        BY ONLY <4>1
      <4> QED BY <4>2 DEF a
    <3>3. message \in Seq(Bytes)
      BY <1>2
    <3> QED BY <3>1, <3>2, <3>3 DEF Payload
  <2>3. Spoken(s, s1, c, u, q)
    <3>1. CASE message = << >>
      <4>1. s1 = x
        BY <3>1 DEF Receive
      <4>2. u[h][3] = 0
        <5> DEFINE a == u[h][3]
        <5>1. a \in Nat /\ message = [k \in 1 .. a |-> u[h + k][2]]
          BY <1>1, <2>2 DEF Payload
        <5> HIDE DEF a, message
        <5>2. DOMAIN message = 1 .. a /\ DOMAIN message = {}
          BY <3>1, <5>1
        <5>3. ASSUME a # 0 PROVE FALSE
          <6>1. 1 \in 1 .. a
            BY <5>1, <5>3
          <6> QED BY <5>2, <6>1
        <5> QED BY <5>3 DEF a
      <4>3. h \notin Texts(u)
        BY <4>2 DEF Texts
      <4> QED BY <1>14, <4>1, <4>3
    <3>2. CASE message # << >>
      <4>1. s1 = IF message = <<"heartbeat">> THEN libwebsocket_write(s2, c, <<"heartbeat">>) ELSE s2
        BY <3>2 DEF Receive
      <4>2. h \in Texts(u)
        <5>1. u[h][3] # 0
          <6> DEFINE a == u[h][3]
          <6>1. message = [k \in 1 .. a |-> u[h + k][2]]
            BY <2>2 DEF Payload
          <6> HIDE DEF a, message
          <6>2. a = 0 => message = << >>
            BY <6>1
          <6> QED BY <3>2, <6>2 DEF a
        <5>2. u[h][3] > 0
          BY <1>1, <5>1
        <5> QED BY <1>1, <1>18, <5>2 DEF Texts
      <4>3. s2 = Put(x, c, m)
        <5>1. /\ x = [fds |-> x.fds, pos |-> x.pos, wsi |-> x.wsi]
              /\ x.wsi = [d \in Conns |-> x.wsi[d]]
          BY <1>9 DEF Lib
        <5> HIDE DEF message
        <5>2. s2 = [x EXCEPT !.wsi[c] = [x.wsi[c] EXCEPT !.got = Append(@, message)]]
          BY ONLY <5>1, c \in Conns
        <5>3. x.wsi[c] = z /\ z.got = w.got
          BY ONLY <1>6, <1>8 DEF Keeps, Fields
        <5> QED BY ONLY <5>2, <5>3 DEF Put
      <4>4. Keeps(z, m, {"got"}) /\ m.got = g
        BY <1>8, Zenon DEF Keeps, Row, Fields
      <4>5. g \in Seq(Seq(Bytes))
        BY <1>2, <2>2, AppendProperties
      <4>6. Heard(g, u, q)
        BY <1>10, <2>2, <4>2
      <4> HIDE DEF message, g, s2, m
      <4>7. Typed(m, {"got"})
        BY <4>4, <4>5, TypesOf DEF Typed
      <4>8. /\ Only(x, s2, c) /\ s2.wsi[c] = m /\ Row(m) /\ Live(m)
            /\ m.net = z.net /\ m.in = z.in /\ m.clash = z.clash
            /\ m.trunc = z.trunc /\ m.state = z.state /\ m.mode = z.mode /\ m.hears = z.hears
            /\ m.whole = z.whole /\ m.hdr = z.hdr /\ (Roomy(c, z) => Roomy(c, m))
            /\ InOrder(z) => InOrder(m)
        <5>1. {"got"} \subseteq {"rx", "got", "ret"}
          OBVIOUS
        <5>2. Keeps(z, m, {"got"})
          BY <4>4
        <5>3. z = x.wsi[c] /\ Live(z)
          BY <1>8
        <5>4. Reframed(x, s2, c, z, m)
          BY ONLY <1>9, <4>3, <4>7, <5>1, <5>2, <5>3, c \in Conns, Framing
        <5> QED BY <5>4 DEF Reframed
      <4>9. m.rx = z.rx
        BY <4>4 DEF Keeps, Fields
      <4>10. Talking(m, u, q)
        BY <1>5, <1>8, <1>11, <1>12, <4>4, <4>6, <4>8, <4>9 DEF Talking, FullFrame
      <4>11. Only(s, s2, c) /\ Lib(s2) /\ TableInv(s2)
        <5>1. Only(s, s2, c)
          BY <1>8, <4>8, OnlyTrans
        <5> QED BY <5>1 DEF Only
      <4>12. Spoken(s, s2, c, u, q)
        BY <1>2, <1>8, <4>8, <4>10, <4>11 DEF Spoken
      <4>13. CASE message # <<"heartbeat">>
        BY <4>1, <4>12, <4>13
      <4>14. CASE message = <<"heartbeat">>
        <5>1. s1 = libwebsocket_write(s2, c, <<"heartbeat">>)
          BY <4>1, <4>14
        <5>2. Answered(u) /\ <<"heartbeat">> \in Frames
          BY <1>1, <2>2, <4>14, OutFacts DEF Answered
        <5>3. m = s2.wsi[c] /\ ~m.clash /\ Roomy(c, m) /\ q \in 0 .. Len(u)
          BY <1>1, <1>2, <1>8, <4>8
        <5> HIDE DEF s1, q
        <5>4. Spoken(s2, s1, c, u, q)
          BY ONLY <4>10, <4>11, <5>1, <5>2, <5>3, c \in Conns, Proper(u), Said
        <5>5. s2.wsi[c].net = s.wsi[c].net /\ s2.wsi[c].in = s.wsi[c].in
          BY <1>8, <4>8
        <5> QED BY <4>11, <5>4, <5>5, SpokenTrans
      <4> QED BY <4>13, <4>14
    <3> QED BY <3>1, <3>2
  <2> HIDE DEF s1
  <2>4. Spoken(s, t, c, u, q)
    BY ONLY <2>1, <2>3, c \in Conns, SpokenRet
  <2> QED BY <1>1, <2>4, SpokenParsed
<1> QED BY <1>1, <1>15, <1>16, <1>17, <1>18 DEF Control

\* One unit of a frame.
LEMMA FrameRead ==
  ASSUME NEW s, Lib(s), TableInv(s), NEW c \in Conns, NEW u, Proper(u), NEW r \in 0 .. Len(u),
         r < Len(u), NEW w, w = s.wsi[c], Talking(w, u, r), ~w.clash, Roomy(c, w),
         NEW unit, unit = u[r + 1], NEW t, t = libwebsocket_rx_sm(s, c, unit)
  PROVE  Parsed(s, t, c, u, r + 1)
<1> DEFINE q == r + 1
           more == OneMore(w.rx, unit)
           y == [w EXCEPT !.rx = more, !.ret = 0]
           now == [s EXCEPT !.wsi[c].rx = OneMore(@, unit), !.wsi[c].ret = 0]
<1>1. Row(w) /\ Live(w) /\ w.rx \in Types("rx") /\ Len(u) \in Nat /\ q \in 0 .. Len(u)
  <2>1. Row(w)
    BY DEF Lib
  <2>2. Live(w)
    BY TalkingLive
  <2>3. w.rx \in Types("rx")
    BY <2>1, RowTypes, TypesOf
  <2>4. Len(u) \in Nat
    BY FrameFacts
  <2> QED BY <2>1, <2>2, <2>3, <2>4
<1>2. more \in Types("rx") /\ \E h : InFrame(more, u, q, h)
  <2> DEFINE rx == w.rx
  <2>1. rx \in Types("rx") /\ Framed(rx, u, r) /\ \E i \in 1 .. r : u[i][1] = "end"
    BY <1>1 DEF Talking
  <2>2. more = OneMore(rx, u[r + 1])
    OBVIOUS
  <2> HIDE DEF rx, more
  <2> QED BY ONLY <2>1, <2>2, Proper(u), r \in 0 .. Len(u), r < Len(u), Stepped
<1>3. now = Put(s, c, y)
  <2>1. /\ s = [fds |-> s.fds, pos |-> s.pos, wsi |-> s.wsi]
        /\ s.wsi = [d \in Conns |-> s.wsi[d]]
    BY DEF Lib
  <2>2. now = [s EXCEPT !.wsi[c].rx = OneMore(@, unit), !.wsi[c].ret = 0]
    OBVIOUS
  <2> HIDE DEF now
  <2> QED BY ONLY <2>1, <2>2, c \in Conns, w = s.wsi[c] DEF Put
<1>4. Keeps(w, y, {"rx", "ret"}) /\ y.rx = more /\ y.ret = 0
  BY <1>1 DEF Keeps, Row, Fields
<1>5. t = IF now.wsi[c].rx.left = 0 THEN Spill(now, c) ELSE now
  BY DEF libwebsocket_rx_sm
<1> HIDE DEF more, y, now
<1>6. Reframed(s, now, c, w, y)
  <2>1. {"rx", "ret"} \subseteq {"rx", "got", "ret"}
    OBVIOUS
  <2>2. Keeps(w, y, {"rx", "ret"})
    BY <1>4
  <2>3. y["rx"] \in Types("rx")
    BY <1>2, <1>4
  <2>4. y["ret"] \in Types("ret")
    BY <1>4, TypesOf
  <2>5. Typed(y, {"rx", "ret"})
    BY <2>3, <2>4 DEF Typed
  <2> QED BY ONLY <1>1, <1>3, <2>1, <2>2, <2>5, Lib(s), TableInv(s), c \in Conns, w = s.wsi[c], Framing
<1>7. y.got = w.got /\ Heard(w.got, u, r)
  BY <1>4 DEF Keeps, Fields, Talking
<1>8. Only(s, now, c) /\ Lib(now) /\ TableInv(now) /\ y = now.wsi[c]
  BY <1>6 DEF Reframed, Only
<1>9. PICK h : InFrame(more, u, q, h)
  BY <1>2
<1>10. CASE more.left = 0
  <2>1. q = h + u[h][3]
    <3> DEFINE a == u[h][3]
    <3>1. h \in Nat /\ a \in Nat /\ r \in Nat /\ h + a - q = 0
      BY <1>1, <1>9, <1>10, FrameFacts DEF InFrame
    <3> HIDE DEF a
    <3>2. q = h + a
      BY ONLY <3>1
    <3> QED BY <3>2 DEF a
  <2>2. FullFrame(y, u, r, h)
    BY <1>4, <1>6, <1>7, <1>9, <2>1 DEF FullFrame, Reframed, Talking
  <2>3. t = Spill(now, c)
    BY <1>4, <1>5, <1>8, <1>10
  <2>4. Roomy(c, y) /\ r + 1 <= Len(u)
    BY <1>1, <1>6 DEF Reframed
  <2>5. Parsed(now, t, c, u, r + 1)
    BY ONLY <1>8, <2>2, <2>3, <2>4, c \in Conns, Proper(u), r \in 0 .. Len(u), Spilled
  <2> QED BY <1>6, <1>8, <2>5, ParsedVia DEF Reframed
<1>11. CASE more.left # 0
  <2>1. r + 1 < h + u[h][3]
    <3> DEFINE a == u[h][3]
    <3>1. h \in Nat /\ a \in Nat /\ r \in Nat /\ h + a - q # 0 /\ q <= h + a
      BY <1>1, <1>9, <1>11, FrameFacts DEF InFrame
    <3> HIDE DEF a
    <3>2. r + 1 < h + a
      BY ONLY <3>1
    <3> QED BY <3>2 DEF a
  <2>2. Heard(w.got, u, q) /\ Framed(more, u, q)
    <3> DEFINE g == w.got
    <3>1. Heard(g, u, r) /\ InFrame(more, u, r + 1, h) /\ r + 1 <= Len(u)
      BY <1>1, <1>7, <1>9
    <3> HIDE DEF g
    <3>2. Heard(g, u, r + 1) /\ Framed(more, u, r + 1)
      BY ONLY <2>1, <3>1, Proper(u), r \in 0 .. Len(u), FrameMid
    <3> QED BY <3>2 DEF g
  <2>3. \E i \in 1 .. q : u[i][1] = "end"
    <3>1. PICK i \in 1 .. r : u[i][1] = "end"
      BY DEF Talking
    <3>2. i \in 1 .. q
      OBVIOUS
    <3> QED BY <3>1, <3>2
  <2>4. Talking(y, u, q)
    BY <1>4, <1>6, <1>7, <2>2, <2>3 DEF Talking, Reframed
  <2>5. t = now
    BY <1>4, <1>5, <1>8, <1>11
  <2>6. Spoken(s, t, c, u, q)
    BY <1>6, <1>8, <2>4, <2>5 DEF Spoken, Reframed
  <2> QED BY <1>1, <2>6, SpokenParsed
<1> QED BY <1>10, <1>11

-----------------------------------------------------------------------------
(* All that came. *)

\* A connection while its input is read, of which q units are.
Reading(s, t, c, u, q) ==
  /\ Only(s, t, c) /\ Row(t.wsi[c]) /\ Roomy(c, t.wsi[c])
  /\ t.wsi[c].net = s.wsi[c].net /\ t.wsi[c].in = << >> /\ t.wsi[c].state # "new"
  /\ t.wsi[c].clash => Overlaps(c, u)
  /\ ~t.wsi[c].clash => Dead(t.wsi[c], u) \/ (Live(t.wsi[c]) /\ Alive(t.wsi[c], u, q))

\* One unit that is read, in whatever state its connection is.
LEMMA UnitRead ==
  ASSUME NEW s, NEW x, Lib(x), TableInv(x), NEW c \in Conns, NEW u, Proper(u),
         NEW r \in 0 .. Len(u), r < Len(u), Reading(s, x, c, u, r),
         ~x.wsi[c].clash, x.wsi[c].state # "dead",
         NEW unit, unit = u[r + 1], NEW t, t = ReadUnit(x, c, unit)
  PROVE  Reading(s, t, c, u, r + 1)
<1> DEFINE w == x.wsi[c]
           one == IF w.state = "established" THEN libwebsocket_rx_sm(x, c, unit)
                  ELSE lws_handshake_server(x, c, unit)
           v == one.wsi[c]
<1>1. Live(w) /\ Alive(w, u, r) /\ Roomy(c, w) /\ ~w.clash /\ w = x.wsi[c]
  BY DEF Reading, Dead
<1>2. t = IF v.ret < 0 /\ ~v.clash THEN libwebsocket_close_and_free_session(one, c) ELSE one
  BY DEF ReadUnit
<1>3. ~Filing(w, u, r)
  <2>1. r # Len(u)
    <3>1. Len(u) \in Nat
      BY FrameFacts
    <3> QED BY <3>1
  <2> QED BY <2>1 DEF Filing
<1>4. Parsed(x, one, c, u, r + 1)
  <2>1. CASE Asking(w, u, r)
    <3>1. one = lws_handshake_server(x, c, unit)
      BY <2>1 DEF Asking
    <3> HIDE DEF w, one
    <3> QED BY ONLY Lib(x), TableInv(x), c \in Conns, Proper(u), r \in 0 .. Len(u), r < Len(u),
                    unit = u[r + 1], <1>1, <2>1, <3>1, LineRead
  <2>2. CASE Talking(w, u, r)
    <3>1. one = libwebsocket_rx_sm(x, c, unit)
      BY <2>2 DEF Talking
    <3> HIDE DEF w, one
    <3> QED BY ONLY Lib(x), TableInv(x), c \in Conns, Proper(u), r \in 0 .. Len(u), r < Len(u),
                    unit = u[r + 1], <1>1, <2>2, <3>1, FrameRead
  <2> QED BY <1>1, <1>3, <2>1, <2>2 DEF Alive
<1> HIDE DEF one
<1>5. /\ Only(s, one, c) /\ Row(v) /\ Live(v) /\ Roomy(c, v)
      /\ v.net = s.wsi[c].net /\ v.in = << >> /\ Lib(one) /\ TableInv(one)
      /\ v.clash => Overlaps(c, u)
      /\ ~v.clash => /\ Closable(v, u)
                     /\ v.ret >= 0 => Alive(v, u, r + 1)
  BY <1>1, <1>4, OnlyTrans DEF Parsed, Reading, Only
<1>6. CASE v.ret < 0 /\ ~v.clash
  <2> DEFINE z == t.wsi[c]
  <2>1. t = libwebsocket_close_and_free_session(one, c) /\ Closable(v, u) /\ Live(v)
    BY <1>2, <1>5, <1>6
  <2>2. v = one.wsi[c] /\ z = t.wsi[c]
    OBVIOUS
  <2> HIDE DEF v, z
  <2>3. /\ Only(one, t, c) /\ Row(z) /\ Dead(z, u) /\ z.net = v.net /\ z.in = << >>
        /\ z.clash = v.clash /\ (Roomy(c, v) => Roomy(c, z))
    BY ONLY <1>5, <2>1, <2>2, c \in Conns, Closing
  <2>4. z.state # "new"
    BY <2>3 DEF Dead
  <2> QED BY <1>5, <1>6, <2>2, <2>3, <2>4, OnlyTrans DEF Reading
<1>7. CASE ~(v.ret < 0 /\ ~v.clash)
  <2>1. t = one
    BY <1>2, <1>7
  <2>2. v.ret \in Int
    BY <1>5, RowTypes
  <2>3. v.ret >= 0 \/ v.clash
    BY <1>7, <2>2
  <2>4. v.state # "new"
    BY <1>5 DEF Live
  <2> QED BY <1>5, <2>1, <2>3, <2>4 DEF Reading
<1> QED BY <1>6, <1>7

\* The part of a script between r and n.
LEMMA Portion ==
  ASSUME NEW u, Proper(u), NEW n \in 0 .. Len(u), NEW r \in 0 .. n, NEW in, in = SubSeq(u, r + 1, n)
  PROVE  /\ in \in Seq(Pieces) /\ Len(in) = n - r /\ n - r \in Nat
         /\ \A k \in 1 .. n - r : in[k] = u[r + k] /\ r + k - 1 \in 0 .. Len(u) /\ r + k - 1 < Len(u)
<1>1. u \in Seq(Pieces) /\ Len(u) \in Nat /\ DOMAIN u = 1 .. Len(u)
  BY FrameFacts DEF Proper
<1>2. r + 1 \in Int /\ n \in Int /\ \A i \in r + 1 .. n : i \in 1 .. Len(u)
  BY <1>1
<1>3. \A i \in r + 1 .. n : u[i] \in Pieces
  BY <1>1, <1>2, ElementOfSeq
<1>4. /\ in \in Seq(Pieces)
      /\ Len(in) = IF r + 1 <= n THEN n - (r + 1) + 1 ELSE 0
      /\ \A k \in 1 .. n - (r + 1) + 1 : in[k] = u[(r + 1) + k - 1]
  BY ONLY <1>2, <1>3, in = SubSeq(u, r + 1, n), SubSeqProperties
<1>5. n - r \in Nat /\ n - (r + 1) + 1 = n - r
  BY <1>1
<1>6. Len(in) = n - r
  BY <1>1, <1>4, <1>5
<1>7. ASSUME NEW k \in 1 .. n - r
      PROVE  (r + 1) + k - 1 = r + k /\ r + k - 1 \in 0 .. Len(u) /\ r + k - 1 < Len(u)
  BY <1>1, <1>5
<1>8. \A k \in 1 .. n - r : in[k] = u[r + k]
  BY <1>4, <1>5, <1>7
<1> QED BY <1>4, <1>5, <1>6, <1>7, <1>8

\* The input is taken.
LEMMA Swallowed ==
  ASSUME NEW s, Lib(s), TableInv(s), NEW c \in Conns, NEW u, NEW r, NEW w, w = s.wsi[c],
         Live(w), Alive(w, u, r), ~w.clash, Roomy(c, w),
         NEW t, t = [s EXCEPT !.wsi[c].in = << >>]
  PROVE  Reading(s, t, c, u, r)
<1> DEFINE y == [w EXCEPT !.in = << >>]
<1>1. t = Put(s, c, y)
  BY DEF Put
<1>2. Keeps(w, y, {"in"}) /\ y.in = << >>
  <2>1. Row(w)
    BY DEF Lib
  <2> QED BY <2>1 DEF Keeps, Row, Fields
<1> HIDE DEF y
<1>3. Row(w) /\ Row(y)
  <2>1. Row(w)
    BY DEF Lib
  <2>2. << >> \in Seq(Pieces)
    OBVIOUS
  <2>3. y["in"] \in Types("in")
    BY <1>2, <2>2, TypesOf
  <2>4. \A f \in {"in"} : y[f] \in Types(f)
    BY <2>3
  <2>5. Keeps(w, y, {"in"})
    BY <1>2
  <2> QED BY ONLY <2>1, <2>4, <2>5, RowEdit
<1>5. /\ y.net = w.net /\ y.room = w.room /\ y.trunc = w.trunc /\ y.clash = w.clash
      /\ y.state = w.state /\ y.mode = w.mode /\ y.hears = w.hears /\ y.whole = w.whole
      /\ y.wire = w.wire /\ y.handed = w.handed /\ y.got = w.got /\ y.rx = w.rx
      /\ y.hdr = w.hdr /\ y.filepos = w.filepos
  BY <1>2, Zenon DEF Keeps, Fields
<1>6. Live(y) /\ Alive(y, u, r) /\ Roomy(c, y) /\ ~y.clash
  BY <1>5, Zenon DEF Live, Alive, Asking, Filing, Talking, InOrder, Roomy
<1>7. Live(w) <=> Live(y)
  BY <1>6
<1>8. Only(s, t, c) /\ t.wsi[c] = y
  BY ONLY Lib(s), TableInv(s), c \in Conns, w = s.wsi[c], <1>1, <1>3, <1>7, RowSet
<1> QED BY <1>2, <1>3, <1>5, <1>6, <1>8 DEF Reading, Live

\* A connection n units of whose script u were sent, and r of them read.
Stands(w, u, n) ==
  \E r \in 0 .. n : w.in = SubSeq(u, r + 1, n) /\ Live(w) /\ Alive(w, u, r)

\* What becomes of one that is served.
Settled(s, t, c, u, n) ==
  /\ Only(s, t, c) /\ Row(t.wsi[c]) /\ Roomy(c, t.wsi[c]) /\ t.wsi[c].net = s.wsi[c].net
  /\ t.wsi[c].state # "new"
  /\ t.wsi[c].clash => Overlaps(c, u)
  /\ ~t.wsi[c].clash => Dead(t.wsi[c], u) \/ Stands(t.wsi[c], u, n)

\* libwebsocket_read: by induction on the units that came.
LEMMA Read ==
  ASSUME NEW s, Lib(s), TableInv(s), NEW c \in Conns, NEW u, Proper(u), NEW n \in 0 .. Len(u),
         NEW r \in 0 .. n, NEW w, w = s.wsi[c], Live(w), Alive(w, u, r), ~w.clash, Roomy(c, w),
         w.in = SubSeq(u, r + 1, n), NEW t, t = libwebsocket_read(s, c)
  PROVE  Settled(s, t, c, u, n)
<1> DEFINE in == s.wsi[c].in
           N == Len(in)
           A == [s EXCEPT !.wsi[c].in = << >>]
           Body(k, y) == IF y.wsi[c].clash \/ y.wsi[c].state = "dead" THEN y ELSE ReadUnit(y, c, in[k])
           R(k) == {y \in Libs : Reading(s, y, c, u, r + k)}
           X == [k \in 0 .. N |-> R(k)]
           F == [k \in 0 .. N |-> [y \in Libs |-> Body(k, y)]]
           Runs(f) == f = [k \in 0 .. N |-> IF k = 0 THEN A ELSE Body(k, f[k - 1])]
           after == CHOOSE f : Runs(f)
<1>1. /\ N \in Nat /\ r + N = n /\ r \in Nat /\ n \in Nat
      /\ \A k \in 1 .. N : in[k] = u[r + k] /\ r + k - 1 \in 0 .. Len(u) /\ r + k - 1 < Len(u)
  <2>1. n \in 0 .. Len(u) /\ Len(u) \in Nat
    BY FrameFacts
  <2>2. in = SubSeq(u, r + 1, n)
    OBVIOUS
  <2> HIDE DEF in
  <2>3. /\ Len(in) = n - r /\ n - r \in Nat
        /\ \A k \in 1 .. n - r : in[k] = u[r + k] /\ r + k - 1 \in 0 .. Len(u) /\ r + k - 1 < Len(u)
    BY ONLY <2>2, Proper(u), n \in 0 .. Len(u), r \in 0 .. n, Portion
  <2>4. r \in Nat /\ n \in Nat
    BY ONLY <2>1, r \in 0 .. n
  <2>5. r + (n - r) = n
    BY ONLY <2>4
  <2> HIDE DEF N
  <2>6. N = n - r
    BY ONLY <2>3 DEF N
  <2> QED BY ONLY <2>3, <2>4, <2>5, <2>6
<1>2. A \in R(0)
  <2>1. A = [s EXCEPT !.wsi[c].in = << >>]
    OBVIOUS
  <2> HIDE DEF A
  <2>2. Reading(s, A, c, u, r)
    BY ONLY <2>1, Lib(s), TableInv(s), c \in Conns, w = s.wsi[c], Live(w), Alive(w, u, r), ~w.clash,
            Roomy(c, w), Swallowed
  <2>3. A \in Libs
    BY <2>2, LibsOf DEF Reading, Only
  <2>4. r + 0 = r
    BY <1>1
  <2> QED BY <2>2, <2>3, <2>4
<1>3. ASSUME NEW k \in 1 .. N, NEW y \in R(k - 1)
      PROVE  Body(k, y) \in R(k)
  <2> DEFINE q == r + k - 1
             z == Body(k, y)
  <2>1. q \in 0 .. Len(u) /\ q < Len(u) /\ in[k] = u[q + 1] /\ r + (k - 1) = q /\ r + k = q + 1
    <3>1. q + 1 = r + k /\ r + (k - 1) = q
      BY <1>1
    <3> QED BY <1>1, <3>1
  <2>2. Reading(s, y, c, u, q) /\ Lib(y) /\ TableInv(y)
    BY <2>1, LibsOf DEF Reading, Only
  <2>3. CASE y.wsi[c].clash \/ y.wsi[c].state = "dead"
    <3>1. z = y
      BY <2>3
    <3>2. Reading(s, y, c, u, q + 1)
      BY <2>2, <2>3 DEF Reading, Live
    <3>3. y \in Libs
      BY <2>2, LibsOf
    <3> QED BY <2>1, <3>1, <3>2, <3>3
  <2>4. CASE ~(y.wsi[c].clash \/ y.wsi[c].state = "dead")
    <3> DEFINE unit == in[k]
    <3>1. z = ReadUnit(y, c, unit)
      BY <2>4
    <3>2. ~y.wsi[c].clash /\ y.wsi[c].state # "dead" /\ unit = u[q + 1]
      BY <2>1, <2>4
    <3>3. q \in 0 .. Len(u) /\ q < Len(u)
      BY <2>1
    <3> HIDE DEF unit, q, z
    <3>4. Reading(s, z, c, u, q + 1)
      BY ONLY <2>2, <3>1, <3>2, <3>3, c \in Conns, Proper(u), UnitRead
    <3>5. z \in Libs
      BY <3>4, LibsOf DEF Reading, Only
    <3>6. z \in R(k)
      BY <2>1, <3>4, <3>5
    <3> QED BY <3>6 DEF z
  <2> QED BY <2>3, <2>4
<1> HIDE DEF A, Body, R, N
<1>4. \A k \in 0 .. N : R(k) \subseteq Libs
  BY DEF R
<1>5. \E f : Runs(f)
  <2>0. 0 \in 0 .. N /\ \A k \in 1 .. N : k \in 0 .. N /\ k - 1 \in 0 .. N
    BY <1>1
  <2>1. A \in X[0] /\ \A k \in 1 .. N : \A y \in X[k - 1] : F[k][y] \in X[k]
    BY <1>2, <1>3, <1>4, <2>0
  <2>2. \A k \in 0 .. N : \A y \in Libs : F[k][y] = Body(k, y)
    OBVIOUS
  <2>3. \A k \in 0 .. N : X[k] \subseteq Libs
    BY <1>4
  <2> HIDE DEF X, F
  <2>4. \E f : Run(f, N, X, F, A)
    <3>1. Advances(N, X, F) /\ A \in X[0] /\ N \in Nat
      BY <1>1, <2>1 DEF Advances
    <3> QED BY ONLY <3>1, Running
  <2> PICK f : Run(f, N, X, F, A)
    BY <2>4
  <2>5. \A k \in 1 .. N : F[k][f[k - 1]] = Body(k, f[k - 1])
    BY <2>0, <2>2, <2>3 DEF Run
  <2>6. \A k \in 0 .. N : k # 0 => k \in 1 .. N
    BY <1>1
  <2>7. Runs(f)
    BY <2>5, <2>6, Zenon DEF Run
  <2> QED BY <2>7
<1>6. Runs(after)
  <2> HIDE DEF Runs
  <2> QED BY <1>5
<1>7. t = after[N]
  BY Zenon DEF libwebsocket_read, A, Body, N
<1> HIDE DEF after
<1>8. after[0] \in X[0] /\ \A k \in 1 .. N : after[k - 1] \in X[k - 1] => after[k] \in X[k]
  <2>1. 0 \in 0 .. N /\ \A k \in 1 .. N : k \in 0 .. N /\ k - 1 \in 0 .. N /\ k # 0
    BY <1>1
  <2>2. \A k \in 0 .. N : after[k] = IF k = 0 THEN A ELSE Body(k, after[k - 1])
    BY <1>6
  <2> QED BY <1>2, <1>3, <2>1, <2>2
<1>9. after[N] \in R(N)
  <2>1. N \in Nat /\ N \in 0 .. N
    BY <1>1
  <2>2. after[N] \in X[N]
    <3> HIDE DEF X
    <3> QED BY ONLY <1>8, <2>1, Kept
  <2> QED BY <2>1, <2>2
<1>10. Reading(s, t, c, u, n)
  BY <1>1, <1>7, <1>9 DEF R
<1>11. SubSeq(u, n + 1, n) = << >> /\ n \in 0 .. n
  BY <1>1, SubSeqEmpty
<1>12. ASSUME NEW v, v.in = << >>, Live(v), Alive(v, u, n)
       PROVE  Stands(v, u, n)
  BY <1>11, <1>12 DEF Stands
<1> QED BY <1>10, <1>12 DEF Reading, Settled

-----------------------------------------------------------------------------
(* Serving one socket. *)

\* A socket is served after a change that the script does not see.
LEMMA SettledVia ==
  ASSUME NEW s, NEW x, NEW t, NEW c \in Conns, NEW u, NEW n, Only(s, x, c),
         x.wsi[c].net = s.wsi[c].net, Settled(x, t, c, u, n)
  PROVE  Settled(s, t, c, u, n)
BY OnlyTrans DEF Settled

\* A connection that stays open.
LEMMA StandsSettled ==
  ASSUME NEW s, NEW t, NEW c \in Conns, NEW u, NEW n, Only(s, t, c), NEW v, v = t.wsi[c], Row(v),
         Roomy(c, v), v.net = s.wsi[c].net, ~v.clash, Stands(v, u, n)
  PROVE  Settled(s, t, c, u, n)
<1>1. v.state # "new"
  BY DEF Stands, Live
<1> QED BY <1>1 DEF Settled

\* A connection that is closed.
LEMMA ClosedSettled ==
  ASSUME NEW s, Lib(s), TableInv(s), NEW c \in Conns, NEW u, NEW n, NEW w, w = s.wsi[c], Live(w),
         Closable(w, u), ~w.clash, Roomy(c, w),
         NEW t, t = libwebsocket_close_and_free_session(s, c)
  PROVE  Settled(s, t, c, u, n) /\ ~t.wsi[c].clash /\ Len(t.fds) = Len(s.fds) - 1
<1> DEFINE v == t.wsi[c]
<1>1. v = t.wsi[c]
  OBVIOUS
<1> HIDE DEF v
<1>2. /\ Only(s, t, c) /\ Row(v) /\ Dead(v, u) /\ v.net = w.net /\ v.in = << >>
      /\ v.clash = w.clash /\ (Roomy(c, w) => Roomy(c, v))
      /\ Len(t.fds) = Len(s.fds) - 1
  BY ONLY <1>1, Lib(s), TableInv(s), c \in Conns, w = s.wsi[c], Live(w), Closable(w, u),
          t = libwebsocket_close_and_free_session(s, c), Closing
<1>3. v.state # "new"
  BY <1>2 DEF Dead
<1> QED BY <1>1, <1>2, <1>3 DEF Settled

\* Fields that say nothing of what a connection was sent or heard.
Neutral == {"timeout", "blocking", "selected", "tmalloc", "ret"}

\* An open connection stays one when only the timeout, the polling or a result change.
LEMMA NeutralAlive ==
  ASSUME NEW w, NEW v, Keeps(w, v, Neutral), NEW u, NEW r
  PROVE  /\ Alive(w, u, r) => Alive(v, u, r)
         /\ v.state = w.state /\ v.net = w.net /\ v.in = w.in /\ v.clash = w.clash
         /\ v.mode = w.mode /\ v.trunc = w.trunc /\ v.room = w.room
         /\ v.hears = w.hears /\ v.hdr = w.hdr /\ v.whole = w.whole /\ v.wire = w.wire
         /\ v.got = w.got /\ v.filepos = w.filepos
<1>1. /\ v.state = w.state /\ v.net = w.net /\ v.in = w.in /\ v.clash = w.clash
      /\ v.mode = w.mode /\ v.trunc = w.trunc /\ v.room = w.room
      /\ v.hears = w.hears /\ v.hdr = w.hdr /\ v.whole = w.whole /\ v.wire = w.wire
      /\ v.got = w.got /\ v.filepos = w.filepos /\ v.rx = w.rx /\ v.handed = w.handed
  BY DEF Keeps, Fields, Neutral
<1>2. Asking(w, u, r) => Asking(v, u, r)
  BY <1>1 DEF Asking
<1>3. Filing(w, u, r) => Filing(v, u, r)
  BY <1>1 DEF Filing
<1>4. Talking(w, u, r) => Talking(v, u, r)
  BY <1>1 DEF Talking, InOrder
<1> QED BY <1>1, <1>2, <1>3, <1>4 DEF Alive

\* POLLOUT of a websocket.
Woken(s, t, c, u, r) ==
  /\ Only(s, t, c) /\ Row(t.wsi[c]) /\ Talking(t.wsi[c], u, r) /\ Roomy(c, t.wsi[c])
  /\ t.wsi[c].net = s.wsi[c].net /\ t.wsi[c].in = s.wsi[c].in /\ ~t.wsi[c].clash

\* lws_handle_POLLOUT_event: what is held back goes first, and only then the program writes.
LEMMA PolledOut ==
  ASSUME version \in 0 .. MaxUpdates,
         NEW s, Lib(s), TableInv(s), NEW c \in Conns, NEW u, Proper(u), NEW r \in 0 .. Len(u),
         NEW w, w = s.wsi[c], Talking(w, u, r), ~w.clash, Roomy(c, w),
         NEW t, t = lws_handle_POLLOUT_event(s, c)
  PROVE  Woken(s, t, c, u, r)
<1> DEFINE v == t.wsi[c]
<1>1. Live(w) /\ Row(w)
  <2>1. Live(w)
    BY TalkingLive
  <2> QED BY <2>1 DEF Lib
<1>2. v = t.wsi[c]
  OBVIOUS
<1> HIDE DEF v
<1>3. CASE w.trunc # << >>
  <2>1. t = IssuePending(s, c)
    BY <1>3 DEF lws_handle_POLLOUT_event
  <2>2. /\ Only(s, t, c) /\ Row(v)
        /\ Keeps(w, v, {"wire", "room", "trunc", "blocking", "selected"})
        /\ Roomy(c, w) => Roomy(c, v)
        /\ Line(v) = Line(w)
    BY ONLY <1>1, <1>2, <2>1, Lib(s), TableInv(s), c \in Conns, w = s.wsi[c], PendingSent
  <2>3. Keeps(w, v, WriteFields)
    BY <2>2 DEF Keeps, WriteFields, SendFields
  <2>4. v.net = w.net /\ v.in = w.in /\ v.clash = w.clash /\ v.handed = w.handed
    BY <2>2, Zenon DEF Keeps, Fields
  <2>5. InOrder(v)
    BY <2>2, <2>4, Zenon DEF Talking, InOrder, Line
  <2>6. Talking(v, u, r)
    BY <2>3, <2>5, TalkingKept
  <2> QED BY <1>2, <2>2, <2>4, <2>6 DEF Woken
<1>4. CASE w.trunc = << >>
  <2> DEFINE s1 == lws_change_pollfd(s, c, FALSE)
             w1 == s1.wsi[c]
  <2>1. t = libwebsocket_write(s1, c, <<"data", version>>)
    BY <1>4 DEF lws_handle_POLLOUT_event, Writeable
  <2>2. Only(s, s1, c) /\ Row(w1) /\ Keeps(w, w1, {"selected"})
    BY <1>1, PollKeeps
  <2>3. w1 = s1.wsi[c] /\ Lib(s1) /\ TableInv(s1)
    BY <2>2 DEF Only
  <2> HIDE DEF s1, w1
  <2>4. Keeps(w, w1, Neutral)
    BY <2>2 DEF Keeps, Neutral
  <2>5. /\ w1.state = w.state /\ w1.net = w.net /\ w1.in = w.in /\ w1.clash = w.clash
        /\ w1.trunc = w.trunc /\ w1.room = w.room /\ w1.wire = w.wire /\ w1.handed = w.handed
    BY <2>2 DEF Keeps, Fields
  <2>6. InOrder(w1) /\ Live(w1) /\ Roomy(c, w1)
    BY <1>1, <2>5 DEF Talking, InOrder, Live, Roomy
  <2>7. <<"data", version>> \in Frames
    BY OutFacts
  <2>8. /\ Only(s1, t, c) /\ Row(v) /\ Keeps(w1, v, WriteFields)
        /\ Roomy(c, w1) => Roomy(c, v)
        /\ InOrder(w1) => InOrder(v)
        /\ v.clash => w1.clash \/ w1.trunc # << >>
    BY ONLY <1>2, <2>1, <2>3, <2>6, <2>7, c \in Conns, Written
  <2>9. Keeps(w, v, WriteFields)
    <3>1. Keeps(w, w1, WriteFields)
      BY <2>2 DEF Keeps, WriteFields, SendFields
    <3> QED BY <2>8, <3>1, KeepsTrans
  <2>10. v.net = w.net /\ v.in = w.in
    BY <2>9 DEF Keeps, Fields, WriteFields, SendFields
  <2>11. Talking(v, u, r)
    BY <2>6, <2>8, <2>9, TalkingKept
  <2>12. Only(s, t, c) /\ Roomy(c, v) /\ ~v.clash
    BY <1>4, <2>2, <2>5, <2>6, <2>8, OnlyTrans
  <2> QED BY <1>2, <2>8, <2>10, <2>11, <2>12 DEF Woken
<1> QED BY <1>3, <1>4

\* ServeWebsocket.
LEMMA WebsocketServed ==
  ASSUME version \in 0 .. MaxUpdates,
         NEW s, Lib(s), TableInv(s), NEW c \in Conns, NEW u, Proper(u), NEW n \in 0 .. Len(u),
         NEW w, w = s.wsi[c], Stands(w, u, n), w.mode = "ws", ~w.clash, Roomy(c, w),
         NEW in \in BOOLEAN, NEW out \in BOOLEAN, NEW t, t = ServeWebsocket(s, c, in, out)
  PROVE  Settled(s, t, c, u, n)
<1>1. PICK r \in 0 .. n : w.in = SubSeq(u, r + 1, n) /\ Live(w) /\ Alive(w, u, r)
  BY DEF Stands
<1>2. Talking(w, u, r)
  BY <1>1 DEF Alive, Asking, Filing
<1>3. Len(u) \in Nat /\ r \in 0 .. Len(u) /\ n \in Nat /\ Row(w)
  <2>1. Len(u) \in Nat
    BY FrameFacts
  <2> QED BY <2>1 DEF Lib
<1> DEFINE wrote == IF out /\ w.state = "established" THEN lws_handle_POLLOUT_event(s, c) ELSE s
           w1 == wrote.wsi[c]
<1>4. Woken(s, wrote, c, u, r)
  <2>1. CASE out /\ w.state = "established"
    <3>1. wrote = lws_handle_POLLOUT_event(s, c)
      BY <2>1
    <3> HIDE DEF wrote
    <3> QED BY ONLY <1>2, <1>3, <3>1, version \in 0 .. MaxUpdates, Lib(s), TableInv(s), c \in Conns,
                    Proper(u), w = s.wsi[c], ~w.clash, Roomy(c, w), PolledOut
  <2>2. CASE ~(out /\ w.state = "established")
    <3>1. Only(s, s, c)
      BY DEF Only
    <3> QED BY <1>2, <1>3, <2>2, <3>1 DEF Woken
  <2> QED BY <2>1, <2>2
<1>5. t = IF in THEN libwebsocket_read(wrote, c) ELSE wrote
  BY DEF ServeWebsocket
<1>6. w1 = wrote.wsi[c]
  OBVIOUS
<1> HIDE DEF wrote, w1
<1>7. /\ Only(s, wrote, c) /\ Lib(wrote) /\ TableInv(wrote) /\ w1.net = w.net /\ Row(w1)
      /\ w1.in = SubSeq(u, r + 1, n) /\ ~w1.clash /\ Roomy(c, w1)
  BY <1>1, <1>4, <1>6 DEF Woken, Only
<1>8. Live(w1) /\ Alive(w1, u, r)
  <2>1. Talking(w1, u, r)
    BY <1>4, <1>6 DEF Woken
  <2> QED BY <1>3, <2>1, TalkingLive DEF Alive
<1>9. CASE in
  <2>1. t = libwebsocket_read(wrote, c)
    BY <1>5, <1>9
  <2>2. Settled(wrote, t, c, u, n)
    BY ONLY <1>6, <1>7, <1>8, <2>1, c \in Conns, Proper(u), n \in 0 .. Len(u), r \in 0 .. n, Read
  <2> QED BY <1>6, <1>7, <2>2, SettledVia
<1>10. CASE ~in
  <2>1. t = wrote /\ Stands(w1, u, n)
    BY <1>5, <1>7, <1>8, <1>10 DEF Stands
  <2> QED BY <1>6, <1>7, <2>1, StandsSettled
<1> QED BY <1>9, <1>10

\* ServeHttp.
LEMMA HttpServed ==
  ASSUME NEW s, Lib(s), TableInv(s), NEW c \in Conns, NEW u, Proper(u), NEW n \in 0 .. Len(u),
         NEW w, w = s.wsi[c], Stands(w, u, n), w.mode # "ws", ~w.clash, Roomy(c, w),
         NEW in \in BOOLEAN, NEW out \in BOOLEAN, NEW t, t = ServeHttp(s, c, in, out)
  PROVE  Settled(s, t, c, u, n)
<1>1. PICK r \in 0 .. n : w.in = SubSeq(u, r + 1, n) /\ Live(w) /\ Alive(w, u, r)
  BY DEF Stands
<1>2. Asking(w, u, r) \/ Filing(w, u, r)
  BY <1>1 DEF Alive, Talking
<1>3. Len(u) \in Nat /\ r \in 0 .. Len(u) /\ n \in Nat /\ Row(w)
  <2>1. Len(u) \in Nat
    BY FrameFacts
  <2> QED BY <2>1 DEF Lib
<1> DEFINE v == t.wsi[c]
           once == lws_change_pollfd(s, c, FALSE)
           w1 == once.wsi[c]
           fragment == libwebsockets_serve_http_file_fragment(once, c)
           w2 == fragment.wsi[c]
<1>4. v = t.wsi[c] /\ w1 = once.wsi[c] /\ w2 = fragment.wsi[c]
  OBVIOUS
<1>5. t = IF w.tmalloc
          THEN IF out THEN IssuePending(s, c) ELSE s
          ELSE IF in
          THEN libwebsocket_read(s, c)
          ELSE IF ~out
          THEN s
          ELSE IF w.state # "issuing"
          THEN once
          ELSE IF w2.ret # 0
          THEN libwebsocket_close_and_free_session(fragment, c)
          ELSE fragment
  BY DEF ServeHttp
<1>6. fragment = libwebsockets_serve_http_file_fragment(once, c) /\ once = lws_change_pollfd(s, c, FALSE)
  OBVIOUS
<1> HIDE DEF v, once, w1, fragment, w2
<1>7. ASSUME t = s
      PROVE  Settled(s, t, c, u, n)
  <2>1. Only(s, s, c)
    BY DEF Only
  <2> QED BY <1>3, <1>7, <2>1, StandsSettled
<1>8. ASSUME t = IssuePending(s, c)
      PROVE  Settled(s, t, c, u, n)
  <2>1. CASE Asking(w, u, r)
    <3>1. t = s
      BY <1>8, <2>1 DEF Asking, IssuePending
    <3> QED BY <1>7, <3>1
  <2>2. CASE Filing(w, u, r)
    <3>1. /\ Only(s, t, c) /\ Row(v)
          /\ Keeps(w, v, {"wire", "room", "trunc", "blocking", "selected"})
          /\ Roomy(c, w) => Roomy(c, v)
          /\ Line(v) = Line(w)
      BY ONLY <1>1, <1>4, <1>8, Lib(s), TableInv(s), c \in Conns, w = s.wsi[c], PendingSent
    <3>2. /\ v.net = w.net /\ v.in = w.in /\ v.clash = w.clash /\ v.state = w.state
          /\ v.mode = w.mode /\ v.hears = w.hears /\ v.whole = w.whole /\ v.got = w.got
          /\ v.hdr = w.hdr /\ v.filepos = w.filepos
      BY <3>1 DEF Keeps, Fields
    <3>3. Filing(v, u, r) /\ Live(v)
      BY <2>2, <3>1, <3>2 DEF Filing, Line, Live
    <3>4. Stands(v, u, n)
      BY <1>1, <3>2, <3>3 DEF Stands, Alive
    <3> QED BY <1>4, <3>1, <3>2, <3>4, StandsSettled
  <2> QED BY <1>2, <2>1, <2>2
<1>9. ASSUME t = libwebsocket_read(s, c)
      PROVE  Settled(s, t, c, u, n)
  BY ONLY <1>1, <1>9, Lib(s), TableInv(s), c \in Conns, Proper(u), n \in 0 .. Len(u), r \in 0 .. n,
          w = s.wsi[c], ~w.clash, Roomy(c, w), Read
<1>10. Only(s, once, c) /\ Row(w1) /\ Keeps(w, w1, Neutral) /\ Lib(once) /\ TableInv(once)
  <2>1. Only(s, once, c) /\ Row(w1) /\ Keeps(w, w1, {"selected"})
    BY <1>1, <1>4, <1>6, PollKeeps
  <2> QED BY <2>1 DEF Keeps, Neutral, Only
<1>11. /\ Alive(w1, u, r) /\ w1.net = w.net /\ w1.in = w.in /\ ~w1.clash
       /\ w1.trunc = w.trunc /\ w1.room = w.room /\ w1.state = w.state
  BY <1>1, <1>10, NeutralAlive
<1>12. Live(w1) /\ Roomy(c, w1) /\ Stands(w1, u, n)
  BY <1>1, <1>11 DEF Live, Roomy, Stands
<1>13. ASSUME t = once
       PROVE  Settled(s, t, c, u, n)
  BY <1>4, <1>10, <1>11, <1>12, <1>13, StandsSettled
<1>14. CASE w.state = "issuing"
  <2>1. Filing(w1, u, Len(u)) /\ r = Len(u)
    <3>1. Filing(w1, u, r)
      BY <1>11, <1>14 DEF Alive, Asking, Talking
    <3> QED BY <3>1 DEF Filing
  <2>2. Served(once, fragment, c, u)
    BY ONLY <1>4, <1>6, <1>10, <1>11, <2>1, c \in Conns, Proper(u), ServeFragment
  <2>3. /\ Only(s, fragment, c) /\ Row(w2) /\ Live(w2) /\ Closable(w2, u) /\ ~w2.clash /\ Roomy(c, w2)
        /\ Lib(fragment) /\ TableInv(fragment)
    BY <1>4, <1>10, <1>12, <2>2, OnlyTrans DEF Served, Only
  <2>4. w2.net = w.net /\ w2.in = w.in
    BY <1>4, <1>11, <2>2 DEF Served, Keeps, Fields, FileFields, SendFields
  <2>5. ASSUME t = fragment, w2.ret = 0
        PROVE  Settled(s, t, c, u, n)
    <3>1. Filing(w2, u, Len(u))
      BY <1>4, <2>2, <2>5 DEF Served
    <3>2. Stands(w2, u, n)
      BY <1>1, <2>1, <2>3, <2>4, <3>1 DEF Stands, Alive
    <3> QED BY <1>4, <2>3, <2>4, <2>5, <3>2, StandsSettled
  <2>6. ASSUME t = libwebsocket_close_and_free_session(fragment, c)
        PROVE  Settled(s, t, c, u, n)
    <3>1. Settled(fragment, t, c, u, n)
      BY ONLY <1>4, <2>3, <2>6, c \in Conns, ClosedSettled
    <3> QED BY <1>4, <2>3, <2>4, <3>1, SettledVia
  <2> QED BY <1>5, <1>7, <1>8, <1>9, <1>14, <2>5, <2>6
<1>15. CASE w.state # "issuing"
  BY <1>5, <1>7, <1>8, <1>9, <1>13, <1>15
<1> QED BY <1>14, <1>15

\* Serve, whatever the network says of the connection.
LEMMA SocketServed ==
  ASSUME version \in 0 .. MaxUpdates,
         NEW s, Lib(s), TableInv(s), NEW c \in Conns, NEW u, Proper(u), NEW n \in 0 .. Len(u),
         NEW w, w = s.wsi[c], Stands(w, u, n), ~w.clash, Roomy(c, w),
         NEW in \in BOOLEAN, NEW out \in BOOLEAN, NEW hup \in BOOLEAN,
         NEW t, t = Serve(s, c, in, out, hup)
  PROVE  Settled(s, t, c, u, n)
<1>1. CASE hup /\ ~in
  <2>1. t = libwebsocket_close_and_free_session(s, c)
    BY <1>1 DEF Serve
  <2>2. Live(w) /\ Closable(w, u)
    <3>1. PICK r \in 0 .. n : w.in = SubSeq(u, r + 1, n) /\ Live(w) /\ Alive(w, u, r)
      BY DEF Stands
    <3>2. r \in 0 .. Len(u)
      <4>1. Len(u) \in Nat
        BY FrameFacts
      <4> QED BY <4>1
    <3> QED BY <3>1, <3>2, AliveClosable
  <2> QED BY ONLY <2>1, <2>2, Lib(s), TableInv(s), c \in Conns, w = s.wsi[c], ~w.clash, Roomy(c, w),
                  ClosedSettled
<1>2. CASE ~(hup /\ ~in) /\ w.mode = "ws"
  <2>1. t = ServeWebsocket(s, c, in, out) /\ w.mode = "ws"
    BY <1>2 DEF Serve
  <2> QED BY ONLY <2>1, version \in 0 .. MaxUpdates, Lib(s), TableInv(s), c \in Conns, Proper(u),
                  n \in 0 .. Len(u), w = s.wsi[c], Stands(w, u, n), ~w.clash, Roomy(c, w),
                  in \in BOOLEAN, out \in BOOLEAN, WebsocketServed
<1>3. CASE ~(hup /\ ~in) /\ w.mode # "ws"
  <2>1. t = ServeHttp(s, c, in, out) /\ w.mode # "ws"
    BY <1>3 DEF Serve
  <2> QED BY ONLY <2>1, Lib(s), TableInv(s), c \in Conns, Proper(u),
                  n \in 0 .. Len(u), w = s.wsi[c], Stands(w, u, n), ~w.clash, Roomy(c, w),
                  in \in BOOLEAN, out \in BOOLEAN, HttpServed
<1> QED BY <1>1, <1>2, <1>3

\* A return value is forgotten.
LEMMA SettledRet ==
  ASSUME NEW s, NEW t, NEW c \in Conns, NEW u, NEW n, Settled(s, t, c, u, n),
         NEW x, x = [t EXCEPT !.wsi[c].ret = 0]
  PROVE  Settled(s, x, c, u, n)
<1> DEFINE w == t.wsi[c]
           v == x.wsi[c]
<1>1. /\ Lib(t) /\ TableInv(t) /\ Only(s, t, c) /\ w = t.wsi[c] /\ v = x.wsi[c]
      /\ Roomy(c, w) /\ w.net = s.wsi[c].net /\ w.state # "new"
      /\ w.clash => Overlaps(c, u)
      /\ ~w.clash => Dead(w, u) \/ Stands(w, u, n)
  BY DEF Settled, Only
<1>2. x = Ret(t, c, 0)
  BY DEF Ret
<1> HIDE DEF w, v
<1>3. Only(t, x, c) /\ Row(v) /\ Keeps(w, v, {"ret"})
  BY ONLY <1>1, <1>2, c \in Conns, 0 \in Int, Returns
<1>4. Keeps(w, v, Neutral)
  BY <1>3 DEF Keeps, Neutral
<1>5. /\ v.state = w.state /\ v.net = w.net /\ v.in = w.in /\ v.clash = w.clash
      /\ v.trunc = w.trunc /\ v.room = w.room
      /\ v.hears = w.hears /\ v.hdr = w.hdr /\ v.whole = w.whole /\ v.wire = w.wire
      /\ v.got = w.got
      /\ \A r : Alive(w, u, r) => Alive(v, u, r)
  BY <1>4, NeutralAlive
<1>6. Dead(w, u) => Dead(v, u)
  BY <1>5 DEF Dead
<1>7. Stands(w, u, n) => Stands(v, u, n)
  BY <1>5 DEF Stands, Live
<1>8. Roomy(c, v)
  BY <1>1, <1>5 DEF Roomy
<1>9. Only(s, x, c)
  BY <1>1, <1>3, OnlyTrans
<1>10. v.net = s.wsi[c].net /\ v.state # "new" /\ (v.clash => Overlaps(c, u))
  BY <1>1, <1>5
<1>11. ~v.clash => Dead(v, u) \/ Stands(v, u, n)
  BY <1>1, <1>5, <1>6, <1>7
<1> QED BY <1>1, <1>3, <1>8, <1>9, <1>10, <1>11 DEF Settled

-----------------------------------------------------------------------------
(* The whole library. *)

Quiet(s) == \A c \in Conns : ~s.wsi[c].clash
Further(s, t) == \A c \in Conns : s.wsi[c].state # "new" => t.wsi[c].state # "new"
SameNets(s, t) == \A c \in Conns : t.wsi[c].net = s.wsi[c].net

\* What soundness says of one connection.
LEMMA SoundRow ==
  ASSUME NEW x, NEW k, Intended(x, k), NEW s, Sound(s, x, k), NEW c \in Conns, NEW w, w = s.wsi[c],
         ~w.clash, NEW u, u = x[c].units, NEW n, n = k[c]
  PROVE  /\ Proper(u) /\ n \in 0 .. Len(u) /\ Row(w) /\ Roomy(c, w) /\ RowInv(w, u, n)
         /\ Live(w) => Stands(w, u, n) /\ Closable(w, u)
<1>1. Proper(u)
  BY Scripted DEF Intended
<1>2. n \in 0 .. Len(u) /\ Len(u) \in Nat
  <2>1. Len(u) \in Nat
    BY <1>1, FrameFacts
  <2>2. n \in Nat /\ n <= Len(u)
    BY DEF Intended
  <2> HIDE DEF Intended
  <2> QED BY <2>1, <2>2
<1>3. Row(w) /\ Roomy(c, w) /\ RowInv(w, u, n)
  BY DEF Sound, Lib, RowSound
<1>4. ASSUME Live(w)
      PROVE  Stands(w, u, n) /\ Closable(w, u)
  <2>1. ~Dead(w, u)
    BY <1>4 DEF Live, Dead
  <2>2. PICK r \in 0 .. n : w.in = SubSeq(u, r + 1, n) /\ Alive(w, u, r)
    BY <1>3, <2>1 DEF RowInv
  <2>3. r \in 0 .. Len(u)
    BY <1>2
  <2>4. Stands(w, u, n)
    BY <1>4, <2>2 DEF Stands
  <2> QED BY <1>1, <2>2, <2>3, <2>4, AliveClosable
<1> QED BY <1>1, <1>2, <1>3, <1>4

\* Serving one connection keeps the soundness of all.
LEMMA SettledSound ==
  ASSUME NEW x, NEW k, Intended(x, k), NEW s, Sound(s, x, k), NEW c \in Conns, NEW w, w = s.wsi[c],
         w.state # "new", ~w.clash, NEW u, u = x[c].units, NEW n, n = k[c],
         NEW t, Settled(s, t, c, u, n)
  PROVE  /\ Sound(t, x, k) /\ Further(s, t)
         /\ \A d \in Conns \ {c} : t.wsi[d] = s.wsi[d]
         /\ Quiet(s) /\ ~t.wsi[c].clash => Quiet(t)
<1> DEFINE v == t.wsi[c]
<1>1. /\ Lib(t) /\ TableInv(t) /\ \A d \in Conns \ {c} : t.wsi[d] = s.wsi[d]
      /\ v.state # "new" /\ Roomy(c, v) /\ v.net = w.net
      /\ v.clash => Overlaps(c, u)
      /\ ~v.clash => Dead(v, u) \/ Stands(v, u, n)
  BY DEF Settled, Only
<1>2. RowInv(w, u, n)
  BY SoundRow
<1>3. v.net \notin {"none", "pending"}
  BY <1>1, <1>2 DEF RowInv
<1>4. Stands(v, u, n) => \E r \in 0 .. n : v.in = SubSeq(u, r + 1, n) /\ Alive(v, u, r)
  BY DEF Stands
<1>5. RowSound(c, v, u, n)
  BY <1>1, <1>3, <1>4 DEF RowSound, RowInv
<1> HIDE DEF v
<1>6. \A d \in Conns : RowSound(d, t.wsi[d], x[d].units, k[d])
  BY <1>1, <1>5 DEF Sound, v
<1>7. Further(s, t)
  BY <1>1 DEF Further, v
<1>8. Quiet(s) /\ ~t.wsi[c].clash => Quiet(t)
  BY <1>1 DEF Quiet
<1> QED BY <1>1, <1>6, <1>7, <1>8 DEF Sound

\* One connection is closed.
LEMMA ClosedOne ==
  ASSUME NEW x, NEW k, Intended(x, k), NEW s, Sound(s, x, k), Quiet(s), NEW c \in Conns,
         Live(s.wsi[c]), NEW t, t = libwebsocket_close_and_free_session(s, c)
  PROVE  /\ Sound(t, x, k) /\ Quiet(t) /\ Further(s, t) /\ SameNets(s, t)
         /\ Len(t.fds) = Len(s.fds) - 1
<1> DEFINE w == s.wsi[c]
           u == x[c].units
           n == k[c]
<1>1. w = s.wsi[c] /\ u = x[c].units /\ n = k[c] /\ ~w.clash /\ Live(w) /\ w.state # "new"
  BY DEF Quiet, Live
<1> HIDE DEF w, u, n
<1>2. Lib(s) /\ TableInv(s)
  BY DEF Sound
<1>3. Roomy(c, w) /\ Closable(w, u)
  BY <1>1, SoundRow
<1>4. Settled(s, t, c, u, n) /\ ~t.wsi[c].clash /\ Len(t.fds) = Len(s.fds) - 1
  BY ONLY <1>1, <1>2, <1>3, c \in Conns, t = libwebsocket_close_and_free_session(s, c), ClosedSettled
<1>5. /\ Sound(t, x, k) /\ Further(s, t)
      /\ Quiet(s) /\ ~t.wsi[c].clash => Quiet(t)
  BY ONLY <1>1, <1>4, Intended(x, k), Sound(s, x, k), c \in Conns, SettledSound
<1>6. SameNets(s, t)
  BY <1>4 DEF Settled, Only, SameNets
<1> QED BY <1>4, <1>5, <1>6

\* A slot of the table that is not the listener's is an open connection's.
LEMMA SlotLive ==
  ASSUME NEW s, Lib(s), TableInv(s), NEW i \in 1 .. Len(s.fds), NEW c, c = s.fds[i].fd, c # Listener
  PROVE  c \in Conns /\ Live(s.wsi[c])
<1>1. s.fds \in Seq(Fds)
  BY DEF Lib
<1>2. s.fds[i] \in Fds
  BY <1>1, ElementOfSeq
<1>3. c \in Conns
  BY <1>2 DEF Fds
<1>4. Polls(s, c)
  BY DEF Polls
<1> QED BY <1>3, <1>4 DEF TableInv, Live

\* A client is taken in.
LEMMA TakenIn ==
  ASSUME NEW x, NEW k, Intended(x, k), NEW s, Sound(s, x, k), Quiet(s), NEW c \in Pending(s),
         NEW t, t = accept(s, c)
  PROVE  /\ Sound(t, x, k) /\ Quiet(t) /\ Further(s, t) /\ s.wsi[c].state = "new"
         /\ \A d \in Conns \ {c} : t.wsi[d] = s.wsi[d]
<1> DEFINE w == s.wsi[c]
           u == x[c].units
           n == k[c]
           v == t.wsi[c]
<1>1. w = s.wsi[c] /\ u = x[c].units /\ n = k[c] /\ ~w.clash /\ c \in Conns /\ w.net = "pending"
      /\ v = t.wsi[c] /\ Lib(s) /\ TableInv(s)
  BY DEF Quiet, Pending, Sound
<1> HIDE DEF w, u, n, v
<1>2. Proper(u) /\ n \in 0 .. Len(u) /\ Roomy(c, w) /\ RowInv(w, u, n)
  BY <1>1, SoundRow
<1>3. w.state = "new"
  BY <1>1, <1>2 DEF RowInv
<1>4. PICK r \in 0 .. n : w.in = SubSeq(u, r + 1, n) /\ Asking(w, u, r)
  BY <1>2, <1>3 DEF RowInv, Dead, Alive, Filing, Talking
<1>5. /\ Only(s, t, c) /\ Row(v) /\ Keeps(w, v, {"net", "state", "timeout"})
      /\ v.net = "open" /\ v.state = "http"
  BY ONLY <1>1, <1>3, t = accept(s, c), AcceptedRow
<1>6. /\ v.in = w.in /\ v.clash = w.clash /\ v.room = w.room /\ v.trunc = w.trunc
      /\ v.mode = w.mode /\ v.hears = w.hears /\ v.whole = w.whole /\ v.wire = w.wire
      /\ v.handed = w.handed /\ v.got = w.got /\ v.rx = w.rx /\ v.hdr = w.hdr
  BY <1>5 DEF Keeps, Fields
<1>7. Asking(v, u, r)
  BY <1>4, <1>5, <1>6 DEF Asking
<1>8. RowInv(v, u, n) /\ Roomy(c, v)
  BY <1>2, <1>4, <1>5, <1>6, <1>7 DEF RowInv, Roomy, Alive
<1>9. RowSound(c, v, u, n) /\ ~v.clash
  BY <1>1, <1>6, <1>8 DEF RowSound
<1>10. Lib(t) /\ TableInv(t) /\ \A d \in Conns \ {c} : t.wsi[d] = s.wsi[d]
  BY <1>5 DEF Only
<1>11. Sound(t, x, k)
  BY <1>1, <1>9, <1>10 DEF Sound
<1>12. Quiet(t) /\ Further(s, t)
  BY <1>1, <1>5, <1>9, <1>10 DEF Quiet, Further
<1> QED BY <1>1, <1>3, <1>10, <1>11, <1>12

\* A change of fields that say nothing of what a connection was sent or heard.
LEMMA NeutralSound ==
  ASSUME NEW x, NEW k, NEW s, Sound(s, x, k), NEW t, Lib(t), TableInv(t),
         \A c \in Conns : Keeps(s.wsi[c], t.wsi[c], Neutral)
  PROVE  Sound(t, x, k) /\ (Quiet(s) => Quiet(t)) /\ Further(s, t)
<1>1. ASSUME NEW c \in Conns
      PROVE  /\ RowSound(c, t.wsi[c], x[c].units, k[c])
             /\ t.wsi[c].clash = s.wsi[c].clash /\ t.wsi[c].state = s.wsi[c].state
  <2> DEFINE w == s.wsi[c]
             v == t.wsi[c]
             u == x[c].units
             n == k[c]
  <2>1. Keeps(w, v, Neutral) /\ RowSound(c, w, u, n)
    BY DEF Sound
  <2> HIDE DEF w, v, u, n
  <2>2. /\ v.state = w.state /\ v.net = w.net /\ v.in = w.in /\ v.clash = w.clash
        /\ v.trunc = w.trunc /\ v.room = w.room
        /\ v.hears = w.hears /\ v.hdr = w.hdr /\ v.whole = w.whole /\ v.wire = w.wire
        /\ v.got = w.got
        /\ \A r : Alive(w, u, r) => Alive(v, u, r)
    BY <2>1, NeutralAlive
  <2>3. Dead(w, u) => Dead(v, u)
    BY <2>2 DEF Dead
  <2>4. RowInv(w, u, n) => RowInv(v, u, n)
    BY <2>2, <2>3 DEF RowInv
  <2>5. RowSound(c, v, u, n)
    BY <2>1, <2>2, <2>4 DEF RowSound, Roomy
  <2> QED BY <2>2, <2>5 DEF w, v, u, n
<1> QED BY <1>1 DEF Sound, Quiet, Further

\* What closing connections leaves.
Calm(s, y, x, k) == Sound(y, x, k) /\ Quiet(y) /\ Further(s, y) /\ SameNets(s, y)

\* CloseLate: by induction on the table, which becomes shorter as it goes.
LEMMA LateClosed ==
  ASSUME NEW x, NEW k, Intended(x, k), NEW s, Sound(s, x, k), Quiet(s), NEW t, t = CloseLate(s)
  PROVE  Calm(s, t, x, k)
<1> DEFINE N == Len(s.fds)
           A == s
           Body(n, y) == IF Late(y, n) THEN libwebsocket_close_and_free_session(y, y.fds[n].fd) ELSE y
           R == {y \in Libs : Calm(s, y, x, k)}
           X == [n \in 0 .. N |-> R]
           F == [n \in 0 .. N |-> [y \in R |-> Body(n, y)]]
           Runs(f) == f = [n \in 0 .. N |-> IF n = 0 THEN A ELSE Body(n, f[n - 1])]
           after == CHOOSE f : Runs(f)
<1>1. A \in R
  <2>1. Calm(s, s, x, k)
    BY DEF Calm, Further, SameNets
  <2>2. s \in Libs
    BY LibsOf DEF Sound
  <2> QED BY <2>1, <2>2
<1>2. ASSUME NEW n \in 1 .. N, NEW y \in R
      PROVE  Body(n, y) \in R
  <2>1. /\ Calm(s, y, x, k) /\ Sound(y, x, k) /\ Quiet(y) /\ Lib(y) /\ TableInv(y)
        /\ Further(s, y) /\ SameNets(s, y)
    BY DEF Calm, Sound
  <2>2. CASE Late(y, n)
    <3> DEFINE c == y.fds[n].fd
               z == libwebsocket_close_and_free_session(y, c)
    <3>1. c = y.fds[n].fd /\ c # Listener /\ n \in 1 .. Len(y.fds)
          /\ z = libwebsocket_close_and_free_session(y, c)
      <4>1. n \in Nat \ {0} /\ n <= Len(y.fds)
        BY <2>2 DEF Late
      <4>2. Len(y.fds) \in Nat
        <5>1. y.fds \in Seq(Fds)
          BY <2>1 DEF Lib
        <5> QED BY <5>1, LenProperties
      <4> QED BY <2>2, <4>1, <4>2 DEF Late
    <3> HIDE DEF c, z
    <3>2. c \in Conns /\ Live(y.wsi[c])
      BY ONLY <2>1, <3>1, SlotLive
    <3>3. Sound(z, x, k) /\ Quiet(z) /\ Further(y, z) /\ SameNets(y, z)
      BY ONLY <2>1, <3>1, <3>2, Intended(x, k), ClosedOne
    <3>4. Calm(s, z, x, k) /\ z \in Libs
      BY <2>1, <3>3, LibsOf DEF Calm, Further, Sound, SameNets
    <3>5. Body(n, y) = z
      BY <2>2 DEF c, z
    <3> QED BY <3>4, <3>5
  <2> QED BY <2>2
<1>3. N \in Nat
  <2>1. s.fds \in Seq(Fds)
    BY DEF Sound, Lib
  <2> QED BY <2>1, LenProperties
<1> HIDE DEF A, Body, R, N
<1>4. \E f : Runs(f)
  <2>1. A \in X[0] /\ \A n \in 1 .. N : \A y \in X[n - 1] : F[n][y] \in X[n]
    <3>1. 0 \in 0 .. N /\ \A n \in 1 .. N : n \in 0 .. N /\ n - 1 \in 0 .. N
      BY <1>3
    <3> QED BY <1>1, <1>2, <3>1
  <2>2. \A n \in 0 .. N : \A y \in R : F[n][y] = Body(n, y)
    OBVIOUS
  <2>3. \A n \in 0 .. N : X[n] = R
    OBVIOUS
  <2> HIDE DEF X, F
  <2>4. \E f : Run(f, N, X, F, A)
    <3>1. Advances(N, X, F) /\ A \in X[0]
      BY <2>1 DEF Advances
    <3> QED BY ONLY <1>3, <3>1, Running
  <2> PICK f : Run(f, N, X, F, A)
    BY <2>4
  <2>5. \A n \in 1 .. N : n - 1 \in 0 .. N /\ n \in 0 .. N /\ F[n][f[n - 1]] = Body(n, f[n - 1])
    BY <1>3, <2>2, <2>3 DEF Run
  <2>6. \A n \in 0 .. N : n # 0 => n \in 1 .. N
    BY <1>3
  <2>7. Runs(f)
    BY <2>5, <2>6 DEF Run
  <2> QED BY <2>7
<1>5. Runs(after)
  <2> HIDE DEF Runs
  <2> QED BY <1>4
<1>6. t = after[N]
  BY DEF CloseLate, A, Body, N
<1> HIDE DEF after
<1>7. after[0] \in X[0] /\ \A n \in 1 .. N : after[n - 1] \in X[n - 1] => after[n] \in X[n]
  <2>1. 0 \in 0 .. N /\ \A n \in 1 .. N : n \in 0 .. N /\ n - 1 \in 0 .. N /\ n # 0
    BY <1>3
  <2>2. \A n \in 0 .. N : after[n] = IF n = 0 THEN A ELSE Body(n, after[n - 1])
    BY <1>5
  <2> QED BY <1>1, <1>2, <2>1, <2>2
<1>8. after[N] \in X[N]
  <2> HIDE DEF X
  <2>1. N \in 0 .. N
    BY <1>3
  <2> QED BY <1>3, <1>7, <2>1, Kept
<1>9. after[N] \in R
  <2>1. N \in 0 .. N
    BY <1>3
  <2> QED BY <1>8, <2>1
<1> QED BY <1>6, <1>9 DEF R

\* The timeout check.
LEMMA TimeChecked ==
  ASSUME NEW x, NEW k, Intended(x, k), NEW s, Sound(s, x, k), Quiet(s), NEW t, t = TimeoutCheck(s)
  PROVE  Calm(s, t, x, k)
<1>1. CASE second
  <2>1. t = CloseLate(s)
    BY <1>1 DEF TimeoutCheck
  <2> QED BY ONLY <2>1, Intended(x, k), Sound(s, x, k), Quiet(s), LateClosed
<1>2. CASE ~second
  BY <1>2 DEF TimeoutCheck, Calm, Further, SameNets
<1> QED BY <1>1, <1>2

\* The first of the table is closed, be it the listener or a connection.
LEMMA FirstClosed ==
  ASSUME NEW x, NEW k, Intended(x, k), NEW s, Sound(s, x, k), Quiet(s), Len(s.fds) > 0,
         NEW t, t = CloseFirst(s)
  PROVE  Sound(t, x, k) /\ Quiet(t) /\ Len(t.fds) = Len(s.fds) - 1
<1> DEFINE c == s.fds[1].fd
<1>1. c = s.fds[1].fd /\ Lib(s) /\ TableInv(s) /\ Positioned(s) /\ 1 \in 1 .. Len(s.fds)
  <2>1. Lib(s) /\ TableInv(s) /\ Positioned(s)
    BY DEF Sound, TableInv
  <2>2. s.fds \in Seq(Fds)
    BY <2>1 DEF Lib
  <2>3. Len(s.fds) \in Nat
    BY <2>2, LenProperties
  <2> QED BY <2>1, <2>3
<1>2. t = IF c = Listener THEN remove_wsi_socket_from_fds(s, c)
          ELSE libwebsocket_close_and_free_session(s, c)
  BY DEF CloseFirst
<1> HIDE DEF c
<1>3. CASE c = Listener
  <2>1. t = remove_wsi_socket_from_fds(s, c) /\ c \in Sockets /\ Polls(s, c)
    BY <1>1, <1>2, <1>3 DEF Sockets, Polls
  <2>2. /\ Lib(t) /\ Positioned(t) /\ t.wsi = s.wsi /\ Len(t.fds) = Len(s.fds) - 1
        /\ ~Polls(t, c) /\ \A e \in Sockets \ {c} : Polls(t, e) <=> Polls(s, e)
    BY ONLY <1>1, <2>1, Removed
  <2>3. \A e \in Conns : e \in Sockets \ {c}
    BY <1>3, OutputAssumption DEF Sockets
  <2>4. TableInv(t)
    BY <1>1, <2>2, <2>3 DEF TableInv
  <2> QED BY <2>2, <2>4 DEF Sound, Quiet
<1>4. CASE c # Listener
  <2>1. t = libwebsocket_close_and_free_session(s, c)
    BY <1>2, <1>4
  <2>2. c \in Conns /\ Live(s.wsi[c])
    BY ONLY <1>1, <1>4, SlotLive
  <2> QED BY ONLY <2>1, <2>2, Intended(x, k), Sound(s, x, k), Quiet(s), ClosedOne
<1> QED BY <1>3, <1>4

\* CloseAll: by induction on the table; at its end it is empty.
LEMMA AllClosed ==
  ASSUME NEW x, NEW k, Intended(x, k), NEW s, Sound(s, x, k), Quiet(s), NEW t, t = CloseAll(s)
  PROVE  Sound(t, x, k) /\ Quiet(t) /\ t.fds = << >>
<1> DEFINE N == Len(s.fds)
           A == s
           Body(y) == CloseFirst(y)
           R(n) == {y \in Libs : Sound(y, x, k) /\ Quiet(y) /\ Len(y.fds) = N - n}
           X == [n \in 0 .. N |-> R(n)]
           F == [n \in 0 .. N |-> [y \in Libs |-> Body(y)]]
           Runs(f) == f = [n \in 0 .. N |-> IF n = 0 THEN A ELSE Body(f[n - 1])]
           after == CHOOSE f : Runs(f)
<1>1. N \in Nat
  <2>1. s.fds \in Seq(Fds)
    BY DEF Sound, Lib
  <2> QED BY <2>1, LenProperties
<1>2. A \in R(0)
  <2>1. s \in Libs
    BY LibsOf DEF Sound
  <2>2. N = N - 0
    BY <1>1
  <2> QED BY <2>1, <2>2
<1>3. ASSUME NEW n \in 1 .. N, NEW y \in R(n - 1)
      PROVE  Body(y) \in R(n)
  <2> DEFINE z == CloseFirst(y)
             l == Len(y.fds)
  <2>1. l = N - (n - 1) /\ Sound(y, x, k) /\ Quiet(y) /\ l = Len(y.fds)
    OBVIOUS
  <2> HIDE DEF l
  <2>2. l > 0 /\ l - 1 = N - n
    BY <1>1, <2>1
  <2>3. z = CloseFirst(y) /\ Len(y.fds) > 0
    BY <2>1, <2>2
  <2> HIDE DEF z
  <2>4. Sound(z, x, k) /\ Quiet(z) /\ Len(z.fds) = Len(y.fds) - 1
    BY ONLY <2>1, <2>3, Intended(x, k), FirstClosed
  <2>5. z \in Libs
    BY <2>4, LibsOf DEF Sound
  <2>6. z \in R(n)
    BY <2>1, <2>2, <2>4, <2>5
  <2> QED BY <2>6 DEF z
<1> HIDE DEF A, Body, R, N
<1>4. \A n \in 0 .. N : R(n) \subseteq Libs
  BY DEF R
<1>5. \E f : Runs(f)
  <2>0. 0 \in 0 .. N /\ \A n \in 1 .. N : n \in 0 .. N /\ n - 1 \in 0 .. N
    BY <1>1
  <2>1. A \in X[0] /\ \A n \in 1 .. N : \A y \in X[n - 1] : F[n][y] \in X[n]
    BY <1>2, <1>3, <1>4, <2>0
  <2>2. \A n \in 0 .. N : \A y \in Libs : F[n][y] = Body(y)
    OBVIOUS
  <2>3. \A n \in 0 .. N : X[n] \subseteq Libs
    BY <1>4
  <2> HIDE DEF X, F
  <2>4. \E f : Run(f, N, X, F, A)
    <3>1. Advances(N, X, F) /\ A \in X[0]
      BY <2>1 DEF Advances
    <3> QED BY ONLY <1>1, <3>1, Running
  <2> PICK f : Run(f, N, X, F, A)
    BY <2>4
  <2>5. \A n \in 1 .. N : F[n][f[n - 1]] = Body(f[n - 1])
    BY <2>0, <2>2, <2>3 DEF Run
  <2>6. \A n \in 0 .. N : n # 0 => n \in 1 .. N
    BY <1>1
  <2>7. Runs(f)
    BY <2>5, <2>6 DEF Run
  <2> QED BY <2>7
<1>6. Runs(after)
  <2> HIDE DEF Runs
  <2> QED BY <1>5
<1>7. t = after[N]
  BY DEF CloseAll, A, Body, N
<1> HIDE DEF after
<1>8. after[0] \in X[0] /\ \A n \in 1 .. N : after[n - 1] \in X[n - 1] => after[n] \in X[n]
  <2>1. 0 \in 0 .. N /\ \A n \in 1 .. N : n \in 0 .. N /\ n - 1 \in 0 .. N /\ n # 0
    BY <1>1
  <2>2. \A n \in 0 .. N : after[n] = IF n = 0 THEN A ELSE Body(after[n - 1])
    BY <1>6
  <2> QED BY <1>2, <1>3, <2>1, <2>2
<1>9. after[N] \in R(N)
  <2>1. N \in 0 .. N
    BY <1>1
  <2>2. after[N] \in X[N]
    <3> HIDE DEF X
    <3> QED BY ONLY <1>1, <1>8, <2>1, Kept
  <2> QED BY <2>1, <2>2
<1>10. Sound(t, x, k) /\ Quiet(t) /\ Len(t.fds) = N - N
  BY <1>7, <1>9 DEF R
<1>11. t.fds = << >>
  <2>1. t.fds \in Seq(Fds) /\ Len(t.fds) = 0
    BY <1>1, <1>10 DEF Sound, Lib
  <2> QED BY <2>1, EmptySeq
<1> QED BY <1>10, <1>11

-----------------------------------------------------------------------------
(* The service thread. *)

\* A set of numbers has a least.
LEMMA LeastElement ==
  ASSUME NEW T, T \subseteq Nat, T # {}
  PROVE  \E x \in T : \A y \in T : x <= y
<1>1. \E x \in T : \A y \in T : << y, x >> \notin OpToRel(<, Nat)
  BY NatLessThanWellFounded, WFMin
<1>2. PICK x \in T : \A y \in T : << y, x >> \notin OpToRel(<, Nat)
  BY <1>1
<1>3. ASSUME NEW y \in T
      PROVE  x <= y
  <2>1. x \in Nat /\ y \in Nat
    OBVIOUS
  <2>2. << y, x >> \notin OpToRel(<, Nat)
    BY <1>2
  <2>3. ~(y < x)
    BY <2>1, <2>2 DEF OpToRel
  <2> QED BY <2>1, <2>3
<1> QED BY <1>3

\* The first of some slots is one of them.
LEMMA FirstOf ==
  ASSUME NEW T, T \subseteq Nat, T # {}, NEW i, i = CHOOSE j \in T : \A k \in T : j <= k
  PROVE  i \in T
BY LeastElement

\* libwebsocket_service_fd, which is the whole of the effect of an event.
LEMMA FdServed ==
  ASSUME version \in 0 .. MaxUpdates, NEW x, NEW k, Intended(x, k), NEW s, Sound(s, x, k), Quiet(s),
         NEW c \in Conns, Live(s.wsi[c]), NEW in \in BOOLEAN, NEW out \in BOOLEAN, NEW hup \in BOOLEAN,
         libwebsocket_service_fd(s, c, in, out, hup)
  PROVE  Sound(st', x, k) /\ second' \in BOOLEAN
<1> DEFINE timed == TimeoutCheck(s)
<1>1. Sound(timed, x, k) /\ Quiet(timed) /\ timed.wsi[c].state # "new"
  <2>1. timed = TimeoutCheck(s)
    OBVIOUS
  <2> HIDE DEF timed
  <2>2. Calm(s, timed, x, k)
    BY ONLY <2>1, Intended(x, k), Sound(s, x, k), Quiet(s), TimeChecked
  <2> QED BY <2>2 DEF Calm, Further, Live
<1>2. second' = FALSE
  BY DEF libwebsocket_service_fd
<1>3. \/ timed.wsi[c].state = "dead" /\ st' = timed
      \/ /\ timed.wsi[c].state # "dead"
         /\ \E y \in Piggyback(timed) : st' = [Serve(y, c, in, out, hup) EXCEPT !.wsi[c].ret = 0]
  BY DEF libwebsocket_service_fd
<1> HIDE DEF timed
<1>4. CASE timed.wsi[c].state = "dead" /\ st' = timed
  BY <1>1, <1>2, <1>4
<1>5. CASE /\ timed.wsi[c].state # "dead"
           /\ \E y \in Piggyback(timed) : st' = [Serve(y, c, in, out, hup) EXCEPT !.wsi[c].ret = 0]
  <2>1. PICK y \in Piggyback(timed) : st' = [Serve(y, c, in, out, hup) EXCEPT !.wsi[c].ret = 0]
    BY <1>5
  <2>2. Sound(y, x, k) /\ Quiet(y) /\ y.wsi[c] = timed.wsi[c]
    <3>1. CASE y = timed
      BY <1>1, <3>1
    <3>2. CASE y # timed
      <4>1. PICK d \in Pending(timed) : y = accept(timed, d)
        BY <3>2 DEF Piggyback
      <4>2. /\ Sound(y, x, k) /\ Quiet(y) /\ Further(timed, y) /\ timed.wsi[d].state = "new"
            /\ \A e \in Conns \ {d} : y.wsi[e] = timed.wsi[e]
        BY ONLY <1>1, <4>1, Intended(x, k), TakenIn
      <4>3. c \in Conns \ {d}
        BY <1>1, <4>2
      <4> QED BY <4>2, <4>3
    <3> QED BY <3>1, <3>2
  <2> DEFINE w == y.wsi[c]
             u == x[c].units
             n == k[c]
             z == Serve(y, c, in, out, hup)
  <2>3. w = y.wsi[c] /\ u = x[c].units /\ n = k[c] /\ ~w.clash /\ Live(w) /\ w.state # "new"
        /\ Lib(y) /\ TableInv(y) /\ z = Serve(y, c, in, out, hup) /\ st' = [z EXCEPT !.wsi[c].ret = 0]
    BY <1>1, <1>5, <2>1, <2>2 DEF Live, Quiet, Sound
  <2> HIDE DEF w, u, n, z
  <2>4. Proper(u) /\ n \in 0 .. Len(u) /\ Roomy(c, w) /\ Stands(w, u, n)
    BY <2>2, <2>3, SoundRow
  <2>5. Settled(y, z, c, u, n)
    BY ONLY <2>3, <2>4, version \in 0 .. MaxUpdates, c \in Conns,
            in \in BOOLEAN, out \in BOOLEAN, hup \in BOOLEAN, SocketServed
  <2>6. Settled(y, st', c, u, n)
    BY ONLY <2>3, <2>5, c \in Conns, SettledRet
  <2>7. Sound(st', x, k)
    BY ONLY <2>2, <2>3, <2>6, Intended(x, k), c \in Conns, SettledSound
  <2> QED BY <1>2, <2>7
<1> QED BY <1>3, <1>4, <1>5

\* The invariant, step by step: a socket that waits to write.
LEMMA PollStep ==
  ASSUME ServiceInv, NoSendPastPending, PollNext
  PROVE  ServiceInv'
<1> DEFINE due == {i \in svc.i .. Len(st.fds) : ToWrite(i)}
           first == CHOOSE j \in due : \A k \in due : j <= k
           c == st.fds[first].fd
<1>1. /\ Intended(sends, sent) /\ Sound(st, sends, sent) /\ Quiet(st) /\ Lib(st) /\ TableInv(st)
      /\ svc \in [at : {"poll", "wait", "app", "gone"}, i : Nat] /\ version \in 0 .. MaxUpdates
      /\ update \in BOOLEAN /\ second \in BOOLEAN /\ svc.at = "poll" /\ svc.i # 0
  BY DEF ServiceInv, NoSendPastPending, Quiet, Sound, PollNext
<1>2. /\ UNCHANGED << sends, sent, update, version >>
      /\ \/ /\ svc' = [svc EXCEPT !.at = "wait", !.i = 0]
            /\ UNCHANGED << st, second >>
         \/ /\ due # {}
            /\ libwebsocket_service_fd(st, c, FALSE, TRUE, FALSE)
            /\ svc' = [svc EXCEPT !.i = first + 1]
  BY DEF PollNext
<1>3. CASE svc' = [svc EXCEPT !.at = "wait", !.i = 0] /\ UNCHANGED << st, second >>
  <2>1. svc' \in [at : {"poll", "wait", "app", "gone"}, i : Nat] /\ svc'.at = "wait"
    BY <1>1, <1>3
  <2> QED BY <1>1, <1>2, <1>3, <2>1 DEF ServiceInv
<1>4. CASE /\ due # {}
           /\ libwebsocket_service_fd(st, c, FALSE, TRUE, FALSE)
           /\ svc' = [svc EXCEPT !.i = first + 1]
  <2>1. due \subseteq Nat /\ Len(st.fds) \in Nat
    <3>1. st.fds \in Seq(Fds)
      BY <1>1 DEF Lib
    <3>2. Len(st.fds) \in Nat /\ svc.i \in Nat
      BY <1>1, <3>1, LenProperties
    <3> QED BY <3>2
  <2>2. first \in due
    <3>1. first = CHOOSE j \in due : \A k \in due : j <= k
      OBVIOUS
    <3> HIDE DEF due, first
    <3> QED BY ONLY <1>4, <2>1, <3>1, FirstOf
  <2>3. first \in Nat /\ first \in 1 .. Len(st.fds) /\ c # Listener
    <3>1. first \in svc.i .. Len(st.fds) /\ ToWrite(first) /\ svc.i \in Nat
      BY <1>1, <2>2
    <3> HIDE DEF first
    <3>2. c # Listener
      BY <3>1 DEF ToWrite
    <3> QED BY <1>1, <2>1, <3>1, <3>2
  <2>4. c = st.fds[first].fd
    OBVIOUS
  <2> HIDE DEF first, c
  <2>5. c \in Conns /\ Live(st.wsi[c])
    BY ONLY <1>1, <2>3, <2>4, SlotLive
  <2>6. Sound(st', sends, sent) /\ second' \in BOOLEAN
    <3>1. FALSE \in BOOLEAN /\ TRUE \in BOOLEAN
      OBVIOUS
    <3> QED BY ONLY <1>1, <1>4, <2>5, <3>1, FdServed
  <2>7. svc' \in [at : {"poll", "wait", "app", "gone"}, i : Nat] /\ svc'.at = "poll" /\ svc'.i # 0
    BY <1>1, <1>4, <2>3
  <2> QED BY <1>1, <1>2, <2>6, <2>7 DEF ServiceInv
<1> QED BY <1>2, <1>3, <1>4

\* What the actions of the thread need of the invariant.
LEMMA Invariant ==
  ASSUME ServiceInv, NoSendPastPending
  PROVE  /\ Intended(sends, sent) /\ Sound(st, sends, sent) /\ Quiet(st) /\ Lib(st) /\ TableInv(st)
         /\ svc \in [at : {"poll", "wait", "app", "gone"}, i : Nat] /\ version \in 0 .. MaxUpdates
         /\ update \in BOOLEAN /\ second \in BOOLEAN
BY DEF ServiceInv, NoSendPastPending, Quiet, Sound

\* An event makes the socket no longer block.
LEMMA Unblocked ==
  ASSUME NEW x, NEW k, NEW s, Sound(s, x, k), Quiet(s), NEW c \in Conns, Live(s.wsi[c]), NEW b \in BOOLEAN,
         NEW t, t = [s EXCEPT !.wsi[c].blocking = b]
  PROVE  Sound(t, x, k) /\ Quiet(t) /\ Live(t.wsi[c])
<1> DEFINE w == s.wsi[c]
           y == [w EXCEPT !.blocking = b]
<1>1. t = Put(s, c, y)
  BY DEF Put
<1>2. Lib(s) /\ TableInv(s) /\ Row(w) /\ w = s.wsi[c]
  BY DEF Sound, Lib
<1>3. Keeps(w, y, {"blocking"}) /\ y.blocking = b
  BY <1>2 DEF Keeps, Row, Fields
<1> HIDE DEF w, y
<1>4. \A f \in {"blocking"} : y[f] \in Types(f)
  BY <1>3, TypesOf
<1>5. Keeps(w, y, {"blocking"}) /\ Keeps(w, y, Neutral)
  BY <1>3 DEF Keeps, Neutral
<1>6. y.state = w.state
  BY <1>3 DEF Keeps, Fields
<1>7. Live(w) <=> Live(y)
  BY <1>6 DEF Live
<1>8. Only(s, t, c) /\ t.wsi[c] = y
  <2>1. Keeps(w, y, {"blocking"})
    BY <1>5
  <2>2. Row(y)
    BY ONLY <1>2, <1>4, <2>1, RowEdit
  <2> QED BY ONLY <1>1, <1>2, <1>7, <2>2, c \in Conns, RowSet
<1>9. \A d \in Conns : Keeps(s.wsi[d], t.wsi[d], Neutral)
  <2>1. ASSUME NEW d \in Conns \ {c}
        PROVE  Keeps(s.wsi[d], t.wsi[d], Neutral)
    <3>1. t.wsi[d] = s.wsi[d] /\ Row(s.wsi[d])
      BY <1>2, <1>8 DEF Only, Lib
    <3> QED BY <3>1 DEF Keeps, Row
  <2> QED BY <1>2, <1>5, <1>8, <2>1
<1>10. Lib(t) /\ TableInv(t)
  BY <1>8 DEF Only
<1>11. Sound(t, x, k) /\ (Quiet(s) => Quiet(t))
  BY ONLY <1>9, <1>10, Sound(s, x, k), NeutralSound
<1> QED BY <1>2, <1>7, <1>8, <1>11

\* An event, or none.
LEMMA WaitStep ==
  ASSUME ServiceInv, NoSendPastPending, Wait
  PROVE  ServiceInv'
<1> DEFINE first == CHOOSE j \in Signaled : \A k \in Signaled : j <= k
           c == st.fds[first].fd
           s == [st EXCEPT !.wsi[c].blocking = @ /\ ~CanWrite(c)]
           timed == TimeoutCheck(st)
<1>1. /\ Intended(sends, sent) /\ Sound(st, sends, sent) /\ Quiet(st) /\ Lib(st) /\ TableInv(st)
      /\ svc \in [at : {"poll", "wait", "app", "gone"}, i : Nat] /\ version \in 0 .. MaxUpdates
      /\ update \in BOOLEAN /\ second \in BOOLEAN
  BY Invariant
<1>2. /\ UNCHANGED << sends, sent, update, version >> /\ svc' = [svc EXCEPT !.at = "app"]
      /\ \/ st' = timed /\ second' = FALSE
         \/ /\ Signaled # {} /\ second' = FALSE
            /\ \E new \in Pending(st) : st' = accept(timed, new)
         \/ /\ Signaled # {} /\ c # Listener
            /\ libwebsocket_service_fd(s, c, CanRead(c), CanWrite(c), Closed(c))
  BY DEF Wait
<1>3. timed = TimeoutCheck(st)
  OBVIOUS
<1> HIDE DEF timed
<1>4. Calm(st, timed, sends, sent)
  BY ONLY <1>1, <1>3, TimeChecked
<1>5. Sound(st', sends, sent) /\ second' \in BOOLEAN
  <2>1. CASE st' = timed /\ second' = FALSE
    BY <1>4, <2>1 DEF Calm
  <2>2. CASE second' = FALSE /\ \E new \in Pending(st) : st' = accept(timed, new)
    <3>1. PICK new \in Pending(st) : st' = accept(timed, new)
      BY <2>2
    <3>2. new \in Pending(timed) /\ Sound(timed, sends, sent) /\ Quiet(timed)
      BY <1>4 DEF Calm, SameNets, Pending
    <3>3. Sound(st', sends, sent)
      BY ONLY <1>1, <3>1, <3>2, TakenIn
    <3> QED BY ONLY <2>2, <3>3
  <2>3. CASE /\ Signaled # {} /\ c # Listener
             /\ libwebsocket_service_fd(s, c, CanRead(c), CanWrite(c), Closed(c))
    <3>1. Signaled \subseteq Nat
      BY DEF Signaled
    <3>2. first \in Signaled
      <4>1. first = CHOOSE j \in Signaled : \A k \in Signaled : j <= k
        OBVIOUS
      <4> HIDE DEF first
      <4> QED BY ONLY <2>3, <3>1, <4>1, FirstOf
    <3>3. first \in 1 .. Len(st.fds) /\ c = st.fds[first].fd /\ c # Listener
      BY <2>3, <3>2, Zenon DEF Signaled
    <3> DEFINE b == st.wsi[c].blocking /\ ~CanWrite(c)
    <3> HIDE DEF first, c
    <3>4. c \in Conns /\ Live(st.wsi[c])
      BY ONLY <1>1, <3>3, SlotLive
    <3>5. /\ b \in BOOLEAN /\ CanRead(c) \in BOOLEAN /\ CanWrite(c) \in BOOLEAN /\ Closed(c) \in BOOLEAN
      BY DEF CanRead, CanWrite, Closed
    <3>6. s = [st EXCEPT !.wsi[c].blocking = b]
      OBVIOUS
    <3> HIDE DEF s, b
    <3>7. Sound(s, sends, sent) /\ Quiet(s) /\ Live(s.wsi[c])
      BY ONLY <1>1, <3>4, <3>5, <3>6, Unblocked
    <3>8. libwebsocket_service_fd(s, c, CanRead(c), CanWrite(c), Closed(c))
      BY <2>3
    <3> HIDE DEF CanRead, CanWrite, Closed
    <3> QED BY ONLY <1>1, <3>4, <3>5, <3>7, <3>8, FdServed
  <2> HIDE DEF first, c, s
  <2> QED BY <1>2, <2>1, <2>2, <2>3
<1>6. svc' \in [at : {"poll", "wait", "app", "gone"}, i : Nat] /\ svc'.at = "app"
  BY <1>1, <1>2
<1> HIDE DEF first, c, s
<1> QED BY <1>1, <1>2, <1>5, <1>6 DEF ServiceInv

\* Asking for writeable callbacks.
LEMMA Asked ==
  ASSUME NEW x, NEW k, NEW s, Sound(s, x, k), Quiet(s), NEW slots, NEW t, t = Ask(s, slots)
  PROVE  Sound(t, x, k) /\ Quiet(t)
<1>1. Lib(s) /\ TableInv(s) /\ s.fds \in Seq(Fds) /\ Len(s.fds) \in Nat /\ DOMAIN s.fds = 1 .. Len(s.fds)
  <2>1. s.fds \in Seq(Fds)
    BY DEF Sound, Lib
  <2> QED BY <2>1, LenProperties DEF Sound
<1> DEFINE entry(n) == [s.fds[n] EXCEPT !.out = @ \/ n \in slots]
           chosen(c) == \E n \in slots : s.fds[n].fd = c /\ ~s.fds[n].out
           row(c) == [s.wsi[c] EXCEPT !.selected = @ \/ chosen(c)]
           N == Len(s.fds)
<1>2. t = [fds |-> [n \in 1 .. N |-> entry(n)], pos |-> s.pos, wsi |-> [c \in Conns |-> row(c)]]
  <2>1. s = [fds |-> s.fds, pos |-> s.pos, wsi |-> s.wsi] /\ s.wsi = [c \in Conns |-> s.wsi[c]]
    BY <1>1 DEF Lib
  <2>2. t = [s EXCEPT !.fds = [n \in 1 .. N |-> entry(n)], !.wsi = [c \in Conns |-> row(c)]]
    BY DEF Ask
  <2> HIDE DEF entry, row
  <2> QED BY ONLY <2>1, <2>2
<1>3. \A n \in 1 .. N : entry(n) \in Fds /\ entry(n).fd = s.fds[n].fd
  <2>1. ASSUME NEW n \in 1 .. N
        PROVE  entry(n) \in Fds /\ entry(n).fd = s.fds[n].fd
    <3>1. s.fds[n] \in Fds
      BY <1>1, ElementOfSeq
    <3> QED BY <3>1 DEF Fds
  <2> QED BY <2>1
<1>4. \A c \in Conns : Row(row(c)) /\ Keeps(s.wsi[c], row(c), Neutral) /\ row(c).state = s.wsi[c].state
  <2>1. ASSUME NEW c \in Conns
        PROVE  Row(row(c)) /\ Keeps(s.wsi[c], row(c), Neutral) /\ row(c).state = s.wsi[c].state
    <3> DEFINE w == s.wsi[c]
               b == w.selected \/ chosen(c)
               y == row(c)
    <3>1. Row(w)
      BY <1>1 DEF Lib
    <3>2. b \in BOOLEAN
      BY DEF chosen
    <3>3. y = [w EXCEPT !.selected = b]
      OBVIOUS
    <3> HIDE DEF w, b, y
    <3>4. Keeps(w, y, {"selected"}) /\ y.selected = b
      BY <3>1, <3>3 DEF Keeps, Row, Fields
    <3>5. y["selected"] \in Types("selected")
      BY <3>2, <3>4, TypesOf
    <3>6. \A f \in {"selected"} : y[f] \in Types(f)
      BY <3>5
    <3>7. Keeps(w, y, {"selected"})
      BY <3>4
    <3>8. Row(y)
      BY ONLY <3>1, <3>6, <3>7, RowEdit
    <3>9. Keeps(w, y, Neutral) /\ y.state = w.state
      BY <3>4 DEF Keeps, Neutral, Fields
    <3> QED BY <3>8, <3>9 DEF w, y
  <2> QED BY <2>1
<1> HIDE DEF entry, row
<1>5. t.fds \in Seq(Fds) /\ Len(t.fds) = N /\ \A n \in 1 .. N : t.fds[n].fd = s.fds[n].fd
  <2>1. t.fds = [n \in 1 .. N |-> entry(n)] /\ N \in Nat
    BY <1>1, <1>2
  <2>2. t.fds \in Seq(Fds)
    <3>1. t.fds \in [1 .. N -> Fds]
      BY <1>3, <2>1
    <3> QED BY <2>1, <3>1, IsASeq
  <2>3. Len(t.fds) = N
    BY <2>1, <2>2, LenProperties
  <2> QED BY <1>3, <2>1, <2>2, <2>3
<1>6. t.pos = s.pos /\ t.wsi = [c \in Conns |-> row(c)] /\ t = [fds |-> t.fds, pos |-> t.pos, wsi |-> t.wsi]
  BY <1>2
<1>7. Lib(t)
  BY <1>1, <1>4, <1>5, <1>6 DEF Lib
<1>8. TableInv(t)
  <2>1. Positioned(t)
    BY <1>1, <1>5, <1>6 DEF TableInv, Positioned
  <2>2. \A c \in Conns : (Polls(t, c) <=> Polls(s, c)) /\ t.wsi[c].state = s.wsi[c].state
    BY <1>4, <1>5, <1>6 DEF Polls
  <2> QED BY <1>1, <2>1, <2>2 DEF TableInv
<1>9. \A c \in Conns : Keeps(s.wsi[c], t.wsi[c], Neutral)
  BY <1>4, <1>6
<1>10. Sound(t, x, k) /\ (Quiet(s) => Quiet(t))
  BY ONLY <1>7, <1>8, <1>9, Sound(s, x, k), NeutralSound
<1> QED BY <1>10

\* The update of the main loop.
LEMMA AppStep ==
  ASSUME ServiceInv, NoSendPastPending, App
  PROVE  ServiceInv'
<1>1. /\ Intended(sends, sent) /\ Sound(st, sends, sent) /\ Quiet(st)
      /\ version \in 0 .. MaxUpdates /\ second \in BOOLEAN
  BY Invariant
<1>2. /\ svc' = [at |-> "poll", i |-> 1] /\ update' = FALSE
      /\ UNCHANGED << sends, sent, second, version >>
      /\ st' = IF update THEN libwebsocket_callback_on_writable_all_protocol(st) ELSE st
  BY DEF App
<1>3. Sound(st', sends, sent)
  <2>1. CASE update
    <3> DEFINE slots == {n \in 1 .. Len(st.fds) : IsWebsocket(st, n)}
    <3>1. st' = Ask(st, slots)
      BY <1>2, <2>1 DEF libwebsocket_callback_on_writable_all_protocol
    <3> HIDE DEF slots
    <3> QED BY ONLY <1>1, <3>1, Asked
  <2>2. CASE ~update
    BY <1>1, <1>2, <2>2
  <2> QED BY <2>1, <2>2
<1>4. svc' \in [at : {"poll", "wait", "app", "gone"}, i : Nat] /\ svc'.at = "poll" /\ svc'.i # 0
  BY <1>2
<1> QED BY <1>1, <1>2, <1>3, <1>4 DEF ServiceInv

\* The end of the server.
LEMMA DestroyStep ==
  ASSUME ServiceInv, NoSendPastPending, Destroy
  PROVE  ServiceInv'
<1>1. /\ Intended(sends, sent) /\ Sound(st, sends, sent) /\ Quiet(st)
      /\ version \in 0 .. MaxUpdates /\ second \in BOOLEAN /\ update \in BOOLEAN
  BY Invariant
<1>2. /\ svc' = [at |-> "gone", i |-> 0] /\ st' = CloseAll(st)
      /\ UNCHANGED << sends, sent, second, update, version >>
  BY DEF Destroy
<1>3. Sound(st', sends, sent) /\ st'.fds = << >>
  BY ONLY <1>1, <1>2, AllClosed
<1>4. svc' \in [at : {"poll", "wait", "app", "gone"}, i : Nat] /\ svc'.at # "poll"
  BY <1>2
<1> QED BY <1>1, <1>2, <1>3, <1>4 DEF ServiceInv

-----------------------------------------------------------------------------
(* The main loop, the clock and the clients. *)

\* The main loop changes its own data only.
LEMMA UpdateStep ==
  ASSUME ServiceInv, updateClient
  PROVE  ServiceInv'
<1>1. version \in Nat /\ MaxUpdates \in Nat /\ version < MaxUpdates
  BY ServiceAssumption DEF ServiceInv, updateClient
<1>2. version + 1 \in 0 .. MaxUpdates
  BY <1>1
<1> QED BY <1>2 DEF ServiceInv, updateClient

\* A second passes for every connection.
LEMMA Aged ==
  ASSUME NEW x, NEW k, NEW s, Sound(s, x, k), Quiet(s),
         NEW t, t = [s EXCEPT !.wsi = [c \in Conns |-> [s.wsi[c] EXCEPT !.timeout = Later(@)]]]
  PROVE  Sound(t, x, k) /\ t.fds = s.fds
<1> DEFINE row(c) == [s.wsi[c] EXCEPT !.timeout = Later(@)]
<1>1. Lib(s) /\ TableInv(s)
  BY DEF Sound
<1>2. t = [fds |-> s.fds, pos |-> s.pos, wsi |-> [c \in Conns |-> row(c)]]
  <2>1. s = [fds |-> s.fds, pos |-> s.pos, wsi |-> s.wsi]
    BY <1>1 DEF Lib
  <2>2. t = [s EXCEPT !.wsi = [c \in Conns |-> row(c)]]
    OBVIOUS
  <2> HIDE DEF row
  <2> QED BY ONLY <2>1, <2>2
<1>3. \A c \in Conns : Row(row(c)) /\ Keeps(s.wsi[c], row(c), Neutral) /\ row(c).state = s.wsi[c].state
  <2>1. ASSUME NEW c \in Conns
        PROVE  Row(row(c)) /\ Keeps(s.wsi[c], row(c), Neutral) /\ row(c).state = s.wsi[c].state
    <3> DEFINE w == s.wsi[c]
               b == Later(w.timeout)
               y == row(c)
    <3>1. Row(w)
      BY <1>1 DEF Lib
    <3>2. b \in Expired .. NoTimeout
      <4> DEFINE e == w.timeout
      <4>1. e \in Expired .. NoTimeout /\ Awaiting \in Nat
        BY <3>1, RowTypes, OutputAssumption
      <4>2. b = IF e = NoTimeout \/ e = Expired THEN e ELSE e - 1
        BY DEF Later
      <4> HIDE DEF e, b
      <4> QED BY ONLY <4>1, <4>2 DEF NoTimeout, Expired
    <3>3. y = [w EXCEPT !.timeout = b]
      OBVIOUS
    <3> HIDE DEF w, b, y
    <3>4. Keeps(w, y, {"timeout"}) /\ y.timeout = b
      BY <3>1, <3>3 DEF Keeps, Row, Fields
    <3>5. y["timeout"] \in Types("timeout")
      BY <3>2, <3>4, TypesOf
    <3>6. \A f \in {"timeout"} : y[f] \in Types(f)
      BY <3>5
    <3>7. Keeps(w, y, {"timeout"})
      BY <3>4
    <3>8. Row(y)
      BY ONLY <3>1, <3>6, <3>7, RowEdit
    <3>9. Keeps(w, y, Neutral) /\ y.state = w.state
      BY <3>4 DEF Keeps, Neutral, Fields
    <3> QED BY <3>8, <3>9 DEF w, y
  <2> QED BY <2>1
<1> HIDE DEF row
<1>4. /\ t.fds = s.fds /\ t.pos = s.pos /\ t.wsi = [c \in Conns |-> row(c)]
      /\ t = [fds |-> t.fds, pos |-> t.pos, wsi |-> t.wsi]
  <2> DEFINE f == s.fds
             p == s.pos
             g == [c \in Conns |-> row(c)]
  <2>1. t = [fds |-> f, pos |-> p, wsi |-> g]
    BY ONLY <1>2
  <2> HIDE DEF f, p, g
  <2>2. t.fds = f /\ t.pos = p /\ t.wsi = g /\ t = [fds |-> t.fds, pos |-> t.pos, wsi |-> t.wsi]
    BY ONLY <2>1
  <2> QED BY ONLY <2>2 DEF f, p, g
<1>5. Lib(t)
  BY <1>1, <1>3, <1>4 DEF Lib
<1>6. TableInv(t)
  <2>1. Positioned(t)
    BY <1>1, <1>4 DEF TableInv, Positioned
  <2>2. \A c \in Conns : (Polls(t, c) <=> Polls(s, c)) /\ t.wsi[c].state = s.wsi[c].state
    BY <1>3, <1>4 DEF Polls
  <2> QED BY <1>1, <2>1, <2>2 DEF TableInv
<1>7. \A c \in Conns : Keeps(s.wsi[c], t.wsi[c], Neutral)
  BY <1>3, <1>4
<1>8. Sound(t, x, k)
  BY ONLY <1>5, <1>6, <1>7, Sound(s, x, k), NeutralSound
<1> QED BY <1>4, <1>8

\* A second.
LEMMA TickStep ==
  ASSUME ServiceInv, NoSendPastPending, Tick
  PROVE  ServiceInv'
<1>1. /\ Intended(sends, sent) /\ Sound(st, sends, sent) /\ Quiet(st)
      /\ svc \in [at : {"poll", "wait", "app", "gone"}, i : Nat]
      /\ version \in 0 .. MaxUpdates /\ update \in BOOLEAN
  BY Invariant
<1>2. /\ second' = TRUE
      /\ st' = [st EXCEPT !.wsi = [c \in Conns |-> [st.wsi[c] EXCEPT !.timeout = Later(@)]]]
      /\ UNCHANGED << sends, sent, svc, update, version >>
  BY DEF Tick
<1>3. Sound(st', sends, sent) /\ st'.fds = st.fds
  BY ONLY <1>1, <1>2, Aged
<1> QED BY <1>1, <1>2, <1>3 DEF ServiceInv

\* A change of what the network holds of a connection.
Outside == {"net", "in", "room"}

\* What the network does leaves a connection in its state.
LEMMA OutsideAlive ==
  ASSUME NEW w, NEW v, Keeps(w, v, Outside), NEW u
  PROVE  /\ \A r : Alive(w, u, r) => Alive(v, u, r)
         /\ Dead(w, u) => Dead(v, u)
         /\ v.state = w.state /\ v.clash = w.clash /\ v.trunc = w.trunc
<1>1. /\ v.state = w.state /\ v.clash = w.clash
      /\ v.mode = w.mode /\ v.trunc = w.trunc
      /\ v.hears = w.hears /\ v.hdr = w.hdr /\ v.whole = w.whole /\ v.wire = w.wire
      /\ v.got = w.got /\ v.filepos = w.filepos /\ v.rx = w.rx /\ v.handed = w.handed
  BY DEF Keeps, Fields, Outside
<1>2. ASSUME NEW r, Alive(w, u, r)
      PROVE  Alive(v, u, r)
  <2>1. Asking(w, u, r) => Asking(v, u, r)
    BY <1>1 DEF Asking
  <2>2. Filing(w, u, r) => Filing(v, u, r)
    BY <1>1 DEF Filing
  <2>3. Talking(w, u, r) => Talking(v, u, r)
    BY <1>1 DEF Talking, InOrder
  <2> QED BY <1>2, <2>1, <2>2, <2>3 DEF Alive
<1>3. Dead(w, u) => Dead(v, u)
  BY <1>1 DEF Dead
<1> QED BY <1>1, <1>2, <1>3

\* The network changes one connection.
LEMMA RowChanged ==
  ASSUME NEW x, NEW k, NEW l, NEW s, Sound(s, x, k), NEW c \in Conns, NEW w, w = s.wsi[c],
         NEW y, NEW S, S \subseteq Outside, Keeps(w, y, S), Typed(y, S),
         NEW u, u = x[c].units, NEW n, n = l[c], RowInv(y, u, n), Roomy(c, y), ~w.clash,
         \A d \in Conns \ {c} : l[d] = k[d], NEW t, t = Put(s, c, y)
  PROVE  Sound(t, x, l) /\ t.fds = s.fds
<1>1. Lib(s) /\ TableInv(s) /\ Row(w)
  BY DEF Sound, Lib
<1>2. Keeps(w, y, Outside)
  BY DEF Keeps
<1>3. y.state = w.state /\ y.clash = w.clash
  BY <1>2, OutsideAlive
<1>4. Row(y)
  BY <1>1, RowEdit DEF Typed
<1>5. Live(w) <=> Live(y)
  BY <1>3 DEF Live
<1>6. Only(s, t, c) /\ t.wsi[c] = y /\ t.fds = s.fds
  BY ONLY <1>1, <1>4, <1>5, c \in Conns, w = s.wsi[c], t = Put(s, c, y), RowSet
<1>7. RowSound(c, y, u, n)
  BY <1>3 DEF RowSound
<1>8. \A d \in Conns : RowSound(d, t.wsi[d], x[d].units, l[d])
  <2>1. ASSUME NEW d \in Conns \ {c}
        PROVE  RowSound(d, t.wsi[d], x[d].units, l[d])
    BY <1>6 DEF Only, Sound
  <2> QED BY <1>6, <1>7, <2>1
<1> QED BY <1>6, <1>8 DEF Sound, Only

\* A client connects.
LEMMA ConnectStep ==
  ASSUME ServiceInv, NoSendPastPending, NEW c \in Conns, Connect(c)
  PROVE  ServiceInv'
<1> DEFINE w == st.wsi[c]
           y == [w EXCEPT !.net = "pending"]
           u == sends[c].units
           n == sent[c]
<1>1. /\ Intended(sends, sent) /\ Sound(st, sends, sent) /\ Quiet(st) /\ Lib(st)
      /\ svc \in [at : {"poll", "wait", "app", "gone"}, i : Nat]
      /\ version \in 0 .. MaxUpdates /\ update \in BOOLEAN /\ second \in BOOLEAN
  BY Invariant
<1>2. /\ w.net = "none" /\ svc.at # "gone"
      /\ st' = [st EXCEPT !.wsi[c].net = "pending"]
      /\ UNCHANGED << sends, sent, svc, second, update, version >>
  BY DEF Connect
<1>3. st' = Put(st, c, y)
  BY <1>2 DEF Put
<1>4. w = st.wsi[c] /\ u = sends[c].units /\ n = sent[c] /\ ~w.clash /\ Row(w)
  BY <1>1 DEF Quiet, Lib
<1>5. Keeps(w, y, {"net"}) /\ y.net = "pending"
  BY <1>4 DEF Keeps, Row, Fields
<1> HIDE DEF w, y, u, n
<1>6. Typed(y, {"net"}) /\ {"net"} \subseteq Outside /\ Keeps(w, y, Outside)
  BY <1>5, TypesOf DEF Typed, Outside, Keeps
<1>7. Roomy(c, w) /\ RowInv(w, u, n)
  BY <1>1, <1>4, SoundRow
<1>8. /\ \A r : Alive(w, u, r) => Alive(y, u, r)
      /\ Dead(w, u) => Dead(y, u)
      /\ y.state = w.state /\ y.trunc = w.trunc
  BY <1>6, OutsideAlive
<1>9. y.in = w.in /\ y.room = w.room
  BY <1>5 DEF Keeps, Fields
<1>10. RowInv(y, u, n) /\ Roomy(c, y)
  BY <1>2, <1>5, <1>7, <1>8, <1>9 DEF RowInv, Roomy
<1>11. Keeps(w, y, {"net"}) /\ Typed(y, {"net"}) /\ {"net"} \subseteq Outside
  BY <1>5, <1>6
<1>12. \A d \in Conns \ {c} : sent[d] = sent[d]
  OBVIOUS
<1>13. Sound(st', sends, sent)
  BY ONLY <1>1, <1>3, <1>4, <1>10, <1>11, <1>12, c \in Conns, RowChanged
<1> QED BY <1>1, <1>2, <1>13 DEF ServiceInv

\* A client reads.
LEMMA DrainStep ==
  ASSUME ServiceInv, NoSendPastPending, NEW c \in Conns, Drain(c)
  PROVE  ServiceInv'
<1> DEFINE w == st.wsi[c]
           y == [w EXCEPT !.room = Room]
           u == sends[c].units
           n == sent[c]
<1>1. /\ Intended(sends, sent) /\ Sound(st, sends, sent) /\ Quiet(st) /\ Lib(st)
      /\ svc \in [at : {"poll", "wait", "app", "gone"}, i : Nat]
      /\ version \in 0 .. MaxUpdates /\ update \in BOOLEAN /\ second \in BOOLEAN
  BY Invariant
<1>2. /\ st' = [st EXCEPT !.wsi[c].room = Room]
      /\ UNCHANGED << sends, sent, svc, second, update, version >>
  BY DEF Drain
<1>3. st' = Put(st, c, y)
  BY <1>2 DEF Put
<1>4. w = st.wsi[c] /\ u = sends[c].units /\ n = sent[c] /\ ~w.clash /\ Row(w)
  BY <1>1 DEF Quiet, Lib
<1>5. Keeps(w, y, {"room"}) /\ y.room = Room
  BY <1>4 DEF Keeps, Row, Fields
<1> HIDE DEF w, y, u, n
<1>6. Typed(y, {"room"}) /\ {"room"} \subseteq Outside /\ Keeps(w, y, Outside)
  <2>1. Room \in 0 .. Room
    BY OutputAssumption
  <2> QED BY <1>5, <2>1, TypesOf DEF Typed, Outside, Keeps
<1>7. Roomy(c, w) /\ RowInv(w, u, n)
  BY <1>1, <1>4, SoundRow
<1>8. /\ \A r : Alive(w, u, r) => Alive(y, u, r)
      /\ Dead(w, u) => Dead(y, u)
      /\ y.state = w.state /\ y.trunc = w.trunc
  BY <1>6, OutsideAlive
<1>9. y.in = w.in /\ y.net = w.net
  BY <1>5 DEF Keeps, Fields
<1>10. RowInv(y, u, n) /\ Roomy(c, y)
  BY <1>5, <1>7, <1>8, <1>9 DEF RowInv, Roomy
<1>11. Keeps(w, y, {"room"}) /\ Typed(y, {"room"}) /\ {"room"} \subseteq Outside
  BY <1>5, <1>6
<1>12. \A d \in Conns \ {c} : sent[d] = sent[d]
  OBVIOUS
<1>13. Sound(st', sends, sent) /\ st'.fds = st.fds
  BY ONLY <1>1, <1>3, <1>4, <1>10, <1>11, <1>12, c \in Conns, RowChanged
<1> QED BY <1>1, <1>2, <1>13 DEF ServiceInv

\* A client leaves.
LEMMA LeaveStep ==
  ASSUME ServiceInv, NoSendPastPending, NEW c \in Conns, Leave(c)
  PROVE  ServiceInv'
<1> DEFINE w == st.wsi[c]
           y == [w EXCEPT !.net = "left"]
           u == sends[c].units
           n == sent[c]
<1>1. /\ Intended(sends, sent) /\ Sound(st, sends, sent) /\ Quiet(st) /\ Lib(st)
      /\ svc \in [at : {"poll", "wait", "app", "gone"}, i : Nat]
      /\ version \in 0 .. MaxUpdates /\ update \in BOOLEAN /\ second \in BOOLEAN
  BY Invariant
<1>2. /\ w.net = "open"
      /\ st' = [st EXCEPT !.wsi[c].net = "left"]
      /\ UNCHANGED << sends, sent, svc, second, update, version >>
  BY DEF Leave
<1>3. st' = Put(st, c, y)
  BY <1>2 DEF Put
<1>4. w = st.wsi[c] /\ u = sends[c].units /\ n = sent[c] /\ ~w.clash /\ Row(w)
  BY <1>1 DEF Quiet, Lib
<1>5. Keeps(w, y, {"net"}) /\ y.net = "left"
  BY <1>4 DEF Keeps, Row, Fields
<1> HIDE DEF w, y, u, n
<1>6. Typed(y, {"net"}) /\ {"net"} \subseteq Outside /\ Keeps(w, y, Outside)
  BY <1>5, TypesOf DEF Typed, Outside, Keeps
<1>7. Roomy(c, w) /\ RowInv(w, u, n)
  BY <1>1, <1>4, SoundRow
<1>8. /\ \A r : Alive(w, u, r) => Alive(y, u, r)
      /\ Dead(w, u) => Dead(y, u)
      /\ y.state = w.state /\ y.trunc = w.trunc
  BY <1>6, OutsideAlive
<1>9. y.in = w.in /\ y.room = w.room
  BY <1>5 DEF Keeps, Fields
<1>10. RowInv(y, u, n) /\ Roomy(c, y)
  BY <1>2, <1>5, <1>7, <1>8, <1>9 DEF RowInv, Roomy
<1>11. Keeps(w, y, {"net"}) /\ Typed(y, {"net"}) /\ {"net"} \subseteq Outside
  BY <1>5, <1>6
<1>12. \A d \in Conns \ {c} : sent[d] = sent[d]
  OBVIOUS
<1>13. Sound(st', sends, sent) /\ st'.fds = st.fds
  BY ONLY <1>1, <1>3, <1>4, <1>10, <1>11, <1>12, c \in Conns, RowChanged
<1> QED BY <1>1, <1>2, <1>13 DEF ServiceInv

\* A client sends the next piece of its script.
LEMMA SendStep ==
  ASSUME ServiceInv, NoSendPastPending, NEW c \in Conns, Send(c)
  PROVE  ServiceInv'
<1> DEFINE w == st.wsi[c]
           u == sends[c].units
           n == sent[c]
<1>1. /\ Intended(sends, sent) /\ Sound(st, sends, sent) /\ Quiet(st) /\ Lib(st)
      /\ svc \in [at : {"poll", "wait", "app", "gone"}, i : Nat]
      /\ version \in 0 .. MaxUpdates /\ update \in BOOLEAN /\ second \in BOOLEAN
  BY Invariant
<1>2. PICK end \in n + 1 .. Len(u) : /\ st' = [st EXCEPT !.wsi[c].in = @ \o SubSeq(u, n + 1, end)]
                                     /\ sent' = [sent EXCEPT ![c] = end]
  BY DEF Send
<1>3. w.state # "dead" /\ svc.at # "gone" /\ UNCHANGED << sends, svc, second, update, version >>
  BY DEF Send
<1> DEFINE more == SubSeq(u, n + 1, end)
           y == [w EXCEPT !.in = w.in \o more]
<1>4. st' = Put(st, c, y)
  BY <1>2 DEF Put
<1>5. w = st.wsi[c] /\ u = sends[c].units /\ n = sent[c] /\ ~w.clash /\ Row(w)
  BY <1>1 DEF Quiet, Lib
<1>6. Keeps(w, y, {"in"}) /\ y.in = w.in \o more
  <2> HIDE DEF more
  <2> QED BY <1>5, Zenon DEF Keeps, Row, Fields
<1>7. more = SubSeq(u, n + 1, end)
  OBVIOUS
<1> HIDE DEF w, y, u, n, more
<1>8. Proper(u) /\ n \in 0 .. Len(u) /\ Roomy(c, w) /\ RowInv(w, u, n)
  BY <1>1, <1>5, SoundRow
<1>9. u \in Seq(Pieces) /\ Len(u) \in Nat /\ n \in Nat /\ end \in 0 .. Len(u) /\ n \in 0 .. end
  BY <1>8, FrameFacts DEF Proper
<1>10. PICK r \in 0 .. n : w.in = SubSeq(u, r + 1, n) /\ Alive(w, u, r)
  BY <1>3, <1>8 DEF RowInv, Dead
<1>11. y.in = SubSeq(u, r + 1, end)
  <2>1. r + 1 \in 1 .. Len(u) + 1 /\ n \in (r + 1) - 1 .. Len(u) /\ end \in n .. Len(u)
    BY <1>8, <1>9
  <2>2. SubSeq(u, r + 1, n) \o SubSeq(u, n + 1, end) = SubSeq(u, r + 1, end)
    BY ONLY <1>9, <2>1, ConcatAdjacentSubSeq
  <2> QED BY <1>6, <1>7, <1>10, <2>2
<1>12. y.in \in Seq(Pieces)
  <2>1. r \in 0 .. end
    BY <1>9
  <2> QED BY ONLY <1>8, <1>9, <1>11, <2>1, Portion
<1>13. Typed(y, {"in"}) /\ {"in"} \subseteq Outside /\ Keeps(w, y, Outside)
  <2>1. y["in"] \in Types("in")
    BY <1>12, TypesOf
  <2> QED BY <1>6, <2>1 DEF Typed, Outside, Keeps
<1>14. Alive(y, u, r) /\ y.state = w.state /\ y.trunc = w.trunc
  BY <1>10, <1>13, OutsideAlive
<1>15. y.net = w.net /\ y.room = w.room
  BY <1>6 DEF Keeps, Fields
<1>16. RowInv(y, u, end) /\ Roomy(c, y)
  <2>1. r \in 0 .. end
    BY <1>9
  <2> QED BY <1>8, <1>11, <1>14, <1>15, <2>1 DEF RowInv, Roomy
<1>17. Keeps(w, y, {"in"}) /\ Typed(y, {"in"}) /\ {"in"} \subseteq Outside
  BY <1>6, <1>13
<1>18. /\ sent' \in [Conns -> Nat] /\ sent'[c] = end
       /\ \A d \in Conns \ {c} : sent'[d] = sent[d]
  BY <1>1, <1>2, <1>9 DEF Intended
<1>19. Sound(st', sends, sent')
  BY ONLY <1>1, <1>4, <1>5, <1>16, <1>17, <1>18, c \in Conns, RowChanged
<1>20. Intended(sends, sent')
  BY <1>1, <1>5, <1>9, <1>18 DEF Intended
<1> QED BY <1>1, <1>3, <1>19, <1>20 DEF ServiceInv

-----------------------------------------------------------------------------
(* The theorems. *)

\* A connection before its client connects.
LEMMA FreshRow ==
  ASSUME NEW c \in Conns, NEW u
  PROVE  Row(Fresh) /\ RowSound(c, Fresh, u, 0) /\ Fresh.state = "new"
<1>1. /\ Fresh.net = "none" /\ Fresh.in = << >> /\ Fresh.room = Room /\ Fresh.wire = << >>
      /\ Fresh.handed = << >> /\ Fresh.state = "new" /\ Fresh.mode = "http"
      /\ Fresh.timeout = NoTimeout /\ Fresh.blocking = FALSE /\ Fresh.selected = FALSE
      /\ Fresh.trunc = << >> /\ Fresh.tmalloc = FALSE /\ Fresh.hears = FALSE /\ Fresh.hdr = {}
      /\ Fresh.rx = [opcode |-> "text", left |-> -1, buffer |-> << >>]
      /\ Fresh.got = << >> /\ Fresh.filepos = 0 /\ Fresh.whole = FALSE /\ Fresh.clash = FALSE
      /\ Fresh.ret = 0
  BY DEF Fresh
<1>2. Fresh = [f \in Fields |-> Fresh[f]]
  BY DEF Fresh, Fields
<1>3. \A f \in Fields : Fresh[f] \in Types(f)
  <2>1. Room \in 0 .. Room /\ NoTimeout \in Expired .. NoTimeout /\ 0 \in 0 .. Chunks
    BY OutputAssumption DEF NoTimeout, Expired
  <2>2. [opcode |-> "text", left |-> -1, buffer |-> << >>]
          \in [opcode : Control \cup {"text"}, left : Nat \cup {-1}, buffer : Seq(Bytes)]
    OBVIOUS
  <2>3. << >> \in Seq(Pieces) /\ << >> \in Seq(Outs) /\ << >> \in Seq(Seq(Bytes))
    OBVIOUS
  <2> HIDE DEF Fresh
  <2>4. Fresh["net"] \in Types("net")
    BY <1>1, <2>1, <2>3, TypesOf
  <2>5. Fresh["state"] \in Types("state")
    BY <1>1, <2>1, <2>3, TypesOf
  <2>6. Fresh["mode"] \in Types("mode")
    BY <1>1, <2>1, <2>3, TypesOf
  <2>7. Fresh["in"] \in Types("in")
    BY <1>1, <2>1, <2>3, TypesOf
  <2>8. Fresh["wire"] \in Types("wire")
    BY <1>1, <2>1, <2>3, TypesOf
  <2>9. Fresh["handed"] \in Types("handed")
    BY <1>1, <2>1, <2>3, TypesOf
  <2>10. Fresh["trunc"] \in Types("trunc")
    BY <1>1, <2>1, <2>3, TypesOf
  <2>11. Fresh["got"] \in Types("got")
    BY <1>1, <2>1, <2>3, TypesOf
  <2>12. Fresh["room"] \in Types("room")
    BY <1>1, <2>1, <2>3, TypesOf
  <2>13. Fresh["timeout"] \in Types("timeout")
    BY <1>1, <2>1, <2>3, TypesOf
  <2>14. Fresh["filepos"] \in Types("filepos")
    BY <1>1, <2>1, <2>3, TypesOf
  <2>15. Fresh["blocking"] \in Types("blocking")
    BY <1>1, <2>1, <2>3, TypesOf
  <2>16. Fresh["selected"] \in Types("selected")
    BY <1>1, <2>1, <2>3, TypesOf
  <2>17. Fresh["tmalloc"] \in Types("tmalloc")
    BY <1>1, <2>1, <2>3, TypesOf
  <2>18. Fresh["hears"] \in Types("hears")
    BY <1>1, <2>1, <2>3, TypesOf
  <2>19. Fresh["whole"] \in Types("whole")
    BY <1>1, <2>1, <2>3, TypesOf
  <2>20. Fresh["clash"] \in Types("clash")
    BY <1>1, <2>1, <2>3, TypesOf
  <2>21. Fresh["hdr"] \in Types("hdr")
    BY <1>1, <2>1, <2>3, TypesOf
  <2>22. Fresh["ret"] \in Types("ret")
    BY <1>1, <2>1, <2>3, TypesOf
  <2>23. Fresh["rx"] \in Types("rx")
    BY <1>1, <2>2, TypesOf
  <2> QED BY <2>4, <2>5, <2>6, <2>7, <2>8, <2>9, <2>10, <2>11, <2>12, <2>13, <2>14, <2>15, <2>16, <2>17, <2>18, <2>19, <2>20, <2>21, <2>22, <2>23 DEF Fields
<1>4. Asking(Fresh, u, 0)
  BY <1>1 DEF Asking, Header
<1>5. SubSeq(u, 1, 0) = << >>
  BY SubSeqEmpty
<1>6. RowInv(Fresh, u, 0)
  <2>1. 0 \in 0 .. 0 /\ Fresh.in = SubSeq(u, 0 + 1, 0)
    BY <1>1, <1>5
  <2> QED BY <1>1, <1>4, <2>1 DEF RowInv, Alive
<1>7. RowSound(c, Fresh, u, 0)
  BY <1>1, <1>6 DEF RowSound, Roomy
<1> QED BY <1>1, <1>2, <1>3, <1>7 DEF Row

\* The invariant holds before any client has connected.
LEMMA Starts ==
  ASSUME Init
  PROVE  ServiceInv
<1>1. /\ st.fds = << [fd |-> Listener, out |-> FALSE] >>
      /\ st.pos = [c \in Conns \cup {Listener} |-> IF c = Listener THEN 1 ELSE 0]
      /\ st.wsi = [c \in Conns |-> Fresh]
      /\ st = [fds |-> st.fds, pos |-> st.pos, wsi |-> st.wsi]
      /\ sends \in Scripts /\ sent = [c \in Conns |-> 0] /\ svc = [at |-> "poll", i |-> 1]
      /\ second = FALSE /\ update = FALSE /\ version = 0
  BY DEF Init
<1>2. \A c \in Conns : Row(Fresh) /\ RowSound(c, Fresh, sends[c].units, 0) /\ Fresh.state = "new"
  BY FreshRow
<1>3. Lib(st)
  <2>1. st.fds \in Seq(Fds)
    BY <1>1 DEF Fds
  <2>2. st.pos \in [Conns \cup {Listener} -> Nat]
    BY <1>1
  <2>3. st.wsi = [c \in Conns |-> st.wsi[c]] /\ \A c \in Conns : Row(st.wsi[c])
    BY <1>1, <1>2
  <2> HIDE DEF Init
  <2> QED BY ONLY <1>1, <2>1, <2>2, <2>3 DEF Lib
<1>4. Len(st.fds) = 1 /\ st.fds[1].fd = Listener
  BY <1>1
<1>5. TableInv(st)
  <2>1. Positioned(st)
    BY <1>1, <1>4 DEF Positioned
  <2>2. \A c \in Conns : ~Polls(st, c) /\ st.wsi[c].state = "new"
    BY <1>1, <1>2, <1>4, OutputAssumption DEF Polls
  <2> QED BY <2>1, <2>2 DEF TableInv
<1>6. \A c \in Conns : RowSound(c, st.wsi[c], sends[c].units, sent[c])
  BY <1>1, <1>2
<1>7. Intended(sends, sent)
  <2>1. \A c \in Conns : Len(sends[c].units) \in Nat
    BY <1>1, Scripted, FrameFacts
  <2> QED BY <1>1, <2>1 DEF Intended
<1>8. svc \in [at : {"poll", "wait", "app", "gone"}, i : Nat] /\ svc.at = "poll" /\ svc.i # 0
  BY <1>1
<1>9. version \in 0 .. MaxUpdates
  BY <1>1, ServiceAssumption
<1> QED BY <1>1, <1>3, <1>5, <1>6, <1>7, <1>8, <1>9 DEF ServiceInv, Sound

\* Every step keeps it; the process has no step after the assertion has failed.
LEMMA Steps ==
  ASSUME ServiceInv, [Next]_vars
  PROVE  ServiceInv'
<1>1. CASE UNCHANGED vars
  BY <1>1 DEF vars, ServiceInv
<1>2. CASE Next
  <2>1. NoSendPastPending
    BY <1>2 DEF Next
  <2>2. CASE PollNext
    BY <2>1, <2>2, PollStep
  <2>3. CASE Wait
    BY <2>1, <2>3, WaitStep
  <2>4. CASE App
    BY <2>1, <2>4, AppStep
  <2>5. CASE Destroy
    BY <2>1, <2>5, DestroyStep
  <2>6. CASE updateClient
    BY <2>6, UpdateStep
  <2>7. CASE Tick
    BY <2>1, <2>7, TickStep
  <2>8. ASSUME NEW c \in Conns, Connect(c) \/ Send(c) \/ Drain(c) \/ Leave(c)
        PROVE  ServiceInv'
    BY <2>1, <2>8, ConnectStep, SendStep, DrainStep, LeaveStep
  <2> QED BY <1>2, <2>2, <2>3, <2>4, <2>5, <2>6, <2>7, <2>8 DEF Next, Service
<1> QED BY <1>1, <1>2

\* In every behaviour, with any clients, scripts, room and file, the library is sound: the
\* table of sockets is exact, and every connection is in one of the states of its kind with
\* what was sent, held back and heard as its script wants, unless two of its sends
\* overlapped, which only an answer to a slow client's frame can do.
THEOREM ServiceInvariant == Spec => []ServiceInv
<1>1. Init => ServiceInv
  BY Starts
<1>2. ServiceInv /\ [Next]_vars => ServiceInv'
  BY Steps
<1> QED BY <1>1, <1>2, PTL DEF Spec

-----------------------------------------------------------------------------
\* What the rows say.
LEMMA RowSays ==
  ASSUME ServiceInv, NoSendPastPending, NEW c \in Conns, NEW w, w = st.wsi[c],
         NEW u, u = sends[c].units
  PROVE  /\ w.hdr # {} => w.mode = "http"
         /\ w.hears <=> w.state = "established"
         /\ w.state = "established" => InOrder(w)
         /\ w.whole => w.wire = FileUpTo(Chunks)
         /\ \E r \in 0 .. Len(u) : Heard(w.got, u, r)
<1> DEFINE n == sent[c]
<1>1. Intended(sends, sent) /\ Sound(st, sends, sent) /\ ~w.clash /\ n = sent[c]
  BY Invariant DEF Quiet
<1> HIDE DEF n
<1>2. Proper(u) /\ n \in 0 .. Len(u) /\ RowInv(w, u, n)
  BY <1>1, SoundRow
<1>3. CASE Dead(w, u)
  BY <1>3 DEF Dead
<1>4. CASE ~Dead(w, u)
  <2>1. PICK r \in 0 .. n : Alive(w, u, r)
    BY <1>2, <1>4 DEF RowInv
  <2>2. r \in 0 .. Len(u)
    <3>1. Len(u) \in Nat
      BY <1>2, FrameFacts
    <3> QED BY <1>2, <3>1
  <2>3. Closable(w, u)
    BY <1>2, <2>1, <2>2, AliveClosable
  <2>4. /\ w.hdr # {} => w.mode = "http"
        /\ w.hears <=> w.state = "established"
        /\ w.state = "established" => InOrder(w)
    BY <2>1 DEF Alive, Asking, Filing, Talking
  <2> QED BY <2>3, <2>4 DEF Closable
<1> QED BY <1>3, <1>4

\* The properties, from the invariant.
LEMMA Agrees ==
  ASSUME ServiceInv, NoSendPastPending
  PROVE  ConnectionsAgree
<1>1. /\ Sound(st, sends, sent) /\ Lib(st) /\ TableInv(st)
      /\ svc \in [at : {"poll", "wait", "app", "gone"}, i : Nat] /\ version \in 0 .. MaxUpdates
      /\ update \in BOOLEAN /\ second \in BOOLEAN /\ (svc.at = "gone" => st.fds = << >>)
  BY Invariant DEF ServiceInv
<1>2. st.fds \in Seq(Fds) /\ Len(st.fds) \in Nat /\ DOMAIN st.fds = 1 .. Len(st.fds)
  <2>1. st.fds \in Seq(Fds)
    BY <1>1 DEF Lib
  <2> QED BY <2>1, LenProperties
<1>3. TypeOK
  <2>1. ASSUME NEW c \in Conns
        PROVE  LET w == st.wsi[c]
               IN  /\ w.net \in {"none", "pending", "open", "left"}
                   /\ w.room \in 0 .. Room
                   /\ w.state \in {"new", "http", "issuing", "established", "returned_close", "dead"}
                   /\ w.mode \in {"http", "accepted", "ws"}
                   /\ w.timeout \in Expired .. NoTimeout
                   /\ {w.blocking, w.selected, w.tmalloc, w.hears, w.whole, w.clash} \subseteq BOOLEAN
                   /\ w.filepos \in 0 .. Chunks
                   /\ w.rx.left >= -1
                   /\ w.hdr # {} => w.mode = "http"
    <3> DEFINE w == st.wsi[c]
    <3>1. Row(w)
      BY <1>1 DEF Lib
    <3>2. w.hdr # {} => w.mode = "http"
      BY RowSays
    <3> HIDE DEF w
    <3>3. w.rx.left >= -1
      <4> DEFINE l == w.rx.left
      <4>1. l \in Nat \cup {-1}
        BY <3>1, RowTypes
      <4> HIDE DEF l
      <4>2. l >= -1
        BY ONLY <4>1
      <4> QED BY <4>2 DEF l
    <3>4. w.net \in {"none", "pending", "open", "left"} /\ w.room \in 0 .. Room
      BY <3>1, RowTypes
    <3>5. w.state \in {"new", "http", "issuing", "established", "returned_close", "dead"}
      BY <3>1, RowTypes
    <3>6. w.mode \in {"http", "accepted", "ws"} /\ w.timeout \in Expired .. NoTimeout
      BY <3>1, RowTypes
    <3>7. {w.blocking, w.selected, w.tmalloc, w.hears, w.whole, w.clash} \subseteq BOOLEAN
      BY <3>1, RowTypes
    <3>8. w.filepos \in 0 .. Chunks
      BY <3>1, RowTypes
    <3> QED BY <3>2, <3>3, <3>4, <3>5, <3>6, <3>7, <3>8 DEF w
  <2>2. {second, update} \subseteq BOOLEAN
    BY <1>1
  <2> QED BY <1>1, <2>1, <2>2 DEF TypeOK
<1>4. TableConsistent
  <2>1. \A n \in 1 .. Len(st.fds) : st.pos[st.fds[n].fd] = n
    BY <1>1 DEF TableInv, Positioned
  <2>2. \A c \in Conns : c \in Polled <=> st.wsi[c].state \notin {"new", "dead"}
    BY <1>1 DEF TableInv, Polls, Polled
  <2>3. \A p \in Polled : p \in Conns \cup {Listener}
    <3>1. \A n \in 1 .. Len(st.fds) : st.fds[n] \in Fds
      BY <1>2, ElementOfSeq
    <3> QED BY <3>1 DEF Polled, Fds
  <2>4. Listener \notin Conns
    BY OutputAssumption
  <2>5. Polled \ {Listener} = {c \in Conns : st.wsi[c].state \notin {"new", "dead"}}
    <3> HIDE DEF Polled
    <3> QED BY <2>2, <2>3, <2>4
  <2> QED BY <2>1, <2>5 DEF TableConsistent
<1>5. CallbacksPaired
  <2>1. \A c \in Conns : st.wsi[c].hears <=> st.wsi[c].state = "established"
    BY RowSays
  <2>2. ASSUME svc.at = "gone", NEW c \in Conns
        PROVE  ~st.wsi[c].hears
    <3>1. Len(st.fds) = 0
      BY <1>1, <2>2
    <3>2. ~Polls(st, c)
      BY <3>1 DEF Polls
    <3>3. st.wsi[c].state \in {"new", "dead"}
      BY <1>1, <3>2 DEF TableInv
    <3> QED BY <2>1, <3>3
  <2> QED BY <2>1, <2>2 DEF CallbacksPaired
<1> QED BY <1>3, <1>4, <1>5 DEF ConnectionsAgree

\* What a websocket was sent, and what the program heard.
LEMMA Delivers ==
  ASSUME ServiceInv, NoSendPastPending
  PROVE  Delivered
<1>1. NothingLost
  <2>1. ASSUME NEW c \in Conns, st.wsi[c].state = "established"
        PROVE  << <<"101">> >> \o st.wsi[c].handed = st.wsi[c].wire \o st.wsi[c].trunc
    <3>1. InOrder(st.wsi[c])
      BY <2>1, RowSays
    <3> QED BY <3>1 DEF InOrder
  <2> QED BY <2>1 DEF NothingLost
<1>2. ReceivedInOrder
  <2>1. ASSUME NEW c \in Conns
        PROVE  LET units == sends[c].units
               IN  \A i \in DOMAIN st.wsi[c].got :
                     \E n \in Texts(units) :
                       /\ Cardinality({m \in Texts(units) : m <= n}) = i
                       /\ st.wsi[c].got[i] = Payload(units, n)
    <3> DEFINE got == st.wsi[c].got
               u == sends[c].units
    <3>1. PICK r \in 0 .. Len(u) : Heard(got, u, r)
      BY RowSays
    <3>2. DOMAIN got = 1 .. Len(got)
      <4>1. Row(st.wsi[c])
        BY Invariant DEF Lib
      <4>2. got \in Seq(Seq(Bytes))
        BY <4>1, RowTypes
      <4> HIDE DEF got
      <4> QED BY <4>2, LenProperties
    <3>3. Complete(u, r) \subseteq Texts(u)
      BY DEF Complete
    <3> HIDE DEF got, u
    <3>4. \A i \in DOMAIN got : \E n \in Texts(u) :
            Cardinality({m \in Texts(u) : m <= n}) = i /\ got[i] = Payload(u, n)
      BY <3>1, <3>2, <3>3 DEF Heard
    <3> QED BY <3>4 DEF got, u
  <2> QED BY <2>1 DEF ReceivedInOrder
<1> QED BY <1>1, <1>2 DEF Delivered

\* A completed file.
LEMMA SendsWhole ==
  ASSUME ServiceInv, NoSendPastPending
  PROVE  FileWhole
<1>1. ASSUME NEW c \in Conns, st.wsi[c].whole
      PROVE  st.wsi[c].wire = << <<"200">> >> \o [k \in 1 .. Chunks |-> <<"chunk", k>>]
  <2>1. st.wsi[c].wire = FileUpTo(Chunks)
    BY <1>1, RowSays
  <2> QED BY <2>1 DEF FileUpTo
<1> QED BY <1>1 DEF FileWhole

\* Which sends overlap.
LEMMA Overlapped ==
  ASSUME ServiceInv
  PROVE  OnlyAnswersOverlap
<1>1. ASSUME NEW c \in Conns, st.wsi[c].clash
      PROVE  c \in Slow /\ Answered(sends[c].units)
  BY <1>1 DEF ServiceInv, Sound, RowSound, Overlaps
<1> QED BY <1>1 DEF OnlyAnswersOverlap

\* Library and program agree on the connections as long as lws_issue_raw's assertion holds:
\* positions, table and states, the callbacks ESTABLISHED and CLOSED in pairs, whatever order
\* sockets are closed, moved in the table, timed out and served in.
THEOREM Agreement == Spec => [](NoSendPastPending => ConnectionsAgree)
<1>1. ServiceInv => (NoSendPastPending => ConnectionsAgree)
  BY Agrees
<1> QED BY <1>1, ServiceInvariant, PTL

\* Until then neither direction of a websocket loses, repeats or reorders anything: not
\* lws_issue_raw with what it holds back, and not the parser of frames that come in any pieces.
THEOREM Delivery == Spec => [](NoSendPastPending => Delivered)
<1>1. ServiceInv => (NoSendPastPending => Delivered)
  BY Delivers
<1> QED BY <1>1, ServiceInvariant, PTL

\* Until then a file that libwebsockets_serve_http_file_fragment declares completed went out
\* whole and in order, for any number of chunks and any socket.
THEOREM WholeFiles == Spec => [](NoSendPastPending => FileWhole)
<1>1. ServiceInv => (NoSendPastPending => FileWhole)
  BY SendsWhole
<1> QED BY <1>1, ServiceInvariant, PTL

\* Only a client that does not read fast enough and sends a ping, a close or a heartbeat
\* makes the assertion fail; the updates of the main loop, the file and the handshake never do.
THEOREM OverlapsOnlyByAnswers == Spec => []OnlyAnswersOverlap
<1>1. ServiceInv => OnlyAnswersOverlap
  BY Overlapped
<1> QED BY <1>1, ServiceInvariant, PTL

\* If no such client has anything answered, the assertion never fails, and everything above
\* holds for the whole life of the server.
THEOREM NoAnswersNoOverlap ==
  ASSUME \A x \in Scripts : \A c \in Slow : ~Answered(x[c].units)
  PROVE  Spec => [](NoSendPastPending /\ ConnectionsAgree /\ Delivered /\ FileWhole)
<1>1. ServiceInv => NoSendPastPending /\ ConnectionsAgree /\ Delivered /\ FileWhole
  <2> SUFFICES ASSUME ServiceInv
               PROVE  NoSendPastPending /\ ConnectionsAgree /\ Delivered /\ FileWhole
    OBVIOUS
  <2>1. NoSendPastPending
    BY Overlapped DEF OnlyAnswersOverlap, NoSendPastPending, ServiceInv, Intended
  <2> QED BY <2>1, Agrees, Delivers, SendsWhole
<1> QED BY <1>1, ServiceInvariant, PTL

=============================================================================
