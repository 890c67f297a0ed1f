-------------------------- MODULE LiveTelemetryProofs --------------------------
(***************************************************************************)
(* Theorems about LiveTelemetry, for every value of its constants.         *)
(***************************************************************************)
EXTENDS LiveTelemetry, TLAPS

-------------------------------------------------------------------------------
(***************************************************************************)
(* What the main loop works with can be used, if the simulator is not      *)
(* started again before the client has seen it gone.                       *)
(*                                                                         *)
(* The argument: a buffer that the main loop has allocated is as long as   *)
(* the samples of the session it has read, and no other session begins     *)
(* before the buffer is deleted.                                           *)
(***************************************************************************)

Alive == {"idle", "reset", "poll", "publish"}

\* The header has a length exactly while a session has written it, and a sample that
\* is being written has a number.
Life ==
  /\ sim \in {"mapped", "ready"} => bufLen = 0 /\ count = 0
  /\ sim \in Alive => bufLen > 0
  /\ sim \in Alive \ {"idle"} => count <= MaxTick

Session ==
  /\ nData > 0 => bufLen = nData /\ header = run /\ ~noticed
  /\ pc = "copy" => nData > 0 /\ left \subseteq 1 .. nData
  /\ pc = "got" => lastTickCount \in -1 .. MaxTick

UsableInv == TypeOK /\ Life /\ Session

\* The constants, and the buffers.
LEMMA ConstantFacts ==
  /\ MaxLen \in Nat \ {0} /\ MaxTick \in Nat /\ MaxRuns \in Nat \ {0} /\ Lag \in Nat
  /\ \A n \in Lens : n \in 1 .. MaxLen
  /\ Never = MaxTick + 1
  /\ bufCount = 3 /\ Bufs = {0, 1, 2}
BY TelemetryAssumption DEF Never, bufCount, Bufs

\* A cell written is a cell of a sample.
LEMMA CellFacts ==
  ASSUME NEW r \in [Bufs -> Samples], NEW b \in Bufs, NEW c \in Cells,
         NEW value \in -1 .. MaxTick
  PROVE  [r EXCEPT ![b][c] = value] \in [Bufs -> Samples]
<1>1. [r[b] EXCEPT ![c] = value] \in Samples
  BY DEF Samples
<1> QED BY <1>1

LEMMA UsableInit == Init => UsableInv
<1> SUFFICES ASSUME Init PROVE UsableInv
  OBVIOUS
<1>1. Zeros \in Samples
  BY ConstantFacts DEF Zeros, Samples
<1>2. /\ [b \in Bufs |-> 0] \in [Bufs -> -1 .. MaxTick]
      /\ [b \in Bufs |-> Zeros] \in [Bufs -> Samples]
  BY <1>1, ConstantFacts
<1>3. Never \in -1 .. Never /\ 0 \in -1 .. MaxTick /\ 0 \in 0 .. MaxTick + 1 /\ 0 \in 0 .. MaxRuns
      /\ 0 \in Bufs
  BY ConstantFacts
<1>4. TypeOK
  <2>1. status \in BOOLEAN /\ bufLen \in Lens \cup {0} /\ lag \in Nat
        /\ ticks \in [Bufs -> -1 .. MaxTick] /\ rows \in [Bufs -> Samples]
    BY <1>2 DEF Init
  <2>2. curBuf \in Bufs /\ latest \in Bufs /\ scanned \in 0 .. bufCount /\ tries \in 0 .. 2
        /\ count \in 0 .. MaxTick + 1 /\ lastTickCount \in -1 .. Never
        /\ curTickCount \in -1 .. MaxTick
    BY <1>3, ConstantFacts DEF Init
  <2>3. run \in 0 .. MaxRuns /\ header \in 0 .. MaxRuns /\ nData \in Lens \cup {0}
        /\ data \in Samples /\ given \in Samples /\ todo \subseteq Cells /\ left \subseteq Cells
    BY <1>1, <1>3 DEF Init
  <2> QED BY <2>1, <2>2, <2>3 DEF Init, TypeOK
<1> QED BY <1>4, ConstantFacts DEF Init, UsableInv, Life, Session, Alive

LEMMA UsableSimulator ==
  ASSUME Slow, UsableInv, Simulator
  PROVE  UsableInv'
<1> USE ConstantFacts DEF UsableInv, Life, Session, Alive, shm, simVars, readVars, clientVars
<1>0. Zeros \in Samples /\ Record \subseteq Cells
  BY DEF Zeros, Samples, Record, Cells, TypeOK
<1>1. CASE startup
  <2>1. /\ [b \in Bufs |-> 0] \in [Bufs -> -1 .. MaxTick]
        /\ [b \in Bufs |-> Zeros] \in [Bufs -> Samples]
    BY <1>0
  <2>2. run' \in 0 .. MaxRuns /\ 0 \in Bufs /\ 0 \in 0 .. MaxTick + 1
    BY <1>1 DEF startup, TypeOK
  <2>3. TypeOK'
    BY <2>1, <2>2, <1>0, <1>1 DEF startup, TypeOK
  <2> QED BY <2>3, <1>1 DEF startup
<1>2. CASE CreateEvent
  BY <1>2 DEF CreateEvent, TypeOK
<1>3. CASE finalizeHeader
  BY <1>3 DEF finalizeHeader, TypeOK
<1>4. CASE resetSampleVars
  BY <1>4, <1>0 DEF resetSampleVars, TypeOK
<1>5. ASSUME NEW c \in todo, NEW value \in -1 .. MaxTick, WriteCell(c, value), sim \in Alive
      PROVE  UsableInv'
  <2>1. rows' \in [Bufs -> Samples]
    BY <1>5, CellFacts DEF WriteCell, TypeOK
  <2> QED BY <2>1, <1>5 DEF WriteCell, TypeOK
<1>6. CASE ResetCell
  BY <1>5, <1>6 DEF ResetCell
<1>7. CASE pollSampleVars
  BY <1>7, <1>0 DEF pollSampleVars, TypeOK
<1>8. CASE PollCell
  <2>1. count \in -1 .. MaxTick
    BY <1>8 DEF PollCell, TypeOK
  <2>2. PICK c \in todo : WriteCell(c, count)
    BY <1>8 DEF PollCell
  <2> QED BY <2>1, <2>2, <1>5, <1>8 DEF PollCell
<1>9. CASE Publish
  BY <1>9 DEF Publish, TypeOK
<1>10. CASE Switch
  <2>1. curBuf' \in Bufs
    BY <1>10 DEF Switch, TypeOK
  <2>2. /\ count' \in 0 .. MaxTick + 1 /\ sim' = "idle" /\ sim = "publish"
        /\ UNCHANGED <<shm, todo, run, noticed, clientVars, lag>>
    BY <1>10 DEF Switch, TypeOK
  <2> QED BY <2>1, <2>2 DEF TypeOK
<1>11. CASE shutdown \/ SimDies
  <2>1. status' \in BOOLEAN /\ sim' = "down"
        /\ UNCHANGED <<ticks, rows, bufLen, curBuf, count, todo, run, noticed, clientVars, lag>>
    BY <1>11 DEF shutdown, SimDies, TypeOK
  <2> QED BY <2>1 DEF TypeOK
<1> QED
  BY <1>1, <1>2, <1>3, <1>4, <1>6, <1>7, <1>8, <1>9, <1>10, <1>11 DEF Simulator

LEMMA UsableClient ==
  ASSUME UsableInv, Client
  PROVE  UsableInv'
<1> USE ConstantFacts DEF UsableInv, Life, Session, Alive, shm, simVars, readVars, clientVars
<1>0. Zeros \in Samples /\ Record \subseteq Cells
  BY DEF Zeros, Samples, Record, Cells, TypeOK
<1>1. CASE irsdk_startup
  BY <1>1 DEF irsdk_startup, TypeOK
<1>2. CASE getNewData
  BY <1>2 DEF getNewData, TypeOK
<1>3. CASE Scan
  <2>1. latest' \in Bufs /\ scanned' \in 0 .. bufCount
    BY <1>3 DEF Scan, numBuf, TypeOK
  <2> QED BY <2>1, <1>3 DEF Scan, TypeOK
<1>4. CASE IsNewer
  <2>1. ticks[latest] \in -1 .. MaxTick
    BY DEF TypeOK
  <2>2. CASE nData > 0
    <3>1. left' = Record /\ Record = 1 .. nData
      BY <1>4, <2>2 DEF IsNewer, Record
    <3> QED BY <2>1, <2>2, <3>1, <1>4, <1>0 DEF IsNewer, TypeOK
  <2>3. CASE ~(nData > 0)
    <3>1. lastTickCount' \in -1 .. MaxTick
      BY <2>1, <2>3, <1>4 DEF IsNewer, TypeOK
    <3> QED BY <2>3, <3>1, <1>4 DEF IsNewer, TypeOK
  <2> QED BY <2>2, <2>3
<1>5. CASE IsNotNewer
  <2>1. ticks[latest] \in -1 .. MaxTick
    BY DEF TypeOK
  <2>2. lastTickCount' \in -1 .. Never
    BY <2>1, <1>5 DEF IsNotNewer
  <2> QED BY <2>2, <1>5 DEF IsNotNewer, TypeOK
<1>6. CASE CopyCell
  <2>1. rows[latest] \in [Cells -> -1 .. MaxTick]
    BY DEF TypeOK, Samples
  <2>2. data' \in Samples /\ left' \subseteq left
    BY <2>1, <1>6 DEF CopyCell, Samples, TypeOK
  <2> QED BY <2>2, <1>6 DEF CopyCell, TypeOK
<1>7. CASE CheckCopy
  <2>1. ticks[latest] \in -1 .. MaxTick
    BY DEF TypeOK
  <2>0. /\ tries \in 0 .. 2 /\ curTickCount \in -1 .. MaxTick /\ left \subseteq Cells
        /\ nData > 0 /\ left = {} /\ Record = 1 .. nData
    BY <1>7 DEF CheckCopy, Record, TypeOK
  <2>2. /\ tries' \in 0 .. 2 /\ curTickCount' \in -1 .. MaxTick /\ left' \subseteq Cells
        /\ pc' = "copy" => left' \subseteq 1 .. nData
        /\ pc' \in {"copy", "got", "failed"}
    <3>1. CASE curTickCount = ticks[latest]
      BY <3>1, <2>0, <1>7 DEF CheckCopy
    <3>2. CASE curTickCount # ticks[latest] /\ tries < 2
      <4>1. /\ tries' = tries + 1 /\ curTickCount' = ticks[latest] /\ left' = Record
            /\ pc' = "copy" /\ nData' = nData
        BY <3>2, <1>7 DEF CheckCopy
      <4>2. tries + 1 \in 0 .. 2
        BY <3>2, <2>0
      <4> QED BY <4>1, <4>2, <2>0, <2>1, <1>0
    <3>3. CASE curTickCount # ticks[latest] /\ ~(tries < 2)
      <4>1. pc' = "failed" /\ UNCHANGED <<tries, curTickCount, left>>
        BY <3>3, <1>7 DEF CheckCopy
      <4> QED BY <4>1, <2>0
    <3> QED BY <3>1, <3>2, <3>3
  <2>3. lastTickCount' \in -1 .. Never /\ (pc' = "got" => lastTickCount' \in -1 .. MaxTick)
    BY <2>1, <1>7 DEF CheckCopy, TypeOK
  <2>4. /\ nData > 0
        /\ UNCHANGED <<shm, simVars, noticed, open, latest, scanned, data, nData, header, lag, given>>
    BY <1>7 DEF CheckCopy
  <2> QED BY <2>2, <2>3, <2>4 DEF TypeOK
<1>8. CASE ProcessHeader
  BY <1>8, <1>0 DEF ProcessHeader, TypeOK
<1>9. CASE ProcessData
  <2>1. given' \in Samples
    BY <1>9 DEF ProcessData, Samples, TypeOK
  <2> QED BY <2>1, <1>9 DEF ProcessData, TypeOK
<1>10. CASE NoData
  <2>1. /\ nData' \in Lens \cup {0} /\ noticed' \in BOOLEAN
        /\ nData' > 0 => nData' = nData /\ noticed' = noticed
    <3>1. CASE nData' = 0 /\ noticed' = TRUE
      BY <3>1
    <3>2. CASE UNCHANGED <<nData, noticed>>
      BY <3>2 DEF TypeOK
    <3> QED BY <3>1, <3>2, <1>10 DEF NoData, SessionEnded
  <2>2. pc' = "top" /\ UNCHANGED <<shm, simVars, open, lastTickCount, readVars, data, header,
                                   lag, given>>
    BY <1>10 DEF NoData
  <2> QED BY <2>1, <2>2 DEF TypeOK
<1> QED
  BY <1>1, <1>2, <1>3, <1>4, <1>5, <1>6, <1>7, <1>8, <1>9, <1>10 DEF Client

LEMMA Usable ==
  ASSUME Slow
  PROVE  Spec => []UsableInv
<1>1. UsableInv /\ [Next]_vars => UsableInv'
  <2>1. UsableInv /\ UNCHANGED vars => UsableInv'
    BY DEF UsableInv, TypeOK, Life, Session, vars, shm, simVars, readVars, clientVars
  <2> QED BY <2>1, UsableSimulator, UsableClient DEF Next
<1> QED BY <1>1, UsableInit, PTL DEF Spec

\* If the simulator is not started again unseen, every sample is copied into a buffer
\* that holds it, and is interpreted with the session information of its own session.
THEOREM SamplesUsable ==
  ASSUME Slow
  PROVE  Spec => []SampleIsUsable
<1>1. UsableInv => SampleIsUsable
  <2> SUFFICES ASSUME UsableInv PROVE TypeOK /\ FitsBuffer /\ HeaderIsCurrent
    BY DEF SampleIsUsable
  <2>1. nData \in Nat
    BY ConstantFacts DEF UsableInv, TypeOK
  <2> QED BY <2>1 DEF UsableInv, Session, FitsBuffer, HeaderIsCurrent, HeaderChanged
<1> QED BY <1>1, Usable, PTL

-------------------------------------------------------------------------------
(***************************************************************************)
(* The buffers, whatever the client does: they are used in turn, and the   *)
(* two with the newest samples are whole.                                  *)
(***************************************************************************)

lastBuf == IF sim = "publish" THEN curBuf ELSE (curBuf + 2) % bufCount
lastTick == IF sim = "publish" THEN count ELSE count - 1

Before(b, k) == (b + bufCount - k) % bufCount
Older(n, k) == IF n >= k THEN n - k ELSE -1

InTurn(t, b, n) == \A k \in 0 .. 2 : t[Before(b, k)] = Older(n, k)
Ring == sim \in Alive => InTurn(ticks, lastBuf, lastTick)

Recent(b) == ticks[b] >= 0 /\ \A d \in Bufs : ticks[d] <= ticks[b] + 1
Whole(b) == \A c \in Record : rows[b][c] = ticks[b]

BufferInv ==
  /\ Ring
  /\ \A b \in Bufs : Recent(b) => Whole(b)
  /\ sim = "poll" => \A c \in Record \ todo : rows[curBuf][c] = count

\* The ring, buffer by buffer.
LEMMA RingFacts ==
  ASSUME NEW t, NEW n
  PROVE  /\ InTurn(t, 0, n) <=> t[0] = Older(n, 0) /\ t[2] = Older(n, 1) /\ t[1] = Older(n, 2)
         /\ InTurn(t, 1, n) <=> t[1] = Older(n, 0) /\ t[0] = Older(n, 1) /\ t[2] = Older(n, 2)
         /\ InTurn(t, 2, n) <=> t[2] = Older(n, 0) /\ t[1] = Older(n, 1) /\ t[0] = Older(n, 2)
<1>1. /\ Before(0, 0) = 0 /\ Before(0, 1) = 2 /\ Before(0, 2) = 1
      /\ Before(1, 0) = 1 /\ Before(1, 1) = 0 /\ Before(1, 2) = 2
      /\ Before(2, 0) = 2 /\ Before(2, 1) = 1 /\ Before(2, 2) = 0
  BY ConstantFacts DEF Before
<1>2. \A k : k \in 0 .. 2 <=> k = 0 \/ k = 1 \/ k = 2
  OBVIOUS
<1> QED BY <1>1, <1>2 DEF InTurn

\* While a sample is written, it is newer than all that were published, and the
\* buffer it is written to holds the oldest of them.
LEMMA WritingFacts ==
  ASSUME TypeOK, Ring, sim \in Alive \ {"publish"}
  PROVE  /\ \A d \in Bufs : ticks[d] < count
         /\ \E d \in Bufs : ticks[d] = count - 1
         /\ ~Recent(curBuf)
<1> USE ConstantFacts
<1>1. curBuf \in {0, 1, 2} /\ count \in Nat
  BY DEF TypeOK
<1>2. lastTick = count - 1 /\ lastBuf = (curBuf + 2) % 3
  BY DEF lastTick, lastBuf, Alive
<1>4. CASE curBuf = 0
  <2>1. lastBuf = 2
    BY <1>2, <1>4
  <2>2. ticks[2] = Older(count - 1, 0) /\ ticks[1] = Older(count - 1, 1) /\ ticks[0] = Older(count - 1, 2)
    BY <1>2, <2>1, RingFacts DEF Ring
  <2> QED BY <1>1, <1>4, <2>2 DEF Older, Recent
<1>5. CASE curBuf = 1
  <2>1. lastBuf = 0
    BY <1>2, <1>5
  <2>2. ticks[0] = Older(count - 1, 0) /\ ticks[2] = Older(count - 1, 1) /\ ticks[1] = Older(count - 1, 2)
    BY <1>2, <2>1, RingFacts DEF Ring
  <2> QED BY <1>1, <1>5, <2>2 DEF Older, Recent
<1>6. CASE curBuf = 2
  <2>1. lastBuf = 1
    BY <1>2, <1>6
  <2>2. ticks[1] = Older(count - 1, 0) /\ ticks[0] = Older(count - 1, 1) /\ ticks[2] = Older(count - 1, 2)
    BY <1>2, <2>1, RingFacts DEF Ring
  <2> QED BY <1>1, <1>6, <2>2 DEF Older, Recent
<1> QED BY <1>1, <1>4, <1>5, <1>6

LEMMA BufferSimulator ==
  ASSUME UsableInv, UsableInv', BufferInv, Simulator
  PROVE  BufferInv'
<1> USE ConstantFacts DEF Alive, shm, simVars, readVars, clientVars
<1>0. TypeOK /\ Life /\ TypeOK' /\ Life' /\ Ring
  BY DEF UsableInv, BufferInv
<1>1. CASE startup
  BY <1>1 DEF startup, BufferInv, Ring, Record, Whole
<1>2. CASE CreateEvent \/ shutdown \/ SimDies
  <2>1. /\ UNCHANGED <<ticks, rows, bufLen>> /\ sim' \notin Alive
    BY <1>2 DEF CreateEvent, shutdown, SimDies
  <2> QED BY <2>1 DEF BufferInv, Ring, Recent, Whole, Record
<1>3. CASE finalizeHeader
  <2>1. \A b \in Bufs : ticks'[b] = -1
    BY <1>3 DEF finalizeHeader
  <2>2. sim' = "idle" /\ count' = 0 /\ lastTick' = -1
    BY <1>0, <1>3 DEF finalizeHeader, lastTick, Life
  <2>3. Ring'
    <3>1. Older(-1, 0) = -1 /\ Older(-1, 1) = -1 /\ Older(-1, 2) = -1
      BY DEF Older
    <3>2. lastBuf' \in {0, 1, 2}
      <4>1. curBuf' \in {0, 1, 2} /\ lastBuf' = (curBuf' + 2) % 3
        BY <1>0, <2>2 DEF TypeOK, lastBuf
      <4>2. \A b \in {0, 1, 2} : (b + 2) % 3 \in {0, 1, 2}
        OBVIOUS
      <4> QED BY <4>1, <4>2
    <3> QED BY <2>1, <2>2, <3>1, <3>2, RingFacts DEF Ring
  <2> QED BY <2>1, <2>2, <2>3 DEF BufferInv, Recent
<1>4. CASE resetSampleVars \/ pollSampleVars
  <2>1. /\ UNCHANGED <<ticks, rows, bufLen, curBuf, count>>
        /\ sim \in Alive \ {"publish"} /\ sim' \in Alive \ {"publish"}
        /\ todo' = Record'
    BY <1>4 DEF resetSampleVars, pollSampleVars, Record
  <2>2. Ring'
    BY <1>0, <2>1 DEF Ring, lastBuf, lastTick
  <2> QED BY <2>1, <2>2 DEF BufferInv, Recent, Whole, Record
<1>5. ASSUME NEW c \in todo, NEW value \in -1 .. MaxTick, WriteCell(c, value),
             sim \in {"reset", "poll"}, sim = "poll" => value = count
      PROVE  BufferInv'
  <2>1. /\ c \in Cells /\ curBuf \in Bufs /\ rows \in [Bufs -> Samples]
        /\ rows' = [rows EXCEPT ![curBuf][c] = value] /\ todo' = todo \ {c}
        /\ UNCHANGED <<ticks, bufLen, curBuf, count, sim>>
    BY <1>0, <1>5 DEF WriteCell, TypeOK
  <2>2. ~Recent(curBuf)
    BY <1>0, <1>5, WritingFacts
  <2>3. \A b \in Bufs \ {curBuf} : rows'[b] = rows[b]
    BY <2>1
  <2>4. rows'[curBuf] = [rows[curBuf] EXCEPT ![c] = value] /\ rows[curBuf] \in [Cells -> -1 .. MaxTick]
    BY <2>1 DEF Samples
  <2>5. \A b \in Bufs : Recent(b)' => Whole(b)'
    BY <2>1, <2>2, <2>3 DEF BufferInv, Recent, Whole, Record
  <2>6. Ring'
    BY <1>0, <2>1 DEF Ring, lastBuf, lastTick
  <2>7. sim' = "poll" => \A d \in Record' \ todo' : rows'[curBuf'][d] = count'
    <3>1. Record \subseteq Cells
      BY <1>0 DEF Record, Cells, TypeOK
    <3> QED BY <1>5, <2>1, <2>4, <3>1 DEF BufferInv, Record
  <2> QED BY <2>5, <2>6, <2>7 DEF BufferInv
<1>6. CASE ResetCell \/ PollCell
  <2>1. CASE ResetCell
    <3>1. PICK c \in todo, value \in -1 .. MaxTick : WriteCell(c, value)
      BY <2>1 DEF ResetCell
    <3>2. sim = "reset"
      BY <2>1 DEF ResetCell
    <3> QED BY <1>5, <3>1, <3>2
  <2>2. CASE PollCell
    <3>1. PICK c \in todo : WriteCell(c, count)
      BY <2>2 DEF PollCell
    <3>2. count \in -1 .. MaxTick
      BY <1>0, <2>2 DEF PollCell, TypeOK, Life
    <3> QED BY <1>5, <2>2, <3>1, <3>2 DEF PollCell
  <2> QED BY <1>6, <2>1, <2>2
<1>7. CASE Publish
  <2>1. /\ sim = "poll" /\ todo = {} /\ sim' = "publish" /\ curBuf \in Bufs
        /\ ticks' = [ticks EXCEPT ![curBuf] = count] /\ ticks \in [Bufs -> -1 .. MaxTick]
        /\ count \in Nat
        /\ UNCHANGED <<rows, bufLen, curBuf, count>>
    BY <1>0, <1>7 DEF Publish, TypeOK
  <2>2. \A d \in Bufs : ticks[d] < count
    BY <1>0, <2>1, WritingFacts
  <2>3. Whole(curBuf)'
    BY <2>1 DEF BufferInv, Whole, Record
  <2>4. ASSUME NEW b \in Bufs \ {curBuf}, Recent(b)' PROVE Whole(b)'
    <3>1. ticks'[b] = ticks[b] /\ \A d \in Bufs : ticks[d] \in Int /\ ticks'[d] >= ticks[d]
      BY <2>1, <2>2
    <3>2. ticks[b] \in Int /\ ticks[b] >= 0 /\ \A d \in Bufs : ticks'[d] <= ticks[b] + 1 /\ ticks'[d] \in Int
      BY <2>1, <2>4, <3>1 DEF Recent
    <3>3. Recent(b)
      BY <3>1, <3>2 DEF Recent
    <3> QED BY <2>1, <3>1, <3>3 DEF BufferInv, Whole, Record
  <2>5. Ring'
    <3>1. curBuf \in {0, 1, 2} /\ lastTick = count - 1 /\ lastBuf = (curBuf + 2) % 3
          /\ lastTick' = count /\ lastBuf' = curBuf
      BY <2>1 DEF lastTick, lastBuf
    <3>2. Older(count, 0) = count /\ Older(count, 1) = Older(count - 1, 0)
          /\ Older(count, 2) = Older(count - 1, 1)
      BY <2>1 DEF Older
    <3>3. CASE curBuf = 0
      <4>1. lastBuf = 2 /\ lastBuf' = 0
        BY <3>1, <3>3
      <4>2. InTurn(ticks, 2, count - 1)
        BY <1>0, <2>1, <3>1, <4>1 DEF Ring
      <4>3. ticks[2] = Older(count, 1) /\ ticks[1] = Older(count, 2)
        BY <3>2, <4>2, RingFacts
      <4>4. ticks'[0] = Older(count, 0) /\ ticks'[2] = ticks[2] /\ ticks'[1] = ticks[1]
        BY <2>1, <3>2, <3>3
      <4>5. InTurn(ticks', 0, count)
        BY <4>3, <4>4, RingFacts
      <4> QED BY <3>1, <4>1, <4>5 DEF Ring
    <3>4. CASE curBuf = 1
      <4>1. lastBuf = 0 /\ lastBuf' = 1
        BY <3>1, <3>4
      <4>2. InTurn(ticks, 0, count - 1)
        BY <1>0, <2>1, <3>1, <4>1 DEF Ring
      <4>3. ticks[0] = Older(count, 1) /\ ticks[2] = Older(count, 2)
        BY <3>2, <4>2, RingFacts
      <4>4. ticks'[1] = Older(count, 0) /\ ticks'[0] = ticks[0] /\ ticks'[2] = ticks[2]
        BY <2>1, <3>2, <3>4
      <4>5. InTurn(ticks', 1, count)
        BY <4>3, <4>4, RingFacts
      <4> QED BY <3>1, <4>1, <4>5 DEF Ring
    <3>5. CASE curBuf = 2
      <4>1. lastBuf = 1 /\ lastBuf' = 2
        BY <3>1, <3>5
      <4>2. InTurn(ticks, 1, count - 1)
        BY <1>0, <2>1, <3>1, <4>1 DEF Ring
      <4>3. ticks[1] = Older(count, 1) /\ ticks[0] = Older(count, 2)
        BY <3>2, <4>2, RingFacts
      <4>4. ticks'[2] = Older(count, 0) /\ ticks'[1] = ticks[1] /\ ticks'[0] = ticks[0]
        BY <2>1, <3>2, <3>5
      <4>5. InTurn(ticks', 2, count)
        BY <4>3, <4>4, RingFacts
      <4> QED BY <3>1, <4>1, <4>5 DEF Ring
    <3> QED BY <3>1, <3>3, <3>4, <3>5
  <2> QED BY <2>1, <2>3, <2>4, <2>5 DEF BufferInv
<1>8. CASE Switch
  <2>1. /\ sim = "publish" /\ sim' = "idle" /\ curBuf' = (curBuf + 1) % 3 /\ count' = count + 1
        /\ curBuf \in {0, 1, 2} /\ count \in Nat /\ UNCHANGED <<ticks, rows, bufLen>>
    BY <1>0, <1>8 DEF Switch, TypeOK
  <2>2. lastBuf' = lastBuf /\ lastTick' = lastTick
    <3>1. (((curBuf + 1) % 3) + 2) % 3 = curBuf
      BY <2>1
    <3> QED BY <2>1, <3>1 DEF lastBuf, lastTick
  <2>3. Ring'
    BY <1>0, <2>1, <2>2 DEF Ring
  <2> QED BY <2>1, <2>3 DEF BufferInv, Recent, Whole, Record
<1> QED BY <1>1, <1>2, <1>3, <1>4, <1>6, <1>7, <1>8 DEF Simulator

LEMMA Buffers ==
  ASSUME Slow
  PROVE  Spec => []BufferInv
<1>1. Init => BufferInv
  BY DEF Init, BufferInv, Ring, Alive, Record, Whole
<1>2. ASSUME BufferInv, UNCHANGED <<shm, simVars>> PROVE BufferInv'
  <2>1. UNCHANGED <<ticks, rows, bufLen, sim, curBuf, count, todo>>
    BY <1>2 DEF shm, simVars
  <2> QED BY <2>1, <1>2 DEF BufferInv, Ring, lastBuf, lastTick, Recent, Whole, Record
<1>3. Client \/ UNCHANGED vars => UNCHANGED <<shm, simVars>>
  BY DEF Client, vars, irsdk_startup, getNewData, Scan, IsNewer, IsNotNewer, CopyCell,
         CheckCopy, ProcessHeader, ProcessData, NoData
<1>4. UsableInv /\ UsableInv' /\ BufferInv /\ [Next]_vars => BufferInv'
  BY <1>2, <1>3, BufferSimulator DEF Next
<1> QED BY <1>1, <1>4, Usable, PTL DEF Spec

-------------------------------------------------------------------------------
(***************************************************************************)
(* The read.  The client looks at the tick counts one by one while the     *)
(* simulator goes on; at most Lag samples are published meanwhile.         *)
(*                                                                         *)
(* The argument: the buffer that the loop finds is, or was when the loop   *)
(* began, the newest; so, with a lag of one, it is one of the two newest,  *)
(* which are whole, until the copy has been checked.                       *)
(***************************************************************************)

\* No sample published is newer than n; the samples given are not newer than n.
PublishedUpTo(n) == \A d \in Bufs : ticks[d] <= n
GivenUpTo(n) == \A c \in Cells : given[c] <= n

\* The buffers that the loop may still find to be the newest.
Candidates == {latest} \cup scanned .. bufCount - 1

Window ==
  /\ Reading => lag <= Lag
  /\ pc = "scan" /\ nData > 0 => \E b \in Candidates : PublishedUpTo(ticks[b] + lag)
  /\ pc \in {"test", "copy"} /\ nData > 0 => PublishedUpTo(ticks[latest] + lag)

Copied ==
  /\ pc = "copy" => lastTickCount < curTickCount /\ curTickCount <= ticks[latest]
  /\ pc = "copy" /\ curTickCount = ticks[latest] =>
       \A c \in Record \ left : data[c] = curTickCount
  /\ pc = "got" => lastTickCount >= 0
  /\ pc = "got" /\ nData > 0 => /\ \A c \in Record : data[c] = lastTickCount
                                /\ \E b \in Bufs : lastTickCount <= ticks[b]

Given ==
  /\ bufLen = 0 => given = Zeros
  /\ GivenUpTo(lastTickCount)
  /\ pc = "got" => GivenUpTo(lastTickCount - 1)
  /\ \E b \in Bufs : GivenUpTo(ticks[b])
  /\ pc = "scan" => \E b \in Candidates : GivenUpTo(ticks[b])
  /\ pc = "test" => GivenUpTo(ticks[latest])

ReadInv == Window /\ Copied /\ Given

\* What the types say of what is read and compared.
LEMMA ReadFacts ==
  ASSUME TypeOK
  PROVE  /\ latest \in Bufs /\ Candidates \subseteq Bufs /\ latest \in Candidates
         /\ \A b \in Bufs : ticks[b] \in Int /\ ticks[b] >= -1 /\ ticks[b] <= MaxTick
         /\ lastTickCount \in Int /\ lastTickCount >= -1
         /\ curTickCount \in Int /\ curTickCount >= -1
         /\ \A c \in Cells : given[c] \in Int /\ given[c] >= -1 /\ given[c] <= MaxTick
         /\ lag \in Nat /\ nData \in Nat /\ bufLen \in Nat /\ Record \subseteq Cells
<1>1. latest \in Bufs /\ Candidates \subseteq Bufs /\ latest \in Candidates
  BY ConstantFacts DEF TypeOK, Candidates
<1>2. \A b \in Bufs : ticks[b] \in Int /\ ticks[b] >= -1 /\ ticks[b] <= MaxTick
  BY ConstantFacts DEF TypeOK
<1>3. \A c \in Cells : given[c] \in Int /\ given[c] >= -1 /\ given[c] <= MaxTick
  BY ConstantFacts DEF TypeOK, Samples
<1>4. lag \in Nat /\ nData \in Nat /\ bufLen \in Nat /\ Record \subseteq Cells
  BY ConstantFacts DEF TypeOK, Record, Cells
<1> QED BY <1>1, <1>2, <1>3, <1>4, ConstantFacts DEF TypeOK

LEMMA ReadInit == Init => ReadInv
<1> SUFFICES ASSUME Init PROVE ReadInv
  OBVIOUS
<1>1. \A c \in Cells : given[c] = -1
  BY DEF Init, Zeros
<1>2. \A b \in Bufs : ticks[b] = 0
  BY DEF Init
<1> QED
  BY <1>1, <1>2, ConstantFacts DEF Init, ReadInv, Window, Copied, Given, GivenUpTo, Reading

LEMMA ReadSimulator ==
  ASSUME Slow, UsableInv, BufferInv, ReadInv, Simulator
  PROVE  ReadInv'
<1> USE ConstantFacts DEF shm, simVars, readVars, clientVars
<1>0. TypeOK /\ Life /\ Session /\ Ring /\ Window /\ Copied /\ Given
  BY DEF UsableInv, BufferInv, ReadInv
<1>1. CASE startup \/ finalizeHeader
  <2>1. \A c \in Cells : given'[c] = -1
    BY <1>0, <1>1 DEF startup, finalizeHeader, Zeros, Life, Given
  <2>2. /\ \A b \in Bufs : ticks'[b] >= -1
        /\ UNCHANGED <<pc, lastTickCount, readVars, lag, nData>>
    BY <1>1 DEF startup, finalizeHeader
  <2>3. nData = 0
    BY <1>0, <1>1, ReadFacts DEF startup, finalizeHeader, Session, Life
  <2>4. Window' /\ Copied'
    BY <1>0, <2>2, <2>3 DEF Window, Copied, Reading, Session
  <2>5. Given'
    <3>1. \A n \in Int : n >= -1 => GivenUpTo(n)'
      BY <2>1 DEF GivenUpTo
    <3>2. \A b \in Bufs : ticks'[b] \in Int
      BY <1>1 DEF startup, finalizeHeader
    <3>3. bufLen' = 0 => given' = Zeros
      BY <1>0, <1>1 DEF startup, finalizeHeader, TypeOK
    <3>4. Candidates' = Candidates /\ 0 \in Bufs
      BY <2>2 DEF Candidates
    <3> QED
      BY <1>0, <2>2, <3>1, <3>2, <3>3, <3>4, ReadFacts DEF Given, Copied
  <2> QED BY <2>4, <2>5 DEF ReadInv
<1>2. ASSUME UNCHANGED <<ticks, bufLen, clientVars, lag>> PROVE ReadInv'
  BY <1>0, <1>2
  DEF ReadInv, Window, Copied, Given, PublishedUpTo, GivenUpTo, Candidates, Reading, Record
<1>3. CASE CreateEvent \/ resetSampleVars \/ ResetCell \/ pollSampleVars \/ PollCell
           \/ Switch \/ shutdown \/ SimDies
  BY <1>2, <1>3 DEF CreateEvent, resetSampleVars, ResetCell, pollSampleVars, PollCell,
                    WriteCell, Switch, shutdown, SimDies
<1>4. CASE Publish
  <2>1. /\ sim = "poll" /\ curBuf \in Bufs /\ count \in Nat
        /\ ticks' = [ticks EXCEPT ![curBuf] = count]
        /\ ticks \in [Bufs -> -1 .. MaxTick]
        /\ Reading => lag < Lag
        /\ lag' = IF Reading THEN lag + 1 ELSE 0
        /\ UNCHANGED <<bufLen, clientVars>>
    BY <1>0, <1>4 DEF Publish, TypeOK
  <2>2. /\ \A d \in Bufs : ticks[d] < count
        /\ \E d \in Bufs : ticks[d] = count - 1
    BY <1>0, <2>1, WritingFacts DEF Alive
  <2>3. \A d \in Bufs : ticks'[d] \in Int /\ ticks[d] <= ticks'[d] /\ ticks'[d] <= count
    BY <2>1, <2>2
  <2>4. ASSUME NEW b \in Bufs, PublishedUpTo(ticks[b] + lag), Reading
        PROVE  PublishedUpTo(ticks[b] + lag)'
    <3>1. lag' = lag + 1 /\ lag \in Nat
      BY <2>1, <2>4, <1>0, ReadFacts
    <3>2. count - 1 <= ticks[b] + lag
      BY <2>2, <2>4 DEF PublishedUpTo
    <3> QED BY <2>1, <2>3, <3>1, <3>2 DEF PublishedUpTo
  <2>5. \A b \in Bufs : GivenUpTo(ticks[b]) => GivenUpTo(ticks[b])'
    BY <1>0, <2>1, <2>3, ReadFacts DEF GivenUpTo
  <2>6. Candidates' = Candidates /\ Candidates \subseteq Bufs /\ latest \in Bufs
    BY <1>0, <2>1, ReadFacts DEF Candidates
  <2>7. Window'
    BY <1>0, <2>1, <2>4, <2>6, ReadFacts DEF Window, Reading
  <2>8. Copied'
    BY <1>0, <2>1, <2>3, <2>6, ReadFacts DEF Copied, Record
  <2>9. Given'
    BY <1>0, <2>1, <2>5, <2>6 DEF Given, GivenUpTo
  <2> QED BY <2>7, <2>8, <2>9 DEF ReadInv
<1> QED BY <1>1, <1>3, <1>4 DEF Simulator

\* One of the buffers has the newest sample.
LEMMA NewestBuffer ==
  ASSUME TypeOK
  PROVE  \E b \in Bufs : PublishedUpTo(ticks[b])
<1>1. ticks[0] \in Int /\ ticks[1] \in Int /\ ticks[2] \in Int
  BY ConstantFacts, ReadFacts
<1>2. \E b \in {0, 1, 2} : ticks[0] <= ticks[b] /\ ticks[1] <= ticks[b] /\ ticks[2] <= ticks[b]
  BY <1>1
<1> QED BY <1>2, ConstantFacts DEF PublishedUpTo

LEMMA ReadClient ==
  ASSUME Slow, Lag <= 1, UsableInv, BufferInv, ReadInv, Client
  PROVE  ReadInv'
<1> USE ConstantFacts DEF shm, simVars, readVars, clientVars
<1>0. TypeOK /\ Life /\ Session /\ Window /\ Copied /\ Given
  BY DEF UsableInv, BufferInv, ReadInv
<1>1. CASE irsdk_startup
  <2>1. GivenUpTo(Never)
    BY <1>0, ReadFacts DEF GivenUpTo
  <2> QED
    BY <1>0, <1>1, <2>1
    DEF irsdk_startup, ReadInv, Window, Copied, Given, PublishedUpTo, GivenUpTo, Candidates, Reading
<1>2. CASE getNewData
  <2>1. /\ lag' = 0 /\ UNCHANGED <<ticks, bufLen, nData, given>>
        /\ \/ pc' = "scan" /\ latest' = 0 /\ scanned' = 1 /\ lastTickCount' = lastTickCount
           \/ pc' = "failed" /\ lastTickCount' = Never
    BY <1>2 DEF getNewData
  <2>2. pc' = "scan" => Candidates' = Bufs
    BY <2>1 DEF Candidates
  <2>3. Window'
    <3>1. PICK b \in Bufs : PublishedUpTo(ticks[b])
      BY <1>0, NewestBuffer
    <3>2. PublishedUpTo(ticks[b] + lag)'
      BY <2>1, <3>1, <1>0, ReadFacts DEF PublishedUpTo
    <3> QED BY <2>1, <2>2, <3>2 DEF Window, Reading
  <2>4. Given'
    <3>1. GivenUpTo(lastTickCount)'
      BY <1>0, <2>1, ReadFacts DEF Given, GivenUpTo
    <3> QED BY <1>0, <2>1, <2>2, <3>1 DEF Given, GivenUpTo
  <2> QED BY <2>1, <2>3, <2>4 DEF ReadInv, Copied
<1>3. CASE Scan
  <2>1. /\ pc = "scan" /\ UNCHANGED <<ticks, bufLen, nData, given, lag, lastTickCount>>
    BY <1>3 DEF Scan
  <2>2. CASE scanned < numBuf
    <3>1. /\ pc' = "scan" /\ scanned' = scanned + 1
          /\ scanned \in Bufs
          /\ latest' = IF ticks[latest] < ticks[scanned] THEN scanned ELSE latest
      BY <1>0, <1>3, <2>1, <2>2 DEF Scan, numBuf, TypeOK
    <3>2. ASSUME NEW b \in Candidates
          PROVE  \E d \in Candidates' : ticks[b] <= ticks[d]
      <4>1. b = latest \/ b = scanned \/ b \in scanned + 1 .. bufCount - 1
        BY <3>1 DEF Candidates
      <4>2. latest' \in Candidates' /\ ticks[latest] <= ticks[latest'] /\ ticks[scanned] <= ticks[latest']
        BY <1>0, <3>1, ReadFacts DEF Candidates
      <4>3. CASE b \in scanned + 1 .. bufCount - 1
        BY <3>1, <4>3, <1>0, ReadFacts DEF Candidates
      <4> QED BY <4>1, <4>2, <4>3
    <3>3. Candidates' \subseteq Bufs
      BY <1>0, <3>1, ReadFacts DEF Candidates
    <3>4. Window'
      <4>1. ASSUME nData > 0 PROVE \E d \in Candidates' : PublishedUpTo(ticks[d] + lag)'
        <5>1. PICK b \in Candidates : PublishedUpTo(ticks[b] + lag)
          BY <1>0, <2>1, <4>1 DEF Window
        <5>2. PICK d \in Candidates' : ticks[b] <= ticks[d]
          BY <3>2
        <5>3. PublishedUpTo(ticks[d] + lag)'
          BY <1>0, <2>1, <3>3, <5>1, <5>2, ReadFacts DEF PublishedUpTo
        <5> QED BY <5>3
      <4> QED BY <1>0, <2>1, <3>1, <4>1 DEF Window, Reading
    <3>5. Given'
      <4>1. PICK b \in Candidates : GivenUpTo(ticks[b])
        BY <1>0, <2>1 DEF Given
      <4>2. PICK d \in Candidates' : ticks[b] <= ticks[d]
        BY <3>2
      <4>3. GivenUpTo(ticks[d])'
        BY <1>0, <2>1, <3>3, <4>1, <4>2, ReadFacts DEF GivenUpTo
      <4> QED BY <1>0, <2>1, <3>1, <4>2, <4>3 DEF Given, GivenUpTo
    <3> QED BY <3>1, <3>4, <3>5 DEF ReadInv, Copied
  <2>3. CASE ~(scanned < numBuf)
    <3>1. pc' = "test" /\ UNCHANGED <<latest, scanned>>
      BY <1>3, <2>3 DEF Scan
    <3>2. bufLen # 0 => Candidates = {latest}
      BY <1>0, <2>3 DEF numBuf, Candidates, TypeOK
    <3>3. Window'
      BY <1>0, <2>1, <3>1, <3>2, ReadFacts DEF Window, Session, PublishedUpTo, Reading
    <3>4. GivenUpTo(ticks[latest])
      <4>1. CASE bufLen = 0
        <5>1. \A c \in Cells : given[c] = -1
          BY <1>0, <4>1 DEF Given, Zeros
        <5> QED BY <1>0, <5>1, ReadFacts DEF GivenUpTo
      <4>2. CASE bufLen # 0
        BY <1>0, <2>1, <3>2, <4>2 DEF Given
      <4> QED BY <4>1, <4>2
    <3>5. Given'
      BY <1>0, <2>1, <3>1, <3>4 DEF Given, GivenUpTo
    <3> QED BY <3>1, <3>3, <3>5 DEF ReadInv, Copied
  <2> QED BY <2>2, <2>3
<1>4. CASE IsNewer
  <2>1. /\ pc = "test" /\ lastTickCount < ticks[latest]
        /\ UNCHANGED <<ticks, bufLen, latest, nData, given, lag>>
    BY <1>4 DEF IsNewer
  <2>2. CASE nData > 0
    <3>1. /\ pc' = "copy" /\ curTickCount' = ticks[latest] /\ left' = Record
          /\ lastTickCount' = lastTickCount
      BY <1>4, <2>2 DEF IsNewer
    <3>2. Window'
      BY <1>0, <2>1, <3>1 DEF Window, PublishedUpTo, Reading
    <3>3. Copied'
      BY <1>0, <2>1, <3>1, ReadFacts DEF Copied, Record
    <3>4. Given'
      BY <1>0, <2>1, <3>1 DEF Given, GivenUpTo
    <3> QED BY <3>2, <3>3, <3>4 DEF ReadInv
  <2>3. CASE ~(nData > 0)
    <3>1. pc' = "got" /\ lastTickCount' = ticks[latest]
      BY <1>4, <2>3 DEF IsNewer
    <3>2. Window' /\ Copied'
      BY <1>0, <2>1, <2>3, <3>1, ReadFacts DEF Window, Copied, Reading
    <3>3. GivenUpTo(ticks[latest] - 1) /\ GivenUpTo(ticks[latest])
      BY <1>0, <2>1, ReadFacts DEF Given, GivenUpTo
    <3>4. Given'
      BY <1>0, <2>1, <3>1, <3>3 DEF Given, GivenUpTo
    <3> QED BY <3>2, <3>4 DEF ReadInv
  <2> QED BY <2>2, <2>3
<1>5. CASE IsNotNewer
  <2>1. /\ pc = "test" /\ pc' = "failed" /\ lastTickCount' = ticks[latest]
        /\ UNCHANGED <<ticks, bufLen, latest, given>>
    BY <1>5 DEF IsNotNewer
  <2>2. Given'
    BY <1>0, <2>1 DEF Given, GivenUpTo
  <2> QED BY <2>1, <2>2 DEF ReadInv, Window, Copied, Reading
<1>6. CASE CopyCell
  <2>1. PICK c \in left : /\ data' = [data EXCEPT ![c] = rows[latest][c]]
                          /\ left' = left \ {c}
    BY <1>6 DEF CopyCell
  <2>2. /\ pc = "copy" /\ nData > 0
        /\ UNCHANGED <<ticks, bufLen, pc, latest, scanned, curTickCount, nData, given, lag,
                       lastTickCount>>
    BY <1>0, <1>6 DEF CopyCell, Session
  <2>3. /\ data \in [Cells -> -1 .. MaxTick] /\ left \subseteq Cells /\ Record \subseteq Cells
    BY <1>0, ReadFacts DEF TypeOK, Samples
  <2>4. left \subseteq Record
    BY <1>0, <2>2 DEF Session, Record
  <2>5. curTickCount = ticks[latest] => rows[latest][c] = curTickCount
    <3>1. SUFFICES ASSUME curTickCount = ticks[latest] PROVE rows[latest][c] = ticks[latest]
      OBVIOUS
    <3>2. ticks[latest] >= 0
      BY <1>0, <2>2, <3>1, ReadFacts DEF Copied
    <3>3. \A d \in Bufs : ticks[d] <= ticks[latest] + 1
      BY <1>0, <2>2, ReadFacts DEF Window, PublishedUpTo, Reading
    <3>4. Recent(latest)
      BY <3>2, <3>3 DEF Recent
    <3> QED BY <1>0, <2>4, <3>4, ReadFacts DEF BufferInv, Whole
  <2>6. Copied'
    BY <1>0, <2>1, <2>2, <2>3, <2>5 DEF Copied, Record
  <2>7. Window' /\ Given'
    BY <1>0, <2>2 DEF Window, Given, PublishedUpTo, GivenUpTo, Reading
  <2> QED BY <2>6, <2>7 DEF ReadInv
<1>7. CASE CheckCopy
  <2>1. /\ pc = "copy" /\ left = {} /\ nData > 0 /\ latest \in Bufs
        /\ UNCHANGED <<ticks, bufLen, latest, scanned, data, nData, given, lag>>
    BY <1>0, <1>7, ReadFacts DEF CheckCopy, Session
  <2>2. CASE curTickCount = ticks[latest]
    <3>1. pc' = "got" /\ lastTickCount' = curTickCount
      BY <1>7, <2>2 DEF CheckCopy
    <3>2. Copied'
      BY <1>0, <2>1, <2>2, <3>1, ReadFacts DEF Copied, Record
    <3>3. GivenUpTo(curTickCount - 1) /\ GivenUpTo(curTickCount)
      BY <1>0, <2>1, ReadFacts DEF Given, Copied, GivenUpTo
    <3>4. Window' /\ Given'
      BY <1>0, <2>1, <3>1, <3>3 DEF Window, Given, GivenUpTo, Reading
    <3> QED BY <3>2, <3>4 DEF ReadInv
  <2>3. CASE curTickCount # ticks[latest]
    <3>1. /\ lastTickCount' = lastTickCount
          /\ \/ pc' = "copy" /\ curTickCount' = ticks[latest] /\ left' = Record
             \/ pc' = "failed"
      BY <1>7, <2>1, <2>3 DEF CheckCopy
    <3>2. Copied'
      BY SMTT(30), <1>0, <2>1, <3>1, ReadFacts DEF Copied, Record
    <3>3. Window' /\ Given'
      BY <1>0, <2>1, <3>1 DEF Window, Given, PublishedUpTo, GivenUpTo, Reading
    <3> QED BY <3>2, <3>3 DEF ReadInv
  <2> QED BY <2>2, <2>3
<1>8. CASE ProcessHeader \/ NoData
  <2>1. pc' = "top" /\ UNCHANGED <<ticks, bufLen, lastTickCount, given>>
    BY <1>8 DEF ProcessHeader, NoData
  <2> QED
    BY <1>0, <2>1 DEF ReadInv, Window, Copied, Given, GivenUpTo, Reading
<1>9. CASE ProcessData
  <2>1. /\ pc = "got" /\ pc' = "top" /\ nData > 0 /\ nData = bufLen
        /\ given' = [c \in Cells |-> IF c \in Record THEN data[c] ELSE lastTickCount]
        /\ UNCHANGED <<ticks, bufLen, lastTickCount>>
    BY <1>0, <1>9, ReadFacts DEF ProcessData, HeaderChanged
  <2>2. \A c \in Cells : given'[c] = lastTickCount
    BY <1>0, <2>1 DEF Copied
  <2>3. Given'
    <3>1. \A n \in Int : lastTickCount <= n => GivenUpTo(n)'
      BY <2>2 DEF GivenUpTo
    <3> QED BY <1>0, <2>1, <3>1, ReadFacts DEF Given, Copied
  <2> QED BY <2>1, <2>3 DEF ReadInv, Window, Copied, Reading
<1> QED
  BY <1>1, <1>2, <1>3, <1>4, <1>5, <1>6, <1>7, <1>8, <1>9 DEF Client

-------------------------------------------------------------------------------
(***************************************************************************)
(* Samples are given whole, in order and once.                             *)
(***************************************************************************)

MostOf(t) == CHOOSE n \in -1 .. MaxTick :
  (\E b \in Bufs : t[b] = n) /\ \A b \in Bufs : t[b] <= n

\* If a buffer has n and none has more, n is the most.
LEMMA MostFacts ==
  ASSUME NEW t \in [Bufs -> -1 .. MaxTick], NEW n \in -1 .. MaxTick,
         \E b \in Bufs : t[b] = n, \A b \in Bufs : t[b] <= n
  PROVE  MostOf(t) = n
<1>1. \A m \in -1 .. MaxTick :
        (\E b \in Bufs : t[b] = m) /\ (\A b \in Bufs : t[b] <= m) => m = n
  BY ConstantFacts
<1> QED BY <1>1 DEF MostOf

\* The newest sample is that of a buffer, and no buffer has a newer one.
LEMMA NewestFacts ==
  ASSUME TypeOK, bufLen # 0
  PROVE  /\ newest \in -1 .. MaxTick
         /\ \A b \in Bufs : ticks[b] <= newest
<1>1. PICK b \in Bufs : PublishedUpTo(ticks[b])
  BY NewestBuffer
<1>2. ticks[b] \in -1 .. MaxTick /\ ticks \in [Bufs -> -1 .. MaxTick]
  BY DEF TypeOK
<1>3. newest = ticks[b]
  BY <1>1, <1>2, MostFacts DEF PublishedUpTo, newest, MostOf
<1> QED BY <1>1, <1>2, <1>3 DEF PublishedUpTo

\* Every step of the simulator and of the client is a step of the abstract feed of
\* samples, or changes neither the newest sample nor the one given.
LEMMA SampleStep ==
  ASSUME Slow, Lag <= 1, UsableInv, UsableInv', BufferInv, ReadInv, [Next]_vars
  PROVE  [Abstract!Next]_(Abstract!vars)
<1> SUFFICES Abstract!Next \/ UNCHANGED <<newest, given>>
  BY DEF Abstract!vars
<1> USE ConstantFacts DEF shm, simVars, readVars, clientVars
<1>0. TypeOK /\ Life /\ Session /\ Ring /\ Copied /\ Given /\ TypeOK'
  BY DEF UsableInv, BufferInv, ReadInv
<1>1. ASSUME UNCHANGED <<ticks, bufLen, given>> PROVE UNCHANGED <<newest, given>>
  BY <1>1 DEF newest
<1>2. CASE startup
  <2>1. newest' = -1 /\ given' = Abstract!None
    BY <1>2 DEF startup, newest, Zeros, Abstract!None
  <2> QED BY <2>1 DEF Abstract!Next, Abstract!Restart
<1>3. CASE finalizeHeader
  <2>1. /\ newest = -1 /\ given' = given /\ 0 \in Bufs
        /\ \A b \in Bufs : ticks'[b] = -1
        /\ bufLen' # 0
    BY <1>0, <1>3 DEF finalizeHeader, newest, Life
  <2>2. newest' = -1
    <3>1. /\ ticks' \in [Bufs -> -1 .. MaxTick] /\ -1 \in -1 .. MaxTick
          /\ (\E b \in Bufs : ticks'[b] = -1) /\ \A b \in Bufs : ticks'[b] <= -1
      BY <1>0, <2>1 DEF TypeOK
    <3> QED BY <2>1, <3>1, MostFacts DEF newest, MostOf
  <2> QED BY <2>1, <2>2
<1>4. CASE \/ CreateEvent \/ resetSampleVars \/ ResetCell \/ pollSampleVars \/ PollCell
           \/ Switch \/ shutdown \/ SimDies
  BY <1>1, <1>4 DEF CreateEvent, resetSampleVars, ResetCell, pollSampleVars, PollCell,
                    WriteCell, Switch, shutdown, SimDies
<1>5. CASE Publish
  <2>1. /\ sim = "poll" /\ curBuf \in Bufs /\ count \in Nat
        /\ ticks' = [ticks EXCEPT ![curBuf] = count] /\ ticks \in [Bufs -> -1 .. MaxTick]
        /\ UNCHANGED <<bufLen, given>> /\ bufLen # 0
    BY <1>0, <1>5 DEF Publish, TypeOK, Life, Alive
  <2>2. /\ \A d \in Bufs : ticks[d] < count
        /\ \E d \in Bufs : ticks[d] = count - 1
    BY <1>0, <2>1, WritingFacts DEF Alive
  <2>3. newest = count - 1
    <3>1. count - 1 \in -1 .. MaxTick /\ \A d \in Bufs : ticks[d] <= count - 1
      BY <1>0, <2>1, <2>2 DEF Life, Alive
    <3> QED BY <2>1, <2>2, <3>1, MostFacts DEF newest, MostOf
  <2>4. newest' = count
    <3>1. /\ ticks' \in [Bufs -> -1 .. MaxTick] /\ count \in -1 .. MaxTick
          /\ ticks'[curBuf] = count /\ \A d \in Bufs : ticks'[d] <= count
      BY <1>0, <2>1, <2>2 DEF Life, Alive
    <3> QED BY <2>1, <3>1, MostFacts DEF newest, MostOf
  <2> QED BY <2>1, <2>3, <2>4 DEF Abstract!Next, Abstract!Publish
<1>6. CASE irsdk_startup \/ getNewData \/ Scan \/ IsNewer \/ IsNotNewer \/ CopyCell
           \/ CheckCopy \/ ProcessHeader \/ NoData
  BY <1>1, <1>6 DEF irsdk_startup, getNewData, Scan, IsNewer, IsNotNewer, CopyCell,
                    CheckCopy, ProcessHeader, NoData
<1>7. CASE ProcessData
  <2>1. /\ pc = "got" /\ nData > 0 /\ nData = bufLen /\ bufLen # 0
        /\ given' = [c \in Cells |-> IF c \in Record THEN data[c] ELSE lastTickCount]
        /\ UNCHANGED <<ticks, bufLen>>
    BY <1>0, <1>7, ReadFacts DEF ProcessData, HeaderChanged
  <2>2. given' = [c \in Cells |-> lastTickCount]
    BY <1>0, <2>1 DEF Copied
  <2>3. lastTickCount \in 0 .. newest
    BY <1>0, <2>1, NewestFacts, ReadFacts DEF Copied
  <2>4. \A c \in Cells : given[c] < lastTickCount
    BY <1>0, <2>1, ReadFacts DEF Given, GivenUpTo
  <2>5. newest' = newest
    BY <2>1 DEF newest
  <2>6. PICK n \in 0 .. newest : n = lastTickCount
    BY <2>3
  <2>7. Abstract!Give(n)
    BY <2>2, <2>3, <2>4, <2>5, <2>6 DEF Abstract!Give
  <2> QED BY <2>7 DEF Abstract!Next
<1>8. CASE UNCHANGED vars
  BY <1>1, <1>8 DEF vars
<1> QED
  BY <1>2, <1>3, <1>4, <1>5, <1>6, <1>7, <1>8 DEF Next, Simulator, Client

\* If at most one sample is published while the client reads, and the simulator is
\* not started again unseen, the client is given each sample whole, none twice and
\* none out of order, without a lock.
THEOREM SamplesWhole ==
  ASSUME Slow, Lag <= 1
  PROVE  Spec => ImplementsLatestSample
<1>1. Init => Abstract!Init
  BY DEF Init, Abstract!Init, newest, Zeros, Abstract!None
<1>2. UsableInv /\ BufferInv /\ ReadInv /\ [Next]_vars => ReadInv'
  <2>1. UNCHANGED vars /\ ReadInv => ReadInv'
    BY DEF vars, shm, clientVars, readVars, ReadInv, Window, Copied, Given, PublishedUpTo,
           GivenUpTo, Candidates, Reading, Record
  <2> QED BY <2>1, ReadSimulator, ReadClient DEF Next
<1>3. UsableInv /\ UsableInv' /\ BufferInv /\ ReadInv /\ [Next]_vars
      => [Abstract!Next]_(Abstract!vars)
  BY SampleStep
<1> QED
  BY <1>1, <1>2, <1>3, ReadInit, Usable, Buffers, PTL
  DEF Spec, ImplementsLatestSample, Abstract!Spec

===============================================================================
