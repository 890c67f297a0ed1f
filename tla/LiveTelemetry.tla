----------------------------- MODULE LiveTelemetry -----------------------------
(***************************************************************************)
(* Live telemetry: the simulator's irsdkMemServer writes samples to three  *)
(* buffers in shared memory in turn, and irsdk_utils.cpp copies the newest *)
(* one for the main loop of irPitCrew. There is no lock: the client        *)
(* compares the buffer's tick count before and after it copies.            *)
(*                                                                         *)
(* Memory is written and copied cell by cell; a cell of a sample has the   *)
(* sample's number for a value, so that a mixture shows.                   *)
(***************************************************************************)
EXTENDS Integers

CONSTANTS
  MaxLen,   \* cells of the longest sample
  Lens,     \* the lengths of a sample that a session may have
  MaxTick,  \* bound: the number of a session's last sample
  MaxRuns,  \* bound: sessions of the simulator
  Lag,      \* samples that may be published while the client reads one
  Slow      \* the simulator restarts only after the client has noticed it is gone

ASSUME TelemetryAssumption ==
  /\ MaxLen \in Nat \ {0}
  /\ Lens \subseteq 1 .. MaxLen /\ Lens # {}
  /\ MaxTick \in Nat /\ MaxRuns \in Nat \ {0}
  /\ Lag \in Nat
  /\ Slow \in BOOLEAN

bufCount == 3
Bufs == 0 .. bufCount - 1
Cells == 1 .. MaxLen

\* INT_MAX, more than any tick.
Never == MaxTick + 1

VARIABLES
  status, ticks, rows, bufLen,  \* shared memory: the header's fields and the buffers
  sim, curBuf, count, todo,     \* the simulator: its program counter, irsdkMemServer's
                                \*   members, and the cells it has yet to write
  run, noticed,                 \* sessions begun; the client has seen the last one end
  pc, open, lastTickCount,      \* the client: its program counter, irsdk_utils' statics,
  latest, scanned, tries,       \*   the locals of irsdk_getNewData,
  curTickCount, left,           \*   the cells yet to copy,
  data, nData, header,          \*   the main loop's buffer, its length, the session read
  lag, given                    \* samples published during this read; the one used last

shm == <<status, ticks, rows, bufLen>>
simVars == <<sim, curBuf, count, todo, run>>
readVars == <<latest, scanned, tries, curTickCount, left>>
clientVars == <<pc, open, lastTickCount, readVars, data, nData, header, given>>
vars == <<shm, simVars, noticed, clientVars, lag>>

Samples == [Cells -> -1 .. MaxTick]
Zeros == [c \in Cells |-> -1]

TypeOK ==
  /\ status \in BOOLEAN /\ bufLen \in Lens \cup {0}
  /\ ticks \in [Bufs -> -1 .. MaxTick] /\ rows \in [Bufs -> Samples]
  /\ sim \in {"down", "mapped", "ready", "idle", "reset", "poll", "publish"}
  /\ curBuf \in Bufs /\ count \in 0 .. MaxTick + 1 /\ todo \subseteq Cells
  /\ run \in 0 .. MaxRuns /\ noticed \in BOOLEAN
  /\ pc \in {"top", "scan", "test", "copy", "got", "failed"}
  /\ open \in BOOLEAN /\ lastTickCount \in -1 .. Never
  /\ latest \in Bufs /\ scanned \in 0 .. bufCount /\ tries \in 0 .. 2
  /\ curTickCount \in -1 .. MaxTick /\ left \subseteq Cells
  /\ data \in Samples /\ nData \in Lens \cup {0} /\ header \in 0 .. MaxRuns
  /\ lag \in Nat /\ given \in Samples

Init ==
  /\ status = FALSE /\ bufLen = 0
  /\ ticks = [b \in Bufs |-> 0] /\ rows = [b \in Bufs |-> Zeros]
  /\ sim = "down" /\ curBuf = 0 /\ count = 0 /\ todo = {}
  /\ run = 0 /\ noticed = TRUE
  /\ pc = "top" /\ open = FALSE /\ lastTickCount = Never
  /\ latest = 0 /\ scanned = 0 /\ tries = 0 /\ curTickCount = 0 /\ left = {}
  /\ data = Zeros /\ nData = 0 /\ header = 0
  /\ lag = 0 /\ given = Zeros

-------------------------------------------------------------------------------
(***************************************************************************)
(* The simulator.                                                          *)
(***************************************************************************)

\* A new process maps the memory, which a client may have kept alive, and zeroes
\* it. Its counters start anew.
startup ==
  /\ sim = "down" /\ run < MaxRuns
  /\ Slow => noticed
  /\ sim' = "mapped" /\ run' = run + 1
  /\ status' = FALSE /\ bufLen' = 0
  /\ ticks' = [b \in Bufs |-> 0] /\ rows' = [b \in Bufs |-> Zeros]
  /\ curBuf' = 0 /\ count' = 0 /\ todo' = {}
  /\ given' = Zeros
  /\ UNCHANGED <<noticed, pc, open, lastTickCount, readVars, data, nData, header, lag>>

CreateEvent ==
  /\ sim = "mapped" /\ sim' = "ready"
  /\ UNCHANGED <<shm, curBuf, count, todo, run, noticed, clientVars, lag>>

\* The local header is copied to shared memory, then the status is set.
finalizeHeader ==
  /\ sim = "ready" /\ sim' = "idle"
  /\ bufLen' \in Lens
  /\ ticks' = [b \in Bufs |-> -1]
  /\ status' = TRUE
  /\ UNCHANGED <<rows, curBuf, count, todo, run, noticed, clientVars, lag>>

Record == 1 .. bufLen

resetSampleVars ==
  /\ sim = "idle" /\ count <= MaxTick
  /\ sim' = "reset" /\ todo' = Record
  /\ UNCHANGED <<shm, curBuf, count, run, noticed, clientVars, lag>>

WriteCell(c, value) ==
  /\ rows' = [rows EXCEPT ![curBuf][c] = value]
  /\ todo' = todo \ {c}
  /\ UNCHANGED <<status, ticks, bufLen, sim, curBuf, count, run, noticed, clientVars, lag>>

ResetCell == sim = "reset" /\ \E c \in todo : WriteCell(c, -1)

pollSampleVars ==
  /\ sim = "reset" /\ todo = {}
  /\ sim' = "poll" /\ todo' = Record
  /\ UNCHANGED <<shm, curBuf, count, run, noticed, clientVars, lag>>

PollCell == sim = "poll" /\ \E c \in todo : WriteCell(c, count)

Reading == pc \in {"scan", "test", "copy"}

\* Broken variant: the tick count is set before the variables are written.
PublishEarly ==
  /\ sim = "poll"
  /\ Reading => lag < Lag
  /\ sim' = "publish" /\ todo' = {}
  /\ ticks' = [ticks EXCEPT ![curBuf] = count]
  /\ lag' = IF Reading THEN lag + 1 ELSE 0
  /\ UNCHANGED <<status, rows, bufLen, curBuf, count, run, noticed, clientVars>>

\* Broken variant: the number of the buffer runs on.
SwitchUnbounded ==
  /\ sim = "publish" /\ sim' = "idle"
  /\ curBuf' = curBuf + 1
  /\ count' = count + 1
  /\ UNCHANGED <<shm, todo, run, noticed, clientVars, lag>>

\* The tick count is set when the sample is complete. How many samples fit into the
\* time of one read is an assumption on the client's speed.
Publish ==
  /\ sim = "poll" /\ todo = {}
  /\ Reading => lag < Lag
  /\ sim' = "publish"
  /\ ticks' = [ticks EXCEPT ![curBuf] = count]
  /\ lag' = IF Reading THEN lag + 1 ELSE 0
  /\ UNCHANGED <<status, rows, bufLen, curBuf, count, todo, run, noticed, clientVars>>

Switch ==
  /\ sim = "publish" /\ sim' = "idle"
  /\ curBuf' = (curBuf + 1) % bufCount
  /\ count' = count + 1
  /\ UNCHANGED <<shm, todo, run, noticed, clientVars, lag>>

shutdown ==
  /\ sim = "idle" /\ sim' = "down"
  /\ status' = FALSE
  /\ UNCHANGED <<ticks, rows, bufLen, curBuf, count, todo, run, noticed, clientVars, lag>>

\* The process dies: the memory stays as it is for as long as a client maps it.
SimDies ==
  /\ sim # "down" /\ sim' = "down"
  /\ UNCHANGED <<shm, curBuf, count, todo, run, noticed, clientVars, lag>>

Simulator ==
  \/ startup \/ CreateEvent \/ finalizeHeader
  \/ resetSampleVars \/ ResetCell \/ pollSampleVars \/ PollCell \/ Publish \/ Switch
  \/ shutdown \/ SimDies

-------------------------------------------------------------------------------
(***************************************************************************)
(* The client: irsdk_startup, irsdk_getNewData and the main loop.          *)
(***************************************************************************)

irsdk_startup ==
  /\ pc = "top" /\ ~open
  /\ sim \notin {"down", "mapped"}
  /\ open' = TRUE /\ lastTickCount' = Never
  /\ UNCHANGED <<shm, simVars, noticed, pc, readVars, data, nData, header, lag, given>>

\* The wait ends, by the simulator's event or by its timeout, and irsdk_getNewData
\* begins.
getNewData ==
  /\ pc = "top" /\ open
  /\ IF status
     THEN pc' = "scan" /\ latest' = 0 /\ scanned' = 1 /\ UNCHANGED lastTickCount
     ELSE pc' = "failed" /\ lastTickCount' = Never /\ UNCHANGED <<latest, scanned>>
  /\ lag' = 0
  /\ UNCHANGED <<shm, simVars, noticed, open, tries, curTickCount, left, data, nData, header,
                 given>>

\* The field of the header is 0 until the header is written.
numBuf == IF bufLen = 0 THEN 0 ELSE bufCount

\* One step of the loop that looks for the newest buffer.
Scan ==
  /\ pc = "scan"
  /\ IF scanned < numBuf
     THEN /\ latest' = IF ticks[latest] < ticks[scanned] THEN scanned ELSE latest
          /\ scanned' = scanned + 1
          /\ UNCHANGED pc
     ELSE pc' = "test" /\ UNCHANGED <<latest, scanned>>
  /\ UNCHANGED <<shm, simVars, noticed, open, lastTickCount, tries, curTickCount, left, data,
                 nData, header, lag, given>>

\* Newer than the last: it is copied, unless there is no buffer yet. Older: the
\* simulator has started again, or this is the first look.
IsNewer ==
  /\ pc = "test" /\ lastTickCount < ticks[latest]
  /\ IF nData > 0
     THEN /\ pc' = "copy" /\ tries' = 1
          /\ curTickCount' = ticks[latest] /\ left' = Record
          /\ UNCHANGED lastTickCount
     ELSE /\ pc' = "got" /\ lastTickCount' = ticks[latest]
          /\ UNCHANGED <<tries, curTickCount, left>>
  /\ UNCHANGED <<shm, simVars, noticed, open, latest, scanned, data, nData, header, lag, given>>

\* Broken variant: the count of the last session is kept.
IsNotNewerKeeps ==
  /\ pc = "test" /\ lastTickCount >= ticks[latest]
  /\ pc' = "failed"
  /\ UNCHANGED <<shm, simVars, noticed, open, lastTickCount, readVars, data, nData, header, lag,
                 given>>

IsNotNewer ==
  /\ pc = "test" /\ lastTickCount >= ticks[latest]
  /\ pc' = "failed" /\ lastTickCount' = ticks[latest]
  /\ UNCHANGED <<shm, simVars, noticed, open, readVars, data, nData, header, lag, given>>

CopyCell ==
  /\ pc = "copy"
  /\ \E c \in left :
       /\ data' = [data EXCEPT ![c] = rows[latest][c]]
       /\ left' = left \ {c}
  /\ UNCHANGED <<shm, simVars, noticed, pc, open, lastTickCount, latest, scanned, tries,
                 curTickCount, nData, header, lag, given>>

\* The tick count is compared after the copy; the copy is tried twice.
CheckCopy ==
  /\ pc = "copy" /\ left = {}
  /\ IF curTickCount = ticks[latest]
     THEN /\ pc' = "got" /\ lastTickCount' = curTickCount
          /\ UNCHANGED <<tries, curTickCount, left>>
     ELSE /\ UNCHANGED lastTickCount
          /\ IF tries < 2
             THEN /\ tries' = tries + 1 /\ curTickCount' = ticks[latest] /\ left' = Record
                  /\ UNCHANGED pc
             ELSE /\ pc' = "failed" /\ UNCHANGED <<tries, curTickCount, left>>
  /\ UNCHANGED <<shm, simVars, noticed, open, latest, scanned, data, nData, header, lag, given>>

\* "if header changes size, assume a new connection"
HeaderChanged == nData = 0 \/ nData # bufLen

\* The main loop's header branch: a new buffer, and the session information of the
\* session that runs.
ProcessHeader ==
  /\ pc = "got" /\ HeaderChanged
  /\ pc' = "top"
  /\ nData' = bufLen /\ data' = Zeros /\ header' = run
  /\ noticed' = FALSE
  /\ UNCHANGED <<shm, simVars, open, lastTickCount, readVars, lag, given>>

\* The data branch: the sample is used.
ProcessData ==
  /\ pc = "got" /\ ~HeaderChanged
  /\ pc' = "top"
  /\ given' = [c \in Cells |-> IF c \in Record THEN data[c] ELSE lastTickCount]
  /\ UNCHANGED <<shm, simVars, noticed, open, lastTickCount, readVars, data, nData, header, lag>>

\* Broken variant: the buffer is kept.
SessionEndedKeeps == UNCHANGED nData

\* "session ended": the buffer is deleted.
SessionEnded == nData' = 0

\* No new data. Not connected means that the simulator has cleared its status, or
\* that 30 s have passed without a sample: it is dead, or it hangs.
NoData ==
  /\ pc = "failed" /\ pc' = "top"
  /\ \/ SessionEnded /\ noticed' = TRUE
     \/ status /\ UNCHANGED <<nData, noticed>>
  /\ UNCHANGED <<shm, simVars, open, lastTickCount, readVars, data, header, lag, given>>

Client ==
  \/ irsdk_startup \/ getNewData \/ Scan \/ IsNewer \/ IsNotNewer \/ CopyCell \/ CheckCopy
  \/ ProcessHeader \/ ProcessData \/ NoData

Next == Simulator \/ Client

Spec == Init /\ [][Next]_vars

\* The main loop never stops; the simulator may.
FairSpec == Spec /\ WF_vars(Client)

-------------------------------------------------------------------------------
(***************************************************************************)
(* Properties.                                                             *)
(***************************************************************************)

newest == IF bufLen = 0 THEN -1 ELSE CHOOSE n \in -1 .. MaxTick :
  (\E b \in Bufs : ticks[b] = n) /\ \A b \in Bufs : ticks[b] <= n

Abstract == INSTANCE LatestSample

\* Without a lock between them, the client uses no sample that the simulator was
\* still writing, or overwrote while it was copied, and none twice
\* (irsdk_utils.cpp: the tick count is looked at before and after the copy).
ImplementsLatestSample == Abstract!Spec

\* A sample is copied into a buffer that holds it, although the length is read from
\* shared memory and the buffer was allocated for an earlier header.
FitsBuffer == pc = "copy" => left \subseteq 1 .. nData

\* A sample is interpreted with the session information and the variables of its
\* own session, although another session may have headers of the same length.
HeaderIsCurrent == pc = "got" /\ ~HeaderChanged => header = run

\* What the main loop works with is of its type and can be used: the sample is in its
\* buffer and of the session the loop has read (irplugin.cpp:352-357).
SampleIsUsable == TypeOK /\ FitsBuffer /\ HeaderIsCurrent

\* A sample published while the simulator lives is noticed by the client, or a newer
\* one is: it is not left waiting for ever with the tick count of an earlier session or
\* of its own start. Noticed is not used: the first look and a look that finds a new
\* header take the tick count and give no sample to the main loop.
CatchesUp == \A r \in 1 .. MaxRuns : \A n \in 0 .. MaxTick :
  (run = r /\ newest >= n) ~> (run # r \/ sim = "down" \/ lastTickCount \in n .. MaxTick)

===============================================================================
