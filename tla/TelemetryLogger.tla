---------------------------- MODULE TelemetryLogger ----------------------------
(***************************************************************************)
(* A telemetry server and its client writetest, which logs the live        *)
(* samples to files of its own. The client is given samples as             *)
(* LatestSample says: newer ones only, but not all.                        *)
(***************************************************************************)
EXTENDS TelemetryServer

CONSTANT CtrlCAtRest  \* the ctrl-c handler runs only between two samples

VARIABLES
  running, pc,                 \* writetest's process; its place in the main loop
  data, seen,                  \* the header its buffer was made for; the sample seen last
  logs, g_file, g_diskSubHeader  \* its files, the open one or 0, the counts in memory

loggerVars == <<running, pc, data, seen, logs, g_file, g_diskSubHeader>>
vars == <<serverVars, loggerVars>>

\* data is NULL.
NoData == <<>>

TypeOK ==
  /\ ServerTypeOK
  /\ running \in BOOLEAN /\ pc \in {"top", "count"}
  /\ data = NoData \/ data \in Seq(Names)
  /\ seen \in 0 .. MaxTicks /\ g_file \in 0 .. Len(logs)

Init ==
  /\ ServerInit
  /\ running = TRUE /\ pc = "top" /\ data = NoData /\ seen = 0
  /\ logs = <<>> /\ g_file = 0 /\ g_diskSubHeader = NoCounts

connected == up /\ mem.final

\* initData: the buffer and the offsets are made from the header.
initData ==
  /\ running /\ pc = "top" /\ connected
  /\ data = NoData \/ Len(data) # Len(mem.vars)
  /\ \E n \in seen + 1 .. count : seen' = n
  /\ data' = mem.vars
  /\ UNCHANGED <<serverVars, running, pc, logs, g_file, g_diskSubHeader>>

\* Broken variant: the sample seen last is used again.
SampleAgain(n) ==
  /\ running /\ pc = "top" /\ connected
  /\ data # NoData /\ Len(data) = Len(mem.vars)
  /\ n >= seen /\ seen' = n

\* The buffer holds a sample, which is one that the client has not seen.
NewSample(n) ==
  /\ running /\ pc = "top" /\ connected
  /\ data # NoData /\ Len(data) = Len(mem.vars)
  /\ n > seen /\ seen' = n

\* The file is opened if there is none, and the record is written. It is counted after
\* that.
LogData(header) == \E n \in 1 .. count :
  /\ NewSample(n)
  /\ \/ /\ g_file > 0 /\ logs' = [logs EXCEPT ![g_file] = Logged(@, history[n])]
        /\ UNCHANGED <<g_file, g_diskSubHeader>>
     \/ /\ g_file = 0 /\ Len(logs) < MaxFiles
        /\ logs' = Append(logs, Logged(header, history[n]))
        /\ g_file' = Len(logs) + 1 /\ g_diskSubHeader' = header.sub
  /\ pc' = "count"
  /\ UNCHANGED <<serverVars, running, data>>

logDataToIBT == ~csv /\ LogData(logHeaderToIBT(mem.vars))
logDataToCSV == csv /\ LogData(logHeaderToCSV(mem.vars))

\* open_file fails: the sample is not logged.
OpenFails ==
  /\ g_file = 0 /\ \E n \in 1 .. count : NewSample(n)
  /\ UNCHANGED <<serverVars, running, pc, data, logs, g_file, g_diskSubHeader>>

CountRecord ==
  /\ running /\ pc = "count" /\ pc' = "top"
  /\ LET records == logs[g_file].records
     IN g_diskSubHeader' = Counted(csv, g_diskSubHeader, records[Len(records)])
  /\ UNCHANGED <<serverVars, running, data, seen, logs, g_file>>

\* close_file: the sub header is written into its place.
close_file == logs' = [f \in DOMAIN logs |->
  IF f = g_file THEN logClose(logs[f], g_diskSubHeader) ELSE logs[f]]

end_session == close_file /\ g_file' = 0 /\ data' = NoData

\* "if older than last recieved, than reset": the server has started anew.
Older ==
  /\ running /\ pc = "top" /\ connected
  /\ seen > count /\ seen' = count
  /\ UNCHANGED <<serverVars, running, pc, data, logs, g_file, g_diskSubHeader>>

\* No data, and the simulator is not connected, or silent for 30 s.
SessionEnded ==
  /\ running /\ pc = "top"
  /\ \/ ~connected /\ seen' = 0
     \/ connected /\ seen = count /\ UNCHANGED seen
  /\ data # NoData \/ seen # seen'
  /\ end_session
  /\ UNCHANGED <<serverVars, running, pc, g_diskSubHeader>>

\* A key is hit, or ctrl-c: on Windows its handler is a thread of its own.
Quit ==
  /\ running /\ (CtrlCAtRest => pc = "top")
  /\ running' = FALSE
  /\ end_session
  /\ UNCHANGED <<serverVars, pc, seen, g_diskSubHeader>>

Logger == initData \/ logDataToIBT \/ logDataToCSV \/ OpenFails \/ CountRecord \/ Older \/ SessionEnded \/ Quit

\* The server starts anew only when the client has seen it go, as in LiveTelemetry.
Server == ServerNext /\ (session' # session => ~running \/ data = NoData) /\ UNCHANGED loggerVars

Next == Server \/ Logger

Spec == Init /\ [][Next]_vars

-------------------------------------------------------------------------------
(***************************************************************************)
(* Properties.                                                             *)
(***************************************************************************)

Expected(server) == [n \in ToSet(server.vars) |->
  IF n \in server.ptrs THEN source[n] ELSE IF n \in setSinceReset THEN 1 ELSE 0]

\* A sample has the values polled in its own tick and those set between the reset and
\* the poll of this tick, live and in the log alike, and zero for all others (main.cpp:
\* "if something is not updated we will output zero for that tick"): although the live
\* buffers come around every third tick, and although a variable has other places in
\* the two samples, or a place in one only. "All others" includes what was set after the
\* last poll, as main.cpp does with its manual variables: such a value is lost, not late.
OfThisTick == [][step = "poll" /\ step' = "update" =>
  /\ history' = Append(history, Expected(mem))
  /\ file' > 0 => files'[file'].records[Len(files'[file'].records)] = Expected(disk)]_vars

\* Every record has the variables of the file's header, whenever they were registered.
RecordsFitHeader == \A list \in {files, logs} : \A f \in DOMAIN list :
  \A r \in DOMAIN list[f].records : DOMAIN list[f].records[r] = ToSet(list[f].vars)

\* The head of a file that was closed is true of its records: their number, the first
\* and the greatest session time, although it may start anew, and the laps, although
\* the driver may go back to lap 0.
ClosedFilesTrue == \A list \in {files, logs} : \A f \in DOMAIN list :
  list[f].closed => Announces(irsdk_diskread(list[f]))

\* A file can be read by what its own head says, of the server as of the client.
FilesReadable == TypeOK /\ RecordsFitHeader /\ ClosedFilesTrue

\* The client's file is part of what the server published, in its order and nothing
\* twice.
LogIsSubsequence == g_file > 0 =>
  LET records == logs[g_file].records
  IN \E place \in [DOMAIN records -> DOMAIN history] :
       \A i \in DOMAIN records :
         records[i] = history[place[i]] /\ \A j \in 1 .. i - 1 : place[j] < place[i]

===============================================================================
