---------------------------- MODULE TelemetryServer ----------------------------
(***************************************************************************)
(* The simulator's side of the telemetry (irsdk_server): irsdkServer hands *)
(* every variable to irsdkMemServer, for the live clients, and to          *)
(* irsdkDiskServer, for the log file, as its log mode says. The program    *)
(* that uses it (main.cpp is the sample) registers its variables, then     *)
(* resets, polls and updates once a tick.                                  *)
(*                                                                         *)
(* That a client gets each live sample whole is shown by LiveTelemetry; a  *)
(* sample is one value here.                                               *)
(***************************************************************************)
EXTENDS TelemetryFile

CONSTANTS
  Order,        \* the program's variables, in the order in which it registers them
  Polled,       \* variables registered with a pointer; the others are set
  LiveOnly,     \* variables registered with IRSDK_LOG_LIVE, the others with IRSDK_LOG_ALL
  bufCount,     \* buffers in memory (3 in the code)
  bufLength,    \* room for a sample, in variables
  Ticks,        \* bound: the samples of each session, and how often the program is started
  MaxFiles,     \* bound: log files
  Change        \* bound: the tick after which a registration may change

Names == ToSet(Order)

MaxSessions == Len(Ticks)
MaxTicks == Max(ToSet(Ticks))

ASSUME ServerAssumption ==
  /\ Time \in Polled \ LiveOnly /\ Lap \in Polled \ LiveOnly
  /\ Order \in Seq(Names) /\ Polled \subseteq Names /\ LiveOnly \subseteq Names
  /\ bufCount \in Nat \ {0} /\ bufLength \in Nat \ {0} /\ Ticks \in Seq(Nat) /\ Ticks # <<>>
  /\ MaxFiles \in Nat /\ Change \in Nat

\* irsdkMemServer or irsdkDiskServer: the names in its header, the variables it has a
\* pointer to, and whether the header is final.
NoVars == [vars |-> <<>>, ptrs |-> {}, final |-> FALSE]

VARIABLES
  csv,                    \* the build option LOG_TO_CSV
  up, session,            \* the program runs; times it was started
  varLookup,              \* irsdkServer's table: name, index in memory, index on disk
  mem, disk,              \* the two servers
  rows, curBuf, count,    \* memory: the buffers, the one that is filled, samples published
  history,                \* the samples published in this session
  row,                    \* disk: the sample that is filled
  enableLogging, files,   \* disk: logging is on; the log files
  file, sub,              \* disk: the open file, or 0; its sub header in memory
  step, source,           \* the program: its place in the loop, its values
  setSinceReset           \* history: variables set since the reset, polled or not yet

lookupVars == <<varLookup, mem, disk>>
memVars == <<rows, curBuf, count, history>>
diskVars == <<row, enableLogging, files, file, sub>>
serverVars == <<csv, up, session, lookupVars, memVars, diskVars, step, source, setSinceReset>>

\* A cell of a sample, which is zero before it is written.
ValueIn(sample, name) == IF name \in DOMAIN sample THEN sample[name] ELSE 0

Zero(server) == [n \in ToSet(server.vars) |-> 0]

NoCounts == logHeaderToIBT(<<>>).sub

Values == 0 .. MaxTicks + 1
Samples == UNION {[N -> Values] : N \in SUBSET Names}

ServerTypeOK ==
  /\ csv \in BOOLEAN /\ up \in BOOLEAN /\ session \in 0 .. MaxSessions
  /\ \A i \in DOMAIN varLookup :
       varLookup[i].name \in Names /\ varLookup[i].memIndex \in 0 .. Len(mem.vars)
       /\ varLookup[i].diskIndex \in 0 .. Len(disk.vars)
  /\ \A s \in {mem, disk} : s.vars \in Seq(Names) /\ s.ptrs \subseteq ToSet(s.vars)
  /\ Len(mem.vars) < bufLength /\ Len(disk.vars) < bufLength
  /\ \A b \in 1 .. bufCount : rows[b] \in Samples
  /\ curBuf \in 1 .. bufCount /\ count = Len(history)
  /\ row \in Samples /\ file \in 0 .. Len(files)
  /\ step \in {"register", "finalize", "reset", "poll", "update"}
  /\ source \in [Polled -> Values] /\ setSinceReset \subseteq Names \ Polled

ServerInit ==
  /\ csv \in BOOLEAN /\ up = FALSE /\ session = 0
  /\ varLookup = <<>> /\ mem = NoVars /\ disk = NoVars
  /\ rows = [b \in 1 .. bufCount |-> <<>>] /\ curBuf = 1 /\ count = 0 /\ history = <<>>
  /\ row = <<>> /\ enableLogging = FALSE /\ files = <<>> /\ file = 0 /\ sub = NoCounts
  /\ step = "register" /\ source = [n \in Polled |-> 0] /\ setSinceReset = {}

-------------------------------------------------------------------------------
(***************************************************************************)
(* Registration. The index in a table is the place of the name in it, and  *)
(* 0 stands for the code's -1.                                             *)
(***************************************************************************)

nameToIndex(names, name) == IF name \in ToSet(names) THEN CHOOSE i \in DOMAIN names : names[i] = name ELSE 0

\* Broken variants: room is not checked; the header stays open.
RegisteredUnchecked(server, name, pointer) ==
  LET ptrs == IF pointer THEN server.ptrs \cup {name} ELSE server.ptrs \ {name}
  IN IF name \in ToSet(server.vars) THEN [server EXCEPT !.ptrs = ptrs]
     ELSE IF ~server.final
          THEN [server EXCEPT !.vars = Append(@, name), !.ptrs = ptrs]
          ELSE server

RegisteredLate(server, name, pointer) ==
  LET ptrs == IF pointer THEN server.ptrs \cup {name} ELSE server.ptrs \ {name}
  IN IF name \in ToSet(server.vars) THEN [server EXCEPT !.ptrs = ptrs]
     ELSE IF Len(server.vars) + 1 < bufLength
          THEN [server EXCEPT !.vars = Append(@, name), !.ptrs = ptrs]
          ELSE server

\* regVar of irsdkMemServer and irsdkDiskServer: a known variable gets the new
\* pointer; a new one is added if the header is open and a sample has room for it.
Registered(server, name, pointer) ==
  LET ptrs == IF pointer THEN server.ptrs \cup {name} ELSE server.ptrs \ {name}
  IN IF name \in ToSet(server.vars) THEN [server EXCEPT !.ptrs = ptrs]
     ELSE IF ~server.final /\ Len(server.vars) + 1 < bufLength
          THEN [server EXCEPT !.vars = Append(@, name), !.ptrs = ptrs]
          ELSE server

memRegVar(name, pointer) == Registered(mem, name, pointer)
diskRegVar(name, pointer) == Registered(disk, name, pointer)

NewEntry(name) == Append(varLookup, [name |-> name, memIndex |-> 0, diskIndex |-> 0])

regVar(name, pointer, live, log) ==
  LET known == nameToIndex([i \in DOMAIN varLookup |-> varLookup[i].name], name)
      entries == IF known > 0 THEN varLookup ELSE NewEntry(name)
      index == IF known > 0 THEN known ELSE Len(entries)
  IN /\ mem' = IF live THEN memRegVar(name, pointer) ELSE mem
     /\ disk' = IF log THEN diskRegVar(name, pointer) ELSE disk
     /\ varLookup' = [entries EXCEPT
          ![index].memIndex = IF live THEN nameToIndex(mem'.vars, name) ELSE @,
          ![index].diskIndex = IF log THEN nameToIndex(disk'.vars, name) ELSE @]

\* The constructors of the program's irsdkVars, and its calls of regVar.
RegisterVar ==
  /\ up /\ step = "register" /\ Len(varLookup) < Len(Order)
  /\ LET n == Order[Len(varLookup) + 1] IN regVar(n, n \in Polled, TRUE, n \notin LiveOnly)
  /\ UNCHANGED <<csv, up, session, memVars, diskVars, step, source, setSinceReset>>

AllRegistered ==
  /\ up /\ step = "register" /\ Len(varLookup) = Len(Order)
  /\ step' = "finalize"
  /\ UNCHANGED <<csv, up, session, lookupVars, memVars, diskVars, source, setSinceReset>>

\* A variable is registered again later, with or without a pointer, for another log.
RegisterAgain ==
  /\ up /\ step = "update" /\ count = Change
  /\ \E n \in Names : \E pointer, live, log \in BOOLEAN :
       (pointer => n \in Polled) /\ (live \/ log) /\ regVar(n, pointer, live, log)
  /\ step' = "reset"
  /\ UNCHANGED <<csv, up, session, memVars, diskVars, source, setSinceReset>>

Unpolled(server, index) ==
  IF index > 0 THEN [server EXCEPT !.ptrs = @ \ {server.vars[index]}] ELSE server

memReRegVar(index) == mem' = Unpolled(mem, index)
diskReRegVar(index) == disk' = Unpolled(disk, index)

\* reRegVar through the table: NULL stops the polling.
reRegVar ==
  /\ up /\ step = "update" /\ count = Change
  /\ \E i \in DOMAIN varLookup :
       memReRegVar(varLookup[i].memIndex) /\ diskReRegVar(varLookup[i].diskIndex)
  /\ step' = "reset"
  /\ UNCHANGED <<csv, up, session, varLookup, memVars, diskVars, source, setSinceReset>>

memFinalizeHeader == mem' = [mem EXCEPT !.final = TRUE]
diskFinalizeHeader == disk' = [disk EXCEPT !.final = TRUE]

finalizeHeader ==
  /\ up /\ step = "finalize" /\ step' = "reset"
  /\ memFinalizeHeader /\ diskFinalizeHeader
  /\ UNCHANGED <<csv, up, session, varLookup, memVars, diskVars, source, setSinceReset>>

-------------------------------------------------------------------------------
(***************************************************************************)
(* One tick.                                                               *)
(***************************************************************************)

\* Broken variant: only the live sample is reset.
ResetRowMissed == row' = [n \in ToSet(disk.vars) |-> ValueIn(row, n)]

ResetRow == row' = Zero(disk)

ResetBuffer == rows' = [rows EXCEPT ![curBuf] = Zero(mem)]

resetSampleVars ==
  /\ up /\ step = "reset" /\ step' = "poll" /\ setSinceReset' = {}
  /\ ResetBuffer /\ ResetRow
  /\ UNCHANGED <<csv, up, session, lookupVars, curBuf, count, history, enableLogging, files, file, sub,
                 source>>

\* writeVar for every variable that has a pointer.
Filled(server, sample) == [n \in DOMAIN sample |-> IF n \in server.ptrs THEN source[n] ELSE sample[n]]

\* irsdkMemServer: the sample is published and the buffers are switched.
PollMem ==
  LET sample == Filled(mem, rows[curBuf])
  IN /\ rows' = [rows EXCEPT ![curBuf] = sample]
     /\ history' = Append(history, sample)
     /\ count' = count + 1
     /\ curBuf' = (curBuf % bufCount) + 1

\* openUniqueFile, unless it fails or 100 files have the name.
openUniqueFile == Len(files) < MaxFiles

LogInto(list, f, counts, sample) ==
  /\ files' = [list EXCEPT ![f] = Logged(@, sample)]
  /\ file' = f
  /\ sub' = Counted(csv, counts, sample)

\* irsdkDiskServer: a file is opened if logging is on and it can be; the sample is
\* logged, or the file is closed.
PollDisk ==
  LET sample == Filled(disk, row)
  IN /\ row' = sample
     /\ \/ /\ enableLogging /\ file = 0 /\ openUniqueFile
           /\ LogInto(Append(files, logHeader(csv, disk.vars)), Len(files) + 1,
                      logHeader(csv, disk.vars).sub, sample)
        \/ enableLogging /\ file = 0 /\ UNCHANGED <<files, file, sub>>
        \/ enableLogging /\ file > 0 /\ LogInto(files, file, sub, sample)
        \/ /\ ~enableLogging /\ file > 0
           /\ files' = [files EXCEPT ![file] = logClose(@, sub)]
           /\ file' = 0 /\ UNCHANGED sub
        \/ ~enableLogging /\ file = 0 /\ UNCHANGED <<files, file, sub>>

pollSampleVars ==
  /\ up /\ step = "poll" /\ step' = "update" /\ count < Ticks[session]
  /\ PollMem /\ PollDisk
  /\ UNCHANGED <<csv, up, session, lookupVars, enableLogging, source, setSinceReset>>

\* The value is written to the index, unless that is -1.
SetAt(sample, server, index) ==
  IF index > 0
  THEN [n \in ToSet(server.vars) |-> IF n = server.vars[index] THEN 1 ELSE ValueIn(sample, n)]
  ELSE sample

memSetVar(index) == rows' = [rows EXCEPT ![curBuf] = SetAt(@, mem, index)]
diskSetVar(index) == row' = SetAt(row, disk, index)

\* setVar through the table. It writes the sample that is filled next: of this tick
\* before the poll, of the next one after it, where the reset wipes it. The sample
\* program main.cpp sets its values after the poll (109, 113), so that they are always
\* published as zero; another program may set them before it.
setVar ==
  /\ up /\ step \in {"poll", "update"}
  /\ \E i \in DOMAIN varLookup :
       /\ varLookup[i].name \in Names \ (Polled \cup setSinceReset)
       /\ setSinceReset' = setSinceReset \cup {varLookup[i].name}
       /\ memSetVar(varLookup[i].memIndex) /\ diskSetVar(varLookup[i].diskIndex)
  /\ UNCHANGED <<csv, up, session, lookupVars, curBuf, count, history, enableLogging, files, file, sub,
                 step, source>>

\* The program goes on: time passes or starts anew, the lap may change, and the user
\* may turn logging on or off.
Update ==
  /\ up /\ step = "update" /\ step' = "reset"
  /\ \/ \E l \in {source[Lap], source[Lap] + 1, 0} :
          source' = [n \in Polled |-> CASE n = Time -> source[Time] + 1 [] n = Lap -> l [] OTHER -> 1]
     \/ source' = [n \in Polled |-> IF n \in {Time, Lap} THEN 0 ELSE 1]
  /\ enableLogging' \in BOOLEAN
  /\ UNCHANGED <<csv, up, session, lookupVars, memVars, row, files, file, sub, setSinceReset>>

\* The destructor of irsdkDiskServer closes the file.
Shutdown == files' = [f \in DOMAIN files |-> IF f = file THEN logClose(files[f], sub) ELSE files[f]]

\* What a client still finds in shared memory and what is on disk.
Gone ==
  /\ up' = FALSE /\ varLookup' = <<>> /\ disk' = NoVars
  /\ rows' = [b \in 1 .. bufCount |-> <<>>] /\ row' = <<>>
  /\ enableLogging' = FALSE /\ file' = 0 /\ sub' = NoCounts
  /\ step' = "register" /\ source' = [n \in Polled |-> 0] /\ setSinceReset' = {}
  /\ UNCHANGED <<csv, session, mem, curBuf, count, history>>

Exit == up /\ step # "register" /\ Shutdown /\ Gone

\* The process dies: its file stays without its counts.
Dies == up /\ UNCHANGED files /\ Gone

Start ==
  /\ ~up /\ session < MaxSessions
  /\ up' = TRUE /\ session' = session + 1
  /\ varLookup' = <<>> /\ mem' = NoVars /\ disk' = NoVars
  /\ rows' = [b \in 1 .. bufCount |-> <<>>] /\ curBuf' = 1 /\ count' = 0 /\ history' = <<>>
  /\ row' = <<>> /\ enableLogging' = FALSE /\ file' = 0 /\ sub' = NoCounts
  /\ step' = "register" /\ source' = [n \in Polled |-> 0] /\ setSinceReset' = {}
  /\ UNCHANGED <<csv, files>>

ServerNext ==
  \/ RegisterVar \/ AllRegistered \/ RegisterAgain \/ reRegVar \/ finalizeHeader
  \/ resetSampleVars \/ pollSampleVars \/ setVar \/ Update
  \/ Exit \/ Dies \/ Start

===============================================================================
