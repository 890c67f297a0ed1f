---------------------------- MODULE TelemetryFile ----------------------------
(***************************************************************************)
(* A telemetry file, as irsdk_diskserver.cpp and writetest.cpp write it and *)
(* readtest.cpp reads it: the names of the variables, the records, and the *)
(* sub header with the counts, which is reserved when the file is opened   *)
(* and written into place later. Built with LOG_TO_CSV, both write text    *)
(* instead, with the same counts.                                          *)
(***************************************************************************)
EXTENDS Integers, Sequences, FiniteSets, SequencesExt

CONSTANTS
  Time, Lap,   \* the variables that the counts are made from
  Arrays       \* the variables with two entries; the others have one

Max2(a, b) == IF a < b THEN b ELSE a

NewFile(names, sub) == [vars |-> names, records |-> <<>>, sub |-> sub, closed |-> FALSE]

\* "sub header is written out at end of session"
logHeaderToIBT(names) ==
  NewFile(names, [count |-> 0, start |-> 0, end |-> 0, laps |-> 0, lastLap |-> -1])

\* "reserve space for entrys that will be filled in later"
logHeaderToCSV(names) ==
  NewFile(names, [count |-> 0, start |-> -1, end |-> -1, laps |-> 0, lastLap |-> -1])

logHeader(csv, names) == IF csv THEN logHeaderToCSV(names) ELSE logHeaderToIBT(names)

\* The times and the laps of the counts; a variable that is not in the records has none.
Timed(sub, sample, first) ==
  IF Time \notin DOMAIN sample THEN sub
  ELSE [sub EXCEPT !.start = IF first THEN sample[Time] ELSE @,
                   !.end = IF first THEN sample[Time] ELSE Max2(@, sample[Time])]

Lapped(sub, sample, before) ==
  IF Lap \notin DOMAIN sample THEN sub
  ELSE [sub EXCEPT !.laps = IF before < sample[Lap] THEN @ + 1 ELSE @,
                   !.lastLap = Max2(before, sample[Lap])]

\* Broken variant: the first lap is not counted.
CountedIBTLate(sub, sample) ==
  LET first == sub.count = 0
      before == IF first /\ Lap \in DOMAIN sample THEN sample[Lap] ELSE sub.lastLap
  IN Lapped(Timed([sub EXCEPT !.count = @ + 1], sample, first), sample, before)

\* The counts after one more record. The first lap always counts.
CountedIBT(sub, sample) ==
  LET first == sub.count = 0
      before == IF first /\ Lap \in DOMAIN sample THEN sample[Lap] - 1 ELSE sub.lastLap
  IN Lapped(Timed([sub EXCEPT !.count = @ + 1], sample, first), sample, before)

CountedCSV(sub, sample) ==
  Lapped(Timed([sub EXCEPT !.count = @ + 1], sample, sub.start < 0), sample, sub.lastLap)

Counted(csv, sub, sample) == IF csv THEN CountedCSV(sub, sample) ELSE CountedIBT(sub, sample)

Logged(file, sample) == [file EXCEPT !.records = Append(@, sample)]
logClose(file, sub) == [file EXCEPT !.sub = sub, !.closed = TRUE]

-------------------------------------------------------------------------------
(***************************************************************************)
(* readtest.cpp converts a file to text: the sub header, a line of names   *)
(* and a line for every record up to the end of the file.                  *)
(***************************************************************************)

cells(name) == IF name \in Arrays THEN 1 .. 2 ELSE 1 .. 1

writeCSVVarHeaders(names) ==
  FlattenSeq([i \in DOMAIN names |-> [j \in cells(names[i]) |-> <<names[i], j>>]])

writeCSVData(names, record) ==
  FlattenSeq([i \in DOMAIN names |-> [j \in cells(names[i]) |-> record[names[i]]]])

irsdk_diskread(file) ==
  [head |-> file.sub,
   columns |-> writeCSVVarHeaders(file.vars),
   lines |-> [r \in DOMAIN file.records |-> writeCSVData(file.vars, file.records[r])]]

\* What the head of a text says of its lines is true.
Announces(text) ==
  LET n == Len(text.lines)
      Column(name) == {c \in DOMAIN text.columns : text.columns[c] = <<name, 1>>}
  IN /\ text.head.count = n
     /\ \A i \in 1 .. n : Len(text.lines[i]) = Len(text.columns)
     /\ n > 0 => \A c \in Column(Time) :
          /\ text.head.start = text.lines[1][c]
          /\ \E i \in 1 .. n : text.head.end = text.lines[i][c]
          /\ \A i \in 1 .. n : text.lines[i][c] <= text.head.end
     /\ \A c \in Column(Lap) : text.head.laps =
          Cardinality({i \in 1 .. n : \A j \in 1 .. i - 1 : text.lines[j][c] < text.lines[i][c]})

===============================================================================
