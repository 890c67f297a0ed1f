------------------------------ MODULE LapFuelData ------------------------------
(***************************************************************************)
(* The laps irPitCrew.exe records for the car and track being driven, in   *)
(* memory (class LapFuelData) and in one file per car and track.           *)
(*                                                                         *)
(* The main loop opens the data of a combination when the sim sends a new  *)
(* header and adds a lap when the lap time changes, saving the file after  *)
(* every lap.  The console close handler, a thread of its own, saves and   *)
(* closes the data before the process ends.  The process may also die at   *)
(* any moment, and is then started again.                                  *)
(*                                                                         *)
(* A lap is known by its number; the lap time and the fuel it stands for   *)
(* in the two lists, and their rounding to six digits in the file, are     *)
(* abstracted.  A file's text stays in the 4 KB buffer of its stream until *)
(* the close, so a file is empty from the open to the close.               *)
(***************************************************************************)
EXTENDS Integers, Sequences

CONSTANTS
  Tracks, Cars,   \* their names
  NoName,         \* the empty string
  DataCountMin,   \* DATA_COUNT_MIN
  Counts,         \* list sizes that calcOptimalLapTimeFuelValues may ask for
  MaxLevel,       \* bound: fuel levels
  MaxLaps,        \* bound: laps recorded in all
  KnownMaxFuel,   \* every header has the tank size of the car
  CloseRaces      \* the main loop may run while the close handler does

Combos == [track : Tracks, car : Cars]
Names  == [track : Tracks \cup {NoName}, car : Cars \cup {NoName}]
NoNames == [track |-> NoName, car |-> NoName]

ASSUME LapFuelAssumption ==
  /\ NoName \notin Tracks /\ NoName \notin Cars
  /\ DataCountMin \in Nat \ {0}
  /\ Counts \subseteq {n \in Nat : n >= DataCountMin}
  /\ MaxLevel \in Nat /\ MaxLaps \in Nat
  /\ KnownMaxFuel \in BOOLEAN /\ CloseRaces \in BOOLEAN

\* A recorded lap. "whole": the level it started from was measured since the
\* last header, so that its fuel was used on it.
Laps == [id : 1 .. MaxLaps, combo : Names, whole : BOOLEAN]

EmptyFile == [times |-> <<>>, fuels |-> <<>>]
DataFiles == [times : Seq(Laps), fuels : Seq(Laps)]

Threads == {"main", "handler"}

VARIABLES
  pc,            \* where each thread is
  resetting,     \* the main thread is in the header branch, not in the data branch
  inSession,     \* data != NULL
  sim,           \* newTrackName and newCarNameStr of the last header
  maxFuelKnown,  \* g_MaxFuelLitres > 0
  diskFails,     \* the directory or a file may refuse to be created
  cur,           \* m_currentTrack and m_currentCar
  times,         \* m_dataLapTimeList
  fuels,         \* m_dataLapFuelList
  lastFuel,      \* m_lastFuelValue
  countMax,      \* m_dataCountMax
  outputFile,    \* the file each thread has open for writing
  files,         \* the files
  lapCount,      \* history: laps recorded so far, the last lap's number
  fuelIsRecent   \* history: lastFuel was measured since the last header

session == <<resetting, inSession, sim, maxFuelKnown, diskFails>>
lists   == <<times, fuels>>
history == <<lapCount, fuelIsRecent>>
vars == <<pc, session, cur, lists, lastFuel, countMax, outputFile, files, history>>

TypeOK ==
  /\ pc \in [Threads -> {"idle", "save", "write", "track", "car", "times", "fuels",
                         "load", "calc", "exit"}]
  /\ resetting \in BOOLEAN /\ inSession \in BOOLEAN /\ maxFuelKnown \in BOOLEAN
  /\ diskFails \in BOOLEAN
  /\ sim \in Names /\ cur \in Names
  /\ times \in Seq(Laps) /\ fuels \in Seq(Laps)
  /\ lastFuel \in -1 .. MaxLevel
  /\ countMax \in Counts \cup {0}
  /\ outputFile \in [Threads -> Names]
  /\ files \in [Combos -> DataFiles]
  /\ lapCount \in 0 .. MaxLaps
  /\ fuelIsRecent \in BOOLEAN

Init ==
  /\ pc = [p \in Threads |-> "idle"]
  /\ resetting = FALSE /\ inSession = FALSE /\ maxFuelKnown = FALSE
  /\ diskFails \in BOOLEAN
  /\ sim = NoNames /\ cur = NoNames
  /\ times = <<>> /\ fuels = <<>>
  /\ lastFuel = -1 /\ countMax = 0
  /\ outputFile = [p \in Threads |-> NoNames]
  /\ files = [k \in Combos |-> EmptyFile]
  /\ lapCount = 0
  /\ fuelIsRecent = FALSE

Goto(p, label) == pc' = [pc EXCEPT ![p] = label]

-------------------------------------------------------------------------------
(***************************************************************************)
(* The main loop.                                                          *)
(***************************************************************************)

\* The main thread is at the top of its loop. Unless CloseRaces, it sleeps there
\* for as long as the close handler runs.
AtTop == pc["main"] = "idle" /\ (CloseRaces \/ pc["handler"] = "idle")

\* The header branch up to ResetSessionData. A name that is not in the header is
\* the empty string.
NewHeader(names) ==
  /\ AtTop
  /\ sim' = names
  /\ maxFuelKnown' \in IF KnownMaxFuel THEN {TRUE} ELSE BOOLEAN
  /\ inSession' = TRUE
  /\ resetting' = TRUE
  /\ fuelIsRecent' = FALSE
  /\ Goto("main", "save")
  /\ UNCHANGED <<diskFails, cur, lists, lastFuel, countMax, outputFile, files, lapCount>>

\* data = NULL.
SimGone ==
  /\ AtTop
  /\ inSession
  /\ inSession' = FALSE
  /\ UNCHANGED <<pc, resetting, sim, maxFuelKnown, diskFails, cur, lists, lastFuel, countMax,
                 outputFile, files, history>>

\* AddLapData without a lap to record: no level, no lap time, or a level that
\* has not gone down (a refuelled or restarted car).
KeepFuelLevel(level, hasTime) ==
  /\ AtTop
  /\ inSession
  /\ level < 0 \/ ~hasTime \/ level >= lastFuel
  /\ lastFuel' = level
  /\ fuelIsRecent' = TRUE
  /\ UNCHANGED <<pc, session, cur, lists, countMax, outputFile, files, lapCount>>

\* Broken variant: nothing is ever dropped.
DropNothing(list) == list

\* The oldest value goes when there are more than countMax.
DropOldest(list) == IF countMax > 0 /\ Len(list) > countMax THEN Tail(list) ELSE list

\* AddLapData with a lap to record.
RecordLap(level) ==
  /\ AtTop
  /\ inSession
  /\ level \in 0 .. lastFuel - 1
  /\ lapCount < MaxLaps
  /\ lapCount' = lapCount + 1
  /\ LET lap == [id |-> lapCount + 1, combo |-> sim, whole |-> fuelIsRecent]
     IN  /\ times' = Append(DropOldest(times), lap)
         /\ fuels' = Append(DropOldest(fuels), lap)
  /\ lastFuel' = level
  /\ fuelIsRecent' = TRUE
  /\ resetting' = FALSE
  /\ Goto("main", "calc")
  /\ UNCHANGED <<inSession, sim, maxFuelKnown, diskFails, cur, countMax, outputFile, files>>

\* Broken variant: a recorded lap is not saved (irplugin.cpp:802 missing).
CalcOptimalUnsaved ==
  /\ pc["main"] = "calc"
  /\ countMax' \in IF maxFuelKnown /\ fuels # <<>> THEN Counts ELSE {countMax}
  /\ Goto("main", "idle")
  /\ UNCHANGED <<session, cur, lists, lastFuel, outputFile, files, history>>

\* calcOptimalLapTimeFuelValues: the list size for the next laps, if there is a
\* lap and a tank size to compute it from. A lap is saved after it.
CalcOptimal ==
  /\ pc["main"] = "calc"
  /\ countMax' \in IF maxFuelKnown /\ fuels # <<>> THEN Counts ELSE {countMax}
  /\ Goto("main", IF resetting THEN "idle" ELSE "save")
  /\ UNCHANGED <<session, cur, lists, lastFuel, outputFile, files, history>>

-------------------------------------------------------------------------------
(***************************************************************************)
(* ResetSessionData and SaveSessionData, run by the main loop for a header *)
(* (or a lap: the save alone) and by the close handler.                    *)
(***************************************************************************)

\* The names ResetSessionData sets.
NewNames(p) == IF p = "main" THEN sim ELSE NoNames

AfterSave(p) == IF p = "handler" \/ resetting THEN "track" ELSE "idle"

\* The file is opened and truncated, if there is something to save and a name
\* to save it under.
SaveSessionData(p) ==
  /\ pc[p] = "save"
  /\ IF cur \in Combos /\ times # <<>> /\ fuels # <<>>
     THEN \/ /\ files' = [files EXCEPT ![cur] = EmptyFile]
             /\ outputFile' = [outputFile EXCEPT ![p] = cur]
             /\ Goto(p, "write")
          \/ /\ diskFails
             /\ Goto(p, AfterSave(p))
             /\ UNCHANGED <<files, outputFile>>
     ELSE /\ Goto(p, AfterSave(p))
          /\ UNCHANGED <<files, outputFile>>
  /\ UNCHANGED <<session, cur, lists, lastFuel, countMax, history>>

\* Broken variant: the file is closed with nothing written to it.
CloseOutputEmpty(p) ==
  /\ pc[p] = "write"
  /\ outputFile' = [outputFile EXCEPT ![p] = NoNames]
  /\ Goto(p, AfterSave(p))
  /\ UNCHANGED <<session, cur, lists, lastFuel, countMax, files, history>>

\* The lists reach the file.
CloseOutput(p) ==
  /\ pc[p] = "write"
  /\ files' = [files EXCEPT ![outputFile[p]] = [times |-> times, fuels |-> fuels]]
  /\ outputFile' = [outputFile EXCEPT ![p] = NoNames]
  /\ Goto(p, AfterSave(p))
  /\ UNCHANGED <<session, cur, lists, lastFuel, countMax, history>>

SetCurrentTrack(p) ==
  /\ pc[p] = "track"
  /\ cur' = [cur EXCEPT !.track = NewNames(p).track]
  /\ Goto(p, "car")
  /\ UNCHANGED <<session, lists, lastFuel, countMax, outputFile, files, history>>

SetCurrentCar(p) ==
  /\ pc[p] = "car"
  /\ cur' = [cur EXCEPT !.car = NewNames(p).car]
  /\ Goto(p, "times")
  /\ UNCHANGED <<session, lists, lastFuel, countMax, outputFile, files, history>>

\* Broken variant: the laps of the last session stay in the list.
ClearTimesForgotten(p) ==
  /\ pc[p] = "times"
  /\ Goto(p, "fuels")
  /\ UNCHANGED <<session, cur, lists, lastFuel, countMax, outputFile, files, history>>

ClearTimes(p) ==
  /\ pc[p] = "times"
  /\ times' = <<>>
  /\ Goto(p, "fuels")
  /\ UNCHANGED <<session, cur, fuels, lastFuel, countMax, outputFile, files, history>>

\* Broken variant: the fuel level of the last session is not forgotten.
ClearFuelsKeepLevel(p) ==
  /\ pc[p] = "fuels"
  /\ fuels' = <<>>
  /\ countMax' = 0
  /\ Goto(p, "load")
  /\ UNCHANGED <<session, cur, times, lastFuel, outputFile, files, history>>

ClearFuels(p) ==
  /\ pc[p] = "fuels"
  /\ fuels' = <<>>
  /\ lastFuel' = -1
  /\ countMax' = 0
  /\ Goto(p, "load")
  /\ UNCHANGED <<session, cur, times, outputFile, files, history>>

\* Broken variant: the file is not read.
LoadNothing(p) ==
  /\ pc[p] = "load"
  /\ Goto(p, IF p = "main" THEN "calc" ELSE "exit")
  /\ UNCHANGED <<session, cur, lists, lastFuel, countMax, outputFile, files, history>>

\* The file's values are added to the lists, if there is a file.
LoadSessionData(p) ==
  /\ pc[p] = "load"
  /\ IF cur \in Combos
     THEN /\ times' = times \o files[cur].times
          /\ fuels' = fuels \o files[cur].fuels
     ELSE UNCHANGED lists
  /\ Goto(p, IF p = "main" THEN "calc" ELSE "exit")
  /\ UNCHANGED <<session, cur, lastFuel, countMax, outputFile, files, history>>

-------------------------------------------------------------------------------
(***************************************************************************)
(* The end of the process.                                                 *)
(***************************************************************************)

\* Windows runs the handler in a thread it makes for it.
CloseConsoleHandler ==
  /\ pc["handler"] = "idle"
  /\ CloseRaces \/ pc["main"] = "idle"
  /\ Goto("handler", "save")
  /\ UNCHANGED <<session, cur, lists, lastFuel, countMax, outputFile, files, history>>

\* Memory is lost, the files stay; the next state is a new process.
ProcessEnds ==
  /\ pc' = [p \in Threads |-> "idle"]
  /\ resetting' = FALSE /\ inSession' = FALSE /\ maxFuelKnown' = FALSE
  /\ sim' = NoNames /\ cur' = NoNames
  /\ times' = <<>> /\ fuels' = <<>>
  /\ lastFuel' = -1 /\ countMax' = 0
  /\ outputFile' = [p \in Threads |-> NoNames]
  /\ fuelIsRecent' = FALSE
  /\ UNCHANGED <<diskFails, files, lapCount>>

ExitProcess == pc["handler"] = "exit" /\ ProcessEnds

Crash == ProcessEnds

-------------------------------------------------------------------------------
ResetSessionData(p) ==
  \/ SaveSessionData(p) \/ CloseOutput(p)
  \/ SetCurrentTrack(p) \/ SetCurrentCar(p)
  \/ ClearTimes(p) \/ ClearFuels(p)
  \/ LoadSessionData(p)

MainLoop ==
  \/ \E names \in Names : NewHeader(names)
  \/ SimGone
  \/ \E level \in -1 .. MaxLevel, hasTime \in BOOLEAN : KeepFuelLevel(level, hasTime)
  \/ \E level \in 0 .. MaxLevel : RecordLap(level)
  \/ CalcOptimal

Next ==
  \/ MainLoop
  \/ \E p \in Threads : ResetSessionData(p)
  \/ CloseConsoleHandler
  \/ ExitProcess
  \/ Crash

Spec == Init /\ [][Next]_vars

-------------------------------------------------------------------------------
(***************************************************************************)
(* Properties                                                              *)
(***************************************************************************)

\* Every lap of list was driven with the names k, and its fuel was used on it.
OwnedBy(list, k) == \A i \in 1 .. Len(list) : list[i].combo = k /\ list[i].whole

\* "Each Car/Track combo gets a file" (LapFuelData.h:80): the file of a
\* combination holds laps of that combination only, whatever happens between the
\* header that changes the names and the end of ResetSessionData.
FilesOwned ==
  \A k \in Combos : OwnedBy(files[k].times, k) /\ OwnedBy(files[k].fuels, k)

\* The lists the estimates are computed from hold laps of the car and track being
\* driven only, none with fuel measured before the header (LapFuelData.cpp:200-220,
\* irplugin.cpp:581-588), and say the same laps in the same order, although they
\* are cut and filled separately.
ListsOwned == AtTop => times = fuels /\ OwnedBy(times, sim)

\* On a disk that works, between two steps of the main loop the file has all that
\* memory has: a crash there loses nothing ("on every lap!", irplugin.cpp:799).
DurableAtTop ==
  ~diskFails /\ AtTop /\ pc["handler"] = "idle" /\ cur \in Combos =>
    files[cur] = [times |-> times, fuels |-> fuels]

\* The lists and the files stop growing at one lap more than the largest count.
ListsBounded ==
  \A n \in Counts : (\A m \in Counts : m <= n) =>
    /\ Len(times) <= n + 1 /\ Len(fuels) <= n + 1
    /\ \A k \in Combos : Len(files[k].times) <= n + 1 /\ Len(files[k].fuels) <= n + 1

\* The combinations whose file is open for writing: empty, until the close.
InWrite == {k \in Combos : \E p \in Threads : pc[p] = "write" /\ outputFile[p] = k}

\* The laps of k: those in the file, or those on their way to it. A process that
\* dies on the way leaves the empty file.
Kept(k) == IF k \in InWrite THEN times ELSE files[k].times

\* On a disk that may fail no history is promised.
History == [k \in Combos |-> IF diskFails THEN <<>> ELSE Kept(k)]
Writing == IF diskFails THEN {} ELSE InWrite

LapHistory == INSTANCE LapHistory WITH
  history <- History,
  writing <- Writing,
  MinKept <- DataCountMin

\* The saves, resets, loads, closes and crashes implement a history per combination,
\* of which laps get lost only by its bound, or when the process dies between the
\* open that truncates the file (LapFuelData.cpp:111) and the close.
ImplementsLapHistory == LapHistory!Spec

===============================================================================
