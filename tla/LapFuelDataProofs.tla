--------------------------- MODULE LapFuelDataProofs ---------------------------
(***************************************************************************)
(* Theorems about LapFuelData, for every value of its constants.           *)
(***************************************************************************)
EXTENDS LapFuelData, SequenceTheorems, TLAPS

-------------------------------------------------------------------------------
(***************************************************************************)
(* Type correctness.                                                       *)
(***************************************************************************)

\* What AddLapData leaves of a list is a part of it, and at most one lap less.
LEMMA DropFacts ==
  ASSUME NEW list \in Seq(Laps), TypeOK
  PROVE  /\ DropOldest(list) \in Seq(Laps)
         /\ DropOldest(list) = list \/ (DropOldest(list) = Tail(list) /\ list # <<>>)
         /\ \/ Len(DropOldest(list)) = Len(list) /\ (countMax = 0 \/ Len(list) <= countMax)
            \/ Len(DropOldest(list)) = Len(list) - 1 /\ countMax > 0 /\ Len(list) > countMax
<1>1. countMax \in Nat
  BY LapFuelAssumption DEF TypeOK
<1>2. CASE countMax > 0 /\ Len(list) > countMax
  <2>1. list # <<>>
    BY <1>1, <1>2, EmptySeq
  <2> QED BY <1>1, <1>2, <2>1, HeadTailProperties DEF DropOldest
<1>3. CASE ~(countMax > 0 /\ Len(list) > countMax)
  BY <1>1, <1>3 DEF DropOldest
<1> QED BY <1>2, <1>3

LEMMA FileFacts ==
  /\ EmptyFile \in DataFiles
  /\ \A t, f \in Seq(Laps) : [times |-> t, fuels |-> f] \in DataFiles
  /\ \A d \in DataFiles : d.times \in Seq(Laps) /\ d.fuels \in Seq(Laps)
BY DEF EmptyFile, DataFiles

LEMMA NameFacts ==
  /\ NoNames \in Names
  /\ Combos \subseteq Names
  /\ NoNames \notin Combos
BY LapFuelAssumption DEF Names, Combos, NoNames

\* The memory of a process that has just been started.
LEMMA FreshFacts ==
  /\ [p \in Threads |-> "idle"] \in [Threads -> {"idle"}]
  /\ [p \in Threads |-> NoNames] \in [Threads -> Names]
  /\ [k \in Combos |-> EmptyFile] \in [Combos -> DataFiles]
  /\ <<>> \in Seq(Laps)
  /\ -1 \in -1 .. MaxLevel /\ 0 \in 0 .. MaxLaps
  /\ NoNames \in Names
<1>1. -1 \in -1 .. MaxLevel /\ 0 \in 0 .. MaxLaps
  BY LapFuelAssumption
<1>2. <<>> \in Seq(Laps)
  OBVIOUS
<1> QED BY <1>1, <1>2, NameFacts, FileFacts

LEMMA TypeInit == Init => TypeOK
<1> SUFFICES ASSUME Init PROVE TypeOK
  OBVIOUS
<1>1. pc \in [Threads -> {"idle", "save", "write", "track", "car", "times", "fuels",
                          "load", "calc", "exit"}]
  BY FreshFacts DEF Init
<1> QED BY <1>1, FreshFacts DEF Init, TypeOK

LEMMA TypeStep == TypeOK /\ [Next]_vars => TypeOK'
<1> SUFFICES ASSUME TypeOK, [Next]_vars PROVE TypeOK'
  OBVIOUS
<1> USE DEF TypeOK, session, lists, history, Goto
<1>1. ASSUME NEW names \in Names, NewHeader(names)
      PROVE  TypeOK'
  BY <1>1 DEF NewHeader
<1>2. CASE SimGone
  BY <1>2 DEF SimGone
<1>3. ASSUME NEW level \in -1 .. MaxLevel, NEW hasTime \in BOOLEAN,
             KeepFuelLevel(level, hasTime)
      PROVE  TypeOK'
  BY <1>3 DEF KeepFuelLevel
<1>4. ASSUME NEW level \in 0 .. MaxLevel, RecordLap(level)
      PROVE  TypeOK'
  <2> DEFINE lap == [id |-> lapCount + 1, combo |-> sim, whole |-> fuelIsRecent]
  <2>1. lap \in Laps /\ lapCount' \in 0 .. MaxLaps
    BY <1>4, LapFuelAssumption DEF RecordLap, Laps
  <2>2. DropOldest(times) \in Seq(Laps) /\ DropOldest(fuels) \in Seq(Laps)
    BY DropFacts
  <2>3. times' = Append(DropOldest(times), lap) /\ fuels' = Append(DropOldest(fuels), lap)
    BY <1>4 DEF RecordLap
  <2> HIDE DEF lap
  <2>4. times' \in Seq(Laps) /\ fuels' \in Seq(Laps)
    BY <2>1, <2>2, <2>3
  <2>5. pc' \in [Threads -> {"idle", "save", "write", "track", "car", "times", "fuels",
                             "load", "calc", "exit"}]
    BY <1>4 DEF RecordLap
  <2>6. lastFuel' \in -1 .. MaxLevel
    BY <1>4, LapFuelAssumption DEF RecordLap
  <2> QED BY <1>4, <2>1, <2>4, <2>5, <2>6 DEF RecordLap
<1>5. CASE CalcOptimal
  BY <1>5 DEF CalcOptimal
<1>6. ASSUME NEW p \in Threads, SaveSessionData(p)
      PROVE  TypeOK'
  <2>1. AfterSave(p) \in {"track", "idle"}
    BY DEF AfterSave
  <2>2. files' \in [Combos -> DataFiles] /\ outputFile' \in [Threads -> Names]
    BY <1>6, FileFacts, NameFacts DEF SaveSessionData
  <2> QED BY <1>6, <2>1, <2>2 DEF SaveSessionData
<1>7. ASSUME NEW p \in Threads, CloseOutput(p)
      PROVE  TypeOK'
  <2>1. AfterSave(p) \in {"track", "idle"}
    BY DEF AfterSave
  <2>2. [times |-> times, fuels |-> fuels] \in DataFiles
    BY FileFacts
  <2>3. files' \in [Combos -> DataFiles] /\ outputFile' \in [Threads -> Names]
    BY <1>7, <2>2, NameFacts DEF CloseOutput
  <2> QED BY <1>7, <2>1, <2>3 DEF CloseOutput
<1>8. ASSUME NEW p \in Threads, SetCurrentTrack(p)
      PROVE  TypeOK'
  <2>1. NewNames(p) \in Names
    BY NameFacts DEF NewNames
  <2>2. cur' \in Names
    BY <1>8, <2>1 DEF SetCurrentTrack, Names
  <2> QED BY <1>8, <2>2 DEF SetCurrentTrack
<1>9. ASSUME NEW p \in Threads, SetCurrentCar(p)
      PROVE  TypeOK'
  <2>1. NewNames(p) \in Names
    BY NameFacts DEF NewNames
  <2>2. cur' \in Names
    BY <1>9, <2>1 DEF SetCurrentCar, Names
  <2> QED BY <1>9, <2>2 DEF SetCurrentCar
<1>10. ASSUME NEW p \in Threads, ClearTimes(p)
       PROVE  TypeOK'
  BY <1>10 DEF ClearTimes
<1>11. ASSUME NEW p \in Threads, ClearFuels(p)
       PROVE  TypeOK'
  BY <1>11, LapFuelAssumption DEF ClearFuels
<1>12. ASSUME NEW p \in Threads, LoadSessionData(p)
       PROVE  TypeOK'
  <2>1. times' \in Seq(Laps) /\ fuels' \in Seq(Laps)
    <3>1. CASE cur \in Combos
      <4>1. files[cur].times \in Seq(Laps) /\ files[cur].fuels \in Seq(Laps)
        BY <3>1, FileFacts
      <4>2. times \o files[cur].times \in Seq(Laps) /\ fuels \o files[cur].fuels \in Seq(Laps)
        BY <4>1, ConcatProperties
      <4> QED BY <1>12, <3>1, <4>2 DEF LoadSessionData
    <3>2. CASE cur \notin Combos
      BY <1>12, <3>2 DEF LoadSessionData
    <3> QED BY <3>1, <3>2
  <2> QED BY <1>12, <2>1 DEF LoadSessionData
<1>13. CASE CloseConsoleHandler
  BY <1>13 DEF CloseConsoleHandler
<1>14. CASE ProcessEnds
  <2>1. pc' \in [Threads -> {"idle", "save", "write", "track", "car", "times", "fuels",
                             "load", "calc", "exit"}]
    BY <1>14, FreshFacts DEF ProcessEnds
  <2> QED BY <1>14, <2>1, FreshFacts DEF ProcessEnds
<1>15. CASE UNCHANGED vars
  BY <1>15 DEF vars
<1> QED
  BY <1>1, <1>2, <1>3, <1>4, <1>5, <1>6, <1>7, <1>8, <1>9, <1>10, <1>11, <1>12, <1>13,
     <1>14, <1>15
  DEF Next, MainLoop, ResetSessionData, ExitProcess, Crash

\* Every variable keeps its type, whatever the close handler does: in particular
\* a list size in use is never below DATA_COUNT_MIN.
THEOREM TypeCorrect == Spec => []TypeOK
BY TypeInit, TypeStep, PTL DEF Spec

-------------------------------------------------------------------------------
(***************************************************************************)
(* What the lists, the names and the files say at every step, if the main  *)
(* loop sleeps while the close handler runs.                               *)
(***************************************************************************)

\* The main loop and the close handler are not both at work.
Quiet == pc["main"] = "idle" \/ pc["handler"] = "idle"

\* No thread is between the change of the names and the end of the load.
Loaded == \A p \in Threads : pc[p] \notin {"car", "times", "fuels", "load"}

ListInv ==
  /\ Loaded => times = fuels /\ OwnedBy(times, cur)
  /\ \A p \in Threads :
       /\ pc[p] \in {"fuels", "load"} => times = <<>>
       /\ pc[p] = "load" => fuels = <<>>
       /\ pc[p] = "write" => outputFile[p] = cur /\ cur \in Combos

NameInv ==
  pc["handler"] = "idle" =>
    /\ pc["main"] = "car" => cur.track = sim.track
    /\ pc["main"] \in {"idle", "times", "fuels", "load", "calc"} \/ ~resetting => cur = sim
    /\ pc["main"] \in {"track", "car", "times", "fuels", "load"} => resetting

FuelInv ==
  pc["main"] \in {"idle", "load", "calc"} \/ ~resetting =>
    (lastFuel >= 0 => fuelIsRecent)

FilesInv == FilesOwned /\ \A k \in Combos : files[k].times = files[k].fuels

OwnInv == TypeOK /\ Quiet /\ ListInv /\ NameInv /\ FuelInv /\ FilesInv

LEMMA OwnedFacts ==
  ASSUME NEW list \in Seq(Laps), NEW k, TypeOK
  PROVE  /\ OwnedBy(<<>>, k)
         /\ OwnedBy(list, k) => OwnedBy(DropOldest(list), k)
         /\ \A lap \in Laps :
              OwnedBy(list, k) /\ lap.combo = k /\ lap.whole => OwnedBy(Append(list, lap), k)
         /\ <<>> \o list = list
<1>1. OwnedBy(<<>>, k)
  BY DEF OwnedBy
<1>2. ASSUME OwnedBy(list, k) PROVE OwnedBy(DropOldest(list), k)
  <2>1. CASE DropOldest(list) = list
    BY <1>2, <2>1
  <2>2. CASE DropOldest(list) = Tail(list) /\ list # <<>>
    <3>1. /\ Len(Tail(list)) = Len(list) - 1
          /\ \A i \in 1 .. Len(list) - 1 : Tail(list)[i] = list[i + 1]
      BY <2>2, HeadTailProperties
    <3>2. Len(list) \in Nat
      OBVIOUS
    <3>3. ASSUME NEW i \in 1 .. Len(list) - 1
          PROVE  Tail(list)[i].combo = k /\ Tail(list)[i].whole
      <4>1. i + 1 \in 1 .. Len(list)
        BY <3>2
      <4> QED BY <1>2, <3>1, <4>1 DEF OwnedBy
    <3> QED BY <2>2, <3>1, <3>3 DEF OwnedBy
  <2> QED BY <2>1, <2>2, DropFacts
<1>3. ASSUME NEW lap \in Laps, OwnedBy(list, k), lap.combo = k, lap.whole
      PROVE  OwnedBy(Append(list, lap), k)
  <2>1. /\ Len(Append(list, lap)) = Len(list) + 1
        /\ \A i \in 1 .. Len(list) : Append(list, lap)[i] = list[i]
        /\ Append(list, lap)[Len(list) + 1] = lap
    BY AppendProperties
  <2> QED BY <1>3, <2>1 DEF OwnedBy
<1>4. <<>> \o list = list
  BY ConcatEmptySeq
<1> QED BY <1>1, <1>2, <1>3, <1>4

\* A thread that goes somewhere leaves the other where it is.
LEMMA GotoFacts ==
  ASSUME TypeOK, NEW p \in Threads, NEW label, Goto(p, label)
  PROVE  /\ pc'[p] = label
         /\ \A q \in Threads : q # p => pc'[q] = pc[q]
BY DEF TypeOK, Goto

LEMMA OwnInit == Init => OwnInv
<1> SUFFICES ASSUME Init PROVE OwnInv
  OBVIOUS
<1>1. OwnedBy(<<>>, NoNames) /\ \A k : OwnedBy(<<>>, k)
  BY DEF OwnedBy
<1>2. \A p \in Threads : pc[p] = "idle"
  BY DEF Init
<1> USE DEF Threads
<1>3. Quiet /\ ListInv
  BY <1>1, <1>2 DEF Quiet, ListInv, Init
<1>4. NameInv /\ FuelInv
  BY <1>2 DEF NameInv, FuelInv, Init
<1>5. FilesInv
  BY <1>1 DEF FilesInv, FilesOwned, Init, EmptyFile
<1> QED BY TypeInit, <1>3, <1>4, <1>5 DEF OwnInv

\* A started process: nothing in memory, and the files as they were.
LEMMA OwnRestart == OwnInv /\ ProcessEnds => Quiet' /\ ListInv' /\ NameInv' /\ FuelInv' /\ FilesInv'
<1> SUFFICES ASSUME OwnInv, ProcessEnds
             PROVE  Quiet' /\ ListInv' /\ NameInv' /\ FuelInv' /\ FilesInv'
  OBVIOUS
<1>1. \A k : OwnedBy(<<>>, k)
  BY DEF OwnedBy
<1>2. /\ \A p \in Threads : pc'[p] = "idle"
      /\ times' = <<>> /\ fuels' = <<>> /\ cur' = NoNames /\ sim' = NoNames
      /\ lastFuel' = -1 /\ files' = files /\ resetting' = FALSE
  BY DEF ProcessEnds
<1> USE DEF Threads
<1>3. Quiet' /\ ListInv'
  BY <1>1, <1>2 DEF Quiet, ListInv, OwnedBy, Loaded
<1>4. NameInv' /\ FuelInv'
  BY <1>2 DEF NameInv, FuelInv
<1>5. FilesInv'
  BY <1>2 DEF OwnInv, FilesInv, FilesOwned, OwnedBy
<1> QED BY <1>3, <1>4, <1>5

LEMMA OwnMain ==
  ASSUME OwnInv, ~CloseRaces, MainLoop
  PROVE  Quiet' /\ ListInv' /\ NameInv' /\ FuelInv' /\ FilesInv'
<1> USE DEF session, lists, history
<1>1. TypeOK /\ Quiet /\ ListInv /\ NameInv /\ FuelInv /\ FilesInv
  BY DEF OwnInv
<1>2. "main" \in Threads /\ "handler" \in Threads /\ \A p \in Threads : p \in {"main", "handler"}
  BY DEF Threads
<1>3. ASSUME NEW names \in Names, NewHeader(names)
      PROVE  Quiet' /\ ListInv' /\ NameInv' /\ FuelInv' /\ FilesInv'
  <2>1. /\ pc["main"] = "idle" /\ pc["handler"] = "idle"
        /\ pc'["main"] = "save" /\ pc'["handler"] = "idle"
    BY <1>1, <1>2, <1>3, GotoFacts DEF NewHeader, AtTop
  <2>2. /\ resetting' = TRUE
        /\ UNCHANGED <<cur, times, fuels, lastFuel, outputFile, files>>
    BY <1>3 DEF NewHeader
  <2>3. Quiet' /\ ListInv'
    BY <1>1, <1>2, <2>1, <2>2 DEF Quiet, ListInv, Loaded, OwnedBy
  <2>4. NameInv' /\ FuelInv'
    BY <2>1, <2>2 DEF NameInv, FuelInv
  <2>5. FilesInv'
    BY <1>1, <2>2 DEF FilesInv, FilesOwned, OwnedBy
  <2> QED BY <2>3, <2>4, <2>5
<1>4. CASE SimGone
  <2>1. UNCHANGED <<pc, resetting, sim, cur, times, fuels, lastFuel, outputFile, files,
                    fuelIsRecent>>
    BY <1>4 DEF SimGone
  <2> QED BY <1>1, <2>1 DEF Quiet, ListInv, Loaded, OwnedBy, NameInv, FuelInv, FilesInv, FilesOwned
<1>5. ASSUME NEW level \in -1 .. MaxLevel, NEW hasTime \in BOOLEAN,
             KeepFuelLevel(level, hasTime)
      PROVE  Quiet' /\ ListInv' /\ NameInv' /\ FuelInv' /\ FilesInv'
  <2>1. /\ fuelIsRecent' = TRUE
        /\ UNCHANGED <<pc, resetting, sim, cur, times, fuels, outputFile, files>>
    BY <1>5 DEF KeepFuelLevel
  <2> QED BY <1>1, <2>1 DEF Quiet, ListInv, Loaded, OwnedBy, NameInv, FuelInv, FilesInv, FilesOwned
<1>6. ASSUME NEW level \in 0 .. MaxLevel, RecordLap(level)
      PROVE  Quiet' /\ ListInv' /\ NameInv' /\ FuelInv' /\ FilesInv'
  <2> DEFINE lap == [id |-> lapCount + 1, combo |-> sim, whole |-> fuelIsRecent]
  <2>1. /\ pc["main"] = "idle" /\ pc["handler"] = "idle"
        /\ pc'["main"] = "calc" /\ pc'["handler"] = "idle"
    BY <1>1, <1>2, <1>6, GotoFacts DEF RecordLap, AtTop
  <2>2. /\ resetting' = FALSE /\ fuelIsRecent' = TRUE
        /\ UNCHANGED <<sim, cur, outputFile, files>>
        /\ times' = Append(DropOldest(times), lap) /\ fuels' = Append(DropOldest(fuels), lap)
    BY <1>6 DEF RecordLap
  <2>3. times = fuels /\ OwnedBy(times, cur) /\ cur = sim
    BY <1>1, <1>2, <2>1 DEF ListInv, Loaded, NameInv
  <2>4. lap \in Laps /\ lap.combo = cur /\ lap.whole
    <3>1. fuelIsRecent
      <4>1. lastFuel \in Int /\ level \in 0 .. lastFuel - 1
        BY <1>1, <1>6, LapFuelAssumption DEF RecordLap, TypeOK
      <4>2. lastFuel >= 0
        BY <4>1
      <4> QED BY <1>1, <2>1, <4>2 DEF FuelInv
    <3>2. lap \in Laps
      BY <1>1, <1>6, LapFuelAssumption DEF RecordLap, Laps, TypeOK
    <3> QED BY <2>3, <3>1, <3>2
  <2> HIDE DEF lap
  <2>5. times' = fuels' /\ OwnedBy(times', cur)
    <3>1. times \in Seq(Laps) /\ DropOldest(times) \in Seq(Laps)
      BY <1>1, DropFacts DEF TypeOK
    <3>2. OwnedBy(DropOldest(times), cur)
      BY <1>1, <2>3, <3>1, OwnedFacts
    <3>3. OwnedBy(Append(DropOldest(times), lap), cur)
      BY <1>1, <2>4, <3>1, <3>2, OwnedFacts
    <3> QED BY <2>2, <2>3, <3>3
  <2>6. Quiet' /\ ListInv'
    <3>1. OwnedBy(times, cur)'
      BY <2>2, <2>5 DEF OwnedBy
    <3> QED BY <1>2, <2>1, <2>5, <3>1 DEF Quiet, ListInv, Loaded
  <2>7. NameInv' /\ FuelInv'
    BY <2>1, <2>2, <2>3 DEF NameInv, FuelInv
  <2>8. FilesInv'
    BY <1>1, <2>2 DEF FilesInv, FilesOwned, OwnedBy
  <2> QED BY <2>6, <2>7, <2>8
<1>7. CASE CalcOptimal
  <2>1. pc["main"] = "calc" /\ pc["handler"] = "idle"
    BY <1>1, <1>7 DEF CalcOptimal, Quiet
  <2>2. /\ pc'["main"] = (IF resetting THEN "idle" ELSE "save") /\ pc'["handler"] = "idle"
        /\ UNCHANGED <<resetting, sim, cur, times, fuels, lastFuel, outputFile, files,
                       fuelIsRecent>>
    BY <1>1, <1>2, <1>7, <2>1, GotoFacts DEF CalcOptimal
  <2>3. Quiet' /\ ListInv'
    BY <1>1, <1>2, <2>1, <2>2 DEF Quiet, ListInv, Loaded, OwnedBy
  <2>4. NameInv' /\ FuelInv'
    BY <1>1, <2>1, <2>2 DEF NameInv, FuelInv
  <2>5. FilesInv'
    BY <1>1, <2>2 DEF FilesInv, FilesOwned, OwnedBy
  <2> QED BY <2>3, <2>4, <2>5
<1> QED BY <1>3, <1>4, <1>5, <1>6, <1>7 DEF MainLoop

LEMMA OwnReset ==
  ASSUME OwnInv, NEW p \in Threads, ResetSessionData(p)
  PROVE  Quiet' /\ ListInv' /\ NameInv' /\ FuelInv' /\ FilesInv'
<1> USE DEF session, lists, history
<1>1. TypeOK /\ Quiet /\ ListInv /\ NameInv /\ FuelInv /\ FilesInv
  BY DEF OwnInv
<1>2. "main" \in Threads /\ "handler" \in Threads /\ \A q \in Threads : q \in {"main", "handler"}
  BY DEF Threads
<1>3. pc[p] # "idle"
  BY DEF ResetSessionData, SaveSessionData, CloseOutput, SetCurrentTrack, SetCurrentCar,
         ClearTimes, ClearFuels, LoadSessionData
<1>4. /\ \A q \in Threads : q # p => pc[q] = "idle" /\ pc'[q] = "idle"
      /\ \A label : Goto(p, label) => pc'[p] = label
  <2>1. \A q \in Threads : q # p => pc[q] = "idle"
    BY <1>1, <1>2, <1>3 DEF Quiet
  <2>2. \A label : Goto(p, label) => /\ pc'[p] = label
                                     /\ \A q \in Threads : q # p => pc'[q] = pc[q]
    BY <1>1, GotoFacts
  <2>3. \E label : Goto(p, label)
    BY DEF ResetSessionData, SaveSessionData, CloseOutput, SetCurrentTrack, SetCurrentCar,
           ClearTimes, ClearFuels, LoadSessionData
  <2> QED BY <2>1, <2>2, <2>3
<1>5. UNCHANGED <<resetting, sim, fuelIsRecent>>
  BY DEF ResetSessionData, SaveSessionData, CloseOutput, SetCurrentTrack, SetCurrentCar,
         ClearTimes, ClearFuels, LoadSessionData
<1>6. Quiet'
  BY <1>2, <1>4 DEF Quiet
<1>7. AfterSave(p) \in {"track", "idle"}
  BY DEF AfterSave
<1>8. CASE SaveSessionData(p)
  <2>1. /\ pc[p] = "save" /\ UNCHANGED <<cur, times, fuels, lastFuel>>
        /\ \/ /\ cur \in Combos /\ pc'[p] = "write"
              /\ files' = [files EXCEPT ![cur] = EmptyFile]
              /\ outputFile' = [outputFile EXCEPT ![p] = cur]
           \/ pc'[p] = AfterSave(p) /\ UNCHANGED <<files, outputFile>>
    BY <1>4, <1>8 DEF SaveSessionData
  <2>2. ListInv'
    <3>1. times = fuels /\ OwnedBy(times, cur)
      BY <1>1, <1>4, <2>1 DEF ListInv, Loaded
    <3>2. (times = fuels /\ OwnedBy(times, cur))'
      BY <2>1, <3>1 DEF OwnedBy
    <3>3. ASSUME NEW q \in Threads
          PROVE  (/\ pc[q] \notin {"fuels", "load"}
                  /\ pc[q] = "write" => outputFile[q] = cur /\ cur \in Combos)'
      BY <1>1, <1>4, <1>7, <2>1 DEF TypeOK
    <3> QED BY <3>2, <3>3 DEF ListInv
  <2>3. NameInv' /\ FuelInv'
    BY <1>1, <1>2, <1>4, <1>5, <1>7, <2>1 DEF NameInv, FuelInv, AfterSave
  <2>4. FilesInv'
    <3>1. CASE files' = [files EXCEPT ![cur] = EmptyFile]
      <4>1. \A k \in Combos : files'[k] = EmptyFile \/ files'[k] = files[k]
        BY <1>1, <3>1 DEF TypeOK
      <4> QED BY <1>1, <4>1 DEF FilesInv, FilesOwned, OwnedBy, EmptyFile
    <3>2. CASE UNCHANGED files
      BY <1>1, <3>2 DEF FilesInv, FilesOwned, OwnedBy
    <3> QED BY <2>1, <3>1, <3>2
  <2> QED BY <1>6, <2>2, <2>3, <2>4
<1>9. CASE CloseOutput(p)
  <2>1. /\ pc[p] = "write" /\ pc'[p] = AfterSave(p) /\ UNCHANGED <<cur, times, fuels, lastFuel>>
        /\ files' = [files EXCEPT ![outputFile[p]] = [times |-> times, fuels |-> fuels]]
        /\ outputFile' = [outputFile EXCEPT ![p] = NoNames]
    BY <1>4, <1>9 DEF CloseOutput
  <2>2. times = fuels /\ OwnedBy(times, cur) /\ outputFile[p] = cur /\ cur \in Combos
    BY <1>1, <1>4, <2>1 DEF ListInv, Loaded
  <2>3. ListInv'
    <3>1. (times = fuels /\ OwnedBy(times, cur))'
      BY <2>1, <2>2 DEF OwnedBy
    <3>2. ASSUME NEW q \in Threads
          PROVE  pc'[q] \in {"track", "idle"}
      BY <1>4, <1>7, <2>1
    <3> QED BY <3>1, <3>2 DEF ListInv
  <2>4. NameInv' /\ FuelInv'
    BY <1>1, <1>2, <1>4, <1>5, <1>7, <2>1 DEF NameInv, FuelInv, AfterSave
  <2>5. FilesInv'
    <3>1. \A k \in Combos : IF k = cur THEN files'[k] = [times |-> times, fuels |-> fuels]
                                       ELSE files'[k] = files[k]
      BY <1>1, <2>1, <2>2 DEF TypeOK
    <3> QED BY <1>1, <2>2, <3>1 DEF FilesInv, FilesOwned, OwnedBy
  <2> QED BY <1>6, <2>3, <2>4, <2>5
<1>10. CASE SetCurrentTrack(p)
  <2>1. /\ pc[p] = "track" /\ pc'[p] = "car"
        /\ cur' = [cur EXCEPT !.track = NewNames(p).track]
        /\ UNCHANGED <<times, fuels, lastFuel, outputFile, files>>
    BY <1>4, <1>10 DEF SetCurrentTrack
  <2>2. ListInv'
    BY <1>4, <2>1 DEF ListInv, Loaded
  <2>3. NameInv' /\ FuelInv'
    <3>1. ASSUME p = "main"
          PROVE  cur'.track = sim.track /\ resetting
      BY <1>1, <1>2, <1>4, <2>1, <3>1 DEF NewNames, NameInv, TypeOK, Names
    <3> QED BY <1>1, <1>2, <1>4, <1>5, <2>1, <3>1 DEF NameInv, FuelInv
  <2>4. FilesInv'
    BY <1>1, <2>1 DEF FilesInv, FilesOwned, OwnedBy
  <2> QED BY <1>6, <2>2, <2>3, <2>4
<1>11. CASE SetCurrentCar(p)
  <2>1. /\ pc[p] = "car" /\ pc'[p] = "times"
        /\ cur' = [cur EXCEPT !.car = NewNames(p).car]
        /\ UNCHANGED <<times, fuels, lastFuel, outputFile, files>>
    BY <1>4, <1>11 DEF SetCurrentCar
  <2>2. ListInv'
    BY <1>4, <2>1 DEF ListInv, Loaded
  <2>3. NameInv' /\ FuelInv'
    <3>1. ASSUME p = "main"
          PROVE  cur' = sim /\ resetting
      BY <1>1, <1>2, <1>4, <2>1, <3>1 DEF NewNames, NameInv, TypeOK, Names
    <3> QED BY <1>1, <1>2, <1>4, <1>5, <2>1, <3>1 DEF NameInv, FuelInv
  <2>4. FilesInv'
    BY <1>1, <2>1 DEF FilesInv, FilesOwned, OwnedBy
  <2> QED BY <1>6, <2>2, <2>3, <2>4
<1>12. CASE ClearTimes(p)
  <2>1. /\ pc[p] = "times" /\ pc'[p] = "fuels" /\ times' = <<>>
        /\ UNCHANGED <<cur, fuels, lastFuel, outputFile, files>>
    BY <1>4, <1>12 DEF ClearTimes
  <2>2. ListInv'
    BY <1>4, <2>1 DEF ListInv, Loaded
  <2>3. NameInv' /\ FuelInv'
    BY <1>1, <1>2, <1>4, <1>5, <2>1 DEF NameInv, FuelInv
  <2>4. FilesInv'
    BY <1>1, <2>1 DEF FilesInv, FilesOwned, OwnedBy
  <2> QED BY <1>6, <2>2, <2>3, <2>4
<1>13. CASE ClearFuels(p)
  <2>1. /\ pc[p] = "fuels" /\ pc'[p] = "load" /\ fuels' = <<>> /\ lastFuel' = -1
        /\ UNCHANGED <<cur, times, outputFile, files>>
    BY <1>4, <1>13 DEF ClearFuels
  <2>2. ListInv'
    BY <1>1, <1>4, <2>1 DEF ListInv, Loaded
  <2>3. NameInv' /\ FuelInv'
    BY <1>1, <1>2, <1>4, <1>5, <2>1 DEF NameInv, FuelInv
  <2>4. FilesInv'
    BY <1>1, <2>1 DEF FilesInv, FilesOwned, OwnedBy
  <2> QED BY <1>6, <2>2, <2>3, <2>4
<1>14. CASE LoadSessionData(p)
  <2>1. /\ pc[p] = "load" /\ pc'[p] = (IF p = "main" THEN "calc" ELSE "exit")
        /\ UNCHANGED <<cur, lastFuel, outputFile, files>>
        /\ IF cur \in Combos
           THEN times' = times \o files[cur].times /\ fuels' = fuels \o files[cur].fuels
           ELSE UNCHANGED <<times, fuels>>
    BY <1>4, <1>14 DEF LoadSessionData
  <2>2. times = <<>> /\ fuels = <<>>
    BY <1>1, <2>1 DEF ListInv
  <2>3. times' = fuels' /\ OwnedBy(times', cur)
    <3>1. CASE cur \in Combos
      <4>1. files[cur].times \in Seq(Laps) /\ files[cur].fuels \in Seq(Laps)
        BY <1>1, <3>1, FileFacts DEF TypeOK
      <4>2. times' = files[cur].times /\ fuels' = files[cur].fuels
        BY <1>1, <2>1, <2>2, <3>1, <4>1, OwnedFacts
      <4> QED BY <1>1, <3>1, <4>2 DEF FilesInv, FilesOwned
    <3>2. CASE cur \notin Combos
      BY <2>1, <2>2, <3>2 DEF OwnedBy
    <3> QED BY <3>1, <3>2
  <2>4. ListInv'
    <3>1. OwnedBy(times, cur)'
      BY <2>1, <2>3 DEF OwnedBy
    <3>2. ASSUME NEW q \in Threads
          PROVE  pc'[q] \in {"calc", "exit", "idle"}
      BY <1>4, <2>1
    <3> QED BY <2>3, <3>1, <3>2 DEF ListInv
  <2>5. NameInv' /\ FuelInv'
    BY <1>1, <1>2, <1>4, <1>5, <2>1 DEF NameInv, FuelInv
  <2>6. FilesInv'
    BY <1>1, <2>1 DEF FilesInv, FilesOwned, OwnedBy
  <2> QED BY <1>6, <2>4, <2>5, <2>6
<1> QED BY <1>8, <1>9, <1>10, <1>11, <1>12, <1>13, <1>14 DEF ResetSessionData

LEMMA OwnStep ==
  ASSUME ~CloseRaces
  PROVE  OwnInv /\ [Next]_vars => OwnInv'
<1> SUFFICES ASSUME OwnInv, [Next]_vars PROVE OwnInv'
  OBVIOUS
<1>1. TypeOK'
  BY TypeStep DEF OwnInv
<1>2. CASE MainLoop
  BY <1>1, <1>2, OwnMain DEF OwnInv
<1>3. ASSUME NEW p \in Threads, ResetSessionData(p) PROVE OwnInv'
  BY <1>1, <1>3, OwnReset DEF OwnInv
<1>4. CASE CloseConsoleHandler
  <2>1. /\ pc["main"] = "idle" /\ pc["handler"] = "idle"
        /\ pc'["main"] = "idle" /\ pc'["handler"] = "save"
        /\ UNCHANGED <<resetting, sim, cur, times, fuels, lastFuel, outputFile, files,
                       fuelIsRecent>>
    BY <1>4, GotoFacts DEF CloseConsoleHandler, OwnInv, Threads, session, lists, history
  <2>2. Quiet' /\ ListInv'
    BY <2>1 DEF OwnInv, Quiet, ListInv, Loaded, OwnedBy, Threads
  <2>3. NameInv' /\ FuelInv' /\ FilesInv'
    BY <2>1 DEF OwnInv, NameInv, FuelInv, FilesInv, FilesOwned, OwnedBy
  <2> QED BY <1>1, <2>2, <2>3 DEF OwnInv
<1>5. CASE ProcessEnds
  BY <1>1, <1>5, OwnRestart DEF OwnInv
<1>6. CASE UNCHANGED vars
  <2>1. UNCHANGED <<pc, resetting, sim, cur, times, fuels, lastFuel, outputFile, files,
                    fuelIsRecent>>
    BY <1>6 DEF vars, session, lists, history
  <2> QED
    BY <1>1, <2>1
    DEF OwnInv, Quiet, ListInv, Loaded, OwnedBy, NameInv, FuelInv, FilesInv, FilesOwned
<1> QED BY <1>2, <1>3, <1>4, <1>5, <1>6 DEF Next, ExitProcess, Crash

\* The file of a combination never holds a lap of another one, if the main loop
\* sleeps while the close handler runs.
THEOREM FilesAreOwned ==
  ASSUME ~CloseRaces
  PROVE  Spec => []FilesOwned
<1>1. OwnInv => FilesOwned
  BY DEF OwnInv, FilesInv
<1> QED BY <1>1, OwnInit, OwnStep, PTL DEF Spec

\* The main loop finds in both lists the same laps, all of them of the car and
\* track being driven.
THEOREM ListsAreOwned ==
  ASSUME ~CloseRaces
  PROVE  Spec => []ListsOwned
<1>1. OwnInv => ListsOwned
  BY DEF OwnInv, ListsOwned, ListInv, Loaded, NameInv, AtTop, Threads
<1> QED BY <1>1, OwnInit, OwnStep, PTL DEF Spec

-------------------------------------------------------------------------------
(***************************************************************************)
(* Nothing recorded is lost, if the disk takes every file.                 *)
(***************************************************************************)

\* A recorded lap is on its way to its file.
Saving == pc["main"] \in {"calc", "save"} /\ ~resetting

Saved == cur \in Combos => files[cur] = [times |-> times, fuels |-> fuels]

\* list has one lap more than old, or one more and the oldest less.
Extends(list, old, lap) ==
  \/ list = Append(old, lap)
  \/ Len(old) > DataCountMin /\ list = Append(Tail(old), lap)

IsLater(lap, list) == \A i \in 1 .. Len(list) : list[i].id < lap.id

Pending ==
  cur \in Combos =>
    \E lap \in Laps : /\ lap.combo = cur
                      /\ IsLater(lap, files[cur].times)
                      /\ Extends(times, files[cur].times, lap)

SavedInv ==
  /\ Loaded /\ ~Saving /\ (\A p \in Threads : pc[p] # "write") => Saved
  /\ Saving => times # <<>> /\ Pending
  /\ \A p \in Threads : pc[p] = "write" => files[cur] = EmptyFile

\* No list has a lap that has not been recorded yet.
Recorded(list) == \A i \in 1 .. Len(list) : list[i].id <= lapCount

RecordedInv == Recorded(times) /\ \A k \in Combos : Recorded(files[k].times)

KeepInv == OwnInv /\ SavedInv /\ RecordedInv

LEMMA KeepInit == Init => KeepInv
<1> SUFFICES ASSUME Init PROVE KeepInv
  OBVIOUS
<1>1. SavedInv
  BY NameFacts DEF Init, SavedInv, Saving, Saved, Threads
<1>2. RecordedInv
  BY DEF Init, RecordedInv, Recorded, EmptyFile
<1> QED BY <1>1, <1>2, OwnInit DEF KeepInv

LEMMA IdFacts ==
  ASSUME NEW list \in Seq(Laps), NEW i \in 1 .. Len(list)
  PROVE  list[i].id \in Nat /\ list[i] \in Laps
<1>1. list[i] \in Laps
  OBVIOUS
<1>2. \A lap \in Laps : lap.id \in Nat
  BY LapFuelAssumption DEF Laps
<1> QED BY <1>1, <1>2

\* Dropping a lap adds none.
LEMMA RecordedFacts ==
  ASSUME NEW list \in Seq(Laps), TypeOK, Recorded(list)
  PROVE  Recorded(DropOldest(list))
<1>1. CASE DropOldest(list) = list
  BY <1>1
<1>2. CASE DropOldest(list) = Tail(list) /\ list # <<>>
  <2>1. /\ Len(Tail(list)) = Len(list) - 1
        /\ \A i \in 1 .. Len(list) - 1 : Tail(list)[i] = list[i + 1]
    BY <1>2, HeadTailProperties
  <2>2. \A i \in 1 .. Len(list) - 1 : i + 1 \in 1 .. Len(list)
    OBVIOUS
  <2> QED BY <1>2, <2>1, <2>2 DEF Recorded
<1> QED BY <1>1, <1>2, DropFacts

LEMMA RecordedStep == OwnInv /\ RecordedInv /\ [Next]_vars => RecordedInv'
<1> SUFFICES ASSUME OwnInv, RecordedInv, [Next]_vars PROVE RecordedInv'
  OBVIOUS
<1> USE DEF session, lists, history
<1>1. TypeOK
  BY DEF OwnInv
<1>2. ASSUME UNCHANGED <<lapCount, times, files>> PROVE RecordedInv'
  BY <1>2 DEF RecordedInv, Recorded
<1>3. ASSUME NEW names \in Names, NewHeader(names) PROVE RecordedInv'
  BY <1>2, <1>3 DEF NewHeader
<1>4. CASE SimGone \/ CalcOptimal \/ CloseConsoleHandler \/ UNCHANGED vars
  BY <1>2, <1>4 DEF SimGone, CalcOptimal, CloseConsoleHandler, vars
<1>5. ASSUME NEW level \in -1 .. MaxLevel, NEW hasTime \in BOOLEAN, KeepFuelLevel(level, hasTime)
      PROVE  RecordedInv'
  BY <1>2, <1>5 DEF KeepFuelLevel
<1>6. ASSUME NEW level \in 0 .. MaxLevel, RecordLap(level) PROVE RecordedInv'
  <2> DEFINE lap == [id |-> lapCount + 1, combo |-> sim, whole |-> fuelIsRecent]
  <2>1. lap \in Laps
    BY <1>1, <1>6, LapFuelAssumption DEF RecordLap, Laps, TypeOK
  <2>2. /\ times' = Append(DropOldest(times), lap) /\ lap.id = lapCount + 1
        /\ lapCount' = lapCount + 1 /\ UNCHANGED files /\ lapCount \in Nat
    BY <1>1, <1>6, LapFuelAssumption DEF RecordLap, TypeOK
  <2> HIDE DEF lap
  <2> DEFINE old == DropOldest(times)
  <2>3. old \in Seq(Laps) /\ Recorded(old)
    BY <1>1, DropFacts, RecordedFacts DEF TypeOK, RecordedInv
  <2> HIDE DEF old
  <2>4. /\ Len(times') = Len(old) + 1
        /\ \A i \in 1 .. Len(old) : times'[i] = old[i]
        /\ times'[Len(old) + 1] = lap
    BY <2>1, <2>2, <2>3, AppendProperties DEF old
  <2>5. \A i \in 1 .. Len(times') : times'[i].id <= lapCount'
    <3>1. \A i \in 1 .. Len(old) : old[i].id \in Nat
      BY <2>3, IdFacts
    <3> QED BY <2>2, <2>3, <2>4, <3>1 DEF Recorded
  <2>6. \A k \in Combos : \A i \in 1 .. Len(files[k].times) : files'[k].times[i].id <= lapCount'
    <3>1. ASSUME NEW k \in Combos, NEW i \in 1 .. Len(files[k].times)
          PROVE  files[k].times[i].id \in Nat /\ files[k].times[i].id <= lapCount
      <4>1. files[k].times \in Seq(Laps)
        BY <1>1, FileFacts DEF TypeOK
      <4> QED BY <4>1, IdFacts DEF RecordedInv, Recorded
    <3> QED BY <2>2, <3>1
  <2> QED BY <2>2, <2>5, <2>6 DEF RecordedInv, Recorded
<1>7. ASSUME NEW p \in Threads, SaveSessionData(p) PROVE RecordedInv'
  <2>1. /\ UNCHANGED <<lapCount, times>>
        /\ \A k \in Combos : files'[k] = EmptyFile \/ files'[k] = files[k]
    BY <1>1, <1>7 DEF SaveSessionData, TypeOK
  <2> QED BY <2>1 DEF RecordedInv, Recorded, EmptyFile
<1>8. ASSUME NEW p \in Threads, CloseOutput(p) PROVE RecordedInv'
  <2>1. /\ UNCHANGED <<lapCount, times>>
        /\ \A k \in Combos : files'[k].times = times \/ files'[k] = files[k]
    BY <1>1, <1>8 DEF CloseOutput, TypeOK
  <2> QED BY <2>1 DEF RecordedInv, Recorded
<1>9. ASSUME NEW p \in Threads, SetCurrentTrack(p) \/ SetCurrentCar(p) \/ ClearFuels(p)
      PROVE  RecordedInv'
  BY <1>2, <1>9 DEF SetCurrentTrack, SetCurrentCar, ClearFuels
<1>10. ASSUME NEW p \in Threads, ClearTimes(p) PROVE RecordedInv'
  BY <1>10 DEF ClearTimes, RecordedInv, Recorded
<1>11. ASSUME NEW p \in Threads, LoadSessionData(p) PROVE RecordedInv'
  <2>1. /\ UNCHANGED <<lapCount, files>> /\ times = <<>>
        /\ UNCHANGED times \/ (cur \in Combos /\ times' = times \o files[cur].times)
    BY <1>11 DEF LoadSessionData, OwnInv, ListInv
  <2>2. cur \in Combos => files[cur].times \in Seq(Laps)
    BY <1>1, FileFacts DEF TypeOK
  <2>3. UNCHANGED times \/ (cur \in Combos /\ times' = files[cur].times)
    BY <1>1, <2>1, <2>2, OwnedFacts
  <2> QED BY <2>1, <2>3 DEF RecordedInv, Recorded
<1>12. CASE ProcessEnds
  BY <1>12 DEF ProcessEnds, RecordedInv, Recorded
<1> QED
  BY <1>3, <1>4, <1>5, <1>6, <1>7, <1>8, <1>9, <1>10, <1>11, <1>12
  DEF Next, MainLoop, ResetSessionData, ExitProcess, Crash

\* A lap recorded at the top of the loop goes to a list whose file agrees with it.
LEMMA PendingFacts ==
  ASSUME KeepInv, ~CloseRaces, NEW level \in 0 .. MaxLevel, RecordLap(level)
  PROVE  /\ times' # <<>>
         /\ Pending'
<1> DEFINE lap == [id |-> lapCount + 1, combo |-> sim, whole |-> fuelIsRecent]
           old == files[cur].times
<1>1. TypeOK /\ pc["main"] = "idle" /\ pc["handler"] = "idle"
  BY DEF KeepInv, OwnInv, RecordLap, AtTop
<1>2. \A p \in Threads : pc[p] = "idle"
  BY <1>1 DEF Threads
<1>3. cur = sim /\ Saved
  BY <1>1, <1>2 DEF KeepInv, OwnInv, NameInv, SavedInv, Saving, Loaded
<1>4. lap \in Laps /\ lap.id = lapCount + 1 /\ lap.combo = cur
  BY <1>1, <1>3, LapFuelAssumption DEF RecordLap, Laps, TypeOK
<1>5. times' = Append(DropOldest(times), lap) /\ UNCHANGED <<cur, files>>
  BY DEF RecordLap
<1> HIDE DEF lap
<1>6. times' # <<>>
  <2>1. DropOldest(times) \in Seq(Laps)
    BY <1>1, DropFacts DEF TypeOK
  <2>2. Len(times') = Len(DropOldest(times)) + 1
    BY <1>4, <1>5, <2>1, AppendProperties
  <2> QED BY <2>1, <2>2
<1>7. ASSUME cur \in Combos
      PROVE  IsLater(lap, old) /\ Extends(times', old, lap)
  <2>1. old = times /\ old \in Seq(Laps)
    BY <1>1, <1>3, <1>7 DEF Saved, TypeOK
  <2>2. IsLater(lap, old)
    <3>1. Recorded(old) /\ lapCount \in Nat
      BY <1>1, <1>7, LapFuelAssumption DEF KeepInv, RecordedInv, TypeOK
    <3>2. \A i \in 1 .. Len(old) : old[i].id \in Nat
      BY <2>1, IdFacts
    <3> QED BY <1>4, <3>1, <3>2 DEF IsLater, Recorded
  <2>3. Extends(times', old, lap)
    <3>1. CASE DropOldest(times) = times
      BY <1>5, <2>1, <3>1 DEF Extends
    <3>2. CASE DropOldest(times) = Tail(times) /\ countMax > 0 /\ Len(times) > countMax
      <4>1. Len(times) > DataCountMin
        <5>1. countMax \in Counts
          BY <1>1, <3>2 DEF TypeOK
        <5>2. /\ countMax \in Nat /\ countMax >= DataCountMin
              /\ DataCountMin \in Nat /\ Len(times) \in Nat
          BY <1>1, <5>1, LapFuelAssumption DEF TypeOK
        <5> QED BY <3>2, <5>2
      <4> QED BY <1>5, <2>1, <3>2, <4>1 DEF Extends
    <3> QED BY <3>1, <3>2 DEF DropOldest
  <2> QED BY <2>2, <2>3
<1>8. Pending'
  BY <1>4, <1>5, <1>7 DEF Pending
<1> QED BY <1>6, <1>8

LEMMA SavedStep ==
  ASSUME ~CloseRaces
  PROVE  ~diskFails /\ KeepInv /\ [Next]_vars => SavedInv'
<1> SUFFICES ASSUME ~diskFails, KeepInv, [Next]_vars PROVE SavedInv'
  OBVIOUS
<1> USE DEF session, lists, history
<1>1. TypeOK /\ Quiet /\ ListInv /\ NameInv /\ SavedInv
  BY DEF KeepInv, OwnInv
<1>2. "main" \in Threads /\ "handler" \in Threads /\ \A q \in Threads : q \in {"main", "handler"}
  BY DEF Threads
<1>3. ASSUME UNCHANGED <<pc, resetting, cur, times, fuels, files>> PROVE SavedInv'
  BY <1>1, <1>3 DEF SavedInv, Saving, Saved, Pending, Loaded
<1>4. ASSUME NEW names \in Names, NewHeader(names) PROVE SavedInv'
  <2>1. /\ \A p \in Threads : pc[p] = "idle" /\ pc'[p] \in {"idle", "save"}
        /\ resetting' = TRUE /\ UNCHANGED <<cur, times, fuels, files>>
    BY <1>1, <1>2, <1>4, GotoFacts DEF NewHeader, AtTop
  <2> QED BY <1>1, <1>2, <2>1 DEF SavedInv, Saving, Saved, Loaded
<1>5. ASSUME NEW level \in -1 .. MaxLevel, NEW hasTime \in BOOLEAN, KeepFuelLevel(level, hasTime)
      PROVE  SavedInv'
  BY <1>3, <1>5 DEF KeepFuelLevel
<1>6. ASSUME NEW level \in 0 .. MaxLevel, RecordLap(level) PROVE SavedInv'
  <2>1. \A p \in Threads : pc[p] = "idle" /\ pc'[p] \in {"idle", "calc"}
    BY <1>1, <1>2, <1>6, GotoFacts DEF RecordLap, AtTop
  <2>2. pc'["main"] = "calc" /\ resetting' = FALSE
    BY <1>1, <1>2, <1>6, GotoFacts DEF RecordLap
  <2> QED BY <1>6, <2>1, <2>2, PendingFacts DEF SavedInv, Saving
<1>7. CASE CalcOptimal
  <2>1. pc["main"] = "calc" /\ pc["handler"] = "idle"
    BY <1>1, <1>7 DEF CalcOptimal, Quiet
  <2>2. /\ pc'["main"] = (IF resetting THEN "idle" ELSE "save") /\ pc'["handler"] = "idle"
        /\ UNCHANGED <<resetting, cur, times, fuels, files>>
    BY <1>1, <1>2, <1>7, <2>1, GotoFacts DEF CalcOptimal
  <2>3. (Loaded /\ \A p \in Threads : pc[p] # "write") /\ \A p \in Threads : pc'[p] # "write"
    BY <1>2, <2>1, <2>2 DEF Loaded
  <2>4. Saving' <=> Saving
    BY <2>1, <2>2 DEF Saving
  <2>5. (Saved <=> Saved') /\ (Pending <=> Pending')
    BY <2>2 DEF Saved, Pending
  <2> QED BY <1>1, <2>2, <2>3, <2>4, <2>5 DEF SavedInv
<1>8. ASSUME NEW p \in Threads, ResetSessionData(p) PROVE SavedInv'
  <2>1. pc[p] # "idle" /\ UNCHANGED resetting
    BY <1>8 DEF ResetSessionData, SaveSessionData, CloseOutput, SetCurrentTrack, SetCurrentCar,
           ClearTimes, ClearFuels, LoadSessionData
  <2>2. \A q \in Threads : q # p => pc[q] = "idle"
    BY <1>1, <1>2, <2>1 DEF Quiet
  <2>3. \A label : Goto(p, label) => /\ pc'[p] = label
                                     /\ \A q \in Threads : q # p => pc'[q] = "idle"
    BY <1>1, <2>2, GotoFacts
  <2>4. CASE SaveSessionData(p)
    <3>1. pc[p] = "save" /\ UNCHANGED <<cur, times, fuels>> /\ times = fuels
      BY <1>1, <2>2, <2>4 DEF SaveSessionData, ListInv, Loaded
    <3>2. CASE cur \in Combos /\ times # <<>>
      <4>1. files' = [files EXCEPT ![cur] = EmptyFile] /\ pc'[p] = "write"
        BY <2>3, <2>4, <3>1, <3>2 DEF SaveSessionData
      <4>2. files'[cur'] = EmptyFile
        BY <1>1, <3>1, <3>2, <4>1 DEF TypeOK
      <4>3. ~Saving'
        BY <1>2, <2>3, <2>4, <4>1 DEF Saving, SaveSessionData
      <4> QED BY <4>1, <4>2, <4>3 DEF SavedInv
    <3>3. CASE ~(cur \in Combos /\ times # <<>>)
      <4>1. pc'[p] = AfterSave(p) /\ UNCHANGED files
        BY <2>3, <2>4, <3>1, <3>3 DEF SaveSessionData
      <4>2. AfterSave(p) \in {"track", "idle"}
        BY DEF AfterSave
      <4>3. ~Saving' /\ \A q \in Threads : pc'[q] \in {"track", "idle"}
        BY <1>2, <2>2, <2>3, <2>4, <4>1, <4>2 DEF Saving, SaveSessionData
      <4>4. Saved
        <5>1. CASE Saving
          BY <1>1, <3>3, <5>1 DEF SavedInv, Saved
        <5>2. CASE ~Saving
          BY <1>1, <2>2, <3>1, <5>2 DEF SavedInv, Loaded
        <5> QED BY <5>1, <5>2
      <4> QED BY <3>1, <4>1, <4>3, <4>4 DEF SavedInv, Saved
    <3> QED BY <3>2, <3>3
  <2>5. CASE CloseOutput(p)
    <3>1. pc[p] = "write" /\ outputFile[p] = cur /\ cur \in Combos
      BY <1>1, <2>5 DEF CloseOutput, ListInv
    <3>2. /\ UNCHANGED <<cur, times, fuels>> /\ pc'[p] = AfterSave(p)
          /\ files' = [files EXCEPT ![cur] = [times |-> times, fuels |-> fuels]]
      BY <2>3, <2>5, <3>1 DEF CloseOutput
    <3>3. Saved'
      BY <1>1, <3>1, <3>2 DEF Saved, TypeOK
    <3>4. \A q \in Threads : pc'[q] \in {"track", "idle"}
      BY <1>2, <2>3, <2>5, <3>2 DEF CloseOutput, AfterSave
    <3> QED BY <1>2, <3>3, <3>4 DEF SavedInv, Saving
  <2>6. CASE SetCurrentTrack(p)
    <3>1. pc'[p] = "car" /\ \A q \in Threads : pc'[q] \in {"car", "idle"}
      BY <2>3, <2>6 DEF SetCurrentTrack
    <3> QED BY <1>2, <3>1 DEF SavedInv, Saving, Loaded
  <2>7. CASE SetCurrentCar(p)
    <3>1. pc'[p] = "times" /\ \A q \in Threads : pc'[q] \in {"times", "idle"}
      BY <2>3, <2>7 DEF SetCurrentCar
    <3> QED BY <1>2, <3>1 DEF SavedInv, Saving, Loaded
  <2>8. CASE ClearTimes(p)
    <3>1. pc'[p] = "fuels" /\ \A q \in Threads : pc'[q] \in {"fuels", "idle"}
      BY <2>3, <2>8 DEF ClearTimes
    <3> QED BY <1>2, <3>1 DEF SavedInv, Saving, Loaded
  <2>9. CASE ClearFuels(p)
    <3>1. pc'[p] = "load" /\ \A q \in Threads : pc'[q] \in {"load", "idle"}
      BY <2>3, <2>9 DEF ClearFuels
    <3> QED BY <1>2, <3>1 DEF SavedInv, Saving, Loaded
  <2>10. CASE LoadSessionData(p)
    <3>1. pc[p] = "load" /\ times = <<>> /\ fuels = <<>> /\ UNCHANGED <<cur, files>>
      BY <1>1, <2>10 DEF LoadSessionData, ListInv
    <3>2. pc'[p] = IF p = "main" THEN "calc" ELSE "exit"
      BY <2>3, <2>10 DEF LoadSessionData
    <3>3. \A q \in Threads : pc'[q] \in {"calc", "exit", "idle"}
      BY <2>3, <2>10 DEF LoadSessionData
    <3>4. ~Saving'
      <4>1. CASE p = "main"
        BY <1>1, <1>2, <2>1, <2>2, <3>1, <4>1 DEF NameInv, Saving
      <4>2. CASE p # "main"
        BY <1>2, <2>2, <2>3, <2>10, <4>2 DEF LoadSessionData, Saving
      <4> QED BY <4>1, <4>2
    <3>5. Saved'
      <4>1. CASE cur \in Combos
        <5>1. files[cur] \in DataFiles
          BY <1>1, <4>1 DEF TypeOK
        <5>2. files[cur].times \in Seq(Laps) /\ files[cur].fuels \in Seq(Laps)
          BY <5>1, FileFacts
        <5>3. times' = files[cur].times /\ fuels' = files[cur].fuels
          BY <1>1, <2>10, <3>1, <4>1, <5>2, OwnedFacts DEF LoadSessionData
        <5>4. files[cur] = [times |-> files[cur].times, fuels |-> files[cur].fuels]
          BY <5>1 DEF DataFiles
        <5> QED BY <3>1, <5>3, <5>4 DEF Saved
      <4>2. CASE cur \notin Combos
        BY <3>1, <4>2 DEF Saved
      <4> QED BY <4>1, <4>2
    <3> QED BY <3>3, <3>4, <3>5 DEF SavedInv
  <2> QED BY <1>8, <2>4, <2>5, <2>6, <2>7, <2>8, <2>9, <2>10 DEF ResetSessionData
<1>9. CASE CloseConsoleHandler
  <2>1. /\ \A p \in Threads : pc[p] = "idle" /\ pc'[p] \in {"idle", "save"}
        /\ pc'["main"] = "idle" /\ UNCHANGED <<resetting, cur, times, fuels, files>>
    BY <1>1, <1>2, <1>9, GotoFacts DEF CloseConsoleHandler
  <2> QED BY <1>1, <1>2, <2>1 DEF SavedInv, Saving, Saved, Loaded
<1>10. CASE ProcessEnds
  <2>1. (\A p \in Threads : pc'[p] = "idle") /\ cur' \notin Combos
    BY <1>10, NameFacts DEF ProcessEnds
  <2> QED BY <1>2, <2>1 DEF SavedInv, Saving, Saved
<1>11. CASE SimGone \/ UNCHANGED vars
  BY <1>3, <1>11 DEF SimGone, vars
<1> QED
  BY <1>4, <1>5, <1>6, <1>7, <1>8, <1>9, <1>10, <1>11
  DEF Next, MainLoop, ExitProcess, Crash

\* A disk that works goes on working.
LEMMA DiskStep == [Next]_vars => UNCHANGED diskFails
BY DEF Next, MainLoop, NewHeader, SimGone, KeepFuelLevel, RecordLap, CalcOptimal, ResetSessionData,
       SaveSessionData, CloseOutput, SetCurrentTrack, SetCurrentCar, ClearTimes, ClearFuels,
       LoadSessionData, CloseConsoleHandler, ExitProcess, Crash, ProcessEnds, vars, session

\* What holds as long as the disk works.
DiskInv == diskFails = TRUE \/ KeepInv

LEMMA DiskInit == Init => DiskInv
BY KeepInit DEF DiskInv

LEMMA KeepStep ==
  ASSUME ~CloseRaces
  PROVE  DiskInv /\ [Next]_vars => DiskInv'
<1> SUFFICES ASSUME DiskInv, [Next]_vars PROVE DiskInv'
  OBVIOUS
<1>1. CASE diskFails = TRUE
  BY <1>1, DiskStep DEF DiskInv
<1>2. CASE diskFails # TRUE
  <2>1. KeepInv /\ ~diskFails
    BY <1>2 DEF DiskInv, KeepInv, OwnInv, TypeOK
  <2> QED BY <2>1, OwnStep, SavedStep, RecordedStep DEF KeepInv, DiskInv
<1> QED BY <1>1, <1>2

\* On a disk that works, at the top of the loop the file of the car and track being
\* driven has all that the lists have: a crash there loses nothing.
THEOREM TopIsDurable ==
  ASSUME ~CloseRaces
  PROVE  Spec => []DurableAtTop
<1>1. DiskInv => DurableAtTop
  <2> SUFFICES ASSUME KeepInv PROVE DurableAtTop
    BY DEF DiskInv, DurableAtTop
  <2> QED BY DEF KeepInv, SavedInv, Saving, Saved, Loaded, DurableAtTop, AtTop, Threads
<1> QED BY <1>1, DiskInit, KeepStep, PTL DEF Spec

-------------------------------------------------------------------------------
(***************************************************************************)
(* The lists, files, saves and crashes implement a history per             *)
(* combination.                                                            *)
(***************************************************************************)

kept == [k \in Combos |-> Kept(k)]

LEMMA HistoryInit == Init => LapHistory!Init
<1> SUFFICES ASSUME Init PROVE LapHistory!Init
  OBVIOUS
<1>1. \A p \in Threads : pc[p] = "idle"
  BY DEF Init
<1>2. InWrite = {}
  BY <1>1 DEF InWrite
<1>3. \A k \in Combos : Kept(k) = <<>>
  BY <1>2 DEF Init, Kept, EmptyFile
<1> QED BY <1>2, <1>3 DEF LapHistory!Init, History, Writing

\* Lists and files that stay keep the histories, if no write begins or ends.
LEMMA HistoryFrame ==
  ASSUME UNCHANGED files,
         \A p \in Threads : pc[p] # "write" /\ pc'[p] # "write"
  PROVE  InWrite = {} /\ InWrite' = {} /\ UNCHANGED kept
<1>1. InWrite = {} /\ InWrite' = {}
  BY DEF InWrite
<1> QED BY <1>1 DEF kept, Kept

LEMMA HistoryStep ==
  ASSUME ~CloseRaces
  PROVE  ~diskFails /\ KeepInv /\ [Next]_vars =>
           LapHistory!Next \/ UNCHANGED <<History, Writing>>
<1> SUFFICES ASSUME ~diskFails, KeepInv, [Next]_vars
             PROVE  LapHistory!Next \/ UNCHANGED <<History, Writing>>
  OBVIOUS
<1>0. /\ History = kept /\ History' = kept'
      /\ Writing = InWrite /\ Writing' = InWrite'
  BY DiskStep DEF History, Writing, kept
<1> SUFFICES LapHistory!Next \/ UNCHANGED <<kept, InWrite>>
  BY <1>0
<1> USE DEF session, lists, history
<1>1. TypeOK /\ Quiet /\ ListInv /\ SavedInv
  BY DEF KeepInv, OwnInv
<1>2. "main" \in Threads /\ "handler" \in Threads /\ \A q \in Threads : q \in {"main", "handler"}
  BY DEF Threads
<1>3. ASSUME NEW names \in Names, NewHeader(names) PROVE UNCHANGED <<kept, InWrite>>
  <2>1. UNCHANGED files /\ \A p \in Threads : pc[p] = "idle" /\ pc'[p] \in {"idle", "save"}
    BY <1>1, <1>2, <1>3, GotoFacts DEF NewHeader, AtTop
  <2> QED BY <2>1, HistoryFrame
<1>4. CASE SimGone \/ UNCHANGED vars
  <2>1. UNCHANGED <<pc, times, outputFile, files>>
    BY <1>4 DEF SimGone, vars
  <2>2. UNCHANGED InWrite
    BY <2>1 DEF InWrite
  <2> QED BY <2>1, <2>2 DEF kept, Kept
<1>5. ASSUME NEW level \in -1 .. MaxLevel, NEW hasTime \in BOOLEAN, KeepFuelLevel(level, hasTime)
      PROVE  UNCHANGED <<kept, InWrite>>
  <2>1. UNCHANGED <<pc, times, outputFile, files>>
    BY <1>5 DEF KeepFuelLevel
  <2>2. UNCHANGED InWrite
    BY <2>1 DEF InWrite
  <2> QED BY <2>1, <2>2 DEF kept, Kept
<1>6. ASSUME NEW level \in 0 .. MaxLevel, RecordLap(level) PROVE UNCHANGED <<kept, InWrite>>
  <2>1. UNCHANGED files /\ \A p \in Threads : pc[p] = "idle" /\ pc'[p] \in {"idle", "calc"}
    BY <1>1, <1>2, <1>6, GotoFacts DEF RecordLap, AtTop
  <2> QED BY <2>1, HistoryFrame
<1>7. CASE CalcOptimal
  <2>1. /\ UNCHANGED files
        /\ \A p \in Threads : pc[p] \in {"idle", "calc"} /\ pc'[p] \in {"idle", "save"}
    BY <1>1, <1>2, <1>7, GotoFacts DEF CalcOptimal, Quiet
  <2> QED BY <2>1, HistoryFrame
<1>8. CASE CloseConsoleHandler
  <2>1. UNCHANGED files /\ \A p \in Threads : pc[p] = "idle" /\ pc'[p] \in {"idle", "save"}
    BY <1>1, <1>2, <1>8, GotoFacts DEF CloseConsoleHandler
  <2> QED BY <2>1, HistoryFrame
<1>9. ASSUME NEW p \in Threads, ResetSessionData(p) PROVE LapHistory!Next \/ UNCHANGED <<kept, InWrite>>
  <2>1. pc[p] # "idle"
    BY <1>9 DEF ResetSessionData, SaveSessionData, CloseOutput, SetCurrentTrack, SetCurrentCar,
           ClearTimes, ClearFuels, LoadSessionData
  <2>2. \A q \in Threads : q # p => pc[q] = "idle"
    BY <1>1, <1>2, <2>1 DEF Quiet
  <2>3. \A label : Goto(p, label) => /\ pc'[p] = label
                                     /\ \A q \in Threads : q # p => pc'[q] = "idle"
    BY <1>1, <2>2, GotoFacts
  <2>4. AfterSave(p) \in {"track", "idle"}
    BY DEF AfterSave
  <2>5. CASE SaveSessionData(p)
    <3>1. /\ pc[p] = "save" /\ UNCHANGED <<cur, times>> /\ times = fuels
          /\ InWrite = {} /\ \A k \in Combos : Kept(k) = files[k].times
      BY <1>1, <2>2, <2>5 DEF SaveSessionData, ListInv, Loaded, Kept, InWrite
    <3>2. CASE cur \in Combos /\ times # <<>>
      <4>1. /\ files' = [files EXCEPT ![cur] = EmptyFile]
            /\ outputFile' = [outputFile EXCEPT ![p] = cur]
            /\ pc'[p] = "write"
        BY <2>3, <2>5, <3>1, <3>2 DEF SaveSessionData
      <4>2. InWrite' = {cur} /\ \A k \in Combos : Kept(k)' = IF k = cur THEN times ELSE Kept(k)
        <5>1. outputFile'[p] = cur /\ \A q \in Threads : pc'[q] = "write" => q = p
          BY <1>1, <2>3, <2>5, <4>1 DEF TypeOK, SaveSessionData
        <5>2. \A k \in Combos : k # cur => files'[k] = files[k]
          BY <1>1, <4>1 DEF TypeOK
        <5>3. InWrite' = {cur}
          BY <3>2, <4>1, <5>1 DEF InWrite
        <5> QED BY <3>1, <4>1, <5>2, <5>3 DEF Kept
      <4>3. CASE Saving
        <5>1. PICK lap \in Laps : /\ lap.combo = cur
                                  /\ IsLater(lap, Kept(cur))
                                  /\ Extends(times, Kept(cur), lap)
          BY <1>1, <3>1, <3>2, <4>3 DEF SavedInv, Pending
        <5>2. LapHistory!IsNew(lap, cur)
          BY <1>0, <3>2, <5>1 DEF LapHistory!IsNew, IsLater, kept
        <5>3. kept' = [kept EXCEPT ![cur] = times]
          BY <4>2 DEF kept
        <5>4. LapHistory!Record(cur, lap)
          BY <1>0, <3>2, <5>1, <5>2, <5>3 DEF LapHistory!Record, Extends, kept
        <5>5. LapHistory!BeginWrite(cur)
          BY <1>0, <3>1, <4>2, <5>4 DEF LapHistory!BeginWrite
        <5> QED BY <3>2, <5>5 DEF LapHistory!Next
      <4>4. CASE ~Saving
        <5>1. files[cur].times = times
          BY <1>1, <2>2, <3>1, <3>2, <4>4 DEF SavedInv, Saved, Loaded
        <5>2. UNCHANGED kept
          BY <3>1, <4>2, <5>1 DEF kept
        <5>3. LapHistory!BeginWrite(cur)
          BY <1>0, <3>1, <4>2, <5>2 DEF LapHistory!BeginWrite
        <5> QED BY <3>2, <5>3 DEF LapHistory!Next
      <4> QED BY <4>3, <4>4
    <3>3. CASE ~(cur \in Combos /\ times # <<>>)
      <4>1. UNCHANGED files /\ \A q \in Threads : pc[q] # "write" /\ pc'[q] # "write"
        BY <2>2, <2>3, <2>4, <2>5, <3>1, <3>3 DEF SaveSessionData
      <4> QED BY <4>1, HistoryFrame
    <3> QED BY <3>2, <3>3
  <2>6. CASE CloseOutput(p)
    <3>1. pc[p] = "write" /\ outputFile[p] = cur /\ cur \in Combos
      BY <1>1, <2>6 DEF CloseOutput, ListInv
    <3>2. /\ files' = [files EXCEPT ![cur] = [times |-> times, fuels |-> fuels]]
          /\ \A q \in Threads : pc'[q] \in {"track", "idle"}
      BY <2>3, <2>4, <2>6, <3>1 DEF CloseOutput
    <3>3. InWrite = {cur} /\ InWrite' = {}
      BY <2>2, <3>1, <3>2 DEF InWrite
    <3>4. \A k \in Combos : Kept(k)' = IF k = cur THEN times ELSE files[k].times
      BY <1>1, <3>2, <3>3 DEF Kept, TypeOK
    <3>5. \A k \in Combos : Kept(k) = IF k = cur THEN times ELSE files[k].times
      BY <3>3 DEF Kept
    <3>6. UNCHANGED kept
      BY <3>4, <3>5 DEF kept
    <3>7. LapHistory!EndWrite
      BY <1>0, <3>3, <3>6 DEF LapHistory!EndWrite
    <3> QED BY <3>7 DEF LapHistory!Next
  <2>7. CASE \/ SetCurrentTrack(p) \/ SetCurrentCar(p) \/ ClearTimes(p) \/ ClearFuels(p)
             \/ LoadSessionData(p)
    <3>1. UNCHANGED files
      BY <2>7 DEF SetCurrentTrack, SetCurrentCar, ClearTimes, ClearFuels, LoadSessionData
    <3>2. pc[p] # "write" /\ pc'[p] # "write"
      BY <2>3, <2>7 DEF SetCurrentTrack, SetCurrentCar, ClearTimes, ClearFuels, LoadSessionData
    <3>3. \A q \in Threads : q # p => pc'[q] = "idle"
      BY <2>3, <2>7 DEF SetCurrentTrack, SetCurrentCar, ClearTimes, ClearFuels, LoadSessionData
    <3> QED BY <2>2, <3>1, <3>2, <3>3, HistoryFrame
  <2> QED BY <1>9, <2>5, <2>6, <2>7 DEF ResetSessionData
<1>10. CASE ProcessEnds
  <2>1. UNCHANGED files /\ \A p \in Threads : pc'[p] = "idle"
    BY <1>10 DEF ProcessEnds
  <2>2. CASE \E p \in Threads : pc[p] = "write"
    <3>1. PICK p \in Threads : pc[p] = "write"
      BY <2>2
    <3>2. outputFile[p] = cur /\ cur \in Combos /\ files[cur] = EmptyFile
      BY <1>1, <3>1 DEF ListInv, SavedInv
    <3>3. \A q \in Threads : pc[q] = "write" => q = p
      BY <1>1, <1>2, <3>1 DEF Quiet
    <3>4. InWrite = {cur} /\ InWrite' = {}
      BY <2>1, <3>1, <3>2, <3>3 DEF InWrite
    <3>5. \A k \in Combos : Kept(k)' = IF k = cur THEN <<>> ELSE Kept(k)
      BY <2>1, <3>2, <3>4 DEF Kept, EmptyFile
    <3>6. kept' = [kept EXCEPT ![cur] = <<>>]
      BY <3>5 DEF kept
    <3>7. LapHistory!Lose(cur)
      BY <1>0, <3>4, <3>6 DEF LapHistory!Lose
    <3> QED BY <3>2, <3>7 DEF LapHistory!Next
  <2>3. CASE \A p \in Threads : pc[p] # "write"
    BY <2>1, <2>3, HistoryFrame
  <2> QED BY <2>2, <2>3
<1> QED
  BY <1>3, <1>4, <1>5, <1>6, <1>7, <1>8, <1>9, <1>10
  DEF Next, MainLoop, ExitProcess, Crash

\* On a disk that works, the saves, resets, loads, closes and crashes keep for each
\* combination a history that grows by its own laps, drops its oldest above
\* DATA_COUNT_MIN of them, and is lost only when the process dies between the open
\* that truncates its file and the close: a write that ends has kept it.
THEOREM HistoryKept ==
  ASSUME ~CloseRaces
  PROVE  Spec => ImplementsLapHistory
<1>1. DiskInv /\ [Next]_vars => [LapHistory!Next]_<<History, Writing>>
  <2> SUFFICES ASSUME DiskInv, [Next]_vars
               PROVE  LapHistory!Next \/ UNCHANGED <<History, Writing>>
    OBVIOUS
  <2>1. CASE diskFails = TRUE
    BY <2>1, DiskStep DEF History, Writing
  <2>2. CASE diskFails # TRUE
    <3>1. KeepInv /\ ~diskFails
      BY <2>2 DEF DiskInv, KeepInv, OwnInv, TypeOK
    <3> QED BY <3>1, HistoryStep
  <2> QED BY <2>1, <2>2
<1>2. Spec => LapHistory!Init /\ [][LapHistory!Next]_<<History, Writing>>
  BY <1>1, HistoryInit, DiskInit, KeepStep, PTL DEF Spec
<1> QED BY <1>2, PTL DEF ImplementsLapHistory, LapHistory!Spec, LapHistory!vars

-------------------------------------------------------------------------------
(***************************************************************************)
(* The lists and the files stay small, if the tank size of every car is    *)
(* known.                                                                  *)
(***************************************************************************)

\* The lists get a size before a second lap is added to them.
SizeInv ==
  /\ inSession \/ pc["main"] # "idle" => maxFuelKnown
  /\ pc["handler"] = "idle" /\ pc["main"] \in {"idle", "save", "write"} /\ countMax = 0
     => times = <<>> \/ resetting
  /\ pc["handler"] = "idle" /\ pc["main"] = "idle" /\ countMax = 0 => times = <<>>

Short(list, n) == Len(list) <= n + 1

ShortInv(n) ==
  Short(times, n) /\ Short(fuels, n)
  /\ \A k \in Combos : Short(files[k].times, n) /\ Short(files[k].fuels, n)

LEMMA SizeInit == Init => SizeInv
BY DEF Init, SizeInv, Threads

LEMMA SizeStep ==
  ASSUME ~CloseRaces, KnownMaxFuel
  PROVE  OwnInv /\ SizeInv /\ [Next]_vars => SizeInv'
<1> SUFFICES ASSUME OwnInv, SizeInv, [Next]_vars PROVE SizeInv'
  OBVIOUS
<1> USE DEF session, lists, history
<1>1. TypeOK /\ Quiet /\ ListInv /\ NameInv
  BY DEF OwnInv
<1>2. "main" \in Threads /\ "handler" \in Threads /\ \A q \in Threads : q \in {"main", "handler"}
  BY DEF Threads
<1>3. ASSUME NEW names \in Names, NewHeader(names) PROVE SizeInv'
  <2>1. pc'["main"] = "save" /\ maxFuelKnown' = TRUE /\ resetting' = TRUE
    BY <1>1, <1>2, <1>3, GotoFacts DEF NewHeader
  <2> QED BY <2>1 DEF SizeInv
<1>4. CASE SimGone \/ UNCHANGED vars
  BY <1>4 DEF SimGone, vars, SizeInv
<1>5. ASSUME NEW level \in -1 .. MaxLevel, NEW hasTime \in BOOLEAN, KeepFuelLevel(level, hasTime)
      PROVE  SizeInv'
  BY <1>5 DEF KeepFuelLevel, SizeInv
<1>6. ASSUME NEW level \in 0 .. MaxLevel, RecordLap(level) PROVE SizeInv'
  <2>1. pc'["main"] = "calc" /\ inSession /\ UNCHANGED maxFuelKnown
    BY <1>1, <1>2, <1>6, GotoFacts DEF RecordLap
  <2> QED BY <2>1 DEF SizeInv
<1>7. CASE CalcOptimal
  <2>1. pc["main"] = "calc" /\ pc["handler"] = "idle" /\ maxFuelKnown /\ times = fuels
    BY <1>1, <1>2, <1>7 DEF CalcOptimal, Quiet, SizeInv, ListInv, Loaded
  <2>2. UNCHANGED <<times, inSession, maxFuelKnown>>
    BY <1>7 DEF CalcOptimal
  <2>3. times = <<>> \/ countMax' # 0
    BY <1>7, <2>1, LapFuelAssumption DEF CalcOptimal
  <2> QED BY <2>1, <2>2, <2>3 DEF SizeInv
<1>8. ASSUME NEW p \in Threads, ResetSessionData(p) PROVE SizeInv'
  <2>1. /\ pc[p] # "idle" /\ UNCHANGED <<resetting, inSession, maxFuelKnown>>
        /\ \E label : Goto(p, label)
    BY <1>8 DEF ResetSessionData, SaveSessionData, CloseOutput, SetCurrentTrack, SetCurrentCar,
           ClearTimes, ClearFuels, LoadSessionData
  <2>2. CASE p = "handler"
    <3>1. pc["main"] = "idle" /\ pc'["main"] = "idle"
      BY <1>1, <1>2, <2>1, <2>2, GotoFacts DEF Quiet
    <3>2. pc'["handler"] # "idle"
      BY <1>1, <1>2, <1>8, <2>2, GotoFacts
      DEF ResetSessionData, SaveSessionData, CloseOutput, SetCurrentTrack, SetCurrentCar,
          ClearTimes, ClearFuels, LoadSessionData, AfterSave
    <3> QED BY <2>1, <3>1, <3>2 DEF SizeInv
  <2>3. CASE p = "main"
    <3>1. pc["handler"] = "idle" /\ maxFuelKnown
      BY <1>1, <2>1, <2>3 DEF Quiet, SizeInv
    <3>2. CASE SaveSessionData(p) \/ CloseOutput(p)
      <4>1. /\ pc["main"] \in {"save", "write"} /\ UNCHANGED <<times, countMax>>
            /\ pc'["main"] = "idle" => ~resetting
        BY <1>1, <2>3, <3>2, GotoFacts DEF SaveSessionData, CloseOutput, AfterSave
      <4> QED BY <2>1, <3>1, <4>1 DEF SizeInv
    <3>3. CASE ~(SaveSessionData(p) \/ CloseOutput(p))
      <4>1. pc'["main"] \notin {"idle", "save", "write"}
        BY <1>1, <1>8, <2>3, <3>3, GotoFacts
        DEF ResetSessionData, SetCurrentTrack, SetCurrentCar, ClearTimes, ClearFuels,
            LoadSessionData
      <4> QED BY <2>1, <3>1, <4>1 DEF SizeInv
    <3> QED BY <3>2, <3>3
  <2> QED BY <1>2, <2>2, <2>3
<1>9. CASE CloseConsoleHandler
  <2>1. pc'["handler"] = "save" /\ pc'["main"] = pc["main"] /\ UNCHANGED <<inSession, maxFuelKnown>>
    BY <1>1, <1>2, <1>9, GotoFacts DEF CloseConsoleHandler
  <2> QED BY <2>1 DEF SizeInv
<1>10. CASE ProcessEnds
  BY <1>2, <1>10 DEF ProcessEnds, SizeInv
<1> QED
  BY <1>3, <1>4, <1>5, <1>6, <1>7, <1>8, <1>9, <1>10
  DEF Next, MainLoop, ExitProcess, Crash

LEMMA ShortInit == \A n \in Counts : Init => ShortInv(n)
<1>1. \A n \in Counts : Len(<<>>) <= n + 1
  BY LapFuelAssumption
<1> QED BY <1>1 DEF Init, ShortInv, Short, EmptyFile

LEMMA ShortStep ==
  ASSUME ~CloseRaces, NEW n \in Counts, \A m \in Counts : m <= n
  PROVE  OwnInv /\ SizeInv /\ ShortInv(n) /\ [Next]_vars => ShortInv(n)'
<1> SUFFICES ASSUME OwnInv, SizeInv, ShortInv(n), [Next]_vars PROVE ShortInv(n)'
  OBVIOUS
<1> USE DEF session, lists, history
<1>1. TypeOK /\ ListInv /\ n \in Nat
  BY LapFuelAssumption DEF OwnInv
<1>2. ASSUME UNCHANGED <<lists, files>> PROVE ShortInv(n)'
  BY <1>2 DEF ShortInv, Short
<1>3. Short(<<>>, n)
  BY <1>1 DEF Short
<1>4. ASSUME NEW names \in Names, NewHeader(names) PROVE ShortInv(n)'
  BY <1>2, <1>4 DEF NewHeader
<1>5. CASE SimGone \/ CalcOptimal \/ CloseConsoleHandler \/ UNCHANGED vars
  BY <1>2, <1>5 DEF SimGone, CalcOptimal, CloseConsoleHandler, vars
<1>6. ASSUME NEW level \in -1 .. MaxLevel, NEW hasTime \in BOOLEAN, KeepFuelLevel(level, hasTime)
      PROVE  ShortInv(n)'
  BY <1>2, <1>6 DEF KeepFuelLevel
<1>7. ASSUME NEW level \in 0 .. MaxLevel, RecordLap(level) PROVE ShortInv(n)'
  <2> DEFINE lap == [id |-> lapCount + 1, combo |-> sim, whole |-> fuelIsRecent]
  <2>1. lap \in Laps
    BY <1>1, <1>7, LapFuelAssumption DEF RecordLap, Laps, TypeOK
  <2>2. times' = Append(DropOldest(times), lap) /\ fuels' = Append(DropOldest(fuels), lap)
        /\ UNCHANGED files
    BY <1>7 DEF RecordLap
  <2> HIDE DEF lap
  <2>3. countMax = 0 => times = <<>>
    BY <1>7 DEF RecordLap, AtTop, SizeInv
  <2>4. times = fuels
    BY <1>1, <1>7 DEF RecordLap, AtTop, ListInv, Loaded, Threads
  <2>5. Len(DropOldest(times)) <= n
    <3>1. countMax \in Nat /\ countMax <= n
      BY <1>1, LapFuelAssumption DEF TypeOK
    <3>2. times \in Seq(Laps) /\ Len(times) \in Nat
      BY <1>1 DEF TypeOK
    <3>3. CASE countMax = 0
      <4>1. Len(DropOldest(times)) = 0
        BY <2>3, <3>3 DEF DropOldest
      <4> QED BY <1>1, <4>1
    <3>4. CASE countMax # 0
      <4>1. Len(times) <= n + 1
        BY DEF ShortInv, Short
      <4>2. \/ Len(DropOldest(times)) = Len(times) /\ Len(times) <= countMax
            \/ Len(DropOldest(times)) = Len(times) - 1
        BY <1>1, <3>2, <3>4, DropFacts
      <4> QED BY <1>1, <3>1, <3>2, <4>1, <4>2
    <3> QED BY <3>3, <3>4
  <2>6. DropOldest(times) \in Seq(Laps)
    BY <1>1, DropFacts DEF TypeOK
  <2>7. Len(times') = Len(DropOldest(times)) + 1
    BY <2>1, <2>2, <2>6, AppendProperties
  <2>8. Len(times') <= n + 1
    BY <1>1, <2>5, <2>6, <2>7
  <2> QED BY <2>2, <2>4, <2>8 DEF ShortInv, Short
<1>8. ASSUME NEW p \in Threads, SaveSessionData(p) PROVE ShortInv(n)'
  <2>1. UNCHANGED lists /\ \A k \in Combos : files'[k] = EmptyFile \/ files'[k] = files[k]
    BY <1>1, <1>8 DEF SaveSessionData, TypeOK
  <2> QED BY <1>3, <2>1 DEF ShortInv, Short, EmptyFile
<1>9. ASSUME NEW p \in Threads, CloseOutput(p) PROVE ShortInv(n)'
  <2>1. /\ UNCHANGED lists
        /\ \A k \in Combos : files'[k] = [times |-> times, fuels |-> fuels] \/ files'[k] = files[k]
    BY <1>1, <1>9 DEF CloseOutput, TypeOK
  <2> QED BY <2>1 DEF ShortInv, Short
<1>10. ASSUME NEW p \in Threads, SetCurrentTrack(p) \/ SetCurrentCar(p) PROVE ShortInv(n)'
  BY <1>2, <1>10 DEF SetCurrentTrack, SetCurrentCar
<1>11. ASSUME NEW p \in Threads, ClearTimes(p) \/ ClearFuels(p) PROVE ShortInv(n)'
  <2>1. /\ UNCHANGED files
        /\ \/ times' = <<>> /\ UNCHANGED fuels
           \/ fuels' = <<>> /\ UNCHANGED times
    BY <1>11 DEF ClearTimes, ClearFuels
  <2> QED BY <1>3, <2>1 DEF ShortInv, Short
<1>12. ASSUME NEW p \in Threads, LoadSessionData(p) PROVE ShortInv(n)'
  <2>1. times = <<>> /\ fuels = <<>> /\ UNCHANGED files
    BY <1>1, <1>12 DEF LoadSessionData, ListInv
  <2>2. CASE cur \in Combos
    <3>1. files[cur].times \in Seq(Laps) /\ files[cur].fuels \in Seq(Laps)
      BY <1>1, <2>2, FileFacts DEF TypeOK
    <3>2. times' = files[cur].times /\ fuels' = files[cur].fuels
      BY <1>1, <1>12, <2>1, <2>2, <3>1, OwnedFacts DEF LoadSessionData
    <3> QED BY <2>1, <2>2, <3>2 DEF ShortInv, Short
  <2>3. CASE cur \notin Combos
    BY <1>2, <1>12, <2>3 DEF LoadSessionData
  <2> QED BY <2>2, <2>3
<1>13. CASE ProcessEnds
  <2>1. times' = <<>> /\ fuels' = <<>> /\ UNCHANGED files
    BY <1>13 DEF ProcessEnds
  <2> QED BY <1>3, <2>1 DEF ShortInv, Short
<1> QED
  BY <1>4, <1>5, <1>6, <1>7, <1>8, <1>9, <1>10, <1>11, <1>12, <1>13
  DEF Next, MainLoop, ResetSessionData, ExitProcess, Crash

\* The inductive invariant, with the bound it is about.
BoundedInv ==
  /\ OwnInv /\ SizeInv
  /\ \A n \in Counts : (\A m \in Counts : m <= n) => ShortInv(n)

\* Neither the lists nor the files ever have more than one lap above the largest
\* size that was asked for.
THEOREM SizesAreBounded ==
  ASSUME ~CloseRaces, KnownMaxFuel
  PROVE  Spec => []ListsBounded
<1>1. Init => BoundedInv
  BY OwnInit, SizeInit, ShortInit DEF BoundedInv
<1>2. BoundedInv /\ [Next]_vars => BoundedInv'
  BY OwnStep, SizeStep, ShortStep DEF BoundedInv
<1>3. BoundedInv => ListsBounded
  BY DEF BoundedInv, ShortInv, Short, ListsBounded
<1> QED BY <1>1, <1>2, <1>3, PTL DEF Spec

===============================================================================
