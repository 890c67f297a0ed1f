------------------------------- MODULE Standings -------------------------------
(***************************************************************************)
(* The cars ahead of and behind the driver, as the data branch publishes   *)
(* them (getDataFromSessionInfo): who they are comes from the results in   *)
(* the session info string, which are as old as the last line that was     *)
(* crossed; the interval comes from the telemetry of the moment, in which  *)
(* a car's lap counter and its place on the lap may not change together.   *)
(*                                                                         *)
(* The telemetry is a copy, taken at the start of the pass. The string is  *)
(* the simulator's own memory, parsed anew for every value: the simulator  *)
(* may write it again between two parses. Within one parse it stands       *)
(* still, which nothing in the code ensures.                               *)
(*                                                                         *)
(* Distances and intervals are in steps of a lap: the estimated lap time   *)
(* is a factor.                                                            *)
(***************************************************************************)
EXTENDS SessionInfo, FiniteSets

CONSTANTS
  Cars,      \* CarIdx: 0 ..
  Me,        \* DriverCarIdx
  ClassOf,   \* the class of each car
  Starts,    \* the cars that may be entered at first
  Q,         \* steps of a lap
  MaxDist,   \* bound: steps a car drives in a session
  MaxNum,    \* bound: the last SessionNum (from 1 here)
  MaxMoves   \* bound: steps of the simulator during one pass of the data branch

ASSUME StandingsAssumption ==
  /\ IsFiniteSet(Cars) /\ Cars = 0 .. Cardinality(Cars) - 1 /\ Me \in Cars /\ DOMAIN ClassOf = Cars
  /\ \A s \in Starts : s \in Seq(Cars) /\ IsInjective(s) /\ Me \in ToSet(s)
  /\ Q \in Nat \ {0} /\ MaxDist \in Nat /\ MaxNum \in Nat \ {0} /\ MaxMoves \in Nat

VARIABLES
  num,       \* SessionNum
  dist,      \* steps each car has driven
  inWorld,   \* cars on the track: the others have -1 in the telemetry
  entries,   \* the cars entered, in the order of the string
  sessions,  \* the sessions in the string, with their results
  sample,    \* the telemetry that the pass has copied
  call,      \* the locals of getDataFromSessionInfo, and where it is
  pub,       \* what the pass puts in strDataMap
  rewritten, \* history: the string was written again during the pass
  moves      \* the simulator's steps during the pass

simVars == <<num, dist, inWorld, entries, sessions>>
passVars == <<sample, call, pub>>
standingsVars == <<simVars, passVars, rewritten, moves>>

NoCar == [car |-> -1, position |-> -1, interval |-> -1]

Nothing == <<>>

\* places is classPosToCarIdxMap, mine is myPosition (-1: not found).
Idle == [at |-> "idle", class |-> Nothing, position |-> 1, car |-> -1, places |-> Nothing, mine |-> -1]

StandingsTypeOK ==
  /\ num \in 1 .. MaxNum /\ dist \in [Cars -> 0 .. MaxDist] /\ inWorld \subseteq ToSet(entries)
  /\ ToSet(entries) \subseteq Cars /\ IsInjective(entries) /\ Me \in ToSet(entries)
  /\ DOMAIN sessions = 1 .. MaxNum
  /\ \A n \in num + 1 .. MaxNum : sessions[n].results = <<>>
  /\ \A n \in 1 .. num : \A r \in ToSet(sessions[n].results) : r.car \in ToSet(entries)
  /\ call.at \in {"idle", "place", "class", "neighbours", "published"}
  /\ rewritten \in BOOLEAN /\ moves \in 0 .. MaxMoves /\ (pub # Nothing <=> call.at = "published")
  /\ pub # Nothing => \A side \in {"ahead", "behind"} :
       pub[side].car \in Cars \cup {-1} /\ pub[side].interval \in -1 .. MaxDist + 3 * Q

StandingsInit ==
  /\ num = 1 /\ dist = [c \in Cars |-> 0]
  /\ entries \in Starts
  /\ inWorld = {}
  /\ sessions = [n \in 1 .. MaxNum |-> [laps |-> "unlimited", results |-> <<>>]]
  /\ sample = Nothing /\ call = Idle /\ pub = Nothing /\ rewritten = FALSE /\ moves = 0

-------------------------------------------------------------------------------
(***************************************************************************)
(* The simulator, which does not wait for the plugin.                      *)
(***************************************************************************)

Meanwhile(rewrites) ==
  /\ IF call = Idle THEN UNCHANGED moves ELSE moves < MaxMoves /\ moves' = moves + 1
  /\ rewritten' = (rewritten \/ (rewrites /\ call # Idle))
  /\ UNCHANGED passVars

Join(c) ==
  /\ c \notin ToSet(entries) /\ entries' = Append(entries, c)
  /\ Meanwhile(TRUE) /\ UNCHANGED <<num, dist, inWorld, sessions>>

EnterTrack(c) ==
  /\ c \in ToSet(entries) \ inWorld /\ inWorld' = inWorld \cup {c}
  /\ Meanwhile(FALSE) /\ UNCHANGED <<num, dist, entries, sessions>>

LeaveTrack(c) ==
  /\ c \in inWorld /\ inWorld' = inWorld \ {c}
  /\ Meanwhile(FALSE) /\ UNCHANGED <<num, dist, entries, sessions>>

Drive(c) ==
  /\ c \in inWorld /\ dist[c] < MaxDist
  /\ dist' = [dist EXCEPT ![c] = @ + 1]
  /\ Meanwhile(FALSE) /\ UNCHANGED <<num, inWorld, entries, sessions>>

\* The results are made anew: the cars that have driven a lap, by distance.
Ahead(a, b) == dist[a] > dist[b] \/ (dist[a] = dist[b] /\ a < b)
Better(c, cars) == Cardinality({o \in cars : Ahead(o, c)})
Results ==
  LET ranked == {c \in ToSet(entries) : dist[c] >= Q}
      Place(p) == CHOOSE c \in ranked : Better(c, ranked) = p - 1
      Class(c) == {o \in ranked : ClassOf[o] = ClassOf[c]}
  IN [p \in 1 .. Cardinality(ranked) |->
       [car |-> Place(p), classPosition |-> Better(Place(p), Class(Place(p)))]]

UpdateResults ==
  /\ sessions' = [sessions EXCEPT ![num].results = Results]
  /\ Meanwhile(TRUE) /\ UNCHANGED <<num, dist, inWorld, entries>>

NextSession ==
  /\ num < MaxNum /\ num' = num + 1
  /\ dist' = [c \in Cars |-> 0] /\ inWorld' = {}
  /\ Meanwhile(FALSE) /\ UNCHANGED <<entries, sessions>>

-------------------------------------------------------------------------------
(***************************************************************************)
(* The telemetry of a pass.                                                *)
(***************************************************************************)

\* The lap counter of a car at the line may still be the old one; the place on the lap
\* is 0 there.
CarIdxLap(c, lagging) == IF c \in lagging THEN dist[c] \div Q ELSE dist[c] \div Q + 1
Total(c, lagging) == Q * CarIdxLap(c, lagging) + (dist[c] % Q)

\* Lap and LapDistPct of the driver's own car: off the track the place is -1, of a lap,
\* and the counter keeps its value or is -1 too.
Own(lagging) ==
  IF Me \in inWorld THEN {Total(Me, lagging)} ELSE {-2 * Q, Q * (dist[Me] \div Q)}

\* CarIdxLap and CarIdxLapDistPct have -1 for a car that is not on the track; dist is
\* history.
Sample(lagging, own) ==
  [num |-> num, dist |-> dist, own |-> own,
   cars |-> [c \in Cars |-> IF c \in inWorld THEN Total(c, lagging) ELSE -1]]

ReadTelemetry ==
  \E lagging \in SUBSET {c \in inWorld : dist[c] % Q = 0 /\ dist[c] > 0} :
    \E own \in Own(lagging) : sample' = Sample(lagging, own)

-------------------------------------------------------------------------------
(***************************************************************************)
(* getDataFromSessionInfo. A step parses the string at most once, except   *)
(* that the class of a car, which no rewriting changes, is read in the     *)
(* step that finds the car.                                                *)
(***************************************************************************)

String == Text(Me, [d \in DOMAIN entries |->
                      [car |-> entries[d], number |-> entries[d], class |-> ClassOf[entries[d]]]],
               sessions)

Value(text, path) == parseYaml(text, path)[1]
ClassIn(text, car) == Value(text, DriverPath(car) \o <<At("CarClassShortName")>>)
DriverCarIdx(text) == Value(text, <<At("DriverInfo"), At("DriverCarIdx")>>)
CarIdxAt(text, n, p) == parseYaml(text, ResultPath(n, p) \o <<At("CarIdx")>>)
ClassPositionAt(text, n, p) == parseYaml(text, ResultPath(n, p) \o <<At("ClassPosition")>>)

\* Without an estimate of the lap time there is no call.
NoEstimate ==
  /\ call = Idle /\ ReadTelemetry
  /\ call' = [Idle EXCEPT !.at = "published"] /\ pub' = [ahead |-> NoCar, behind |-> NoCar]
  /\ UNCHANGED <<simVars, rewritten, moves>>

\* Whether the driver's own car is on the track is not asked.
getDataFromSessionInfo ==
  /\ call = Idle /\ ReadTelemetry
  /\ call' = [Idle EXCEPT !.at = "place", !.class = ClassIn(String, DriverCarIdx(String))]
  /\ UNCHANGED <<simVars, pub, rewritten, moves>>

\* Broken variant: all classes.
SameClassAll(car) == TRUE

SameClass(car) == ClassIn(String, car) = call.class

\* The loop over the positions ends at the first that is not found, and passes over the
\* cars of other classes.
ReadCarIdx ==
  /\ call.at = "place"
  /\ LET found == CarIdxAt(String, sample.num, call.position)
     IN \/ found = <<>> /\ call' = [call EXCEPT !.at = "neighbours"]
        \/ found # <<>> /\ SameClass(found[1]) /\ call' = [call EXCEPT !.at = "class", !.car = found[1]]
        \/ found # <<>> /\ ~SameClass(found[1]) /\ call' = [call EXCEPT !.position = @ + 1]
  /\ UNCHANGED <<simVars, sample, pub, rewritten, moves>>

\* The first insertion for a class position stays.
Inserted(classPosition) ==
  [p \in DOMAIN call.places \cup {classPosition} |->
     IF p \in DOMAIN call.places THEN call.places[p] ELSE call.car]

\* Where the class position is not found the loop ends.
ReadClassPosition ==
  /\ call.at = "class"
  /\ LET found == ClassPositionAt(String, sample.num, call.position)
         isMine == call.mine = -1 /\ call.car = DriverCarIdx(String)
     IN call' = IF found = <<>> THEN [call EXCEPT !.at = "neighbours"]
                ELSE [call EXCEPT !.at = "place", !.position = @ + 1, !.places = Inserted(found[1]),
                                  !.mine = IF isMine THEN found[1] ELSE @]
  /\ UNCHANGED <<simVars, sample, pub, rewritten, moves>>

\* Broken variants: also a car that is behind the driver is ahead of him; also a car that
\* is not on the track.
GapSigned(car, way) == IF sample.cars[car] # -1 THEN way ELSE -1
GapUnchecked(car, way) == IF way >= 0 THEN way ELSE -1

\* The interval over the way between two cars, or -1: the other car may not be on the
\* track, and one on the wrong side has no interval.
Gap(car, way) == IF sample.cars[car] # -1 /\ way >= 0 THEN way ELSE -1

Way(car, offset) ==
  IF offset = -1 THEN sample.cars[car] - sample.own ELSE sample.own - sample.cars[car]

\* The car found at the class position next to mine.
Neighbour(offset) ==
  LET position == call.mine + offset
  IN IF call.mine # -1 /\ position >= 0 /\ position \in DOMAIN call.places
     THEN LET car == call.places[position]
          IN [car |-> car, position |-> position + 1, interval |-> Gap(car, Way(car, offset))]
     ELSE NoCar

\* A car stands for its number and initials, which are parsed here.
ShowNeighbours ==
  /\ call.at = "neighbours" /\ call' = [call EXCEPT !.at = "published"]
  /\ pub' = [ahead |-> Neighbour(-1), behind |-> Neighbour(1)]
  /\ UNCHANGED <<simVars, sample, rewritten, moves>>

setData ==
  /\ pub # Nothing /\ pub' = Nothing /\ call' = Idle /\ sample' = Nothing
  /\ rewritten' = FALSE /\ moves' = 0 /\ UNCHANGED simVars

StandingsNext ==
  \/ \E c \in Cars : Join(c) \/ EnterTrack(c) \/ LeaveTrack(c) \/ Drive(c)
  \/ UpdateResults \/ NextSession
  \/ NoEstimate \/ getDataFromSessionInfo \/ ReadCarIdx \/ ReadClassPosition \/ ShowNeighbours
  \/ setData

StandingsSpec == StandingsInit /\ [][StandingsNext]_standingsVars

-------------------------------------------------------------------------------
(***************************************************************************)
(* Properties.                                                             *)
(***************************************************************************)

\* The parser finds what the simulator wrote: for every car its own class, and for this
\* session the car and the class position at every position and no more, although it
\* would go on into the next item of a list.
ParsesItem ==
  LET text == String
      results == sessions[num].results
  IN /\ \A c \in ToSet(entries) : ClassIn(text, c) = ClassOf[c]
     /\ \A p \in 1 .. Len(results) : /\ CarIdxAt(text, num, p) = <<results[p].car>>
                                     /\ ClassPositionAt(text, num, p) = <<results[p].classPosition>>
     /\ CarIdxAt(text, num, Len(results) + 1) = <<>>

\* The cars published are of the driver's class, also where the string was written again
\* between two parses. Where it was not, they are next to him in the results of the
\* session, and never the driver.
NeighboursOfClass == pub # Nothing =>
  \A side \in {"ahead", "behind"} : LET c == pub[side].car IN c >= 0 =>
    /\ ClassOf[c] = ClassOf[Me]
    /\ ~rewritten =>
         /\ c # Me
         /\ \E r, mine \in ToSet(sessions[sample.num].results) :
              /\ r.car = c /\ mine.car = Me
              /\ r.classPosition = mine.classPosition + (IF side = "ahead" THEN -1 ELSE 1)
              /\ pub[side].position = r.classPosition + 1

\* An interval is given only to a car on the track, and while the driver's own car is
\* there too it is the distance between him and the car that is named, on that side; a
\* lap counter that is late makes it a lap wrong at most.
IntervalIsGap == pub # Nothing =>
  \A side \in {"ahead", "behind"} : LET p == pub[side] IN p.interval >= 0 =>
    /\ p.car >= 0 /\ sample.cars[p.car] # -1
    /\ sample.cars[Me] # -1 =>
         LET gap == (IF side = "ahead" THEN 1 ELSE -1) * (sample.dist[p.car] - sample.dist[Me])
         IN p.interval \in {gap - Q, gap, gap + Q}

\* What is published of the two neighbours is true of one and the same car each.
ShowsNeighbours == StandingsTypeOK /\ NeighboursOfClass /\ IntervalIsGap

===============================================================================
