--------------------------- MODULE RaceCalculation ----------------------------
(***************************************************************************)
(* What the plugin tells the driver about the rest of the race, against    *)
(* the race itself: a car that drives, burns fuel and stops, and the main  *)
(* loop's data branch, which records laps, estimates lap time and fuel,    *)
(* and publishes the laps that remain, the fuel they need and whether a    *)
(* stop now is the last one.                                               *)
(*                                                                         *)
(* A lap is driven in Q steps of the car. The loop looks at each of them:  *)
(* it runs every 200 ms. Time is counted in steps of a car that does not   *)
(* lose time, fuel in tenths of a litre; estimates are in quarters of      *)
(* both. A number of laps is a fraction <<n, d>>.                          *)
(***************************************************************************)
EXTENDS LapStatistics, Sequences

CONSTANTS
  Q,          \* steps of a lap
  Burns,      \* fuel burned in one step
  Tank,       \* g_MaxFuelLitres
  Races,      \* sessions: number of laps and time, 0 for "unlimited"
  MaxTime,    \* bound: the clock of a session
  Practice,   \* bound: the time of a session before another one
  MaxLaps,    \* bound: laps recorded
  Histories,  \* laps stored on disk: sequences of [time, fuel]
  Factors,    \* display units for one litre, as fractions
  Splashes    \* amounts a driver may add by hand

MinFuel == 4  \* MIN_FUEL_LITRES

\* A stored lap was driven: it took at least a lap's steps, and used fuel of the tank.
ASSUME RaceAssumption ==
  /\ Q \in Nat \ {0} /\ Burns \subseteq Nat \ {0} /\ Burns # {}
  /\ Tank \in Nat /\ Tank > MinFuel /\ MaxTime \in Nat /\ Practice \in Nat /\ MaxLaps \in Nat
  /\ Races \subseteq [laps : Nat, time : Nat]
  /\ Histories \subseteq Seq([time : 4 * Q .. 4 * MaxTime, fuel : 1 .. 4 * Tank])
  /\ \A h \in Histories : Len(h) <= MaxLaps
  /\ Factors \subseteq (Nat \ {0}) \X (Nat \ {0}) /\ Splashes \subseteq Nat

VARIABLES
  race, number,     \* the session: its limits and its SessionNum
  clock, pos,       \* the car: the time since the start, steps driven
  fuel,             \*   its fuel
  lapStart, lastLap,\*   the time of its last crossing, LapLastLapTime (0: none)
  over,             \*   it has finished
  due,              \* the car has moved since the data branch ran
  useDriverLaps,    \* g_isUseDriverLapsRemaining
  factor,           \* g_FuelDisplayConversionFactor
  g_SessionNum, g_SessionTotal,  \* the session whose limits were parsed, and these
  g_oldLapLastLapTime, m_lastFuelValue,
  laps,             \* m_dataLapTimeList and m_dataLapFuelList
  est,              \* g_estimatedLapTime, g_estimatedLapFuelLitres
  pub,              \* what was published: remainingLapsMax, FuelRequired, PitAvailable
  limit,            \* history: the least position the race was promised to end by
  enough,           \* history: the driver was told that the fuel is enough
  now               \* history: the estimates with which a stop was said to be the last

car == <<race, number, clock, pos, fuel, lapStart, lastLap, over>>
loop == <<useDriverLaps, factor, g_SessionNum, g_SessionTotal, g_oldLapLastLapTime,
          m_lastFuelValue, laps, est, pub>>
told == <<limit, enough, now>>
vars == <<car, due, loop, told>>

\* -1 in the code.
None == <<-1, 1>>
Nothing == [remaining |-> None, required |-> None, enough |-> TRUE, pit |-> -1]

NotSaid == [time |-> 0, fuel |-> 0]
NoLimit == Q * (MaxTime + 3)

Unlimited == [laps |-> 0, time |-> 0]

Least(a, b) == IF a < b THEN a ELSE b

TypeOK ==
  /\ race \in Races /\ number \in {0, 1} /\ clock \in 0 .. MaxTime /\ pos \in 0 .. MaxTime
  /\ fuel \in 0 .. Tank /\ lapStart \in 0 .. clock /\ lastLap \in 0 .. MaxTime
  /\ over \in BOOLEAN /\ due \in BOOLEAN /\ useDriverLaps \in BOOLEAN /\ factor \in Factors
  /\ g_SessionNum \in {-1, 0, 1} /\ g_SessionTotal \in Races \cup {Unlimited}
  /\ g_oldLapLastLapTime \in -1 .. MaxTime /\ m_lastFuelValue \in -1 .. Tank
  /\ \A i \in DOMAIN laps : laps[i].time \in 4 * Q .. 4 * MaxTime /\ laps[i].fuel \in 1 .. 4 * Tank
  /\ est.time \in 0 .. 4 * MaxTime /\ est.fuel \in 0 .. 4 * Tank
  /\ Len(laps) <= MaxLaps
  /\ pub.pit \in Nat \cup {-1} /\ pub.enough \in BOOLEAN
  /\ limit \in 0 .. NoLimit /\ enough \in BOOLEAN

Times(list) == [i \in DOMAIN list |-> list[i].time]
Fuels(list) == [i \in DOMAIN list |-> list[i].fuel]

EstimateOf(list) == Estimate(Times(list), Fuels(list))

Grid(r, n) ==
  /\ race' = r /\ number' = n
  /\ clock' = 0 /\ pos' = 0 /\ lapStart' = 0 /\ lastLap' = 0 /\ over' = FALSE
  /\ limit' = NoLimit /\ enough' = FALSE /\ now' = NotSaid

\* The header branch has run: the laps of the combination were loaded and the session
\* is not known.
Init ==
  /\ race \in Races /\ number = 0
  /\ clock = 0 /\ pos = 0 /\ lapStart = 0 /\ lastLap = 0 /\ over = FALSE
  /\ fuel \in {Tank, (Tank + MinFuel) \div 2} /\ due = TRUE
  /\ useDriverLaps \in BOOLEAN /\ factor \in Factors
  /\ g_SessionNum = -1 /\ g_SessionTotal = Unlimited
  /\ g_oldLapLastLapTime = -1 /\ m_lastFuelValue = -1
  /\ laps \in Histories /\ est = EstimateOf(laps)
  /\ pub = Nothing /\ limit = NoLimit /\ enough = FALSE /\ now = NotSaid

-------------------------------------------------------------------------------
(***************************************************************************)
(* The race. The leader never loses time: it has driven "clock" steps.     *)
(***************************************************************************)

AtLine(p) == p % Q = 0

\* The driver's race ends at the line: after all laps, after the leader's last lap, or
\* on the lap the time ran out in or the one after it (irplugin.cpp:846).
MustEnd == AtLine(pos) /\ pos > 0 /\
  \/ race.laps > 0 /\ (pos >= Q * race.laps \/ clock >= Q * race.laps)
  \/ race.time > 0 /\ clock >= race.time + Q
MayEnd == MustEnd \/ (AtLine(pos) /\ pos > 0 /\ race.time > 0 /\ clock >= race.time)

Drive ==
  /\ ~due /\ ~over /\ ~MustEnd /\ clock < MaxTime
  /\ \E burn \in Burns : fuel >= burn /\ fuel' = fuel - burn
  /\ clock' = clock + 1 /\ pos' = pos + 1
  /\ IF AtLine(pos') THEN lastLap' = clock' - lapStart /\ lapStart' = clock'
     ELSE UNCHANGED <<lapStart, lastLap>>
  /\ due' = TRUE
  /\ UNCHANGED <<race, number, over, loop, told>>

LoseTime ==
  /\ ~due /\ ~over /\ ~MustEnd /\ clock < MaxTime
  /\ clock' = clock + 1 /\ due' = TRUE
  /\ UNCHANGED <<race, number, pos, fuel, lapStart, lastLap, over, loop, told>>

Finish ==
  /\ ~due /\ ~over /\ MayEnd
  /\ over' = TRUE
  /\ UNCHANGED <<race, number, clock, pos, fuel, lapStart, lastLap, due, loop, told>>

\* A stop is made at the line.
Refuel(litres) ==
  /\ ~due /\ ~over /\ ~MustEnd /\ AtLine(pos)
  /\ fuel' = Least(Tank, fuel + litres)
  /\ due' = TRUE /\ enough' = FALSE /\ now' = NotSaid
  /\ UNCHANGED <<race, number, clock, pos, lapStart, lastLap, over, loop, limit>>

\* After practice the race begins on the grid.
NextSession ==
  /\ ~due /\ number = 0
  /\ race.laps = 0 /\ race.time = 0 /\ clock <= Practice
  /\ \E r \in Races : Grid(r, 1)
  /\ fuel' = Tank /\ due' = TRUE
  /\ UNCHANGED loop

-------------------------------------------------------------------------------
(***************************************************************************)
(* The telemetry the plugin reads.                                         *)
(***************************************************************************)

DriverLap == pos \div Q + 1
SessionTimeRemain == race.time - clock
SessionLapsRemainEx == IF clock >= Q * race.laps THEN 0 ELSE race.laps - clock \div Q

-------------------------------------------------------------------------------
(***************************************************************************)
(* The data branch.                                                        *)
(***************************************************************************)

\* Broken variant: a lap after a stop is recorded.
IsUsedOrNot == m_lastFuelValue >= 0
IsUsed == fuel < m_lastFuelValue

\* AddLapData: TRUE if a lap is recorded. A list longer than a tank's laps, of which
\* there are at least 10, loses its oldest: more laps than MaxLaps.
IsNewLap == lastLap # g_oldLapLastLapTime
IsRecorded == IsNewLap /\ lastLap > 0 /\ IsUsed /\ Len(laps) < MaxLaps

AddLapData ==
  /\ g_oldLapLastLapTime' = lastLap
  /\ m_lastFuelValue' = IF IsNewLap THEN fuel ELSE m_lastFuelValue
  /\ laps' = IF IsRecorded
             THEN Append(laps, [time |-> 4 * lastLap, fuel |-> 4 * (m_lastFuelValue - fuel)])
             ELSE laps
  /\ est' = IF IsRecorded THEN EstimateOf(laps') ELSE est

\* The limits of a session are parsed once.
ParseSession == g_SessionNum' = number /\ g_SessionTotal' = (IF g_SessionNum # number THEN race ELSE g_SessionTotal)

Over(a, b) == a[1] * b[2] > b[1] * a[2]

\* The -1 of a session whose time remains but whose lap time is not known is stopped
\* at 0, like a countdown.
NoLapTime == <<0, 1>>

\* Broken variant: the lap after the one the time runs out in is left out.
RemainingByTimeShort(total, e) ==
  IF total.time = 0 THEN None
  ELSE IF e.time = 0 THEN NoLapTime
  ELSE LET n == 4 * SessionTimeRemain + e.time IN <<IF n < 0 THEN 0 ELSE n, e.time>>

\* remainingLapsMax of a session with a time limit.
RemainingByTime(total, e) ==
  IF total.time = 0 THEN None
  ELSE IF e.time = 0 THEN NoLapTime
  ELSE LET n == 4 * SessionTimeRemain + 2 * e.time IN <<IF n < 0 THEN 0 ELSE n, e.time>>

RaceLapsRemain(total) ==
  <<IF useDriverLaps THEN total.laps - DriverLap + 1 ELSE SessionLapsRemainEx, 1>>

\* The smaller of both limits; a session with both shows 0 laps until the first
\* estimate, for 0 is neither unknown nor more than the laps.
remainingLapsMax(total, e) ==
  LET byTime == RemainingByTime(total, e)
      byLaps == RaceLapsRemain(total)
  IN IF total.laps > 0 /\ (byTime[1] < 0 \/ Over(byTime, byLaps)) THEN byLaps ELSE byTime

fuelRequired(remaining, e) ==
  IF remaining[1] <= 0 THEN None
  ELSE <<remaining[1] * e.fuel + 4 * MinFuel * remaining[2], 4 * remaining[2]>>

lapsOfFuel(e) ==
  IF e.fuel > 0 /\ fuel > MinFuel THEN <<4 * (fuel - MinFuel), e.fuel>> ELSE <<0, 1>>

isEnoughFuel(remaining, e) == ~Over(remaining, lapsOfFuel(e))

\* Broken variant: all of the tank counts.
lapsOfFuelFullWhole(e) == <<4 * Tank, e.fuel>>

lapsOfFuelFull(e) == <<4 * (Tank - MinFuel), e.fuel>>

\* PitAvailable: 0 for now, laps until then (rounded up here), or -1.
optionalPit(remaining, e) ==
  LET full == lapsOfFuelFull(e)
      n == remaining[1] * full[2] - full[1] * remaining[2]
      d == remaining[2] * full[2]
  IN IF e.fuel = 0 \/ isEnoughFuel(remaining, e) \/ ~Over(lapsOfFuel(e), <<n, d>>) THEN -1
     ELSE IF n <= 0 THEN 0 ELSE (n + d - 1) \div d

\* The fastest laps the driver can do are no faster than the estimate, and none needs
\* more fuel than estimated.
Sound(e) == e.time > 0 /\ e.time <= 4 * Q /\ \A burn \in Burns : e.fuel >= 4 * Q * burn

\* The leader is still in the race: remaining laps that are calculated from the time
\* count down from there on, although the driver may have most of a lap left.
LeaderRaces == race.time = 0 \/ clock <= race.time + Q

\* What is published is true for the moment; the histories keep what it promises. The
\* leader's laps are a lap less than the driver's may be. Without an estimate a session
\* with a time limit promises nothing: it shows 0 laps and enough fuel.
Publish ==
  /\ due /\ due' = FALSE
  /\ ParseSession /\ AddLapData
  /\ LET remaining == remainingLapsMax(g_SessionTotal', est')
         promise == pos + (Q * remaining[1]) \div remaining[2] + (IF useDriverLaps THEN 0 ELSE Q)
         holds == LeaderRaces /\ (race.time > 0 => Sound(est'))
     IN /\ pub' = [remaining |-> remaining, required |-> fuelRequired(remaining, est'),
                   enough |-> isEnoughFuel(remaining, est'), pit |-> optionalPit(remaining, est')]
        /\ limit' = IF remaining # None /\ holds THEN Least(limit, promise) ELSE limit
        /\ enough' = (enough \/ (/\ pub'.enough /\ pub'.required # None
                                 /\ holds /\ Sound(est') /\ useDriverLaps))
  /\ now' = IF pub'.pit = 0 THEN est' ELSE now
  /\ UNCHANGED <<car, useDriverLaps, factor>>

-------------------------------------------------------------------------------
(***************************************************************************)
(* The stop: the page rounds up what is to be added (UpdateData.js:772),   *)
(* and handlePitCommandMessage converts it to litres.                      *)
(***************************************************************************)

\* In display units: one more than the whole ones.
fuelToAdd == LET n == (pub.required[1] - fuel * pub.required[2]) * factor[1]
                 d == pub.required[2] * 10 * factor[2]
             IN IF n > 0 THEN n \div d + 1 ELSE 0

\* Broken variant: what is below a litre is dropped.
fuelToAddInLitresCut(amount) == (amount * factor[2]) \div factor[1]

fuelToAddInLitres(amount) == (2 * amount * factor[2] + factor[1]) \div (2 * factor[1])

ApplyAndStop == fuelToAdd > 0 /\ Refuel(10 * fuelToAddInLitres(fuelToAdd))
FillUp == (pub.pit >= 0 \/ now # NotSaid) /\ Refuel(Tank)
Splash == \E s \in Splashes : Refuel(s)

Next ==
  \/ Drive \/ LoseTime \/ Finish \/ NextSession \/ Publish
  \/ ApplyAndStop \/ FillUp \/ Splash

Spec == Init /\ [][Next]_vars

-------------------------------------------------------------------------------
(***************************************************************************)
(* Properties.                                                             *)
(***************************************************************************)

\* The car is never driven past the laps that were said to remain while the leader was
\* in the race, however much time it loses, in a race of laps, of time or of both, and
\* whatever the session before it was (irplugin.cpp:846, "for a max of +2 from our
\* current position"). With the leader's laps it is at most one lap more. A race with a
\* time limit counts from the first estimate on: before it 0 laps are displayed, in a
\* race of both too, and the car is driven past them (irplugin.cpp:863-866, 918).
LapsSuffice == pos <= limit

\* "Enough fuel" (irplugin.cpp:991) holds to the end of the race: who was told so while
\* the leader was in it and with an estimate, and drives no faster and burns no more than
\* estimated, never has less than the fuel below which the car stutters.
EnoughIsEnough == enough => fuel >= MinFuel

\* The driver who believes what is displayed once there is an estimate neither runs out
\* of laps nor of fuel.
PlanSuffices == TypeOK /\ LapsSuffice /\ EnoughIsEnough

\* README.md: with "pit optional now" the driver "can pit now and get enough fuel to
\* finish the race", also if it is some steps later and the display has changed, as long
\* as no other lap has changed the estimates.
PitNowIsLast == [][FillUp /\ now = est =>
  ~Over(pub.remaining, <<4 * (fuel' - MinFuel), est.fuel>>)]_vars

\* A stop with what the page asks for leaves the tank full or at most half a litre
\* short of what is required, in every unit, although it is rounded twice.
StopIsEnough == [][ApplyAndStop =>
  fuel' = Tank \/ (fuel' + 5) * pub.required[2] >= pub.required[1]]_vars

\* The estimates are on the safe side and can be driven: of the laps that are not
\* outliers at most half were faster, and at most half needed more fuel; no estimate is
\* faster than every lap or needs more than every lap.
EstimatesConservative == laps # <<>> =>
  LET times == Times(laps)
      fuels == Fuels(laps)
      t == calcMedian(times, FALSE, Unknown)
      f == calcMedian(fuels, FALSE, Unknown)
      usualTime == IF t.mad = 0 THEN DOMAIN laps ELSE Usual(times, t)
      usualFuel == IF f.mad = 0 THEN DOMAIN laps ELSE Usual(fuels, f)
  IN /\ 2 * Cardinality({i \in usualTime : times[i] < est.time}) <= Cardinality(usualTime)
     /\ 2 * Cardinality({i \in usualFuel : fuels[i] > est.fuel}) <= Cardinality(usualFuel)
     /\ \E i \in DOMAIN laps : times[i] <= est.time
     /\ \E i \in DOMAIN laps : fuels[i] >= est.fuel

===============================================================================
