------------------------------ MODULE SessionInfo ------------------------------
(***************************************************************************)
(* The session info string and irsdk's parser of it (parseYaml). A line of *)
(* the string is its depth, its key and its value: the parser compares     *)
(* keys and values as a whole, with their separators, and counts the dash  *)
(* of a list item and the blanks around it as depth.                       *)
(***************************************************************************)
EXTENDS Integers, SequencesExt

\* A value is a sequence: empty where there is none.
Line(depth, key, value) == [depth |-> depth, key |-> key, value |-> <<value>>]
Heading(depth, key) == [depth |-> depth, key |-> key, value |-> <<>>]

\* A step of a path: "key:" or "key:{value}".
At(key) == [key |-> key, value |-> <<>>]
Item(key, value) == [key |-> key, value |-> <<value>>]

\* Broken variant: the value is not tested.
MatchesKey(step, line) == line.key = step.key

Matches(step, line) == line.key = step.key /\ (step.value = <<>> \/ step.value = line.value)

\* The search: the next step of the path, the depth of the last one found, whether it
\* has ended and with what.
Begin == [next |-> 1, depth |-> 0, ended |-> FALSE, found |-> <<>>]

Found(path, state, line) ==
  IF state.next = Len(path) THEN [state EXCEPT !.ended = TRUE, !.found = line.value]
  ELSE [state EXCEPT !.next = @ + 1, !.depth = line.depth]

\* One line. A line less deep than the last step found ends the search; every other
\* line is compared with the next step, also one of the next item of the same list.
Read(path, state, line) ==
  IF state.ended THEN state
  ELSE IF line.depth < state.depth THEN [state EXCEPT !.ended = TRUE]
  ELSE IF Matches(path[state.next], line) THEN Found(path, state, line)
  ELSE state

\* The value, as a sequence: empty if it is not found.
parseYaml(text, path) ==
  LET after[n \in 0 .. Len(text)] == IF n = 0 THEN Begin ELSE Read(path, after[n - 1], text[n])
  IN after[Len(text)].found

-------------------------------------------------------------------------------
(***************************************************************************)
(* The simulator's string, for a driver, the entries and the sessions:     *)
(* what the plugin reads of it, in iRacing's order.                        *)
(***************************************************************************)

Concat(list, n) == LET upTo[i \in 0 .. n] == IF i = 0 THEN <<>> ELSE upTo[i - 1] \o list[i] IN upTo[n]

ResultLines(result, position) ==
  <<Line(5, "Position", position), Line(5, "ClassPosition", result.classPosition),
    Line(5, "CarIdx", result.car)>>

SessionLines(session, num) ==
  <<Line(3, "SessionNum", num), Line(3, "SessionLaps", session.laps),
    Heading(3, "ResultsPositions")>>
  \o Concat([p \in DOMAIN session.results |-> ResultLines(session.results[p], p)], Len(session.results))

DriverLines(driver) ==
  <<Line(3, "CarIdx", driver.car), Line(3, "CarNumber", driver.number),
    Line(3, "CarClassShortName", driver.class)>>

Text(me, drivers, sessions) ==
  <<Heading(0, "SessionInfo"), Heading(1, "Sessions")>>
  \o Concat([n \in DOMAIN sessions |-> SessionLines(sessions[n], n)], Len(sessions))
  \o <<Heading(0, "DriverInfo"), Line(1, "DriverCarIdx", me), Heading(1, "Drivers")>>
  \o Concat([d \in DOMAIN drivers |-> DriverLines(drivers[d])], Len(drivers))

SessionPath(num) == <<At("SessionInfo"), At("Sessions"), Item("SessionNum", num)>>
ResultPath(num, position) == SessionPath(num) \o <<At("ResultsPositions"), Item("Position", position)>>
DriverPath(car) == <<At("DriverInfo"), At("Drivers"), Item("CarIdx", car)>>

===============================================================================
