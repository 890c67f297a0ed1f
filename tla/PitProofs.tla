------------------------------- MODULE PitProofs -------------------------------
(***************************************************************************)
(* Theorems about PitCommand and PitRoad, for every value of their         *)
(* constants: first the way of a command from the page to the simulator,   *)
(* then the Apply button that sends it.                                    *)
(***************************************************************************)
EXTENDS PitCommand, PitRoad, SequenceTheorems, TLAPS


-------------------------------------------------------------------------------
(***************************************************************************)
(* Types, and the order of the commands on their way.                      *)
(***************************************************************************)

\* The commands of a queue are in the order they were sent, and newer than "low".
Ascending(queue, low, high) ==
  /\ \A i \in 1 .. Len(queue) : low < queue[i].id /\ queue[i].id <= high
  /\ \A i, j \in 1 .. Len(queue) : i < j => queue[i].id < queue[j].id

\* The commands on the way are newer than the one in the mailbox, and in order; the
\* one in the mailbox is the newest received and has not been taken.
OrderInv ==
  /\ carried <= done /\ done <= received /\ received <= sent
  /\ mailbox # NoCommand => mailbox.id = received /\ done < received
  /\ Ascending(wire, received, sent) /\ Ascending(late, received, sent)
  /\ ~connected => wire = <<>>
  /\ connected => late = <<>>

LEMMA CommandFacts ==
  /\ \A c \in Commands : /\ c.id \in 1 .. MaxSent /\ c.fuel \in 0 .. MaxFuel
                         /\ c.boxes \in SUBSET Boxes /\ c.unit \in Units
  /\ \A u \in Units, n \in 0 .. MaxFuel : Litres[u][n] \in Nat
  /\ Nothing \in Todos
  /\ NotTaken \in [id : 0 .. MaxSent, boxes : SUBSET Boxes, litres : Nat]
  /\ MaxSent \in Nat /\ MaxFuel \in Nat
  /\ <<>> \in Seq(Commands)
<1>1. <<>> \in Seq(Commands)
  OBVIOUS
<1> QED BY <1>1, PitCommandAssumption, PitSettingsAssumption DEF Commands, Nothing, Todos, NotTaken

LEMMA SentFacts ==
  ASSUME TypeOK
  PROVE  /\ sent \in Nat /\ received \in Nat /\ done \in Nat /\ carried \in Nat
         /\ sent <= MaxSent
BY CommandFacts DEF TypeOK

\* What is left of a queue after its first command.
LEMMA TailFacts ==
  ASSUME NEW queue \in Seq(Commands), queue # <<>>
  PROVE  /\ Head(queue) \in Commands /\ Tail(queue) \in Seq(Commands)
         /\ \A low, high \in Nat : Ascending(queue, low, high) =>
              /\ low < Head(queue).id /\ Head(queue).id <= high
              /\ Ascending(Tail(queue), Head(queue).id, high)
<1>1. /\ Len(queue) \in Nat /\ 1 \in 1 .. Len(queue)
      /\ Head(queue) = queue[1] /\ Head(queue) \in Commands
      /\ Tail(queue) \in Seq(Commands) /\ Len(Tail(queue)) = Len(queue) - 1
      /\ \A i \in 1 .. Len(queue) - 1 : Tail(queue)[i] = queue[i + 1] /\ i + 1 \in 1 .. Len(queue)
  BY EmptySeq, HeadTailProperties
<1>2. ASSUME NEW low \in Nat, NEW high \in Nat, Ascending(queue, low, high)
      PROVE  /\ low < Head(queue).id /\ Head(queue).id <= high
             /\ Ascending(Tail(queue), Head(queue).id, high)
  <2>1. low < Head(queue).id /\ Head(queue).id <= high
    BY <1>1, <1>2 DEF Ascending
  <2>2. ASSUME NEW i \in 1 .. Len(Tail(queue))
        PROVE  Head(queue).id < Tail(queue)[i].id /\ Tail(queue)[i].id <= high
    <3>1. 1 < i + 1
      BY <1>1
    <3> QED BY <1>1, <1>2, <3>1 DEF Ascending
  <2>3. ASSUME NEW i \in 1 .. Len(Tail(queue)), NEW j \in 1 .. Len(Tail(queue)), i < j
        PROVE  Tail(queue)[i].id < Tail(queue)[j].id
    <3>1. i + 1 < j + 1
      BY <1>1, <2>3
    <3> QED BY <1>1, <1>2, <3>1 DEF Ascending
  <2> QED BY <2>1, <2>2, <2>3 DEF Ascending
<1> QED BY <1>1, <1>2

\* A queue with one more command at its end.
LEMMA AppendFacts ==
  ASSUME NEW queue \in Seq(Commands), NEW c \in Commands, NEW low \in Nat, NEW high \in Nat,
         low <= high, c.id = high + 1, Ascending(queue, low, high)
  PROVE  Ascending(Append(queue, c), low, high + 1)
<1> DEFINE longer == Append(queue, c)
<1>1. /\ Len(queue) \in Nat /\ Len(longer) = Len(queue) + 1 /\ longer[Len(queue) + 1] = c
      /\ \A i \in 1 .. Len(queue) : longer[i] = queue[i] /\ queue[i].id \in Nat
  BY CommandFacts
<1> HIDE DEF longer
<1>2. \A i \in 1 .. Len(longer) : \/ i = Len(queue) + 1 /\ longer[i].id = high + 1
                                  \/ i \in 1 .. Len(queue) /\ longer[i] = queue[i]
  BY <1>1
<1>3. ASSUME NEW i \in 1 .. Len(longer)
      PROVE  low < longer[i].id /\ longer[i].id <= high + 1
  <2>1. CASE i \in 1 .. Len(queue)
    BY <1>1, <2>1 DEF Ascending
  <2> QED BY <1>2, <2>1
<1>4. ASSUME NEW i \in 1 .. Len(longer), NEW j \in 1 .. Len(longer), i < j
      PROVE  longer[i].id < longer[j].id
  <2>1. i \in 1 .. Len(queue)
    BY <1>1, <1>4
  <2>2. longer[i].id \in Nat /\ longer[i].id <= high
    BY <1>1, <2>1 DEF Ascending
  <2>3. CASE j \in 1 .. Len(queue)
    BY <1>1, <1>4, <2>1, <2>3 DEF Ascending
  <2> QED BY <1>2, <2>2, <2>3
<1>5. Ascending(longer, low, high + 1)
  <2>1. \A i \in 1 .. Len(longer) : low < longer[i].id /\ longer[i].id <= high + 1
    BY <1>3
  <2>2. \A i, j \in 1 .. Len(longer) : i < j => longer[i].id < longer[j].id
    BY <1>4
  <2> QED BY <2>1, <2>2 DEF Ascending
<1> QED BY <1>5 DEF longer

\* The first commands of a queue.
LEMMA PrefixFacts ==
  ASSUME NEW queue \in Seq(Commands), NEW n \in 0 .. Len(queue)
  PROVE  /\ SubSeq(queue, 1, n) \in Seq(Commands)
         /\ \A low, high \in Nat : Ascending(queue, low, high) =>
                                     Ascending(SubSeq(queue, 1, n), low, high)
<1>1. /\ SubSeq(queue, 1, n) \in Seq(Commands) /\ Len(SubSeq(queue, 1, n)) = n
      /\ \A i \in 1 .. n : SubSeq(queue, 1, n)[i] = queue[i] /\ i \in 1 .. Len(queue)
  BY SubSeqProperties
<1>2. ASSUME NEW low \in Nat, NEW high \in Nat, Ascending(queue, low, high)
      PROVE  Ascending(SubSeq(queue, 1, n), low, high)
  <2> DEFINE first == SubSeq(queue, 1, n)
  <2>1. Len(first) = n /\ \A i \in 1 .. n : first[i] = queue[i] /\ i \in 1 .. Len(queue)
    BY <1>1
  <2> HIDE DEF first
  <2>2. Ascending(first, low, high)
    BY <1>2, <2>1 DEF Ascending
  <2> QED BY <2>2 DEF first
<1> QED BY <1>1, <1>2

\* A queue that is in order stays so when more commands are sent.
LEMMA LongerFacts ==
  ASSUME NEW queue \in Seq(Commands), NEW low \in Nat, NEW high \in Nat,
         Ascending(queue, low, high)
  PROVE  Ascending(queue, low, high + 1)
<1>1. \A i \in 1 .. Len(queue) : queue[i].id \in Nat
  BY CommandFacts
<1> QED BY <1>1 DEF Ascending

LEMMA OrderInit == Init => TypeOK /\ OrderInv
<1> SUFFICES ASSUME Init PROVE TypeOK /\ OrderInv
  OBVIOUS
<1>1. sim \in Sims /\ page \in [onTrack : BOOLEAN, unit : Units] 
      /\ wire \in Seq(Commands) /\ late \in Seq(Commands)
  BY CommandFacts DEF Init, Sims
<1>2. /\ sent \in 0 .. MaxSent /\ received \in 0 .. MaxSent /\ done \in 0 .. MaxSent
      /\ carried \in Nat
  BY CommandFacts DEF Init
<1>3. TypeOK
  BY <1>1, <1>2, CommandFacts DEF Init, TypeOK
<1> QED BY <1>3 DEF Init, OrderInv, Ascending

LEMMA TypeStep == TypeOK /\ [Next]_vars => TypeOK'
<1> SUFFICES ASSUME TypeOK, [Next]_vars PROVE TypeOK'
  OBVIOUS
<1> USE DEF TypeOK, ledger, hist, links
<1>1. CASE Connect
  BY <1>1 DEF Connect
<1>15. CASE Disconnect
  <2>1. wire' \in Seq(Commands)
    BY <1>15, CommandFacts DEF Disconnect
  <2>2. late' \in Seq(Commands)
    BY <1>15, PrefixFacts DEF Disconnect
  <2> QED BY <1>15, <2>1, <2>2 DEF Disconnect
<1>2. CASE UpdatePage
  BY <1>2 DEF UpdatePage, Sims
<1>3. ASSUME NEW fuelToAdd \in -1 .. MaxFuel, NEW boxes \in SUBSET Boxes,
             onSendButton(fuelToAdd, boxes)
      PROVE  TypeOK'
  <2> DEFINE fuel == IF fuelToAdd > 0 THEN fuelToAdd ELSE 0
             c == [id |-> sent + 1, fuel |-> fuel, boxes |-> boxes, unit |-> page.unit]
  <2>1. sent + 1 \in 1 .. MaxSent /\ fuel \in 0 .. MaxFuel
    BY <1>3, CommandFacts DEF onSendButton
  <2>2. c \in Commands
    BY <2>1 DEF Commands
  <2>3. wire' = (IF connected THEN Append(wire, c) ELSE wire)
    BY <1>3 DEF onSendButton
  <2> HIDE DEF c, fuel
  <2>4. wire' \in Seq(Commands)
    BY <2>2, <2>3
  <2>5. sent' \in 0 .. MaxSent
    BY <1>3, <2>1 DEF onSendButton
  <2> QED BY <1>3, <2>4, <2>5 DEF onSendButton
<1>4. CASE Receive
  <2>1. PICK c \in Commands : setFuelMessage(c)
    BY <1>4, TailFacts DEF Receive
  <2>2. received' \in 0 .. MaxSent
    BY <2>1, CommandFacts DEF setFuelMessage
  <2>3. wire' \in Seq(Commands) /\ late' \in Seq(Commands)
    BY <1>4, TailFacts DEF Receive
  <2> QED BY <2>1, <2>2, <2>3 DEF setFuelMessage
<1>5. ASSUME NEW u \in Units, NewHeader(u) PROVE TypeOK'
  BY <1>5 DEF NewHeader, Sims
<1>6. CASE SimGone
  BY <1>6 DEF SimGone
<1>7. CASE TakeMessage
  <2> DEFINE litres == Litres[unit][mailbox.fuel]
  <2>1. mailbox \in Commands
    BY <1>7 DEF TakeMessage
  <2>2. litres \in Nat /\ mailbox.boxes \in SUBSET Boxes /\ mailbox.id \in 1 .. MaxSent
    BY <2>1, CommandFacts
  <2>3. /\ todo' = [clear |-> ClearFirst, boxes |-> mailbox.boxes, litres |-> litres]
        /\ taken' = [id |-> mailbox.id, boxes |-> mailbox.boxes, litres |-> litres]
        /\ done' = mailbox.id /\ carried' = carried + 1
    BY <1>7 DEF TakeMessage
  <2>4. ClearFirst \in BOOLEAN
    BY DEF ClearFirst
  <2> HIDE DEF litres
  <2>5. todo' \in Todos /\ taken' \in [id : 0 .. MaxSent, boxes : SUBSET Boxes, litres : Nat]
    BY <2>2, <2>3, <2>4 DEF Todos
  <2>6. done' \in 0 .. MaxSent /\ carried' \in Nat
    BY <2>2, <2>3, CommandFacts
  <2> QED BY <1>7, <2>5, <2>6 DEF TakeMessage
<1>8. CASE BroadcastClear
  BY <1>8 DEF BroadcastClear, Sims, Todos
<1>9. CASE BroadcastFuel
  BY <1>9 DEF BroadcastFuel, Sims, Todos
<1>10. ASSUME NEW b \in Boxes, BroadcastBox(b) PROVE TypeOK'
  BY <1>10 DEF BroadcastBox, Sims, Todos
<1>11. CASE Restart
  BY <1>11, CommandFacts DEF Restart
<1>12. CASE DriverMoves
  BY <1>12 DEF DriverMoves, Sims
<1>13. ASSUME NEW b \in Boxes, DriverTouches(b) PROVE TypeOK'
  BY <1>13 DEF DriverTouches, Sims
<1>14. CASE UNCHANGED vars
  BY <1>14 DEF vars
<1> QED
  BY <1>1, <1>2, <1>3, <1>4, <1>5, <1>6, <1>7, <1>8, <1>9, <1>10, <1>11, <1>12, <1>13, <1>14,
     <1>15
  DEF Next, Page, MainLoop, handlePitCommandMessage, Driver

LEMMA OrderStep ==
  ASSUME OneConnection
  PROVE  TypeOK /\ OrderInv /\ [Next]_vars => OrderInv'
<1> SUFFICES ASSUME TypeOK, OrderInv, [Next]_vars PROVE OrderInv'
  OBVIOUS
<1> USE DEF ledger, hist, links
<1>1. ASSUME UNCHANGED <<ledger, mailbox, links>> PROVE OrderInv'
  BY <1>1 DEF OrderInv
<1>2. CASE UpdatePage \/ SimGone \/ BroadcastClear \/ BroadcastFuel \/ DriverMoves
           \/ UNCHANGED vars
  BY <1>1, <1>2 DEF UpdatePage, SimGone, BroadcastClear, BroadcastFuel, DriverMoves, vars
<1>3. CASE \/ \E u \in Units : NewHeader(u)
           \/ \E b \in Boxes : BroadcastBox(b) \/ DriverTouches(b)
  BY <1>1, <1>3 DEF NewHeader, BroadcastBox, DriverTouches
<1>4. CASE Restart
  BY <1>4 DEF Restart, OrderInv, Ascending
<1>8. CASE Connect
  BY <1>8 DEF Connect, OrderInv
<1>9. CASE Disconnect
  <2>1. connected /\ ~connected' /\ wire' = <<>> /\ UNCHANGED <<ledger, mailbox>>
    BY <1>9 DEF Disconnect
  <2>2. Ascending(late', received, sent)
    <3>1. CASE late' = late
      BY <3>1 DEF OrderInv
    <3>2. CASE \E n \in 0 .. Len(wire) : late' = SubSeq(wire, 1, n)
      <4>1. wire \in Seq(Commands) /\ received \in Nat /\ sent \in Nat
        BY SentFacts DEF TypeOK
      <4>2. Ascending(wire, received, sent)
        BY DEF OrderInv
      <4> QED BY <3>2, <4>1, <4>2, PrefixFacts
    <3> QED BY <1>9, <3>1, <3>2 DEF Disconnect
  <2> QED BY <2>1, <2>2 DEF OrderInv, Ascending
<1>5. ASSUME NEW fuelToAdd \in -1 .. MaxFuel, NEW boxes \in SUBSET Boxes,
             onSendButton(fuelToAdd, boxes)
      PROVE  OrderInv'
  <2> DEFINE fuel == IF fuelToAdd > 0 THEN fuelToAdd ELSE 0
             c == [id |-> sent + 1, fuel |-> fuel, boxes |-> boxes, unit |-> page.unit]
  <2>1. /\ UNCHANGED <<received, done, carried, mailbox, late, connected>> /\ sent' = sent + 1
        /\ wire' = (IF connected THEN Append(wire, c) ELSE wire) /\ sent < MaxSent
    BY <1>5 DEF onSendButton
  <2>2. c \in Commands
    BY <2>1, SentFacts, CommandFacts DEF Commands, TypeOK
  <2>3. c.id = sent + 1
    OBVIOUS
  <2> HIDE DEF c, fuel
  <2>4. sent \in Nat /\ received \in Nat /\ received <= sent /\ received <= sent'
    BY <2>1, SentFacts DEF OrderInv
  <2>5. Ascending(late', received', sent')
    BY <2>1, <2>4, LongerFacts DEF OrderInv, TypeOK
  <2>6. Ascending(wire', received', sent')
    <3>1. CASE connected
      BY <2>1, <2>2, <2>3, <2>4, <3>1, AppendFacts DEF OrderInv, TypeOK
    <3>2. CASE ~connected
      BY <2>1, <2>4, <3>2, LongerFacts DEF OrderInv, TypeOK
    <3> QED BY <3>1, <3>2
  <2> QED BY <2>1, <2>4, <2>5, <2>6 DEF OrderInv
<1>6. CASE Receive
  <2>1. UNCHANGED <<sent, done, carried, connected>>
    BY <1>6 DEF Receive, setFuelMessage
  <2>2. /\ sent \in Nat /\ received \in Nat /\ done \in Nat
        /\ wire \in Seq(Commands) /\ late \in Seq(Commands)
    BY SentFacts DEF TypeOK
  <2>3. /\ received < received' /\ received' <= sent /\ mailbox'.id = received'
        /\ Ascending(wire', received', sent) /\ Ascending(late', received', sent)
        /\ received' \in Nat
        /\ wire = <<>> => wire' = <<>>
        /\ late = <<>> => late' = <<>>
    <3>1. CASE wire # <<>> /\ wire' = Tail(wire) /\ late' = late /\ setFuelMessage(Head(wire))
      <4>1. late = <<>>
        BY <3>1 DEF OrderInv
      <4>2. Ascending(late', received', sent)
        BY <3>1, <4>1 DEF Ascending
      <4> QED BY <2>2, <3>1, <4>1, <4>2, TailFacts, CommandFacts DEF OrderInv, setFuelMessage
    <3>2. CASE late # <<>> /\ late' = Tail(late) /\ wire' = wire /\ setFuelMessage(Head(late))
      <4>1. wire = <<>>
        BY <3>2 DEF OrderInv
      <4>2. Ascending(wire', received', sent)
        BY <3>2, <4>1 DEF Ascending
      <4> QED BY <2>2, <3>2, <4>1, <4>2, TailFacts, CommandFacts DEF OrderInv, setFuelMessage
    <3> QED BY <1>6, <3>1, <3>2 DEF Receive
  <2>4. done < received' /\ done <= received'
    BY <2>2, <2>3 DEF OrderInv
  <2> QED BY <2>1, <2>3, <2>4 DEF OrderInv
<1>7. CASE TakeMessage
  <2>1. /\ mailbox' = NoCommand /\ done' = received /\ carried' = carried + 1 /\ done < received
        /\ UNCHANGED <<sent, received, links>>
    BY <1>7 DEF TakeMessage, OrderInv
  <2>2. carried' <= done'
    BY <2>1, SentFacts DEF OrderInv
  <2> QED BY <2>1, <2>2, SentFacts DEF OrderInv
<1> QED
  BY <1>2, <1>3, <1>4, <1>5, <1>6, <1>7, <1>8, <1>9
  DEF Next, Page, MainLoop, handlePitCommandMessage, Driver

\* Every variable keeps its type: in particular an amount of fuel is never below
\* zero, in display units or in litres.
THEOREM TypeCorrect == Spec => []TypeOK
<1> QED BY OrderInit, TypeStep, PTL DEF Spec

-------------------------------------------------------------------------------
(***************************************************************************)
(* The simulator gets what was asked.                                      *)
(***************************************************************************)

\* What is still to be posted is a part of the command; what has been posted is in
\* the simulator, and after the clear nothing else is.
PostedInv ==
  /\ todo.boxes \subseteq taken.boxes
  /\ todo.litres \in {0, taken.litres}
  /\ todo.clear => ~skipClear /\ todo.boxes = taken.boxes /\ todo.litres = taken.litres
  /\ taken.id # 0 /\ ~todo.clear /\ ~touched =>
       /\ taken.boxes \ todo.boxes \subseteq sim.boxes
       /\ todo.litres = 0 /\ taken.litres > 0 => sim.litres = taken.litres
       /\ ~skipClear => /\ sim.boxes = taken.boxes \ todo.boxes
                        /\ sim.litres = IF todo.litres = 0 THEN taken.litres ELSE 0

LEMMA PostedStep == TypeOK /\ PostedInv /\ [Next]_vars => PostedInv'
<1> SUFFICES ASSUME TypeOK, PostedInv, [Next]_vars PROVE PostedInv'
  OBVIOUS
<1> USE DEF ledger, hist, links
<1>1. ASSUME UNCHANGED <<todo, taken, touched, sim, skipClear>> PROVE PostedInv'
  BY <1>1 DEF PostedInv
<1>2. CASE Connect \/ Disconnect \/ UpdatePage \/ Receive \/ SimGone \/ UNCHANGED vars
  BY <1>1, <1>2 DEF Connect, Disconnect, UpdatePage, Receive, setFuelMessage, SimGone, vars
<1>3. ASSUME NEW fuelToAdd \in -1 .. MaxFuel, NEW boxes \in SUBSET Boxes,
             onSendButton(fuelToAdd, boxes)
      PROVE  PostedInv'
  BY <1>1, <1>3 DEF onSendButton
<1>4. CASE \/ \E u \in Units : NewHeader(u)
           \/ \E b \in Boxes : DriverTouches(b)
  BY <1>4 DEF NewHeader, DriverTouches, PostedInv, AtTop, Nothing
<1>5. CASE DriverMoves
  BY <1>5 DEF DriverMoves, PostedInv, TypeOK, Sims
<1>6. CASE TakeMessage
  <2>1. mailbox \in Commands
    BY <1>6 DEF TakeMessage, TypeOK
  <2>2. Litres[unit][mailbox.fuel] \in Nat
    BY <2>1, CommandFacts DEF TypeOK
  <2>3. /\ todo' = [clear |-> ~skipClear, boxes |-> taken'.boxes, litres |-> taken'.litres]
        /\ taken'.litres \in Nat /\ UNCHANGED skipClear
    BY <1>6, <2>2 DEF TakeMessage, ClearFirst
  <2>4. /\ todo'.boxes = taken'.boxes /\ todo'.litres = taken'.litres
        /\ todo'.clear = ~skipClear /\ UNCHANGED skipClear
    BY <2>3
  <2>5. CASE skipClear
    <3>1. ~todo'.clear /\ taken'.boxes \ todo'.boxes = {}
      BY <2>4, <2>5
    <3>2. todo'.litres = 0 => ~(taken'.litres > 0)
      BY <2>3, <2>4
    <3> QED BY <2>4, <2>5, <3>1, <3>2 DEF PostedInv
  <2>6. CASE ~skipClear
    <3>1. todo'.clear
      BY <2>4, <2>6
    <3> QED BY <2>4, <2>6, <3>1 DEF PostedInv
  <2> QED BY <2>5, <2>6
<1>7. CASE BroadcastClear
  <2>1. /\ sim'.boxes = {} /\ sim'.litres = 0
        /\ todo'.boxes = todo.boxes /\ todo'.litres = todo.litres
        /\ todo.clear /\ ~todo'.clear /\ UNCHANGED <<taken, skipClear>>
    BY <1>7 DEF BroadcastClear, TypeOK, Sims, Todos
  <2> QED BY <2>1 DEF PostedInv
<1>8. ASSUME NEW b \in Boxes, BroadcastBox(b) PROVE PostedInv'
  <2>1. /\ sim'.boxes = sim.boxes \cup {b} /\ sim'.litres = sim.litres
        /\ todo'.boxes = todo.boxes \ {b} /\ todo'.litres = todo.litres
        /\ ~todo.clear /\ ~todo'.clear /\ UNCHANGED <<taken, touched, skipClear>> /\ b \in todo.boxes
    BY <1>8 DEF BroadcastBox, TypeOK, Sims, Todos
  <2>2. taken.boxes \ todo'.boxes = (taken.boxes \ todo.boxes) \cup {b}
    BY <2>1 DEF PostedInv
  <2> QED BY <2>1, <2>2 DEF PostedInv
<1>9. CASE BroadcastFuel
  <2>1. /\ sim'.boxes = sim.boxes /\ sim'.litres = todo.litres
        /\ todo'.boxes = todo.boxes /\ todo'.litres = 0 /\ todo.litres > 0
        /\ ~todo.clear /\ ~todo'.clear /\ UNCHANGED <<taken, touched, skipClear>>
    BY <1>9 DEF BroadcastFuel, TypeOK, Sims, Todos
  <2> QED BY <2>1 DEF PostedInv
<1>10. CASE Restart
  BY <1>10 DEF Restart, PostedInv, Nothing, NotTaken
<1> QED
  BY <1>2, <1>3, <1>4, <1>5, <1>6, <1>7, <1>8, <1>9, <1>10
  DEF Next, Page, MainLoop, handlePitCommandMessage, Driver

\* Whatever happens on the way, a command that has been carried out and that nobody
\* else has touched since is what the simulator's boxes show.
THEOREM DoneAsAsked == Spec => []AsAsked
<1>1. Init => PostedInv
  BY DEF Init, PostedInv, Nothing, NotTaken
<1>2. TypeOK /\ PostedInv /\ [Next]_vars => (TypeOK /\ PostedInv)'
  BY TypeStep, PostedStep
<1>3. TypeOK /\ PostedInv => AsAsked
  <2> SUFFICES ASSUME TypeOK, PostedInv, taken.id # 0, todo = Nothing, ~touched
               PROVE  /\ taken.boxes \subseteq sim.boxes
                      /\ taken.litres > 0 => sim.litres = taken.litres
                      /\ ~skipClear => sim.boxes = taken.boxes /\ sim.litres = taken.litres
    BY DEF AsAsked
  <2>1. ~todo.clear /\ todo.boxes = {} /\ todo.litres = 0
    BY DEF Nothing
  <2>2. taken.boxes \subseteq sim.boxes
    BY <2>1 DEF PostedInv
  <2>3. taken.litres > 0 => sim.litres = taken.litres
    BY <2>1 DEF PostedInv
  <2>4. ~skipClear => sim.boxes = taken.boxes /\ sim.litres = taken.litres
    BY <2>1 DEF PostedInv
  <2> QED BY <2>2, <2>3, <2>4
<1> QED BY <1>1, <1>2, <1>3, OrderInit, PTL DEF Spec

\* With SkipClearOnApply no broadcast unchecks a box, or the fuel, that the driver has
\* selected in the simulator: the clear is only ever due while the clear is not skipped.
THEOREM SelectedIsKept == Spec => KeepsSelected
<1>1. Init => PostedInv
  BY DEF Init, PostedInv, Nothing, NotTaken
<1>2. TypeOK /\ PostedInv /\ [Next]_vars => (TypeOK /\ PostedInv)'
  BY TypeStep, PostedStep
<1>3. ASSUME TypeOK, PostedInv, skipClear, handlePitCommandMessage
      PROVE  sim.boxes \subseteq sim'.boxes /\ (sim.litres > 0 => sim'.litres > 0)
  <2>1. ~todo.clear
    BY <1>3 DEF PostedInv
  <2>2. CASE BroadcastFuel
    BY <1>3, <2>2 DEF BroadcastFuel, TypeOK, Sims, Todos
  <2>3. CASE \E b \in Boxes : BroadcastBox(b)
    BY <1>3, <2>3 DEF BroadcastBox, TypeOK, Sims
  <2> QED BY <1>3, <2>1, <2>2, <2>3 DEF handlePitCommandMessage, BroadcastClear
<1>4. TypeOK /\ PostedInv
      => (skipClear /\ handlePitCommandMessage =>
            sim.boxes \subseteq sim'.boxes /\ (sim.litres > 0 => sim'.litres > 0))
  BY <1>3, Zenon
<1> QED BY <1>1, <1>2, <1>4, OrderInit, PTL DEF Spec, KeepsSelected

-------------------------------------------------------------------------------
(***************************************************************************)
(* Orders of which the newest is carried out, once.                        *)
(***************************************************************************)

LEMMA OrdersStep == TypeOK /\ OrderInv /\ [Next]_vars => [PitOrders!Next]_(PitOrders!vars)
<1> SUFFICES ASSUME TypeOK, OrderInv, [Next]_vars PROVE PitOrders!Next \/ UNCHANGED ledger
  BY DEF PitOrders!vars, ledger
<1> USE DEF ledger, hist, links
<1>1. CASE Connect \/ Disconnect \/ UpdatePage \/ SimGone \/ BroadcastClear \/ BroadcastFuel
           \/ Restart \/ DriverMoves \/ UNCHANGED vars
  BY <1>1 DEF Connect, Disconnect, UpdatePage, SimGone, BroadcastClear, BroadcastFuel,
              Restart, DriverMoves, vars
<1>2. CASE \/ \E u \in Units : NewHeader(u)
           \/ \E b \in Boxes : BroadcastBox(b) \/ DriverTouches(b)
  BY <1>2 DEF NewHeader, BroadcastBox, DriverTouches
<1>3. ASSUME NEW fuelToAdd \in -1 .. MaxFuel, NEW boxes \in SUBSET Boxes,
             onSendButton(fuelToAdd, boxes)
      PROVE  PitOrders!Send
  BY <1>3 DEF onSendButton, PitOrders!Send
<1>4. CASE Receive
  <2>1. UNCHANGED <<sent, done, carried>>
    BY <1>4 DEF Receive, setFuelMessage
  <2>2. wire \in Seq(Commands) /\ late \in Seq(Commands) /\ received \in Nat /\ sent \in Nat
    BY SentFacts DEF TypeOK
  <2>3. received < received' /\ received' <= sent /\ received' \in Nat
    BY <1>4, <2>2, TailFacts, CommandFacts DEF Receive, setFuelMessage, OrderInv
  <2>4. received' \in received + 1 .. sent
    BY <2>2, <2>3
  <2> QED BY <2>1, <2>4 DEF PitOrders!Next, PitOrders!Receive
<1>5. CASE TakeMessage
  <2>1. PitOrders!Execute
    BY <1>5 DEF TakeMessage, OrderInv, PitOrders!Execute
  <2> QED BY <2>1 DEF PitOrders!Next
<1> QED
  BY <1>1, <1>2, <1>3, <1>4, <1>5
  DEF Next, Page, MainLoop, handlePitCommandMessage, Driver, PitOrders!Next

\* With one connection at a time, no command is carried out twice, or after a newer
\* one, and the one carried out is the newest that has arrived.
THEOREM NewestOnce ==
  ASSUME OneConnection
  PROVE  Spec => ImplementsPitOrders
<1>1. Init => PitOrders!Init
  BY DEF Init, PitOrders!Init
<1>2. TypeOK /\ OrderInv /\ [Next]_vars => (TypeOK /\ OrderInv)'
  BY TypeStep, OrderStep
<1> QED BY <1>1, <1>2, OrderInit, OrdersStep, PTL DEF Spec, ImplementsPitOrders, PitOrders!Spec

-------------------------------------------------------------------------------
(***************************************************************************)
(* The Apply button, PitRoad.                                              *)
(***************************************************************************)

\* The parts of the handler of a message, named once for all proofs.
Now(fuel, full) == [settings EXCEPT !.fuel = fuel, !.full = full]
Applies(d) == checkIsEnteringPitRoad(d) /\ auto
OnPit(d) == d.onTrack /\ d.onPitRoad
Pressed(d, now) == IF Applies(d) THEN SetOnPitRoadState(button, now) ELSE button
Updated(d, now) ==
  IF OnPit(d) THEN UpdatePitRoadAppliedState(Pressed(d, now), now)
  ELSE SetOffPitRoadState(Pressed(d, now))

Datas == [onTrack : BOOLEAN, onPitRoad : BOOLEAN, fast : BOOLEAN]

-------------------------------------------------------------------------------
(***************************************************************************)
(* Types.                                                                  *)
(***************************************************************************)

LEMMA ButtonFacts ==
  /\ NoSettings \in Settings /\ InitialButton \in Buttons /\ NoData \in Datas
  /\ \A s \in Settings : FuelToAddStr(s) \in FuelStrs \ {NotApplied}
  /\ FlashCount \in Nat /\ FlashCount > 1 /\ MaxTimers \in Nat /\ MaxFuel \in Nat
<1>1. FlashCount \in Nat /\ FlashCount > 1 /\ MaxTimers \in Nat /\ MaxFuel \in Nat
  BY PitRoadAssumption, PitSettingsAssumption
<1>2. NoSettings \in Settings
  BY <1>1 DEF NoSettings, Settings
<1>3. NotApplied \in FuelStrs /\ 0 \in 0 .. FlashCount - 1
  BY <1>1 DEF NotApplied, FuelStrs
<1>4. InitialButton \in Buttons
  BY <1>2, <1>3 DEF InitialButton, Buttons
<1>5. ASSUME NEW s \in Settings PROVE FuelToAddStr(s) \in FuelStrs \ {NotApplied}
  <2>1. s.fuel \in 0 .. MaxFuel
    BY DEF Settings
  <2> QED BY <1>1, <2>1 DEF FuelToAddStr, FuelStrs, NotApplied, None, Full
<1> QED BY <1>1, <1>2, <1>4, <1>5 DEF NoData, Datas

LEMMA ButtonTypes ==
  ASSUME NEW b \in Buttons, NEW s \in Settings
  PROVE  /\ SetOnPitRoadState(b, s) \in Buttons
         /\ SetOffPitRoadState(b) \in Buttons
         /\ UpdatePitRoadAppliedState(b, s) \in Buttons
<1>1. 1 \in 0 .. FlashCount - 1 /\ FuelToAddStr(s) \in FuelStrs /\ NotApplied \in FuelStrs
  BY ButtonFacts DEF NotApplied, FuelStrs
<1>2. SetOnPitRoadState(b, s) \in Buttons
  BY <1>1 DEF SetOnPitRoadState, Buttons
<1>3. SetOffPitRoadState(b) \in Buttons
  BY <1>1 DEF SetOffPitRoadState, Buttons
<1>4. UpdatePitRoadAppliedState(b, s) \in Buttons
  <2> DEFINE a == b.lastStr # NotApplied
                  /\ (\/ FuelToAddStr(s) = b.lastStr \/ Tolerance = 0
                      \/ Distance(s.fuel, b.last.fuel) <= Tolerance)
                  /\ s.tires = b.last.tires
  <2>1. UpdatePitRoadAppliedState(b, s) =
          [b EXCEPT !.isOffPitRoadState = FALSE, !.off = FALSE, !.applied = a]
    BY DEF UpdatePitRoadAppliedState
  <2>2. a \in BOOLEAN
    OBVIOUS
  <2> HIDE DEF a
  <2> QED BY <2>1, <2>2 DEF Buttons
<1> QED BY <1>2, <1>3, <1>4

LEMMA LabelTypes ==
  ASSUME NEW b \in Buttons, NEW onTrack \in BOOLEAN, NEW onPit \in BOOLEAN
  PROVE  LET l == drawApplyButton(b, onTrack, onPit)
         IN  /\ l \in Labels
             /\ l = "disabled" <=> ~onTrack
             /\ l \in {"applied", "changed"} => onPit
             /\ l = "flashing" => b.flashing
             /\ l = "applied" => b.applied
<1>1. b.flashing \in BOOLEAN /\ b.off \in BOOLEAN /\ b.applied \in BOOLEAN
  BY DEF Buttons
<1>2. CASE ~onTrack
  BY <1>2 DEF drawApplyButton, Labels
<1>3. CASE onTrack /\ b.flashing
  BY <1>3 DEF drawApplyButton, Labels
<1>4. CASE onTrack /\ ~b.flashing /\ (b.off \/ ~onPit)
  BY <1>4 DEF drawApplyButton, Labels
<1>5. CASE onTrack /\ ~b.flashing /\ ~b.off /\ onPit
  BY <1>5 DEF drawApplyButton, Labels
<1> QED BY <1>1, <1>2, <1>3, <1>4, <1>5

\* What a message does, with the names above.
LEMMA MessageFacts ==
  ASSUME RoadTypeOK, Message
  PROVE  \E d \in Datas, fuel \in 0 .. MaxFuel, full \in BOOLEAN, other \in BOOLEAN :
           LET now == Now(fuel, full) IN
           /\ now \in Settings
           /\ Settled /\ button.flashing => now = settings
           /\ data' = d /\ settings' = now
           /\ racing' = (d.onTrack /\ ~d.onPitRoad) /\ stopping' = OnPit(d)
           /\ Pressed(d, now) \in Buttons /\ button' = Updated(d, now) /\ button' \in Buttons
           /\ timers' = (IF Applies(d) THEN TimersOn(button) ELSE timers)
           /\ timers' <= MaxTimers
           /\ label' = (IF OnPit(d) \/ ~Pressed(d, now).isOffPitRoadState
                        THEN drawApplyButton(button', d.onTrack, OnPit(d))
                        ELSE IF Redrawn(d, other)
                             THEN drawApplyButton(button, d.onTrack, stopping) ELSE label)
           /\ inSim' = (IF Applies(d) THEN {now}
                        ELSE IF stopping /\ ~OnPit(d) THEN {} ELSE inSim)
           /\ UNCHANGED <<auto, socket>>
<1>1. PICK d \in Datas, s \in Settings, other \in BOOLEAN :
        s.tires = settings.tires /\ onWebSocketMessage(d, s.fuel, s.full, other)
  BY DEF Message, Datas
<1> DEFINE now == Now(s.fuel, s.full)
<1>2. s.fuel \in 0 .. MaxFuel /\ s.full \in BOOLEAN /\ now = s
  BY <1>1 DEF Now, Settings, RoadTypeOK
<1>3. now \in Settings
  BY <1>2
<1>4. Pressed(d, now) \in Buttons
  BY <1>3, ButtonTypes DEF Pressed, RoadTypeOK
<1>5. Updated(d, now) \in Buttons
  BY <1>3, <1>4, ButtonTypes DEF Updated
<1>6. /\ Settled /\ button.flashing => now = settings
      /\ data' = d /\ settings' = now
      /\ racing' = (d.onTrack /\ ~d.onPitRoad) /\ stopping' = OnPit(d)
      /\ button' = Updated(d, now)
      /\ timers' = (IF Applies(d) THEN TimersOn(button) ELSE timers)
      /\ timers' <= MaxTimers
      /\ label' = (IF OnPit(d) \/ ~Pressed(d, now).isOffPitRoadState
                   THEN drawApplyButton(Updated(d, now), d.onTrack, OnPit(d))
                   ELSE IF Redrawn(d, other)
                        THEN drawApplyButton(button, d.onTrack, stopping) ELSE label)
      /\ inSim' = (IF Applies(d) THEN {now}
                   ELSE IF stopping /\ ~OnPit(d) THEN {} ELSE inSim)
      /\ UNCHANGED <<auto, socket>>
  BY <1>1 DEF onWebSocketMessage, Now, Applies, OnPit, Pressed, Updated, SettingsSent
<1> HIDE DEF now
<1>7. button' \in Buttons
  BY <1>5, <1>6
<1> QED BY <1>2, <1>3, <1>4, <1>6, <1>7 DEF now

LEMMA RoadTypeInit == RoadInit => RoadTypeOK
<1> SUFFICES ASSUME RoadInit PROVE RoadTypeOK
  OBVIOUS
<1>1. data \in Datas /\ settings \in Settings /\ button \in Buttons /\ timers \in 0 .. MaxTimers
  BY ButtonFacts DEF RoadInit
<1>2. label \in Labels
  BY DEF RoadInit, Labels
<1> QED BY <1>1, <1>2 DEF RoadInit, RoadTypeOK, Datas

LEMMA RoadTypeStep == RoadTypeOK /\ [RoadNext]_roadVars => RoadTypeOK'
<1> SUFFICES ASSUME RoadTypeOK, [RoadNext]_roadVars PROVE RoadTypeOK'
  OBVIOUS
<1> USE DEF RoadTypeOK
<1>1. CASE Message
  <2>1. PICK d \in Datas, fuel \in 0 .. MaxFuel, full \in BOOLEAN, other \in BOOLEAN :
          LET now == Now(fuel, full) IN
          /\ now \in Settings /\ data' = d /\ settings' = now
          /\ racing' = (d.onTrack /\ ~d.onPitRoad) /\ stopping' = OnPit(d)
          /\ button' \in Buttons
          /\ timers' = (IF Applies(d) THEN TimersOn(button) ELSE timers)
          /\ timers' <= MaxTimers
          /\ label' = (IF OnPit(d) \/ ~Pressed(d, now).isOffPitRoadState
                       THEN drawApplyButton(button', d.onTrack, OnPit(d))
                       ELSE IF Redrawn(d, other)
                            THEN drawApplyButton(button, d.onTrack, stopping) ELSE label)
          /\ inSim' = (IF Applies(d) THEN {now}
                       ELSE IF stopping /\ ~OnPit(d) THEN {} ELSE inSim)
          /\ UNCHANGED <<auto, socket>>
    BY <1>1, MessageFacts
  <2>2. /\ data' \in [onTrack : BOOLEAN, onPitRoad : BOOLEAN, fast : BOOLEAN]
        /\ racing' \in BOOLEAN /\ stopping' \in BOOLEAN
        /\ d.onTrack \in BOOLEAN /\ OnPit(d) \in BOOLEAN
    BY <2>1 DEF Datas, OnPit
  <2>3. label' \in Labels
    BY <2>1, <2>2, LabelTypes
  <2>4. timers' \in 0 .. MaxTimers
    BY <2>1, ButtonFacts DEF TimersOn
  <2>5. \A s \in inSim' : s \in Settings
    BY <2>1
  <2> QED BY <2>1, <2>2, <2>3, <2>4, <2>5
<1>2. CASE irPitCrew_onSendButton
  <2>1. button' \in Buttons
    BY <1>2, ButtonTypes DEF irPitCrew_onSendButton
  <2>2. label' \in Labels
    BY <1>2, <2>1, LabelTypes DEF irPitCrew_onSendButton
  <2>3. timers' \in 0 .. MaxTimers
    BY <1>2, ButtonFacts DEF irPitCrew_onSendButton, TimersOn
  <2> QED BY <1>2, <2>1, <2>2, <2>3 DEF irPitCrew_onSendButton
<1>3. CASE onAutoButton
  BY <1>3 DEF onAutoButton
<1>4. ASSUME NEW s \in Settings, ChangeSettings(s) PROVE RoadTypeOK'
  BY <1>4 DEF ChangeSettings
<1>5. CASE applyFlashIntervalCallback
  <2> DEFINE ends == button.count + 1 >= FlashCount
             b == [button EXCEPT !.flashing = ~ends, !.count = IF ends THEN 1 ELSE @ + 1]
  <2>1. button.count \in 0 .. FlashCount - 1
    BY DEF Buttons
  <2>2. (IF ends THEN 1 ELSE button.count + 1) \in 0 .. FlashCount - 1 /\ ends \in BOOLEAN
    BY <2>1, ButtonFacts
  <2>3. b \in Buttons
    BY <2>2 DEF Buttons
  <2>4. /\ timers > 0
        /\ timers' = (IF button.flashing /\ ~ends THEN timers ELSE timers - 1)
        /\ button' = (IF button.flashing THEN b ELSE button)
        /\ label' = (IF button.flashing THEN drawApplyButton(b, data.onTrack, stopping)
                     ELSE label)
        /\ UNCHANGED <<data, settings, racing, stopping, auto, socket, inSim>>
    BY <1>5 DEF applyFlashIntervalCallback
  <2> HIDE DEF b, ends
  <2>5. label' \in Labels /\ button' \in Buttons
    BY <2>3, <2>4, LabelTypes
  <2>6. timers' \in 0 .. MaxTimers
    BY <2>4, ButtonFacts
  <2> QED BY <2>4, <2>5, <2>6
<1>6. CASE SocketChanges
  BY <1>6 DEF SocketChanges
<1>7. CASE LoadPage
  <2>1. data' \in Datas /\ settings' \in Settings /\ button' \in Buttons
        /\ timers' \in 0 .. MaxTimers
    BY <1>7, ButtonFacts DEF LoadPage
  <2>2. label' \in Labels
    BY <1>7 DEF LoadPage, Labels
  <2> QED BY <1>7, <2>1, <2>2 DEF LoadPage, Datas
<1>8. CASE UNCHANGED roadVars
  BY <1>8 DEF roadVars
<1> QED BY <1>1, <1>2, <1>3, <1>4, <1>5, <1>6, <1>7, <1>8 DEF RoadNext

\* Every variable keeps its type: in particular the flashing ends at its count.
THEOREM RoadTypeCorrect == RoadSpec => []RoadTypeOK
BY RoadTypeInit, RoadTypeStep, PTL DEF RoadSpec

-------------------------------------------------------------------------------
(***************************************************************************)
(* What is drawn.                                                          *)
(***************************************************************************)

\* The two flags are those of the last message, and the button knows of leaving pit
\* road.
PageInv ==
  /\ racing = (data.onTrack /\ ~data.onPitRoad)
  /\ stopping = (data.onTrack /\ data.onPitRoad)
  /\ button.isOffPitRoadState => ~stopping

LEMMA PageStep == RoadTypeOK /\ PageInv /\ [RoadNext]_roadVars => PageInv'
<1> SUFFICES ASSUME RoadTypeOK, PageInv, [RoadNext]_roadVars PROVE PageInv'
  OBVIOUS
<1>1. CASE Message
  <2>1. PICK d \in Datas, fuel \in 0 .. MaxFuel, full \in BOOLEAN :
          LET now == Now(fuel, full) IN
          /\ data' = d /\ racing' = (d.onTrack /\ ~d.onPitRoad) /\ stopping' = OnPit(d)
          /\ Pressed(d, now) \in Buttons /\ button' = Updated(d, now)
    BY <1>1, MessageFacts
  <2>2. OnPit(d) => ~button'.isOffPitRoadState
    BY <2>1 DEF Updated, UpdatePitRoadAppliedState, Buttons
  <2> QED BY <2>1, <2>2 DEF PageInv, OnPit
<1>2. CASE irPitCrew_onSendButton
  <2>1. button'.isOffPitRoadState = button.isOffPitRoadState
    BY <1>2 DEF irPitCrew_onSendButton, SetOnPitRoadState, RoadTypeOK, Buttons
  <2> QED BY <1>2, <2>1 DEF irPitCrew_onSendButton, PageInv
<1>3. CASE onAutoButton \/ SocketChanges \/ UNCHANGED roadVars
  BY <1>3 DEF onAutoButton, SocketChanges, roadVars, PageInv
<1>4. ASSUME NEW s \in Settings, ChangeSettings(s) PROVE PageInv'
  BY <1>4 DEF ChangeSettings, PageInv
<1>5. CASE applyFlashIntervalCallback
  <2>1. button'.isOffPitRoadState = button.isOffPitRoadState
    BY <1>5 DEF applyFlashIntervalCallback, RoadTypeOK, Buttons
  <2> QED BY <1>5, <2>1 DEF applyFlashIntervalCallback, PageInv
<1>6. CASE LoadPage
  BY <1>6 DEF LoadPage, PageInv, NoData, InitialButton
<1> QED BY <1>1, <1>2, <1>3, <1>4, <1>5, <1>6 DEF RoadNext

LEMMA LabelStep == RoadTypeOK /\ PageInv /\ LabelIsCurrent /\ [RoadNext]_roadVars => LabelIsCurrent'
<1> SUFFICES ASSUME RoadTypeOK, PageInv, LabelIsCurrent, [RoadNext]_roadVars PROVE LabelIsCurrent'
  OBVIOUS
<1> USE DEF RoadTypeOK
<1>1. CASE Message
  <2>1. PICK d \in Datas, fuel \in 0 .. MaxFuel, full \in BOOLEAN, other \in BOOLEAN :
          LET now == Now(fuel, full) IN
          /\ data' = d /\ stopping' = OnPit(d)
          /\ button' = Updated(d, now) /\ button' \in Buttons
          /\ label' = (IF OnPit(d) \/ ~Pressed(d, now).isOffPitRoadState
                       THEN drawApplyButton(button', d.onTrack, OnPit(d))
                       ELSE IF Redrawn(d, other)
                            THEN drawApplyButton(button, d.onTrack, stopping) ELSE label)
    BY <1>1, MessageFacts
  <2>2. d.onTrack \in BOOLEAN /\ OnPit(d) \in BOOLEAN
    BY DEF Datas, OnPit
  <2> DEFINE now == Now(fuel, full)
  <2>3. CASE OnPit(d) \/ ~Pressed(d, now).isOffPitRoadState
    <3>1. label' = drawApplyButton(button', d.onTrack, OnPit(d))
      BY <2>1, <2>3
    <3> QED BY <2>1, <2>2, <3>1, LabelTypes DEF LabelIsCurrent
  <2>4. CASE ~OnPit(d) /\ Pressed(d, now).isOffPitRoadState
    <3>1. ~Applies(d)
      BY <2>4 DEF Applies, checkIsEnteringPitRoad, OnPit
    <3>2. button.isOffPitRoadState /\ button' = button
      BY <2>1, <2>4, <3>1 DEF Pressed, Updated, SetOffPitRoadState
    <3>3. ~stopping /\ ~stopping'
      BY <2>1, <2>4, <3>2 DEF PageInv
    <3>4. CASE Redrawn(d, other)
      <4>1. label' = drawApplyButton(button, d.onTrack, stopping)
        BY <2>1, <2>4, <3>4
      <4> QED BY <2>1, <2>2, <3>2, <3>3, <4>1, LabelTypes DEF LabelIsCurrent
    <3>5. CASE ~Redrawn(d, other)
      <4>1. label' = label /\ d.onTrack = data.onTrack
        BY <2>1, <2>4, <3>5 DEF Redrawn
      <4> QED BY <2>1, <3>2, <3>3, <4>1 DEF LabelIsCurrent
    <3> QED BY <3>4, <3>5
  <2> QED BY <2>3, <2>4
<1>2. CASE irPitCrew_onSendButton
  <2>1. button' \in Buttons /\ UNCHANGED <<data, stopping>> /\ data.onTrack
    BY <1>2, ButtonTypes DEF irPitCrew_onSendButton
  <2>2. CASE button.flashing
    <3>1. label' = label /\ button'.flashing
      BY <1>2, <2>2 DEF irPitCrew_onSendButton, SetOnPitRoadState, Buttons
    <3> QED BY <2>1, <3>1 DEF LabelIsCurrent
  <2>3. CASE ~button.flashing
    <3>1. label' = drawApplyButton(button', data.onTrack, stopping)
      BY <1>2, <2>3 DEF irPitCrew_onSendButton
    <3> QED BY <2>1, <3>1, LabelTypes DEF LabelIsCurrent
  <2> QED BY <2>2, <2>3
<1>3. CASE onAutoButton \/ SocketChanges \/ UNCHANGED roadVars
  BY <1>3 DEF onAutoButton, SocketChanges, roadVars, LabelIsCurrent
<1>4. ASSUME NEW s \in Settings, ChangeSettings(s) PROVE LabelIsCurrent'
  BY <1>4 DEF ChangeSettings, LabelIsCurrent
<1>5. CASE applyFlashIntervalCallback
  <2>1. button' \in Buttons
    BY <1>5, RoadTypeStep
  <2>2. CASE button.flashing
    <3>1. /\ label' = drawApplyButton(button', data.onTrack, stopping)
          /\ UNCHANGED <<data, stopping>>
      BY <1>5, <2>2 DEF applyFlashIntervalCallback
    <3> QED BY <2>1, <3>1, LabelTypes DEF LabelIsCurrent
  <2>3. CASE ~button.flashing
    <3>1. UNCHANGED <<label, button, data, stopping>>
      BY <1>5, <2>3 DEF applyFlashIntervalCallback
    <3> QED BY <3>1 DEF LabelIsCurrent
  <2> QED BY <2>2, <2>3
<1>6. CASE LoadPage
  BY <1>6 DEF LoadPage, LabelIsCurrent, NoData
<1> QED BY <1>1, <1>2, <1>3, <1>4, <1>5, <1>6 DEF RoadNext

LEMMA DrawnInit == RoadInit => PageInv /\ LabelIsCurrent
<1> SUFFICES ASSUME RoadInit PROVE PageInv /\ LabelIsCurrent
  OBVIOUS
<1>1. ~data.onTrack /\ ~data.onPitRoad /\ label = "disabled" /\ racing = FALSE /\ stopping = FALSE
  BY DEF RoadInit, NoData
<1> QED BY <1>1 DEF PageInv, LabelIsCurrent

\* Although the button is drawn only now and then, it is grey just when the car is not
\* on track, and green or yellow only on pit road.
THEOREM DrawnIsCurrent == RoadSpec => []LabelIsCurrent
<1>1. RoadTypeOK /\ PageInv /\ LabelIsCurrent /\ [RoadNext]_roadVars => (RoadTypeOK /\ PageInv /\ LabelIsCurrent)'
  BY RoadTypeStep, PageStep, LabelStep
<1> QED BY <1>1, RoadTypeInit, DrawnInit, PTL DEF RoadSpec

\* The automatic apply comes each time the car drives onto pit road at speed and never
\* else, and sends what is displayed after the message.
THEOREM AppliesOnEntry == RoadSpec => AutoApplies
<1>1. RoadTypeOK /\ PageInv /\ [RoadNext]_roadVars =>
        [Message => IF DrivesIn /\ auto THEN inSim' = {settings'} ELSE inSim' \subseteq inSim]_roadVars
  <2> SUFFICES ASSUME RoadTypeOK, PageInv, Message
               PROVE  IF DrivesIn /\ auto THEN inSim' = {settings'} ELSE inSim' \subseteq inSim
    OBVIOUS
  <2>1. PICK d \in Datas, fuel \in 0 .. MaxFuel, full \in BOOLEAN :
          LET now == Now(fuel, full) IN
          /\ data' = d /\ settings' = now
          /\ inSim' = (IF Applies(d) THEN {now}
                       ELSE IF stopping /\ ~OnPit(d) THEN {} ELSE inSim)
    BY MessageFacts
  <2>2. Applies(d) <=> DrivesIn /\ auto
    BY <2>1 DEF Applies, checkIsEnteringPitRoad, DrivesIn, PageInv
  <2> QED BY <2>1, <2>2
<1>2. RoadTypeOK /\ PageInv /\ [RoadNext]_roadVars => (RoadTypeOK /\ PageInv)'
  BY RoadTypeStep, PageStep
<1> QED BY <1>1, <1>2, RoadTypeInit, DrawnInit, PTL DEF RoadSpec, AutoApplies

-------------------------------------------------------------------------------
(***************************************************************************)
(* Green means sent.                                                       *)
(***************************************************************************)

\* What the button remembers is what was sent last, and while it flashes it is what is
\* displayed.
SentInv ==
  /\ button.flashing => settings = button.last /\ button.lastStr # NotApplied
  /\ button.lastStr # NotApplied =>
       inSim = {button.last} /\ button.lastStr = FuelToAddStr(button.last)

LEMMA SentStep ==
  ASSUME Reliable, Settled
  PROVE  RoadTypeOK /\ PageInv /\ SentInv /\ [RoadNext]_roadVars => SentInv'
<1> SUFFICES ASSUME RoadTypeOK, PageInv, SentInv, [RoadNext]_roadVars PROVE SentInv'
  OBVIOUS
<1> USE DEF RoadTypeOK
<1>1. CASE Message
  <2>1. PICK d \in Datas, fuel \in 0 .. MaxFuel, full \in BOOLEAN :
          LET now == Now(fuel, full) IN
          /\ now \in Settings
          /\ Settled /\ button.flashing => now = settings
          /\ settings' = now
          /\ Pressed(d, now) \in Buttons /\ button' = Updated(d, now)
          /\ inSim' = (IF Applies(d) THEN {now}
                       ELSE IF stopping /\ ~OnPit(d) THEN {} ELSE inSim)
    BY <1>1, MessageFacts
  <2> DEFINE now == Now(fuel, full)
             b == Pressed(d, now)
  <2>2. /\ b.flashing => now = b.last /\ b.lastStr # NotApplied
        /\ b.lastStr # NotApplied => b.lastStr = FuelToAddStr(b.last)
        /\ Applies(d) => b.lastStr # NotApplied /\ b.last = now
    <3>1. CASE Applies(d) /\ button.flashing
      BY <2>1, <3>1 DEF Pressed, SetOnPitRoadState, SentInv, Buttons
    <3>2. CASE Applies(d) /\ ~button.flashing
      BY <2>1, <3>2, ButtonFacts DEF Pressed, SetOnPitRoadState, Buttons
    <3>3. CASE ~Applies(d)
      BY <2>1, <3>3 DEF Pressed, SentInv
    <3> QED BY <3>1, <3>2, <3>3
  <2>3. Applies(d) => OnPit(d)
    BY DEF Applies, checkIsEnteringPitRoad, OnPit
  <2>4. ~Applies(d) => b = button
    BY DEF Pressed
  <2>5. b \in Buttons
    BY <2>1
  <2> HIDE DEF now, b
  <2>6. CASE OnPit(d)
    <3>1. /\ button'.flashing = b.flashing /\ button'.last = b.last
          /\ button'.lastStr = b.lastStr
      BY <2>1, <2>5, <2>6 DEF Updated, UpdatePitRoadAppliedState, Buttons, b, now
    <3>2. settings' = now /\ inSim' = (IF Applies(d) THEN {now} ELSE inSim)
      BY <2>1, <2>6 DEF now
    <3>3. b.lastStr # NotApplied => inSim' = {b.last}
      BY <2>2, <2>4, <3>2 DEF SentInv
    <3> QED BY <2>2, <3>1, <3>2, <3>3 DEF SentInv
  <2>7. CASE ~OnPit(d)
    <3>1. b = button /\ settings' = now
          /\ inSim' = (IF stopping THEN {} ELSE inSim) /\ button' = SetOffPitRoadState(button)
      BY <2>1, <2>3, <2>4, <2>7 DEF now, Updated, b
    <3>2. CASE button.isOffPitRoadState
      <4>1. button' = button /\ inSim' = inSim
        BY <3>1, <3>2 DEF SetOffPitRoadState, PageInv
      <4> QED BY <2>2, <3>1, <4>1 DEF SentInv
    <3>3. CASE ~button.isOffPitRoadState
      <4>1. ~button'.flashing /\ button'.lastStr = NotApplied
        BY <3>1, <3>3 DEF SetOffPitRoadState, Buttons
      <4> QED BY <4>1 DEF SentInv
    <3> QED BY <3>2, <3>3
  <2> QED BY <2>6, <2>7
<1>2. CASE irPitCrew_onSendButton
  <2>1. inSim' = {settings} /\ settings' = settings
        /\ button' = SetOnPitRoadState(button, settings)
    BY <1>2 DEF irPitCrew_onSendButton
  <2>2. CASE button.flashing
    <3>1. /\ button'.flashing /\ button'.last = button.last /\ button'.lastStr = button.lastStr
      BY <2>1, <2>2 DEF SetOnPitRoadState, Buttons
    <3> QED BY <2>1, <2>2, <3>1 DEF SentInv
  <2>3. CASE ~button.flashing
    <3>1. button'.last = settings /\ button'.lastStr = FuelToAddStr(settings)
      BY <2>1, <2>3 DEF SetOnPitRoadState, Buttons
    <3> QED BY <2>1, <3>1, ButtonFacts DEF SentInv
  <2> QED BY <2>2, <2>3
<1>3. CASE onAutoButton \/ SocketChanges \/ UNCHANGED roadVars
  BY <1>3 DEF onAutoButton, SocketChanges, roadVars, SentInv
<1>4. ASSUME NEW s \in Settings, ChangeSettings(s) PROVE SentInv'
  BY <1>4 DEF ChangeSettings, SentInv
<1>5. CASE applyFlashIntervalCallback
  <2>1. /\ button'.flashing => button.flashing
        /\ button'.last = button.last /\ button'.lastStr = button.lastStr
        /\ UNCHANGED <<settings, inSim>>
    BY <1>5 DEF applyFlashIntervalCallback, Buttons
  <2> QED BY <2>1 DEF SentInv
<1>6. CASE LoadPage
  BY <1>6 DEF LoadPage, SentInv, InitialButton
<1> QED BY <1>1, <1>2, <1>3, <1>4, <1>5, <1>6 DEF RoadNext

\* When the driver applies with an open websocket only, and changes nothing while the
\* button flashes, green means that what is displayed has been sent for this stop.
THEOREM GreenIsSent ==
  ASSUME Reliable, Settled
  PROVE  RoadSpec => AppliedMeansSent
<1>1. RoadTypeOK /\ PageInv /\ LabelIsCurrent /\ SentInv /\ [RoadNext]_roadVars =>
        [Message /\ label' = "applied" => \E s \in inSim' : Agree(settings', s)]_roadVars
  <2> SUFFICES ASSUME RoadTypeOK, PageInv, LabelIsCurrent, SentInv, [RoadNext]_roadVars, Message,
                      label' = "applied"
               PROVE  \E s \in inSim' : Agree(settings', s)
    OBVIOUS
  <2>1. stopping' /\ SentInv'
    BY LabelStep, SentStep DEF LabelIsCurrent
  <2>2. PICK d \in Datas, fuel \in 0 .. MaxFuel, full \in BOOLEAN :
          LET now == Now(fuel, full) IN
          /\ now \in Settings /\ settings' = now /\ stopping' = OnPit(d)
          /\ Pressed(d, now) \in Buttons /\ button' = Updated(d, now) /\ button' \in Buttons
          /\ OnPit(d) => label' = drawApplyButton(button', d.onTrack, OnPit(d))
    BY MessageFacts
  <2> DEFINE now == Now(fuel, full)
             b == Pressed(d, now)
  <2>3. OnPit(d) /\ d.onTrack \in BOOLEAN
    BY <2>1, <2>2 DEF Datas
  <2>4. button'.applied
    BY <2>2, <2>3, LabelTypes
  <2>5. button' = UpdatePitRoadAppliedState(b, now) /\ b \in Buttons
    BY <2>2, <2>3 DEF Updated
  <2> HIDE DEF now, b
  <2>6. /\ button'.last = b.last /\ button'.lastStr = b.lastStr
        /\ b.lastStr # NotApplied /\ now.tires = b.last.tires
        /\ \/ FuelToAddStr(now) = b.lastStr \/ Tolerance = 0
           \/ Distance(now.fuel, b.last.fuel) <= Tolerance
    BY <2>4, <2>5 DEF UpdatePitRoadAppliedState, Buttons
  <2>7. inSim' = {b.last} /\ b.lastStr = FuelToAddStr(b.last) /\ settings' = now
    BY <2>1, <2>2, <2>6 DEF SentInv, now
  <2> QED BY <2>6, <2>7 DEF Agree
<1>2. RoadTypeOK /\ PageInv /\ LabelIsCurrent /\ SentInv /\ [RoadNext]_roadVars =>
        (RoadTypeOK /\ PageInv /\ LabelIsCurrent /\ SentInv)'
  BY RoadTypeStep, PageStep, LabelStep, SentStep
<1>3. RoadInit => SentInv
  BY DEF RoadInit, SentInv, InitialButton
<1> QED BY <1>1, <1>2, <1>3, RoadTypeInit, DrawnInit, PTL DEF RoadSpec, AppliedMeansSent

===============================================================================
