------------------------------ MODULE PitCommand ------------------------------
(***************************************************************************)
(* A pit command's way from the page to the simulator's pit boxes: the     *)
(* page sends its settings over the websocket, the web-server thread puts  *)
(* them in a mailbox for one message, and the main loop takes the mailbox  *)
(* at the end of its data branch, converts the fuel to litres and sends    *)
(* the simulator one broadcast for every box.                              *)
(*                                                                         *)
(* A broadcast is posted to the simulator's window, which handles them in  *)
(* order: it is modelled as done when it is posted.  The text of a command *)
(* and its parsing are abstracted to a record.                             *)
(***************************************************************************)
EXTENDS PitSettings, Sequences

CONSTANTS
  Services,   \* Windshield, FastRepair
  Units,      \* display units of fuel: a conversion factor each
  Litres,     \* whole litres for an amount in display units
  OneConnection, \* nothing is left of an old connection when a new one is established
  MaxSent     \* bound: commands sent in all

Boxes == Tires \cup Services

ASSUME PitCommandAssumption ==
  /\ Tires \cap Services = {}
  /\ Units # {}
  /\ MaxSent \in Nat
  /\ Litres \in [Units -> [0 .. MaxFuel -> Nat]]
  /\ \A u \in Units : Litres[u][0] = 0
  /\ OneConnection \in BOOLEAN

\* "unit" is a history: what the page showed when the command was sent.
Commands == [id : 1 .. MaxSent, fuel : 0 .. MaxFuel, boxes : SUBSET Boxes, unit : Units]
NoCommand == [id |-> 0, fuel |-> 0, boxes |-> {}, unit |-> CHOOSE u \in Units : TRUE]

\* Broadcasts still to be posted for a command.
Todos == [clear : BOOLEAN, boxes : SUBSET Boxes, litres : Nat]
Nothing == [clear |-> FALSE, boxes |-> {}, litres |-> 0]

VARIABLES
  page,       \* what the page knows: isOnTrackBool and the units of fuel
  connected,  \* the websocket is open
  wire,       \* commands on the websocket
  late,       \* commands of an abandoned websocket that will still be read
  mailbox,    \* SharedData::m_fuelMessage
  inSession,  \* data != NULL
  unit,       \* g_FuelDisplayConversionFactor
  skipClear,  \* g_isSkipClearOnApply
  todo,       \* the main loop is in handlePitCommandMessage
  sim,        \* the simulator: driver on track, boxes checked, litres to add
  sent,       \* history: commands sent
  received,   \* history: the last command put in the mailbox
  taken,      \* history: the command taken last by this process, with its litres
  done,       \* history: the number of the last command taken by any process
  carried,    \* history: how many commands have been taken
  touched     \* history: the driver or the simulator changed the boxes since then

ledger == <<sent, received, done, carried>>
hist == <<ledger, taken, touched>>
links == <<connected, wire, late>>
vars == <<page, links, mailbox, inSession, unit, skipClear, todo, sim, hist>>

Sims == [onTrack : BOOLEAN, boxes : SUBSET Boxes, litres : Nat]

TypeOK ==
  /\ page \in [onTrack : BOOLEAN, unit : Units]
  /\ connected \in BOOLEAN /\ inSession \in BOOLEAN
  /\ wire \in Seq(Commands) /\ late \in Seq(Commands)
  /\ mailbox \in Commands \cup {NoCommand}
  /\ unit \in Units /\ skipClear \in BOOLEAN
  /\ todo \in Todos
  /\ sim \in Sims
  /\ sent \in 0 .. MaxSent /\ received \in 0 .. MaxSent /\ done \in 0 .. MaxSent
  /\ carried \in Nat
  /\ taken \in [id : 0 .. MaxSent, boxes : SUBSET Boxes, litres : Nat]
  /\ touched \in BOOLEAN

NotTaken == [id |-> 0, boxes |-> {}, litres |-> 0]

Init ==
  /\ page \in [onTrack : {FALSE}, unit : Units]
  /\ connected = FALSE
  /\ wire = <<>> /\ late = <<>>
  /\ mailbox = NoCommand
  /\ inSession = FALSE
  /\ unit \in Units /\ skipClear \in BOOLEAN
  /\ todo = Nothing
  /\ sim = [onTrack |-> FALSE, boxes |-> {}, litres |-> 0]
  /\ sent = 0 /\ received = 0 /\ done = 0 /\ carried = 0
  /\ taken = NotTaken
  /\ touched = FALSE

-------------------------------------------------------------------------------
(***************************************************************************)
(* The page.                                                               *)
(***************************************************************************)

Connect ==
  /\ ~connected
  /\ OneConnection => late = <<>>
  /\ connected' = TRUE
  /\ UNCHANGED <<page, wire, late, mailbox, inSession, unit, skipClear, todo, sim, hist>>

\* The page closes its websocket, or the network does. What was sent before arrives
\* up to some command; the rest is lost. (Of several abandoned websockets one still
\* delivers.)
Disconnect ==
  /\ connected
  /\ connected' = FALSE
  /\ wire' = <<>>
  /\ \/ late' = late
     \/ \E n \in 0 .. Len(wire) : late' = SubSeq(wire, 1, n)
  /\ UNCHANGED <<page, mailbox, inSession, unit, skipClear, todo, sim, hist>>

\* The page gets what the main loop publishes, some time later.
UpdatePage ==
  /\ connected
  /\ inSession
  /\ page' = [onTrack |-> sim.onTrack, unit |-> unit]
  /\ UNCHANGED <<links, mailbox, inSession, unit, skipClear, todo, sim, hist>>

\* The Apply button, or the automatic apply. The amount to add is below zero when
\* there is more in the tank than is required. A websocket that is not open sends
\* nothing.
onSendButton(fuelToAdd, boxes) ==
  /\ page.onTrack
  /\ sent < MaxSent
  /\ sent' = sent + 1
  /\ LET fuel == IF fuelToAdd > 0 THEN fuelToAdd ELSE 0
     IN  wire' = IF connected
                 THEN Append(wire, [id |-> sent + 1, fuel |-> fuel, boxes |-> boxes,
                                    unit |-> page.unit])
                 ELSE wire
  /\ UNCHANGED <<page, connected, late, mailbox, inSession, unit, skipClear, todo, sim,
                 received, taken, done, carried, touched>>

-------------------------------------------------------------------------------
(***************************************************************************)
(* The web-server thread.                                                  *)
(***************************************************************************)

\* The mailbox has the command that was read last.
setFuelMessage(command) ==
  /\ mailbox' = command
  /\ received' = command.id
  /\ UNCHANGED <<page, connected, inSession, unit, skipClear, todo, sim, sent, done, carried, taken,
                 touched>>

Receive ==
  \/ wire # <<>> /\ wire' = Tail(wire) /\ late' = late /\ setFuelMessage(Head(wire))
  \/ late # <<>> /\ late' = Tail(late) /\ wire' = wire /\ setFuelMessage(Head(late))

-------------------------------------------------------------------------------
(***************************************************************************)
(* The main loop.                                                          *)
(***************************************************************************)

AtTop == todo = Nothing

\* The header branch reads the configuration again: another car may show its fuel in
\* other units, and the user may have changed whether the clear is skipped. The
\* simulator's boxes are those of a new session.
NewHeader(u) ==
  /\ AtTop
  /\ inSession' = TRUE
  /\ unit' = u
  /\ skipClear' \in BOOLEAN
  /\ \E s \in [onTrack : BOOLEAN, boxes : SUBSET Boxes, litres : {0}] : sim' = s
  /\ touched' = TRUE
  /\ UNCHANGED <<page, links, mailbox, todo, ledger, taken>>

\* The simulator is closed: data = NULL.
SimGone ==
  /\ AtTop
  /\ inSession
  /\ inSession' = FALSE
  /\ UNCHANGED <<page, links, mailbox, unit, skipClear, todo, sim, hist>>

\* Broken variants: the boxes are never cleared; they are cleared in spite of the
\* configuration.
ClearNever == FALSE
ClearAlways == TRUE

\* The clear is sent first unless the configuration says to skip it.
ClearFirst == ~skipClear

\* Broken variant: the mailbox is read and not cleared (SharedData.cpp:90).
TakeMessageAgain ==
  /\ AtTop
  /\ inSession
  /\ mailbox # NoCommand
  /\ LET litres == Litres[unit][mailbox.fuel]
     IN  /\ todo' = [clear |-> ClearFirst, boxes |-> mailbox.boxes, litres |-> litres]
         /\ taken' = [id |-> mailbox.id, boxes |-> mailbox.boxes, litres |-> litres]
  /\ done' = mailbox.id /\ carried' = carried + 1
  /\ touched' = FALSE
  /\ UNCHANGED <<page, links, mailbox, inSession, unit, skipClear, sim, sent, received>>

\* Broken variant: a command waits until the driver is in the car.
TakeMessageOnTrack ==
  /\ AtTop
  /\ inSession /\ sim.onTrack
  /\ mailbox # NoCommand
  /\ mailbox' = NoCommand
  /\ LET litres == Litres[unit][mailbox.fuel]
     IN  /\ todo' = [clear |-> ClearFirst, boxes |-> mailbox.boxes, litres |-> litres]
         /\ taken' = [id |-> mailbox.id, boxes |-> mailbox.boxes, litres |-> litres]
  /\ done' = mailbox.id /\ carried' = carried + 1
  /\ touched' = FALSE
  /\ UNCHANGED <<page, links, inSession, unit, skipClear, sim, sent, received>>

\* The end of the data branch: getFuelMessage empties the mailbox, and the command
\* is converted by the units of the session.
TakeMessage ==
  /\ AtTop
  /\ inSession
  /\ mailbox # NoCommand
  /\ mailbox' = NoCommand
  /\ LET litres == Litres[unit][mailbox.fuel]
     IN  /\ todo' = [clear |-> ClearFirst, boxes |-> mailbox.boxes, litres |-> litres]
         /\ taken' = [id |-> mailbox.id, boxes |-> mailbox.boxes, litres |-> litres]
  /\ done' = mailbox.id /\ carried' = carried + 1
  /\ touched' = FALSE
  /\ UNCHANGED <<page, links, inSession, unit, skipClear, sim, sent, received>>

\* irsdk_PitCommand_Clear unchecks everything.
BroadcastClear ==
  /\ todo.clear
  /\ todo' = [todo EXCEPT !.clear = FALSE]
  /\ sim' = [sim EXCEPT !.boxes = {}, !.litres = 0]
  /\ touched' = FALSE
  /\ UNCHANGED <<page, links, mailbox, inSession, unit, skipClear, ledger, taken>>

\* The services come before the fuel, the fuel before the tires.
BroadcastBox(b) ==
  /\ ~todo.clear
  /\ b \in todo.boxes
  /\ b \in Tires => todo.boxes \cap Services = {} /\ todo.litres = 0
  /\ todo' = [todo EXCEPT !.boxes = @ \ {b}]
  /\ sim' = [sim EXCEPT !.boxes = @ \cup {b}]
  /\ UNCHANGED <<page, links, mailbox, inSession, unit, skipClear, hist>>

\* Broken variant: fuel is added even when there is some already.
BroadcastFuelAdds ==
  /\ ~todo.clear
  /\ todo.boxes \cap Services = {}
  /\ todo.litres > 0
  /\ todo' = [todo EXCEPT !.litres = 0]
  /\ sim' = [sim EXCEPT !.litres = @ + todo.litres]
  /\ UNCHANGED <<page, links, mailbox, inSession, unit, skipClear, hist>>

\* No broadcast for no fuel: 0 litres would leave the last amount checked.
BroadcastFuel ==
  /\ ~todo.clear
  /\ todo.boxes \cap Services = {}
  /\ todo.litres > 0
  /\ todo' = [todo EXCEPT !.litres = 0]
  /\ sim' = [sim EXCEPT !.litres = todo.litres]
  /\ UNCHANGED <<page, links, mailbox, inSession, unit, skipClear, hist>>

\* The process is closed at any moment, between two broadcasts too, and started
\* again.
Restart ==
  /\ connected' = FALSE /\ wire' = <<>> /\ late' = <<>>
  /\ mailbox' = NoCommand
  /\ inSession' = FALSE
  /\ todo' = Nothing
  /\ taken' = NotTaken
  /\ UNCHANGED <<page, unit, skipClear, sim, ledger, touched>>

-------------------------------------------------------------------------------
(***************************************************************************)
(* The simulator and its driver.                                           *)
(***************************************************************************)

\* The driver gets in or out of the car.
DriverMoves ==
  /\ inSession
  /\ sim' = [sim EXCEPT !.onTrack = ~@]
  /\ UNCHANGED <<page, links, mailbox, inSession, unit, skipClear, todo, hist>>

\* The driver changes a box in the simulator, or the pit stop unchecks it.
DriverTouches(b) ==
  /\ inSession
  /\ sim' = [sim EXCEPT !.boxes = IF b \in @ THEN @ \ {b} ELSE @ \cup {b}]
  /\ touched' = TRUE
  /\ UNCHANGED <<page, links, mailbox, inSession, unit, skipClear, todo, ledger, taken>>

-------------------------------------------------------------------------------
Page ==
  \/ Connect \/ Disconnect \/ UpdatePage
  \/ \E fuelToAdd \in -1 .. MaxFuel, boxes \in SUBSET Boxes : onSendButton(fuelToAdd, boxes)

handlePitCommandMessage ==
  BroadcastClear \/ BroadcastFuel \/ \E b \in Boxes : BroadcastBox(b)

MainLoop ==
  \/ \E u \in Units : NewHeader(u)
  \/ SimGone
  \/ TakeMessage
  \/ handlePitCommandMessage

Driver == DriverMoves \/ \E b \in Boxes : DriverTouches(b)

Next == Page \/ Receive \/ MainLoop \/ Restart \/ Driver

Spec == Init /\ [][Next]_vars

\* The web-server thread polls its sockets and the main loop takes the mailbox on
\* every tick of a running session. Nobody else is under an obligation.
Fairness ==
  /\ WF_vars(Receive)
  /\ WF_vars(TakeMessage)
  /\ WF_vars(handlePitCommandMessage)

FairSpec == Spec /\ Fairness

-------------------------------------------------------------------------------
(***************************************************************************)
(* Properties                                                              *)
(***************************************************************************)

\* When the main loop is through with a command and nobody else has touched the
\* boxes, what it asked for is checked in the simulator; and unless the clear is
\* skipped nothing else is: "If not there, clear it. 0 Fuel means to uncheck fuel
\* and add none." (irplugin.cpp:1411-1412).
AsAsked ==
  taken.id # 0 /\ todo = Nothing /\ ~touched =>
    /\ taken.boxes \subseteq sim.boxes
    /\ taken.litres > 0 => sim.litres = taken.litres
    /\ ~skipClear => sim.boxes = taken.boxes /\ sim.litres = taken.litres

\* With SkipClearOnApply "values currently selected in iRacing will not be unset
\* by irPitCrew" (config.txt): no broadcast unchecks a box or the fuel.
KeepsSelected ==
  [][skipClear /\ handlePitCommandMessage =>
       sim.boxes \subseteq sim'.boxes /\ (sim.litres > 0 => sim'.litres > 0)]_vars

\* "Auto apply will set the currently diplayed pit settings to iRacing"
\* (README.md): the fuel of a command is converted by the units it was shown in.
\* With two units the code does not keep it: a command of the last session is
\* converted by the factor of the next one (irplugin.cpp:1161).
UnitsAsShown ==
  [][mailbox # NoCommand /\ todo = Nothing /\ todo' # Nothing => mailbox.unit = unit]_vars

\* "Auto apply will set the currently diplayed pit settings to iRacing"
\* (README.md): an older command is not carried out after a newer one.
\* With two connections the code does not keep it: the mailbox takes whatever is
\* read last (SharedData.cpp:78).
NeverOlder == [][done' >= done]_vars

\* The mailbox and the loops implement orders of which the newest is carried out,
\* once.
PitOrders == INSTANCE PitOrders
ImplementsPitOrders == PitOrders!Spec

\* A command that has arrived is carried out, or a newer one is, while the
\* simulator and the process live.
CarriedOut ==
  \A n \in 1 .. MaxSent :
    mailbox.id = n ~> (done >= n /\ AtTop) \/ ~inSession

===============================================================================
