-------------------------------- MODULE PitRoad --------------------------------
(***************************************************************************)
(* The page's Apply button: how it learns from the telemetry that the car  *)
(* drives onto pit road, applies the settings automatically, flashes, and  *)
(* says by its colour whether what is displayed has been applied.          *)
(*                                                                         *)
(* The page has one thread: every message, click and timer is one step.    *)
(* The settings are the fuel to add and the tires; the speed is known as   *)
(* "fast" or not; the two colours of the flashing are one.  Init, Next and *)
(* the specification are named Road..., so that one module of proofs can   *)
(* extend PitCommand as well.                                              *)
(***************************************************************************)
EXTENDS PitSettings, FiniteSets

CONSTANTS
  Tolerance,  \* half a lap's fuel: a smaller difference is none; 0 if not known
  FlashCount, \* the count at which the flashing ends: 9 in the code
  MaxTimers,  \* bound: timeouts at a time
  Reliable,   \* the websocket is open whenever the driver applies
  Settled     \* the settings do not change while the button flashes

ASSUME PitRoadAssumption ==
  /\ Tolerance \in Nat /\ FlashCount \in Nat \ {0, 1}
  /\ MaxTimers \in Nat \ {0}
  /\ Reliable \in BOOLEAN /\ Settled \in BOOLEAN

\* "full": the amount fills the tank.
Settings == {s \in [fuel : 0 .. MaxFuel, full : BOOLEAN, tires : SUBSET Tires] :
               s.full => s.fuel > 0}
NoSettings == [fuel |-> 0, full |-> FALSE, tires |-> {}]

\* globalData.fuelToAddStr: "None", "Full", an amount, or "NotApplied".
NotApplied == -1
None == 0
Full == MaxFuel + 1
FuelStrs == -1 .. MaxFuel + 1

\* What the button shows: grey, flashing, the default colour, green, yellow.
Labels == {"disabled", "flashing", "apply", "applied", "changed"}

VARIABLES
  data,      \* serverData: isOnTrack, onPitRoad, speed above 5
  settings,  \* what the page displays
  racing,    \* globalData.onTrackRacingBool
  stopping,  \* globalData.onTrackOnPitRoadBool
  auto,      \* autoButtonState
  button,    \* the state of the Apply button, and what was applied last
  timers,    \* timeouts of the flashing that have not come yet
  label,     \* what the button was drawn as last
  socket,    \* the websocket's readyState
  inSim      \* history: the settings sent last, a set; empty after a stop

roadVars == <<data, settings, racing, stopping, auto, button, timers, label, socket, inSim>>

Buttons ==
  [flashing : BOOLEAN, count : 0 .. FlashCount - 1, applied : BOOLEAN, off : BOOLEAN,
   isOffPitRoadState : BOOLEAN, lastStr : FuelStrs, last : Settings]

RoadTypeOK ==
  /\ data \in [onTrack : BOOLEAN, onPitRoad : BOOLEAN, fast : BOOLEAN]
  /\ settings \in Settings
  /\ racing \in BOOLEAN /\ stopping \in BOOLEAN /\ auto \in BOOLEAN
  /\ button \in Buttons
  /\ timers \in 0 .. MaxTimers
  /\ label \in Labels
  /\ socket \in {"connecting", "open", "closed"}
  /\ \A s \in inSim : s \in Settings

InitialButton ==
  [flashing |-> FALSE, count |-> 0, applied |-> FALSE, off |-> TRUE,
   isOffPitRoadState |-> FALSE, lastStr |-> NotApplied, last |-> NoSettings]

NoData == [onTrack |-> FALSE, onPitRoad |-> FALSE, fast |-> FALSE]

RoadInit ==
  /\ data = NoData
  /\ settings = NoSettings
  /\ racing = FALSE /\ stopping = FALSE
  /\ auto = TRUE
  /\ button = InitialButton
  /\ timers = 0
  /\ label = "disabled"
  /\ socket = "connecting"
  /\ inSim = {}

-------------------------------------------------------------------------------
(***************************************************************************)
(* The Apply button.                                                       *)
(***************************************************************************)

\* createFuelToAddString
FuelToAddStr(s) == IF s.fuel = 0 THEN None ELSE IF s.full THEN Full ELSE s.fuel

\* drawApplyButton: what the button is drawn as.
drawApplyButton(b, onTrack, onPit) ==
  CASE ~onTrack -> "disabled"
    [] onTrack /\ b.flashing -> "flashing"
    [] onTrack /\ ~b.flashing /\ (b.off \/ ~onPit) -> "apply"
    [] onTrack /\ ~b.flashing /\ ~b.off /\ onPit ->
         IF b.applied THEN "applied" ELSE "changed"

\* LapsOfFuelIndicator_SetOnPitRoadState: a button that flashes starts counting
\* anew; another one starts flashing and remembers what is applied.
SetOnPitRoadState(b, s) ==
  IF b.flashing
  THEN [b EXCEPT !.count = 1]
  ELSE [b EXCEPT !.flashing = TRUE, !.applied = TRUE, !.off = FALSE, !.count = 1,
                 !.lastStr = FuelToAddStr(s), !.last = s]

\* Broken variant: what was applied last is kept when the car leaves pit road.
SetOffPitRoadStateKeeps(b) ==
  IF b.isOffPitRoadState THEN b
  ELSE [b EXCEPT !.isOffPitRoadState = TRUE, !.flashing = FALSE, !.applied = FALSE,
                 !.off = TRUE, !.count = 1]

\* LapsOfFuelIndicator_SetOffPitRoadState: once, when the car leaves pit road.
SetOffPitRoadState(b) ==
  IF b.isOffPitRoadState THEN b
  ELSE [b EXCEPT !.isOffPitRoadState = TRUE, !.flashing = FALSE, !.applied = FALSE,
                 !.off = TRUE, !.count = 1, !.lastStr = NotApplied]

Distance(m, n) == IF m > n THEN m - n ELSE n - m

\* LapsOfFuelIndicator_UpdatePitRoadAppliedState: on pit road, with every message.
UpdatePitRoadAppliedState(b, s) ==
  LET sameFuel == \/ FuelToAddStr(s) = b.lastStr
                  \/ Tolerance = 0
                  \/ Distance(s.fuel, b.last.fuel) <= Tolerance
  IN  [b EXCEPT !.isOffPitRoadState = FALSE, !.off = FALSE,
                !.applied = b.lastStr # NotApplied /\ sameFuel /\ s.tires = b.last.tires]

\* The timeouts pending after SetOnPitRoadState.
TimersOn(b) == IF b.flashing THEN timers ELSE timers + 1

-------------------------------------------------------------------------------
(***************************************************************************)
(* Messages.                                                               *)
(***************************************************************************)

\* Broken variant: nothing but a change of onPitRoad counts, not where the car was.
EnteringFromGarage(d) == ~data.onPitRoad /\ d.onTrack /\ d.onPitRoad /\ d.fast

\* checkIsEnteringPitRoad: the car was racing, and is on pit road now, at speed: it
\* was not towed there.
checkIsEnteringPitRoad(d) == racing /\ d.onTrack /\ d.onPitRoad /\ d.fast

\* Broken variant: changes of isOnTrack and onPitRoad do not redraw.
RedrawnByOther(d, other) == other

\* LapsOfFuel_UpdateIndicator draws the button if something it shows has changed.
Redrawn(d, other) == d.onTrack # data.onTrack \/ d.onPitRoad # data.onPitRoad \/ other

\* Broken variant: the settings are sent before those that depend on the message
\* are updated.
SettingsSentEarly(now) == settings

\* What the automatic apply sends.
SettingsSent(now) == now

\* onWebSocketMessage. The fuel to add may change with the message; "other" tells
\* whether something else has changed that LapsOfFuel_UpdateIndicator shows.
onWebSocketMessage(d, fuel, full, other) ==
  LET now == [settings EXCEPT !.fuel = fuel, !.full = full]
      drawn == IF Redrawn(d, other)
               THEN drawApplyButton(button, d.onTrack, stopping) ELSE label
      applies == checkIsEnteringPitRoad(d) /\ auto
      onPit == d.onTrack /\ d.onPitRoad
      b == IF applies THEN SetOnPitRoadState(button, now) ELSE button
      last == IF onPit THEN UpdatePitRoadAppliedState(b, now) ELSE SetOffPitRoadState(b)
  IN  /\ socket = "open"
      /\ Settled /\ button.flashing => now = settings
      /\ data' = d
      /\ settings' = now
      /\ racing' = (d.onTrack /\ ~d.onPitRoad)
      /\ stopping' = onPit
      /\ button' = last
      /\ timers' = IF applies THEN TimersOn(button) ELSE timers
      /\ timers' <= MaxTimers
      /\ label' = IF onPit \/ ~b.isOffPitRoadState
                  THEN drawApplyButton(last, d.onTrack, onPit) ELSE drawn
      /\ inSim' = IF applies THEN {SettingsSent(now)}
                  ELSE IF stopping /\ ~onPit THEN {} ELSE inSim
      /\ UNCHANGED <<auto, socket>>

-------------------------------------------------------------------------------
(***************************************************************************)
(* Clicks, timers and the websocket.                                       *)
(***************************************************************************)

\* irPitCrew_onSendButton. A websocket that is not open throws or drops what is
\* sent, when the button flashes already.
irPitCrew_onSendButton ==
  /\ data.onTrack
  /\ Reliable => socket = "open"
  /\ button' = SetOnPitRoadState(button, settings)
  /\ timers' = TimersOn(button) /\ timers' <= MaxTimers
  /\ label' = IF button.flashing THEN label
              ELSE drawApplyButton(button', data.onTrack, stopping)
  /\ inSim' = IF socket = "open" THEN {settings} ELSE inSim
  /\ UNCHANGED <<data, settings, racing, stopping, auto, socket>>

\* The Auto button.
onAutoButton ==
  /\ auto' = ~auto
  /\ UNCHANGED <<data, settings, racing, stopping, button, timers, label, socket, inSim>>

\* The driver changes what is displayed. The Apply button is drawn with the next
\* message.
ChangeSettings(s) ==
  /\ ~(Settled /\ button.flashing)
  /\ settings' = s
  /\ UNCHANGED <<data, racing, stopping, auto, button, timers, label, socket, inSim>>

\* Broken variant: the timeout is not set again when the count starts anew.
applyFlashIntervalCallbackOnce ==
  /\ timers > 0
  /\ timers' = timers - 1
  /\ button' = IF button.flashing THEN [button EXCEPT !.count = 1] ELSE button
  /\ label' = label
  /\ UNCHANGED <<data, settings, racing, stopping, auto, socket, inSim>>

\* Broken variant: one flash too many.
applyFlashIntervalCallbackLate ==
  LET ends == button.count + 1 > FlashCount
      b == [button EXCEPT !.flashing = ~ends, !.count = IF ends THEN 1 ELSE @ + 1]
  IN  /\ timers > 0
      /\ timers' = IF button.flashing /\ ~ends THEN timers ELSE timers - 1
      /\ button' = IF button.flashing THEN b ELSE button
      /\ label' = IF button.flashing THEN drawApplyButton(b, data.onTrack, stopping)
                  ELSE label
      /\ UNCHANGED <<data, settings, racing, stopping, auto, socket, inSim>>

\* A timeout of the flashing. It does nothing when the flashing has been stopped.
applyFlashIntervalCallback ==
  LET ends == button.count + 1 >= FlashCount
      b == [button EXCEPT !.flashing = ~ends, !.count = IF ends THEN 1 ELSE @ + 1]
  IN  /\ timers > 0
      /\ timers' = IF button.flashing /\ ~ends THEN timers ELSE timers - 1
      /\ button' = IF button.flashing THEN b ELSE button
      /\ label' = IF button.flashing THEN drawApplyButton(b, data.onTrack, stopping)
                  ELSE label
      /\ UNCHANGED <<data, settings, racing, stopping, auto, socket, inSim>>

\* The websocket opens, or it is lost and the heartbeat replaces it.
SocketChanges ==
  /\ socket' \in {"connecting", "open", "closed"} \ {socket}
  /\ UNCHANGED <<data, settings, racing, stopping, auto, button, timers, label, inSim>>

\* Only the simulator keeps what it has when the page is loaded again.
LoadPage ==
  /\ data' = NoData
  /\ settings' = NoSettings
  /\ racing' = FALSE /\ stopping' = FALSE
  /\ auto' = TRUE
  /\ button' = InitialButton
  /\ timers' = 0
  /\ label' = "disabled"
  /\ socket' = "connecting"
  /\ UNCHANGED inSim

Message ==
  \E d \in [onTrack : BOOLEAN, onPitRoad : BOOLEAN, fast : BOOLEAN],
     s \in Settings, other \in BOOLEAN :
    s.tires = settings.tires /\ onWebSocketMessage(d, s.fuel, s.full, other)

RoadNext ==
  \/ Message
  \/ irPitCrew_onSendButton \/ onAutoButton
  \/ \E s \in Settings : ChangeSettings(s)
  \/ applyFlashIntervalCallback
  \/ SocketChanges \/ LoadPage

RoadSpec == RoadInit /\ [][RoadNext]_roadVars

\* The browser runs the timeouts that are due. Nobody is under another obligation.
FairRoad == RoadSpec /\ WF_roadVars(applyFlashIntervalCallback)

-------------------------------------------------------------------------------
(***************************************************************************)
(* Properties                                                              *)
(***************************************************************************)

\* The car drives onto pit road: the page last saw it racing.
DrivesIn ==
  /\ data.onTrack /\ ~data.onPitRoad
  /\ data'.onTrack /\ data'.onPitRoad /\ data'.fast

\* "Auto apply will set the currently diplayed pit settings to iRacing when you drive
\* into the pit lane. If Auto is not enabled [...] will not be sent" (README.md), and
\* "don't send the command on a tow" (irPitCrew.js:484): each time the car drives in,
\* and never else, what is displayed after the message has been sent.
AutoApplies ==
  [][Message => IF DrivesIn /\ auto THEN inSim' = {settings'} ELSE inSim' \subseteq inSim]_roadVars

\* The settings displayed are those sent last, within the tolerance.
Agree(s, t) ==
  /\ s.tires = t.tires
  /\ \/ FuelToAddStr(s) = FuelToAddStr(t)
     \/ Tolerance = 0
     \/ Distance(s.fuel, t.fuel) <= Tolerance

\* Green means that the settings displayed have been sent, and not for an earlier
\* stop: "To indicate at a glance that Pit Values have been sent"
\* (LapsOfFuelIndicator.js:861).
AppliedMeansSent ==
  [][Message /\ label' = "applied" => \E s \in inSim' : Agree(settings', s)]_roadVars

\* The button is grey just when the car is not on track, and it is green or yellow
\* only on pit road, although it is drawn only when something has changed.
LabelIsCurrent ==
  /\ label = "disabled" <=> ~data.onTrack
  /\ label \in {"applied", "changed"} => stopping
  /\ label = "flashing" => button.flashing

\* The flashing ends, unless the driver keeps applying.
FlashingEnds ==
  []<>~button.flashing \/ []<><<irPitCrew_onSendButton \/ (Message /\ DrivesIn)>>_roadVars

===============================================================================
