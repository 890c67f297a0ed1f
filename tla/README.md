# A verification project for irPitCrew

irPitCrew shows a driver of the iRacing simulator, on a phone or tablet, the telemetry of the
car and lets him set the next pit stop there. The repository has two programs of its own and two
libraries they are built with:

* the *server application* `irPitCrew.exe` (C++, `src/src`), which reads the simulator's shared
  memory, computes lap and fuel estimates, and serves a web page and a websocket;
* the *web application* (`src/irPitCrew_install/Client`), the page's JavaScript;
* *irsdk*, iRacing's telemetry SDK (`src/src/irsdk`): the shared memory both ends of which it has, the
  telemetry files, and the programs that log and convert them;
* *libwebsockets* (`src/src/libwebsockets`), vendored, which serves the page and its websocket.

This directory holds TLA+ models of both, the TLC runs that check them on small instances, and
TLAPS proofs for all instances. Line numbers below are those of the files under `src/`.

## 1. Inventory

### Processes and threads

| Who | Code | Runs |
|---|---|---|
| simulator | external; read through `irsdk_utils.cpp` | as it likes |
| main loop | `irplugin.cpp` `_tmain` 168-1192 | every 200 ms: `Sleep`, `irsdk_waitForDataReady`, one of three branches: new header, data, simulator gone |
| web-server thread | `WebServerLWS.cpp` `runThread` 203-290 | `libwebsocket_service(50 ms)` with its callbacks, then a look at two flags |
| console close handler | `irplugin.cpp` `CloseConsoleHandler` 1348-1404 | a thread Windows makes on Ctrl-C, close, log-off, shutdown |
| page | `irPitCrew.js` and the other scripts | single-threaded: message handler, timers, clicks |

The main loop and the web-server thread share `SharedData` (one mutex around every operation) and
two plain `bool`s, `m_updateClient` and `m_resetConnection`. The close handler shares everything
with everyone and locks nothing.

### Components

| Component | State | Operations | Hard because | Right if | Modelled in |
|---|---|---|---|---|---|
| Data feed: `SharedData.cpp`, `WebServerLWS.cpp`, `irPitCrew.js`, `UpdateData.js` | session info, data map, two flags, the map sent last, the page's copy | publish, reset, write differences, connect, reconnect, reload, handle a message | two threads, unlocked flags, lost connections, only differences are sent | the page shows what was published, whatever it missed | `DataFeed` |
| Lap data: `LapFuelData.cpp` | two lists, last fuel level, list size, one file per car and track | add a lap, save, load, reset | crash in a save, close handler in another thread, two lists cut separately | no lap is lost, mixed up or counted for another car | `LapFuelData` |
| Median statistics: `LapFuelData.cpp` 303-470 | - | median, deviation, outliers | even and odd counts, deviation 0 | the estimates are on the safe side | `LapStatistics` |
| Race calculation: `irplugin.cpp` 703-1035, 1406-1455 | session limits, estimates | once per tick; the stop | many cases (laps, time, both, leader), roundings | who believes the display runs out of neither laps nor fuel | `RaceCalculation` |
| Session info: `yaml_parser.cpp` | - | find a path | it does not stop at the end of a list item | what is asked is what is found | `SessionInfo` |
| Standings: `irplugin.cpp` 1798-2390 | - | cars ahead and behind | results older than the telemetry, lap counters that lag, a string that changes while it is parsed | the cars named are the neighbours, with their own intervals | `Standings` |
| Pit commands: `irPitCrew.js` 263-336, `SharedData.cpp` 74-94, `irplugin.cpp` 1406-1543 | a mailbox of one message, unit conversion factor | send, overwrite, take, send to the simulator | lost and late commands, rounding | the simulator is asked what the page showed | `PitCommand` |
| Pit road and apply button: `irPitCrew.js` 225-252, 449-498, `LapsOfFuelIndicator.js` 797-976 | pit-road flags, auto button, flashing timers | message, click, timer | order of messages, clicks and timers | applied once per stop; the colour tells what was applied | `PitRoad` |
| Telemetry reader: `irsdk_utils.cpp` | tick counters | copy a buffer | simulator overwrites while copying, ends, starts again | a sample is whole, newer, and of the session read | `LiveTelemetry` |
| Telemetry server: `irsdk_server/*` | variable tables of memory and disk, buffers, log files | register, poll, set, log | two tables with different indices, headers that are final | a sample has the values of its tick; a file is what its head says | `TelemetryServer`, `TelemetryFile` |
| Telemetry logger and converter: `writetest.cpp`, `readtest.cpp` | a log file, its counts | log, close, convert | samples missed, the server restarts, ctrl-c | the log is part of what was published | `TelemetryLogger`, `TelemetryFile` |
| Configuration: `ConfigData.cpp` | file | read, complete, rewrite | crash in a rewrite, the user's edits | settings survive | `ConfigFile` |
| Life cycle: `irplugin.cpp` 168-303, 1331-1404, `WebServerLWS.cpp` 106-171 | instance mutex, web server object, running flag | start, stop, exit | three threads at the end of the process | one instance; a clean end | `Lifecycle` |
| Web server: `WebServerLWS.cpp` | - | `runThread`, callbacks, files | - | - | `WebService` |
| libwebsockets, server half | table of polled sockets, connection states, truncated sends, timeouts | accept, parse, shake hands, frames, files, close | partial reads and writes, slots that move, clients that stall | nothing is lost, doubled or kept for ever | `SocketOutput`, `SocketInput`, `WebService` |
| Heartbeat: `irPitCrew.js` 118-177 | flag, websocket state | 2 s timer, open, close, message | timer against slow connections | a lost connection is replaced | its effect only |
| Fuel selection, tire selection, displays | - | clicks, drags, drawing | one thread, no state that another part depends on | - | not modelled |

`PROJECT.json` lists the hazards of each at the line where they bite.

## 2. Plan

Models, in the order they were written. A module composes the ones after the arrow.

1. `FullFeed`, `DataFeed`: the feed and what it promises. Proofs: types, snapshot, first message, resets,
   updates.
2. `LapHistory`, `LapFuelData`: lap data with crashes and the close handler, against a history per
   combination. Proofs: types, ownership, durability, bounds, the refinement.
3. `PitSettings`, what the page lets the driver ask for; `PitOrders`, `PitCommand`: websocket, mailbox, conversion,
   broadcasts, against orders of which the newest is carried out once. Proofs: types, what the simulator shows,
   what it keeps, the refinement.
4. `PitRoad`: pit entry, automatic apply, the Apply button with its timeouts. Proofs: types, what is
   drawn, when the automatic apply comes, what green means.
5. `LatestSample`, `LiveTelemetry`: the lock-free samples, against what they promise. Proofs: what is given
   can be used, the refinement.
6. `TelemetryFile`, `TelemetryServer`, `TelemetryLogger` -> both: variables, log files of two formats at two
   ends, and their conversion. Proofs: types, samples of their tick, the client's log, what is read from a
   closed file.
7. `LapStatistics`, `RaceCalculation` -> it: a race that is driven, and what is displayed of it. Proofs: the
   estimates, the promises to the driver, the stop.
8. `SessionInfo`, `Standings` -> it: the session string, its parser, the neighbours. Proofs: what the parser
   finds, the neighbours.
9. `SocketOutput`, `SocketInput` -> it, `WebService` -> it: libwebsockets and the thread around it. Proofs: the
   table, both directions of a websocket, the files, and who can make two sends overlap.
10. `ConfigFile`, `Lifecycle` -> it: two processes, from start to end. Proofs: one instance, settings.

Proofs, in the order they were written: the first four modules; then the refinement of `FullFeed`,
`LiveTelemetry`, `RaceCalculation` with `LapStatistics`, `Lifecycle` with `ConfigFile`, the telemetry logs
of 6, whose properties are about sequences of records that three modules and three actors share; then the web
server, and the parser with the standings. What the loops of the code compute is written as recursive functions
over numbers or lines, about which the proofs reason by an induction on their rounds (section 14).

The proofs of a component are in the module named after it, with two exceptions: `PitProofs` has those of
`PitCommand` and `PitRoad`, which share the settings, and `DataFeedProofs` those of `Standings`, whose cars the
data map carries. So that one module can extend two state machines, `Init`, `Next` and the specification
of `PitRoad` and `Standings` have names of their own (`RoadSpec`, `StandingsSpec`).

Every module takes its parameters as CONSTANTS with a named assumption and has one action per operation.
Operators that a module marks as a broken variant or a mutant are no part of the model: each is one
definition of it with a plausible bug, to see that a property would notice.

## 3. The data feed

### Model

`DataFeed.tla` has the main loop, the web-server thread and the page as three sets of actions.

* *Main loop.* The header branch is four steps, as its four calls are (`HeaderSession`,
  `HeaderClearData`, `ResetConnection`, `UpdateClient`); the data branch is `PublishData` and
  `UpdateClient`; `SimGone` is the last branch. A data map is a function from some variables to
  values; which variables a session has is a constant, their values are arbitrary.
* *Web-server thread.* `ServiceReturns`, `TestUpdateFlag`, `ClearUpdateFlag`, `ReadResetFlag` and
  `RequestWrite` are the loop of `runThread`. The store to `m_updateClient` and the load of
  `m_resetConnection` are accesses to different unsynchronised bools: the model lets them happen in
  either order. `WriteableGetData` and `WriteableSend` are the WRITEABLE callback, split after
  `getData()`; `Established` is its ESTABLISHED case. `Closed` is external: libwebsockets notices
  that a connection is gone; the callback has no case for it.
* *Page.* `HandleMessage` merges what a message carries into what the page has; `Reconnect` is the
  heartbeat's close and create, at any moment (the timer belongs to the heartbeat's module);
  `LoadPage` starts the page anew. What an abandoned websocket still carries is not delivered, as
  the WebSocket standard has it.

`snap` in a message and `shown` are histories: the map a message was computed from. Nothing reads
them but the properties and the refinement mapping.

`FullFeed.tla` is what the feed promises: whole maps are sent and shown. `DataFeed` is checked to
implement it, with the page's real variables as the image of `shown`.

### Assumption on connections

`README.md` of the repository says that only one instance of the web application can be used. The
constant `OneConnection` is that, at the level of the server: a connection is established only when
none is open. Under it all safety properties hold, and are proved. Without it, one page is enough to
break `FirstMessageFull` (`DataFeed.cfg` with `OneConnection = FALSE` shows it): it reconnects while the server still holds its old
connection, and the old connection's next write consumes the reset meant for the new one. The new
connection then starts with a difference, and the page, if it was loaded anew, lacks every variable
that does not change.

### Runs

| Run | Instance | Shows |
|---|---|---|
| `feed` | 2 sessions, the second with one variable less; 2 variables, 2 values; 2 websockets used again and again; 2 messages per socket | `ViewIsSnapshot`, `FirstMessageFull`, `NoLostReset`, `NoLostUpdate`, `ImplementsFullFeed` |
| `feed_live` | 1 session, 1 variable, 1 message per socket, no symmetry | `Served`, `Converges` |

Two sessions make a reset between them possible, and a variable of the first that the second lacks;
two websockets allow an old and a new one; two messages in flight let a difference follow a
difference. Longer histories repeat these, and the proofs have no bounds. `MaxInFlight` stands for
the socket's buffer: when it is full libwebsockets calls no WRITEABLE callback.

### Fairness

`FairSpec` assumes weak fairness of the main loop's publishing while the simulator runs (it iterates
every 200 ms) and of the steps of the web-server loop, strong fairness of serving a socket that is
ready again and again and of noticing an abandoned connection (`libwebsocket_service` polls all
sockets in each call), and weak fairness of the browser's message handler. The simulator, the
network and the user are under no obligation. `Served` is conditional on the simulator running:
ESTABLISHED requests no write (line 452), so a page that connects while nothing is published gets
nothing.

### Proofs (`DataFeedProofs.tla`)

All constants are arbitrary; `OneConnection` is assumed where it is said.

* `TypeCorrect`, by the inductive `BasicInv`: types; nothing is published or flagged before the
  first session; only established connections carry messages.
* `PageIsSnapshot` (`OneConnection`), by `MirrorInv`: the messages on the wire form a chain, each
  carrying all in which its map differs from the map before, starting at the map the page shows
  and ending at `lastSent`, or else a reset is pending. `ViewIsSnapshot` alone is not inductive: it
  says nothing about messages that are on their way.
* `FirstIsFull`, `ResetReachesPage`, `UpdateReachesPage` (`OneConnection`), by `DeliveryInv`: a
  pending reset or update is visible in some variable until the message that answers it is sent;
  the reset flag is seen set only between its test and the request; the callback's copy of the map
  is current or another write will follow.
* `DeltasAreWholeMaps` (`OneConnection`): `DataFeed` implements `FullFeed`. By `MirrorInv`, the map the page
  has merged is the map its last message was computed from, so that a delivery of a difference is the
  delivery of a whole map. Each action is shown to be one of `FullFeed`'s or to stutter.

## 4. The lap data

### Model

`LapFuelData.tla` has the two lists, the file of every car and track, and two threads, the main loop
and the close handler, which both run `ResetSessionData`. That function is one action per statement
that touches state (`SaveSessionData`, `CloseOutput`, `SetCurrentTrack`, `SetCurrentCar`,
`ClearTimes`, `ClearFuels`, `LoadSessionData`), because the other thread, or the end of the process,
may come between any two. `NewHeader`, `KeepFuelLevel`, `RecordLap`, `CalcOptimal` and `SimGone` are
the main loop's other steps; a recorded lap is followed by `CalcOptimal` and the save.

A file is empty from the open (which truncates it) to the close: the text is in the stream's 4 KB
buffer until then, which holds some 250 laps. A lap is a number, the names it was driven under, and
whether its fuel was measured on it; times, fuel and their rounding to six digits are abstracted.
`calcOptimalLapTimeFuelValues` may ask for any list size of `Counts`. `AddLapData` is one step: what
the close handler would see in the middle of it, the lists of one lap more or less, is left out, and
so is what a C++ data race on a list may do beyond that.

`CloseRaces = FALSE` is a close while the main loop sleeps and goes on sleeping until the process
ends: the loop sleeps for most of its 200 ms. `CloseRaces = TRUE` is what the code allows.

`LapHistory.tla` is what the lap data promises: each combination has a history that grows lap by
lap (`Record`), loses the oldest lap only when it has more than `DATA_COUNT_MIN`, and is set to nothing (`Lose`)
only while it is in `writing`, the combinations whose file is open: `BeginWrite`, which may record a lap, puts
it there, `EndWrite` takes it out with its history as it was. In the refinement mapping a lap counts as kept from
the open of the file on, and what is being written is what a thread at its `CloseOutput` has open. So a save
that wrote an empty list, or dropped a lap, would be refused (the mutant `CloseOutputEmpty`); a death of the process
between the open, which truncates, and the close loses the history, in the code and in the abstract specification.

### Runs

| Run | Instance | Shows |
|---|---|---|
| `laps` | 2 tracks, 1 car, 4 laps, 3 fuel levels, counts 1 and 2, a known tank size, disks that work and disks that may refuse any save | `FilesOwned`, `ListsOwned`, `DurableAtTop`, `ListsBounded`, `ImplementsLapHistory` |
| `laps_close_races` | the close handler at any moment | `FilesOwned` fails: the laps of the old track replace the file of the new one |

Four laps are one more than the larger list that is cut at count 2, so that laps are dropped, and
enough for laps on two tracks with a crash between. Names may be empty, as when the header lacks
them. `diskFails` is chosen once: on a disk that fails, laps of one session are lost silently, so what is
promised of the history is promised on a disk that works; ownership and bounds hold on both. `ListsBounded` allows one lap more than the largest
count, because the code compares before it adds (LapFuelData.cpp:280), although its comment calls the
count "the number of items to keep in the list" (:450).

### Proofs (`LapFuelDataProofs.tla`)

For all cars, tracks, fuel levels and counts; what is assumed of the constants is said in each theorem.

* `TypeCorrect`, without any assumption.
* `FilesAreOwned`, `ListsAreOwned` (`~CloseRaces`), by `OwnInv`. Neither property is inductive: while
  `ResetSessionData` runs, the lists are of the *old* combination although the names are of the new
  one. `ListInv` says for every step of it whose laps the lists hold (`owner`), `NameInv` where the
  names are of that owner, `FuelInv` that a kept level was measured on the owner's lap, `FilesInv`
  that what is still in a stream belongs to the file it will be written to, and `Quiet` that the close
  handler runs only when the main loop does not.
* `TopIsDurable`, `HistoryKept` (`~CloseRaces`; both speak of a disk that works), by `SavedInv` on top of `OwnInv`: what
  the lists hold is in the file, in the stream that is about to be closed, or one lap longer than the
  file when a save follows. The refinement theorem maps each step to a step of `LapHistory` or a stutter.
* `SizesAreBounded` (`~CloseRaces`, tank size known), by `BoundedInv`: every list and file has at most one
  lap more than the largest count, and the lap to be added is preceded by a cut.

`LapHistory` and ownership fail without `~CloseRaces` (run `laps_close_races`), so that assumption is
needed, not convenient.

## 5. The pit commands

### Model

`PitCommand.tla` follows a command from the button to the simulator.

* *Page.* `onSendButton` numbers the command, cuts an amount below zero to zero and puts it on the
  websocket if that is open. `UpdatePage` is the data feed, at any moment and as one step (section 3 has
  the details): between updates the page goes on believing what it last heard, also when the simulator
  is gone. `Connect` and `Disconnect` are the heartbeat and the network; what was sent before a
  disconnect arrives up to some command (`late`).
* *Web-server thread.* `Receive` reads a command and overwrites the mailbox.
* *Main loop.* `TakeMessage` is `getFuelMessage()` and the parsing and conversion at the head of
  `handlePitCommandMessage`; `BroadcastClear`, `BroadcastBox` and `BroadcastFuel` are its broadcasts, in the
  order of the code up to the order among the two services and among the four tires. `NewHeader` and
  `SimGone` change the session, and with it the factor and the simulator's boxes.
* *The rest.* `Restart` ends the process between any two steps and starts it again; the driver gets in
  and out of the car and touches boxes whenever he likes.

A broadcast is a message posted to the simulator's window, which handles them in order: it counts as
done when it is posted. The text of a command, the parsing, and the rounding of the conversion (`Litres`
is a constant with any values, 0 for 0) are abstracted. `unit` in a command and the variables `sent`,
`received`, `done`, `carried`, `taken` and `touched` are histories.

`PitOrders.tla` is what the way promises: of the orders sent, the newest that has arrived is carried out,
once. Orders may be lost or superseded.

### Runs

| Run | Instance | Shows |
|---|---|---|
| `pit_commands` | 1 tire, 1 service, fuel 0 or 1, 2 commands, with and without `SkipClearOnApply`, fair | `AsAsked`, `ImplementsPitOrders`, `KeepsSelected`, `CarriedOut` |

Two commands let one be carried out or in the mailbox while the next is on its way, overtakes or replaces it. One box
of each kind is enough: boxes interact only through the clear and through the order of kinds. `OneConnection`
is that of the data feed: a connection is established only when nothing is left of the one before.

Two statements of `PitCommand` are not kept by the code, and no run checks them:

* `UnitsAsShown` (`Units = {ltr, gal}` shows it). A command carries a number without its units, and the main
  loop converts it by the factor of the session in which it takes it. A command sent while the page still
  shows the old session, whose `isOnTrackBool` nothing resets when the simulator goes away
  (irPitCrew.js:266), or that waits in the mailbox meanwhile, is taken in the units of another car.
* `NeverOlder` (`OneConnection = FALSE` shows it). A page that sends a command, reconnects and sends another
  one may have the newer one read first; the older settings then replace those that are displayed.

`FairSpec` is fair to `Receive` (the thread polls its sockets), to `TakeMessage` while a session runs and to
the broadcasts, which is straight-line code of the main loop.

### Proofs (`PitProofs.tla`)

* `TypeCorrect`, without assumption: an amount is never negative.
* `DoneAsAsked`, by `PostedInv`: what is still to be posted is part of the command, and what has been posted
  is in the simulator. `AsAsked` alone says nothing of the middle of a command.
* `SelectedIsKept`, from `PostedInv`: when the clear is skipped, no clear is ever due.
* `NewestOnce` (`OneConnection`): the refinement of `PitOrders`, by `OrderInv`: what is on its way is in order
  and newer than the mailbox, which holds the newest received, not yet taken.

## 6. Pit road and the Apply button

### Model

`PitRoad.tla` is the page's single thread. `Message` is a message that arrives, and `onWebSocketMessage` is the whole handler in the order of the
code: new values, a redraw if something changed, the test for driving in, the automatic apply, and
the update of the button; the functions of `LapsOfFuelIndicator.js` are operators from a button to a button.
`irPitCrew_onSendButton` and `onAutoButton` are the two buttons, `applyFlashIntervalCallback` is a timeout of
the flashing, `ChangeSettings` stands for the fuel and tire controls, `SocketChanges` for the
websocket's events and `LoadPage` for a reload. `label` is what the button was *drawn* as last, since
it is drawn by some steps only. `inSim` is a history: the settings sent last, emptied when the car leaves
pit road, because "they have now been applied and the iRacing pit controls reset"
(LapsOfFuelIndicator.js:907-908).

The telemetry is arbitrary; the speed is a bool; the fuel is an amount and whether it fills the tank;
half a lap's fuel (`Tolerance`) is a constant. Tear-off and fast repair are left out: the code does
not compare them. `MaxTimers` bounds the timeouts that wait at a time.

`Reliable` says that the driver applies with an open websocket only, `Settled` that nothing changes the
settings while the button flashes. They are assumptions on the driver and the network, and
`AppliedMeansSent` needs both. Without `Reliable` the button flashes before the send fails
(`Reliable = FALSE` shows a green button for settings that were never sent). Without `Settled`, settings applied, changed, applied again within the 4 s of the
flashing and changed back leave a green button and other settings in the simulator, since
`SetOnPitRoadState` returns before it remembers what is applied (LapsOfFuelIndicator.js:804).

Nor is a timeout told from a stale one: leaving pit road leaves the timeout waiting, and when the
button is applied again before it has come, two timeouts count the flashes, against the comment
"Ignore any remaining timeout callback" (LapsOfFuelIndicator.js:893). The flashing is then shorter,
which `FlashingEnds` allows.

### Runs

| Run | Instance | Shows |
|---|---|---|
| `pit_road` | 1 tire, fuel 0 to 2 with tolerance 1, 2 timeouts, flashing to 3, `Reliable`, `Settled` | `LabelIsCurrent`, `AutoApplies`, `AppliedMeansSent`, and with fairness `FlashingEnds` |

Fuel 0 to 2 with tolerance 1 has equal, close and distant amounts, none and a full tank. A count of 3
(9 in the code) lets an apply come before, during and at the end of the flashing. The fairness of
`pit_road` is that the browser runs timeouts that are due; `FlashingEnds` excepts a driver who
applies again and again.

### Proofs (`PitProofs.tla`)

* `RoadTypeCorrect`, without assumption.
* `DrawnIsCurrent`, by `PageInv`: the flags are those of the last message, and a button that knows it is
  off pit road is. That is why leaving pit road is always drawn, and why skipping the other redraws is safe.
* `AppliesOnEntry`, from `PageInv`: `onTrackRacingBool` is what the message before said.
* `GreenIsSent` (`Reliable`, `Settled`), by `SentInv`: what the button remembers is what was sent last, and
  while it flashes it is what is displayed.

## 7. Live telemetry

### Model

`LiveTelemetry.tla` has the simulator's `irsdkMemServer` on one side of the shared memory and
`irsdk_utils.cpp` with the main loop's use of it (irplugin.cpp:340-430) on the other. There is no lock and the
model has none: `ResetCell` and `PollCell` write a sample cell by cell, `CopyCell` copies it cell by cell,
`Scan` looks at one tick count at a time. The value of a cell is the number of its sample, so that a mixture
shows. `startup`, `shutdown` and `SimDies` are a simulator that begins, ends and dies at any step; the memory
outlives it as long as the client maps it. `irsdk_startup`, `getNewData`, `IsNewer`, `IsNotNewer`,
`CheckCopy` are the client's function by its branches, `ProcessHeader`, `ProcessData` and `NoData` the loop's.

`LatestSample.tla` is the promise: every sample given is one whole published sample, newer than the last.

### Bounds and assumptions

`MaxTick = 3`: four samples use the three buffers and the first again, which is what can tear a copy.
`MaxRuns = 2`, with samples of one or two cells: a session after another, shorter, as long or longer.
Two assumptions are constants, and neither can be dropped:

* `Lag = 1`: while the client reads one sample at most one more is published. With `Lag = 2` the refinement
  fails: the buffer that is copied is the one being filled anew, and the tick count that is compared
  afterwards has not changed yet, because the server sets it when the sample is complete
  (irsdk_memserver.cpp:394-433). At 60 samples a second that is a read of more than 16 ms.
* `Slow = TRUE`: a simulator that starts again does so after the client has seen it gone. With
  `Slow = FALSE` the refinement, `FitsBuffer` and `HeaderIsCurrent` fail: a session that ends and begins
  between two looks is noticed by the length of its samples only, and the copy comes before that test
  (irplugin.cpp:352).

Fairness is weak fairness of the client, whose loop never stops; the simulator is under no obligation.

### Run

`live_telemetry` shows `ImplementsLatestSample`; `SampleIsUsable` (a sample fits the buffer it is copied
into and is of the session whose header the loop has read); and `CatchesUp`: whatever tick count the client
remembers from another session, it notices each sample or a newer one. The first look and one that finds a new header
notice a sample that the main loop is not given.

### Proofs (`LiveTelemetryProofs.tla`)

For any number of cells, ticks and runs of the simulator.

* `SamplesUsable` (`Slow`), by `UsableInv`: a buffer that the main loop has allocated is as long as the samples
  of the session it has read, that session is the simulator's current or last one, and none begins before the
  loop has deleted the buffer.
* `SamplesWhole` (`Slow`, `Lag <= 1`): `LiveTelemetry` implements `LatestSample`. The refinement says nothing of
  a read that is under way; the invariant does, in two layers. `BufferInv` is about the simulator alone: the
  three tick counts are the last three samples in the order of the ring (`Ring`), a buffer that is not being
  written is whole, the one being written holds the oldest. `ReadInv` is about a read: one of the buffers that the
  scan can still end at is at most `lag` samples behind the newest (`Window`); what has been copied is the sample
  that the buffer had when the copy began, as long as its count still says so (`Copied`); and what was
  given is not newer than what is published (`Given`). With `Lag <= 1` the buffer being copied is refilled
  only after two more samples. TLC finds neither theorem true without its assumptions, as said above. That the two are
  sufficient for any instance is what the proof adds.

## 8. Telemetry server, log files and logger

### Model

* `TelemetryFile.tla` is a file with its names, records and sub header of counts, in both formats of the
  build option `LOG_TO_CSV`; `CountedIBT` and `CountedCSV` are the counting after each record, which two
  programs of the repository have; `irsdk_diskread` is readtest's conversion to text.
* `TelemetryServer.tla` is `irsdkServer` with its two backends. `regVar`, `reRegVar`, `setVar` keep the table
  of a name, an index in memory and one on disk, where a variable may be in one only; `finalizeHeader` closes
  both headers; `resetSampleVars`, `pollSampleVars`, `Update` are one tick of main.cpp, the sample program.
  A registration may change after the headers are final, with or without a pointer, for the other log.
  `PollDisk` opens, continues or closes a log file as `enableLogging` says. `Exit` and `Dies` end it.
* `TelemetryLogger.tla` is writetest on top of it: `initData`, `logDataToIBT` and `logDataToCSV`, the count of the record
  as a step of its own (`CountRecord`), the end of a session, of the program and ctrl-c. What samples it gets
  is what `LatestSample` promises: newer ones, not all.

Values, types and bytes are abstracted: a value is a small number, a cell is a variable. `Expected` in the
properties and `history`, `setSinceReset` are the reader's view; no guard reads the first.

A divergence met here, which no run checks: main.cpp says that `ManualSet` is "manually updated every tick"
(56-58) and that `dynamicVar2` is one that "we will update ... on the fly" (78), but it sets both after the poll
of the tick (109, 113), and the next tick resets the samples (92-93) before it polls again (105). Both are
published as zero in every tick, live and in the log. In the model that is `setVar` in step `update`
followed by `resetSampleVars`; `OfThisTick` states what the code does, that a value is published when it is set
between the reset and the poll and is lost otherwise, not that all that the program sets is published.

### Run

`telemetry_logs` has four variables (two mandatory for the counts, one polled and live only, one set and live
only), room for three in memory, one registration change after the second tick, one file each. A first session
has three ticks, and two buffers, so that the third sample is written where the first was; a second
session has one, so that the server counts anew under a client that remembers.
`OfThisTick`: a sample has what was polled, or set between reset and poll, in its tick, and zero for the rest.
`FilesReadable`: records fit the header they are filed under, and the head of a closed file is true of
its records. `LogIsSubsequence`: the client's log has published samples, in order, none twice.
Deadlock is off because both programs may end.

`CtrlCAtRest = TRUE` assumes that ctrl-c does not come between the writing of a record and its
count: writetest handles it in a thread of its own (writetest.cpp:641-652), and with `FALSE` the closed file
has a record more than its head says. Left out are the build option `LOG_IN_CAR_ONLY`, the session string and
the displays.

### Proofs (`TelemetryLoggerProofs.tla`)

For any variables, sets of polled and live-only ones, buffers, room, ticks, sessions and files that
`ServerAssumption` allows: a sample's buffer has some length, the program is started at least once, and the
two variables that the counts need are polled and logged.

* `LoggerIInv`, the inductive invariant, is `ServerInv` and `LoggerInv`. TLC agreed with it on the instance of
  `telemetry_logs` before it was proved. `LookupInv`: a name has one entry, whose two indices are its places in
  the two headers, or 0 where it is not; without it `setVar` could fill another variable's cell (`Placed`, kept by
  registering anew: `PlacedNew`). `StepInv` ties the step of a tick to the headers: before the first reset they
  are open, after it both are final, so neither the names of an open file nor those of a published sample
  change. `RowInv`: before a poll both samples are zero but for what was set since the reset, although the
  buffer in memory was used `bufCount` ticks ago. `DiskInv` and `ClientInv` have the same statement, `Tells`, for
  the file that is open at either end: what the counts in memory say of the records is true, or will be
  when the last one is counted.
* `LoggerTypesHold` and `TicksOwn` (`OfThisTick`) follow from it. The latter needs that the polled variables of
  a header are filled each from its own source and the others left alone, by an index that is another one in
  memory and on disk.
* `LogOrdered` (`LogIsSubsequence`), by `OrderInv`: the places of the records in the session's history rise and
  are not beyond the last sample seen, which is what lets a record be added.
* `FilesRead` (`FilesReadable`), under `CtrlCAtRest` only, which TLC shows to be needed. A count is
  true in stages: one more record makes the greatest time or lap the old one or its own, and adds a lap
  just when it is beyond all before it (`NewLaps`). What readtest prints is put together by `FlattenSeq`, a function
  that is recursive over the sequence of variables; that cells stand under their columns, an array over
  several, is shown by induction on the number of variables. The library's theorem of induction cannot be
  instantiated by the provers, so `Counting` has it for a set of numbers instead of a predicate, from the least
  number that is not in it; `Flattening` shows in the same way that the recursive function exists at all.

## 9. Race calculation

### Model

`RaceCalculation.tla` sets what the plugin displays against a race that is driven. A car moves in steps
of half a lap, loses time, burns one of two rates, stops at the line; the leader never loses time. `Publish`
is the whole data branch: parsing the session once (`ParseSession`), recording a lap (`AddLapData`,
with the fuel at its start and the rule that a lap of refuelling counts for nothing), new estimates,
remaining laps by time, by laps or by the leader's laps, fuel required, optional stop. `ApplyAndStop` is the
page's rounding of the amount, the conversion of handlePitCommandMessage and the stop; `FillUp` a stop
because it was said to be the last; `Splash` any other.

`LapStatistics.tla` is the median and the median absolute deviation, with outliers excluded in a second
pass, and the estimates. Values are in quarters, so that the averages of two values are exact.

`limit`, `enough` and `now` are histories of what the driver has been told. A promise by the estimates
counts only when the estimates are `Sound`: no driver can be faster, or burn more, than they say. What they are
worth when they are not is `EstimatesConservative`.

The medians are defined by ranks: the k-th of the sorted values is the one that fewer than k are under and
at least k are up to. It is what `std::sort` and an index give, and needs neither a sort nor recursion.

### Run

`race` has races of three laps, of three units of time, of both and unlimited ones, with practice before
them, two fuel histories on disk, litres and gallons, both settings of `UseDriverLapsRemaining`.
`PlanSuffices`: the car is never driven past the laps that were said to remain, and who was told
that his fuel is enough never gets below the 0.4 litres at which a car stutters. `PitNowIsLast`:
"if -pit optional now- displayed, you can pit now and get enough fuel to finish the race" (README.md:64), also
some steps later. `StopIsEnough`: two roundings lose at most half a litre. `EstimatesConservative`: of the usual
laps at most half were faster or thirstier than the estimate. Up to three laps, of which two may
be stored ones, give even and odd counts and deviations that are zero and not, and outliers. `MaxTime = 7` lets
the car go on for two laps when the time of the race has run out. Deadlock is off: a race ends.

What the model taught about the code, and leaves as it is: without an estimate of the lap the laps left by the
time are 0, not unknown: `remainingLapsMax` starts at -1 and is raised to 0 in the time branch
(irplugin.cpp:863-866), and what is not below 0 is compared to the laps of the race and kept when it is
smaller (918-919, "If both set, take the smallest"). A race with a time limit, also one with laps too, is therefore
displayed with 0 laps left, and the page shows fuel beyond what is needed (LapsOfFuelIndicator.js:220-222), until
the first estimate, which needs a lap of the same car and track. `RemainingByTime` does the same (`NoLapTime`);
`PlanSuffices` is what holds from the first estimate on, and a race of laps alone from its start. With the leader's laps (`UseDriverLapsRemaining 0`)
the count may be one lap short for a driver who is on the leader's lap, which `limit` allows; a splash of
less than a lap's burn is taken for a lap of low fuel; a lap with exactly the time of the lap before is not
seen as new (irplugin.cpp:777); a second local variable named `extraLapsOfFuel` (547, 960) leaves the configured
one unused for a car's own value, and the model leaves the extra laps out. It is assumed that a session with a
finite total never reports an unlimited remaining time.

When the time of a race is over, the remaining laps by time (806-867) go on counting down, from half a lap to
none, while a slow driver may still have most of his lap to drive. `limit` and `enough` record
what is displayed only up to a lap after that (`LeaderRaces`), when the leader, who ends the race, is
through; the attempt to prove the promise without that condition failed, and TLC shows with `MaxTime = 8` why.

### Proofs (`RaceCalculationProofs.tla`)

For every `Q`, tank, set of burns, races, stored laps, factors and bounds that `RaceAssumption` allows: a lap
takes at least the steps it has and uses fuel of the tank.

* `EstimatesSafe`, for any number of laps. `SmallestFacts` shows that the value of each rank exists, in a finite
  set of values that may be equal; `MiddleFacts` that at most half of the values are under the median and at
  least half up to it; `LowSide` and `HighSide` that some value is as far from the median as the MAD, on each
  side, without which the estimate of a lap time could be faster than every lap.
* `BaseInv`, on which the rest stands: the car is not ahead of the leader and its laps not shorter than a lap
  is; the estimates are those of the laps recorded; what is published was calculated from the limits of this
  session and these estimates.
* `PlanHolds`. That the car is not beyond the limit is not inductive; `LimitInv` says why it stays so: there is a
  line of the track up to the limit that neither the laps nor the time of the race let the car pass
  (`Home`). A promise by laps gives the line of the last lap; a promise by time the first line after the leader's
  last (`LineAhead`). `EnoughInv` says that the fuel covers every step up to the limit, at any rate the
  estimates allow: it begins with what was compared in laps (`StepsOfLaps`), and a step takes one burn from both
  sides.
* `LastStop`, by `NowInv`: with the estimates that `now` remembers a full tank covers the laps that remain,
  by laps or by time (`Covered`), which never become more.
* `StopBringsEnough`: for any unit with a factor that is a fraction, and any amount.

## 10. Session info and standings

`SessionInfo.tla` is `parseYaml` as a function over lines of depth, key and value, and the string that the
simulator writes. The parser ends at a line that is less deep than the last step found, not at the end of a
list item, and goes on into the next one when an item lacks a key; it may do so because iRacing's items have
all keys. Characters, quotes and escapes are abstracted.

`Standings.tla` is the pass of the data branch that shows the neighbours. It begins with a copy of the telemetry
(`ReadTelemetry`: `Lap`, `LapDistPct` and the arrays by CarIdx, with lap counters that lag at the line). The session
string is not copied: `irsdk_getSessionInfoStr` returns a pointer into the simulator's memory, and the simulator
writes the string again in place (irsdk_memserver.cpp:329). So every position is parsed in a step of its own
(`ReadCarIdx`, `ReadClassPosition`), and the simulator moves between any two: results that are brought up
to date (`UpdateResults`), cars that join, enter and leave the track and drive, a session after another whose
results are still in the string. `rewritten` remembers whether the string changed during the pass. `ShowNeighbours`
looks up the places next to the driver's and gives the intervals, `setData` ends the pass.

What a text means is abstracted in three ways: a car's class and its number never change, so they are read in the
step that finds the car; initials and the rounding of intervals to three decimals are left out; and one parse
sees one string. The last is an assumption: a parse that overlaps with the simulator's `strncpy` may see half of
each, and the code does not notice. The returns for a string without a `DriverCarIdx` (irplugin.cpp:1823) are left out,
since the simulator always writes it.

`standings`: three cars in two classes, a lap each, two sessions, one step of the simulator in each pass (`MaxMoves`:
with it the string changes between any two parses). At first the driver and a car of the other class are entered (`Starts`),
the third may join at any moment. `ParsesItem`: the parser finds what was written, for each car and
each position, and no more. `ShowsNeighbours` says what holds of what is published, and it is less than one would expect:

* Always: the cars are of the driver's class, and an interval is given only to a car on the track, from its own lap
  and place; it is the distance, or off by a lap while a counter lags, if the driver's own car is on the track too.
* Only if the string was not written again during the pass (`~rewritten`): they are the cars next to him in the results,
  and not he himself. Without that condition TLC shows the driver as the car behind himself: the results were
  remade after he had been found at one place, and he is found at the next place again (irplugin.cpp:1870, 1917).
* Of the intervals while the driver's own car is off the track nothing is claimed: the code tests the other cars for -1,
  not his own (irplugin.cpp:2078-2087), and -1 of a lap is added to his lap count, which may be -1 too.

### Proofs (`DataFeedProofs.tla`)

For any cars and classes, any number of sessions, laps and results; nothing is assumed beyond the constants'
types and that cars are numbered from 0.

* `ParserFinds` (`ParsesItem`). `parseYaml` is a function from numbers of lines to states of the search, which either
  seeks a part of the path at some depth or has ended. `Scanned(path, a, text, b)` says that a text takes the
  search from a to b; texts that follow one another compose (`ScanAppend`, `ScanConcat`), and the string is put together
  from few kinds of lines. So it is enough to see, for each kind of path, what the lines of one result, one session
  and one driver do to the search: those of another position, session or car leave it as it is, those of the right one
  end it with the value. The two places where the code depends on the string's form are visible there: a session
  without the position asked for takes the search on to the next session, whose number does not match, and which has
  the same depth, so that the search must end at `DriverInfo`; and each car is in the list once, so that the first item
  found is the only one.
* `StandingsInvariant` and `NeighboursShown` (`ShowsNeighbours`), by `StandingsInv == Scene /\ PassInv`. `Scene` says what the
  simulator writes the string from: cars entered once, results that place only them (`Placed`), none for a
  session to come. Results are made by counting the cars ahead, and a count over all cars of a class determines a car's place
  (`ResultsPlaced`). `PassInv` follows the pass: what was copied of the telemetry (`Sampled`), what has been found so far
  (`Reads`) and what is published (`Told`). A parse finds a car that is entered whatever the string has become since
  (`FoundInLine`: the value is that of some line, and `StringProper` says what lines there are), which is why the class is right
  without a condition; that the car is the one at that position (`RowFound`) and stays so is claimed only while `~rewritten`.
  `ShowsNeighbours` alone is not inductive: it says nothing of results in which two cars have a place, of a pass
  that has only begun, or of the string.

## 11. The web server

### Model

`SocketOutput.tla` and `SocketInput.tla` are libwebsockets' functions as operators on one value `st`: the
table of polled sockets with its moving slots, closing, truncated sends, files in fragments, the parser of
the header, the handshake, frames and control frames, and the two callbacks of WebServerLWS.cpp.
`WebService.tla` is the thread around them: `PollNext` and `Wait` are `libwebsocket_service` on Windows
(lws-plat-win.c), which serves the sockets that wait to write and then one network event; `App` is what
`runThread` does afterwards; `Destroy` the end. Clients connect, send their request and frames in pieces, stop
reading, and leave; `Tick` is a second of the clock.

Sockets behave as non-blocking Winsock sockets do: `send` takes all of a call or, when the buffer is full,
nothing; FD_WRITE comes only after a send that failed; until a connection's first wish to write only
FD_READ is selected, so that a client who leaves before is noticed by the timeout alone.

### Run

`web_service`: a slow viewer with a page that sends a ping, its heartbeat, a command cut in two and a close;
a slow and a fast reader of a file; a slow reader of the file with one of a file that does not exist; a slow page that sends its
heartbeat, next to a client that sends nothing. Room for two calls in a send
buffer, two chunks of a file, a timeout of one second: each of them is used up in the run.
`ConnectionsAgree`: table, positions, states and the ESTABLISHED and CLOSED the program hears agree. `Delivered`:
neither direction loses, repeats or reorders. `FileWhole`: a file is complete when the library says so.
`Negotiates`: what does not become a websocket goes away. `Refreshed`: an update, or a later one, reaches every open
websocket whose client reads. Deadlock is off: the server may be stopped.

Fairness: the service thread runs (`WF` of a step of its loop), time passes, a client that is there reads.
The thread has no other duty, and nothing in its loop waits longer than 50 ms.

`OnlyAnswersOverlap` says how far the assertion of `lws_issue_raw` ("Sending new, pending truncated", output.c:107) can be
trusted: it is proved below, and no run checks it, though TLC agrees when it is named in `WebService.cfg`.
`NoSendPastPending` is that assertion itself, and the code does not keep it: a heartbeat is answered as it is read
(WebServerLWS.cpp:482), also while a truncated send is pending. No run expects the violation either; named as an invariant in
`WebService.cfg`, TLC shows it in 19 steps. A debug build ends there (output.c:108); a release build, which has no assertion,
would mix the two frames. The model ends with the assertion, so `ConnectionsAgree`, `Delivered` and `FileWhole` are about what
happens before, and `Negotiates` and `Refreshed` ask nothing of a server that has ended so.

Not modelled: a client that sends frames before the answer to its request, pipelined requests, POST, the hixie-76
handshake, URI normalisation, flow control, client mode, SSL, extensions. A partial send of a few bytes is not
told from one that takes nothing.

### Proofs (`WebServiceProofs.tla`)

For any set of clients, slow or not, any scripts of requests and whole frames cut up in any way, any room in a
send buffer, any length of file and of timeout.

* `ServiceInvariant`, the inductive `ServiceInv`: the library is `Sound`, that is, the table of sockets and the positions
  agree (`TableInv`), and of every connection that has not met the assertion it says where it is in its client's script
  (`RowInv`). r units have been read, the others are in the socket, and after those r units it is asking (`Asking`: the
  header lines known are those read), being sent a file (`Filing`: sent and held back are the answer's header and the chunks
  written), or a websocket (`Talking`: sent and held back are what the program wrote, the frame being read is a prefix of the
  script's, and the messages heard are the payloads of the text frames completed); or it is `Dead`. A client that reads has
  room and nothing held back (`Roomy`).
* `Agreement`, `Delivery`, `WholeFiles`: `ConnectionsAgree`, `Delivered` and `FileWhole` as long as `NoSendPastPending` holds.
  Each is a consequence of `ServiceInv`; none is inductive alone, since what was delivered depends on what is held back,
  and that on the order in which sockets are served. `Freed` and `remove_wsi_socket_from_fds` move slots of the table while it is
  walked (`CloseLate`, `PollNext`): the proof is for the table in any order.
* `OverlapsOnlyByAnswers`: on every other way to `lws_issue_raw` nothing is pending, because the POLLOUT handler sends what is pending
  first, the file loop continues it first, and a request is answered once, on a fresh socket with room.
* `NoAnswersNoOverlap`: if no slow client sends a ping, a close or a heartbeat, then all of it holds without the condition. All but
  one of the slow clients of `web_service` are such.

The loops of the library (`libwebsocket_read`, `libwebsockets_serve_http_file_fragment`, `CloseLate`, `CloseAll`) are recursive
functions of the round; their lemmas go by the least round at which a claim would fail.

## 12. Configuration and life cycle

`ConfigFile.tla` is `readConfigData` on lines of words: the first line that sets an attribute counts, defaults
fill what is missing, and a file that lacks something is rewritten with all attributes, the lines of all cars and the new car.
`Lifecycle.tla` has processes that open and create the mutex, read and rewrite that file, start the server's thread,
get headers with another car, are closed (a thread of its own: `CloseEvent`, `stop`, `join`, `ExitProcess`) or killed
between any two steps. The user may save a file of his own at any moment (`UserEdits`).

A number is named by a word, as its text is read: a flag is what does not begin with 0 (so 0.5 is off), a port what `atoi`
finds at its beginning, the extra laps what `atof` finds, written back to six digits by the stream
(ConfigData.cpp:295, so 0.3333333 becomes 0.333333). `atoi`, `atof` and `sixDigits` are functions of the words, of
which it is assumed that what the program wrote is read as it was written. A port outside `ValidPorts` ends the program.

Nothing protects the file between the reading and the writing of it. `Truncate` and `Write` are two steps: a process
killed between them leaves an empty file, or a beginning of the new text where that is longer than the stream's
4 KB (`Pieces`: how many lines may be out before the close; cuts within a line are left out). What the user saves after
the reading is truncated, or, if he saves between truncation and close, overwritten in its beginning (`Over`).
Three histories say so: `whole` is the file as a rewriting or the user last left it, `cut` that a process has ended since with
its rewriting not finished, `missed` that the user saved after the process had read.

`lifecycle`: two processes, two cars, one with a name of two words, a complete file, one that lacks and repeats attributes
and has a number of seven digits, one with an invalid port, one edit at any moment, crashes that leave nothing or the first five
lines. `OneServer`: one instance, all settings known, no thread left when the server is deleted. `SettingsKept`: a
finished rewriting keeps all values that could be read, for every car, unless `missed` or `cut`; these two are the only ways to
lose a setting (without either condition TLC finds the loss). In every case the file then says what the program works
with, and lacks nothing. `Stops`: a closed console ends its process, under
weak fairness of the server's thread and the handler, both of which only loop or wait for each other.

Two assumptions are constants: `Together = FALSE` (with `TRUE`, two processes between `OpenMutex` and `CreateMutex`,
irplugin.cpp:172-196, both run) and `EarlyClose = FALSE` (with `TRUE`, a close event between the creation of the
server and `start` is answered by a handler that waits for a thread that is started afterwards, and `Stops` fails). Not followed is
what the main loop does with a server that the handler has deleted; its `assert(webServerP != nullptr)` (383, 1154)
can fail then.

A car whose name is the beginning of another's, word by word, is misread: with the cars `legends` and
`legends ford34c`, the line `DisplayCarFuelAsWeight_legends ford34c 0` is read for `legends` too, and then
`legends` gets no line of its own (ConfigData.cpp:346-386). No such cars are in the run, and `NamesApart` in the
proof excludes them.

### Proofs (`LifecycleProofs.tla`)

For any set of processes, any words, cars and files of the user: of the words only `ConfigFileAssumption` is assumed.

* `RunsAlone` (`~Together`), by `Solo`: the handle of the mutex is held exactly by who runs, and if one process
  is not off all others are; and by the types of what is read (`TypeInv`), from which no setting is left unset.
* `SettingsSurvive` (`~Together`, `NamesApart`), by `FileInv`: a process that is about to write has the rewriting of a
  file it has read (`Rewrites`), which is `whole` unless it missed an edit or an earlier rewriting was cut; while it writes and
  has missed nothing the file is empty. Then it is a fact about the rewriting alone: what is written is read as it was
  written (`WrittenFacts`), what is left of another text behind it changes nothing (`RestIgnored`), the lines of the cars come in the order of their first lines (`InOrder`), each car's line is the
  first that sets its attribute in the new file as in the old one, and the attributes without a car are found again. `NamesApart` is
  what makes a car's line its own.

## 13. The runs together

| Run | Distinct states | Shows |
|---|---|---|
| `feed`, `feed_live` | 1.5 million, 54 thousand | section 3 |
| `laps`, `laps_close_races` | 270 thousand; stops at the violation | section 4 |
| `pit_commands` | 103 thousand | section 5 |
| `pit_road` | 35 thousand | section 6 |
| `live_telemetry` | 229 thousand | section 7 |
| `telemetry_logs` | 1.4 million | section 8 |
| `race` | 1.4 million | section 9 |
| `standings` | 394 thousand | section 10 |
| `web_service` | 297 thousand | section 11 |
| `lifecycle` | 190 thousand | section 12 |

Each takes about three minutes or less with two workers.

## 14. What is only model-checked, and what is not modelled

Proved for all constants is every invariant that a run checks, and every action property and refinement: the types and the
safety properties of `DataFeed`, `LapFuelData`, `PitCommand`, `PitRoad`, `LiveTelemetry`, `TelemetryLogger`, `RaceCalculation`,
`Standings`, `WebService` and `Lifecycle`, with four refinements (41 theorems), under the assumptions named in their sections:
`OneConnection`, no close handler in the middle of the main loop, no failed save, `SkipClearOnApply`, `Slow`, `Lag <= 1`,
`CtrlCAtRest`, `~Together`, `NamesApart`, `NoSendPastPending`. Where TLC shows that a property fails without one, its section
says so. Model-checked only:

* liveness (`Served`, `Converges`, `CarriedOut`, `FlashingEnds`, `CatchesUp`, `Negotiates`, `Refreshed`, `Stops`): it rests
  on fairness, which the prover does not handle.

What a recursive definition computes for every input cannot be had from the library's induction theorems, which take an operator
as parameter. The proofs need less: a claim about each round of one loop. `LoopKeeps` (and its like in the other
modules) has that from the well-foundedness of `<`, for a claim given as a function from rounds to sets.

Not modelled, for good:

* fuel and tire selection and the displays: one thread of clicks and drawing, whose only outputs, an amount and a set
  of tires, are arbitrary in `PitCommand` and `PitRoad`;
* the page's heartbeat timer: `DataFeed` and `PitCommand` have reconnections at any moment instead, which includes its own;
  that a slow connection is closed and created again for ever (irPitCrew.js:142) is visible in the code and not a matter
  of its interleavings;
* number formatting, languages and units beyond one factor, HTML and CSS;
* libwebsockets' client, SSL, extensions, and the Unix platform, which this program does not build;
* the simulator, whose data are arbitrary within what the SDK lets it write.

The models do not say how often things happen, only in which order.
