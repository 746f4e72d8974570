# Verification of zwave_alarm

TLA+ models of the alarm service in `src/` (TypeScript, one Node.js process, one
SQLite database, one Z-Wave stick), checked with TLC; every safety property that
holds is also proved with TLAPS, for every value of the constants. Paths below are relative to the repository;
`PROJECT.json` maps every definition to the lines it models.

## 1. The system

One process serves a REST API and a WebSocket stream, runs the panel, and talks
to sensors, sirens, keypads and locks through zwave-js. Everything runs on one
event loop: a handler runs to its next `await` without interruption. Most of
the panel's handlers have no `await`, so they are atomic *unless the process
stops*: they are sequences of SQLite statements without a transaction.

| Component | State | Operations | Hard behaviour |
|---|---|---|---|
| **Alarm panel** `alarm/panel-service.ts`, `panel-repository.ts` | row `alarm_panel` (mode, armed mode, deadline, cause), bypassed sensors, disarmed zones; one in-memory timer | arm, disarm, disarm a zone, breach, tamper, quick exit, raise, silence, resume | one timer slot for two delays; stand-down decided by the last cause; restart in a delay; crash between statements; failing insert in a timer callback |
| **Alarm events** `alarm-event-service.ts`, `alarm-event-repository.ts` | table `alarm_events` (siren and dispatch state); a release timer per held signal | open, silence, time out, end all, end burglary, release, resume | a timer racing the disarm that cancels it; timers lost in a crash; the limit of `list()` |
| **Sensor mapper and table** `zwave/sensor-mapper.ts`, `db/repositories/sensor-repository.ts`, `api/routes/zone-routes.ts` | table `sensor_devices`; attached nodes | breach/clear/tamper/battery/connectivity reports, button; assign, edit, remove a sensor | node objects that are replaced; reports that never arrive; state stored before it is reported |
| **Sirens** `alarm/siren.ts`, `siren-repository.ts` | table `sirens`; memory of what is on, expired, and the auto-stop timers | re-evaluate, auto-stop, enrol, remove, sync | driver away at the wrong moment; memory lost in a crash |
| **Keypads** `keypads/*`, `zwave/keypad-gateway.ts` | known keypads, `sirenOn`, a pending bypass | show the panel, decode a code, chime | an `await` between two writes; missed writes |
| **Locks** `locks/lock-service.ts`, `zwave/lock-gateway.ts` | discovered locks, enrolment, cached parameters | enrol, unenrol, refresh, set code, set schedule, move the bolt | answers that arrive after the state they were asked in is gone |
| **Lock codes** `locks/lock-code-sync.ts`, `lock-code-slots.ts` | table `lock_code_slots` | push a user's code to every lock, clear it | two pushes choosing a slot across an `await` |
| **Lock automation** `locks/lock-automation.ts` | last mode, the entry to skip | follow the panel, drive the panel | which mode change a lock caused; overlapping commands |
| **Dispatcher** `alarm/dispatcher.ts` | a queue | dispatch, process | native over Home Assistant within a window; a handler that throws |
| **Mode schedule** `alarm/mode-schedule.ts` | table `mode_schedules`, `running` | tick | check, await, act; run marked before it is applied |
| **Driver supervision** `zwave/driver.ts`, `zwave/server.ts` | current driver, retry timer; the zwave-js server | start, fail, replace, stop; restart the server | a retry racing a stop; restarts that overlap |
| **Start-up and shutdown** `index.ts`, `shutdown.ts` | - | resume in order; stop in order, within a deadline | a driver that gets ready while it stops |
| **Users, codes, lockout** `auth/*`, `api/routes/user-routes.ts` | users, codes, attempts, lock-out times, guests' schedules | edit users and codes, enter a code in four places, expiry sweep | legal edits that add up; overnight windows; a sweep that waits for the locks |
| **REST, WebSocket, sessions, database schema, web client** | - | - | request validation, forwarding, presentation: not modelled |

Interactions: `PanelService` calls `AlarmEventService` synchronously and both
emit events (`panel_changed`, `alarm_event`) whose listeners (Siren,
KeypadController, LockAutomation, WebSocket) run inside the same turn, before
the handler goes on, up to their first `await`. What they do after it happens
in a later turn, on state that may have moved on.

What makes each correct, in one line: the panel's timer, deadline and mode
agree in every state and survive a restart; an alarm that must be shown is
shown and ends only by someone entitled to end it; a signal is sent exactly
unless it was cancelled in time; the sirens sound while and only while an alarm
does; keypads and locks end up in the state the panel is in; a code opens a
lock only while its owner may use it.

## 2. Modules

```
AlarmEventLog                                 operators on the event log
  ├─ AlarmEventLogProofs                      lemmas on them
  ├─ AlarmEvents                              the service, any callers
  │    └─ Siren ─ MCSiren, SirenProofs        the service with the sirens that follow it
  └─ Panel                                    the panel
       ├─ PanelRefinement ─ MCPanel           PanelContract is what it promises
       ├─ Keypad ─ MCKeypad                   a keypad over the panel
       └─ PanelProofs                         both

Sensors ─ MCSensors, SensorsProofs            sensors, their nodes and their rows
Accounts ─ MCAccounts, AccountsProofs         users, codes, lock-out, guests' schedules
LockCodes ─ MCLockCodes                       codes on the locks
LockAutomation ─ MCLockAutomation             panel and locks, over the mode machine
  └─ LockProofs                               both
Dispatcher                                    the command queue
ModeSchedules                                 schedules, over the mode machine
  └─ CommandProofs                            both
Supervisor ─ SupervisorProofs                 driver, server and shutdown
```

Where a proof module is about two modules, the second one's specification has a
name of its own (`KeypadSpec`, `AutomationSpec`, `SchedulesSpec`).

LockAutomation and ModeSchedules take from the panel only what `PanelContract`
promises of the mode, which `PanelRefinement` shows of Panel: sensors, zones and
events would multiply their states without being looked at.

**AlarmEventLog**: the table as a sequence of rows `[kind, device, siren,
dispatch, ended, releaseIn, age]`, in order of insertion; a row's times are
counted down or up in ticks instead of kept as absolute times, capped where no
code looks further (`CancelWindow`, `SirenDuration`). `Listed` is the query of
`list()` with its default limit of 50, a constant `ListLimit` here.

**AlarmEvents**: the service with callers that may do anything. `timers` is the
`releaseTimers` map, `up` the process. `CrashInOpen` and `CrashInEnd` stop the
process between two statements.

**Panel**: one action per handler; sensors report edges (`SensorFaults`,
`SensorClears`), and the zone/mode/bypass/quick-exit checks follow
`reportSensorBreach`, `evaluateBreach`, `reportIntrusionBreach` in order.
`pendingTimer` is the timer *with what its closure captured*, the row whose
foreign key it will insert included: deleting that row makes the callback throw
(`ExitDelayThrows`, `EntryDelayThrows`). The persisted part is the row
(`mode`, `armedMode`, `endsIn`, `triggeredBy`, `bypassed`, `disarmedZones`),
the sensors and the log; `Stops` loses the rest. `Restart` is
`alarmEvents.resume()` followed by `panelService.resume()`. `Init` includes a
row upgraded from before `armed_mode` existed, which `resume` treats specially.

**PanelContract**: what the docs promise of the mode: arm, wait, be armed,
breach, alarm, disarm, stand down; no crash, no timer. `PanelRefinement` states
that Panel implements it with `session <- armedMode, left <- endsIn`, and that
every turn of the panel is at most one operation of `AlarmEvents`.

**Siren** extends `AlarmEvents`: `on` is the memory of the process with the
ticks to each auto-stop, `lit` what really sounds. Every operation of the
service is joined with the re-evaluation (`Follow`) that its `alarm_event`
triggers in the same turn. A driver that fails, a crash between or inside
handlers (`ProcessStops`) and an un-enrolment may come at any time, as `Faults`
allows. Its run checks the properties of the service as well.

**Sensors**: `attached` is `attachedNodeIds`, `listening` the nodes whose
*present* object has the listeners: the two differ, and that is where a node can
fall silent. A report reaches the mapper in the step in which the device sends
it, or never. `actual` is the device, `rows` the table, and the history
variable `stale` holds what no report can have told of since it changed;
everywhere else row and device must agree. `ByNotification` decodes a
notification as the code does, idle events included. A request is a record in
which `Keep` stands for a field that is left out.

**Accounts**: one row per user, with the guest's schedules in it. Routes are one
action each; the deletion of a user and the expiry sweep are two, before and
after they wait for the locks. `Disarm`, `DisarmByCode`, `Login` and
`KeypadCode` are the four places a code is compared. `ScheduleCovers` is the
code's arithmetic on weekday and minute; `InWindow` is what a schedule says,
counted from its opening.

**Dispatcher**: `dispatch` joined with as much of `processQueue` as runs before
the next `await`. The clock readings in the requests are arbitrary. `Without` is
the splice of what is superseded, by rank: the k-th that is kept is the one with
k kept ones up to it.

**Supervisor**: driver instances are numbered; `loop` is the position of
`startWithRetry`, `restarts` the server restarts under way, each between its two
awaits, `ears` the listeners that the driver facade carries from one instance to
the next. A restart's `destroy()` may leave the port held and its `start()` may not
listen, port free or not; both are logged and nothing tries again before the next
driver (`server.ts:78-89`). The history variable `refused` says that this is how
things stand. `Deadline` is the shutdown's timer.

**LockAutomation**: a loop over the locks that waits for its first lock is a
record in `commands`, with what it has still to look at *as it read it*
(`todo`); commands to one lock are carried out in order. `Advance` goes on to
the next lock that is not where it should be. `listed` is `LockService.list()`,
empty after a start: the panel is resumed (`index.ts:158`) before the server is
started (`:172`), and a lock appears (`LockAppears`) when the driver is ready and its
node interviewed. Until then it neither moves the panel nor is moved by it. `cause`,
`obeyed` and `asked` are history variables: who set the mode, whether its entry went
through the locks, and where each lock known then was asked to be.

**ModeSchedules**: the clock counts half-minutes, the interval of the runner,
and the runner's timer fires once in each, at any point of it. `due` and
`disarmedFor` are what is left of a turn of the timer; a crash may come between two
of its steps.

**Keypad**: a whole `Panel` with one keypad. A turn of the panel first gives
`alarm_event` to the controller (row not yet committed, hence `mode` and
`armedMode` unprimed in `OnAlarmEvent`), then `panel_changed`. `astray` records
what nothing will make up for, a crash inside a handler with the siren on among it.
`wire` holds the
writes in flight in order; a write may carry the indication that the coroutine
awaiting it sends next (`AlarmOffThen`). What the node does (`answers`), what
the service believes of it (`online`) and whether the gateway listens to the node
object of the present driver (`attached`) are three things: a keypad that comes back
between "driver ready" and its adoption, or whose status the service never changed,
is shown nothing (`ReturnsUnnoticed`).

**LockCodes**: each request is a job that runs from await to await (`at` names
the await it is in). `held` is what the slots of the locks hold: a user's code,
one programmed on the lock, or nothing; which of a user's codes it is, is
abstracted. `bits` is the cached bit field, from which `listUsers` decides
whether to ask the lock. A lock may refuse a command, or carry it out and not
say so (`MaybeWritten`). `Record` is the upsert with the table's constraints:
where it throws, the catch throws again and the request is rejected. `raced`
is a history variable: the locks on which two requests were at work at once.
People program codes at the lock at any time (`ProgramAtLock`), of which the bit field
knows nothing until it is read again: a slot that it shows free is given away, and
the code in it overwritten, as in `lock-service.ts:511-515`. `seen` holds the local
codes that were in sight (`InSight`) at some moment since they were programmed: not
shown free by the bit field, in no slot that the table claims, and with no request
under way at the lock, which may have asked for the slot already.
After a restart a lock is not `known` until its interview is over, which is
when the code treats it as not enrolled.

Refused requests (already armed, wrong code, nothing to silence) change
nothing and are not actions.

## 3. What the runs show

All runs are exhaustive within their bounds. `panel_guest` expects a violation
(section 6); the others pass.

| Run | Checks | Instance |
|---|---|---|
| `panel` | `OpenBurglaryShows`, `AlarmHasEvent`, `NoDelayInDisarmedZone`, `DelayNeverExtended`, `OnlyDisarmEndsEmergencies` | a door, a window and a smoke detector in two zones; bypass, tamper, quick exit, duress, guests, removal of sensors, restarts; 2 events |
| `panel_crash` | `TimerMatchesMode`, `RowIsCoherent`, `ImplementsContract`, `ImplementsEventService`, `DelayResolves` | the process stops between any two statements |
| `panel_guest` | `AlarmElsewhereUntouched`, violated | door and window in two zones |
| `siren` | the service: `TimerPerHeldSignal`, `SettledStays`, `HeldSettles`; the sirens: `SirensFollow`, `StopsOnTime`, `NoneForgotten`, `SoundingEnds` | two sirens of different durations, 2 events of 3 kinds; driver losses, crashes, enrolment and removal at any time |
| `sensors` | `MirrorsDevices`, `ConfigCoherent` | one CO detector; driver, process, radio and network come and go |
| `keypad` | `MirrorsUntilAlarm`, `SirenOffUnlessAstray`, `FlagFollowsEvents` | a door and a panic button; a node that dies, driver replacements, crashes; 3 events, 2 of them at once |
| `lock_codes` | `Attributed`, `RecordKept`, `LocalKept`, `SyncedMeansHeld` | one lock of two slots, a user and an installer, codes programmed at the lock; bad radio, restarts, removal |
| `lock_automation` | `LocksObey`, `OwnChangesAreSkipped` | two locks with settings of their own, known one by one after each start, 2 commands on their way |
| `accounts` | `CodesDistinct`, `SchedulesAsWritten`, `LockoutHolds`, `InstallersGo` | two users, three codes, a week of two days, 3 edits |
| `mode_schedules` | `DueRunsOnce`, `ScheduleTakesEffect` | two schedules, days of two minutes, 3 edits |
| `dispatcher` | `QueueIsUnanswered`, `NativePrecedes`, `EveryoneAnswered` | four commands, a clock of three readings |
| `supervisor` | `ServesLiveDriver`, `StickReleased`, `ReadyAgain` | five driver instances; every destroy() and start() of the server may fail |

Each module states its type invariant, and each is proved (section 4).

Some properties carry an exception that is itself a defect of the code, and
that they hold otherwise says that it is the only one. A hazard whose harm lies
within an exception is listed in `PROJECT.json` with the exception in its note:

* `SoundingEnds` exempts the alarm whose last sounding siren is un-enrolled
  (`LastStopTimesOut` fails: `release` never calls `timeOutSiren`);
  `NoneForgotten` asks for a driver (`siren.ts:122`).
* The keypad properties exempt a keypad from which something went `astray`: an
  indication lost for want of a driver (`KeypadService.add` does not show a known
  keypad the state again), or a process that stopped in an alarm (after a restart
  `sirenOn` is false with the siren on, so silencing sends nothing).
  `FlagFollowsEvents` exempts a stand-down in an alarm (section 6).
* `Attributed`, `RecordKept` and `SyncedMeansHeld` say nothing of a lock once two
  requests have met at it (`raced`).
* `LocalKept` speaks of the codes that were `seen`: one programmed at the lock behind
  a stale bit field may be overwritten.
* `ServesLiveDriver` exempts restarts of the server that `overlap` with the next
  driver getting ready, and, until a restart succeeds, those that were `refused`:
  after them nothing, or nothing new, listens beside a ready driver.
* `LocksObey` speaks of the locks that were known when the mode was entered, and of
  entries that found nothing under way (`Calm`): after a start the panel may enter a
  mode that no lock hears of, and two overlapping loops may disagree.
* `DueRunsOnce` exempts what a crash takes (`lastRunAt` is written with the change
  of mode in one step), `ScheduleTakesEffect` a turn that a crash cuts short.
* `OwnChangesAreSkipped` exempts mode changes that went `astray`: a guest's
  stand-down from a lock, a restart during the exit delay.
* `MirrorsDevices` exempts what is `stale`: a sensor assigned while it is open, an
  idle notification for one of two faults, an id that came back.

**Bounds.** `MaxEvents` bounds the rows of the log. A report is followed only where
a running entry delay keeps room for its own event (`RoomForReport`), so with the 2
of `panel` and `panel_crash` one event is open at a time: they explore one alarm
with everything around it (delays, commands, removal, crashes), and the theorems
cover any number. With the 3 of `panel_guest` and `keypad` two are open at once: two
burglaries in two zones, or a burglary and a panic. `siren` has no delays and opens
its 2 at once. Delays, windows and durations
are 1 or 2 ticks: what matters is before, at, and after the end, and the order of
two deadlines, which 1 against 2 gives. `ListLimit` never bites in the runs; the
proofs hold for any limit, or say that it does not bite. The three sensors of `panel` give every pair of roles
(delayed or not, same zone or not, life-safety or not).

* Keypad: `MaxWrites` = 2 admits one turn's two writes; a turn that finds the queue
  full waits. The door raises burglaries and the button panics, the one silenced
  or timed out while the other opens. Exit delays are 0 ticks, so that one may end at any moment, and only
  arming away has an entry delay. The
  keypad does not look at the cancel window, which is 0 ticks there; the siren's
  duration is 0 as well, so that a siren may time out at any moment after it started,
  before, between and after the writes; nobody grants a quick exit. The proofs hold
  for any number of writes in flight and any house.
* LockCodes has one lock: requests meet at a lock, and what they do at different
  locks only shares the table. A client and the sweep are two requests at once. Two
  slots for a user, an installer and what is programmed at the lock give a free slot, a full
  lock, and a slot that passes from one owner to another.
* Sensors has one node: mapper and routes treat each node by its own id and row.
  A CO detector can be edited into an intrusion sensor, so both categories occur.
* Accounts: three edits make a user, give a code, and change what the guards of
  the first two looked at; `MaxCodes` = 2 of three codes is reached.
  `SchedulesAsWritten` looks a whole week ahead, at an overnight window that
  begins on the last day of it.
* ModeSchedules: three minutes of a two-minute day let a schedule come due
  twice. Dispatcher: of four commands one is in the handler while the others
  conflict. Its run and that of LockCodes stop when all they follow is done, so
  they do not check for deadlock.
* Supervisor: with five instances the port is lost and found four times, which is
  more than the restarts and destroys that can be under way at once.
* LockAutomation: two commands are two loops at once, or a loop and the app; two
  locks appear in either order, and modes are entered before, between and after.

**Fairness**, weak throughout. Time passes and due timers run (panel, release,
auto-stop, retry, sweep and deadline timers); the container restarts the process
(`docker-compose.yml`: `restart: unless-stopped`); `startWithRetry` never gives
up; a zwave-js call, a server call or a lock's command ends, well or badly; the
dispatcher's handler returns or throws. Nothing is assumed of people, devices or
the order of ready callbacks. The liveness properties are conditional on the
process (and the driver, or the stick) eventually staying up, since what crashes
for ever does nothing.

## 4. What is proved

Every invariant and every action property that a passing run checks is a theorem,
for every value of the constants (any house, number of locks, users, commands,
schedules, delays and bounds), of the specification with all its crashes and
faults, under the two conditions named where they are needed. Few of them are inductive alone; what each proof adds is named here.

* **Alarm events** (`SirenProofs`): `TypeCorrect`, `NoSignalLost`
  (`TimerPerHeldSignal`), `EndedSettled` (`EndedIsSettled`, which no run checks),
  `SettledRowsStay`. The invariant is the conjunction of the types, `timers =
  Held(log)` while up and the settled state of closed rows. The service of these
  theorems is the one in AlarmEvents; that the panel's turns are steps of it is
  `PanelImplementsEventService`.
* **Sirens** (`SirenProofs`): `NoSignalLostWithSirens`, `SirensAlwaysFollow`,
  `NoSirenForgotten`, `SirenTypeCorrect`, `SirensStopOnTime`. The invariant is that
  of the service with `SirensFollow`, and every action is an action of the service
  joined with a re-evaluation. `SirensStopOnTime` is proved under
  `MaxEvents <= ListLimit`: an event that fell off `list()` and came back would be
  older than the one the auto-stop was computed from. That the oldest age exists
  is well-foundedness of the naturals.
* **Panel** (`PanelProofs`): `TypeCorrect`, `TimerMatches`, `RowCoherent`. `IInv`
  joins: the types; `RowIsCoherent` (a restart rebuilds the timer from the row, so
  the timer is right only if the row was); `TimerMatchesMode` (an elapsing exit
  delay commits what the timer captured, so the row stays coherent only if the timer
  agreed with it); and `RoomForDelay` (an entry delay can always open its event
  within `MaxEvents`, an artefact of the bound that the guards `RoomForReport` keep
  true). `PanelImplementsContract`: initial states map to initial states and each
  action to a step of the contract or a stutter, the crashes and restarts all to
  stutters but for the one that resets an upgraded row;
  `PanelImplementsEventService`; `DelayIsNeverExtended`. `BurglaryShows`,
  `AlarmIsOverSomething`, `DelayOnlyWhereArmed` and `EmergenciesStay` stand under
  two named conditions: `MaxEvents <= ListLimit` (a disarm closes what `list()`
  returns) and `~CrashInsideHandlers` (section 5). The three invariants are inductive
  together with `IInv`: a guest's stand-down leaves the alarm, so it must close every
  open burglary, and it does because `list()` returns every open event. What each
  operator of the log begins and ends is a lemma (`Opening`, `Closing`,
  `Rewriting`), and an action is one of them with a change of mode.
* **Keypads** (`PanelProofs`): `KeypadTypeCorrect`, `KeypadMirrors`,
  `KeypadSirenEnds`, `KeypadFlagFollows`, over the whole panel. `KInv` adds to the
  panel's `IInv`: `LinkInv` (no write is in flight without a driver); `FlagInv` (the
  controller's flag is on only over an alarm that sounds, and whenever one does until
  something goes astray); `QuietInv` and `MirrorInv`, which speak of `Last`, what the
  keypad shows once the writes in flight have arrived. The proof first classifies
  what a turn of the panel can do to the log, whatever the handler.
* **Sensors** (`SensorsProofs`): `TypeCorrect`, `ConfigStaysCoherent`: each row has
  its form and is coherent; an edit merges a request into a row field by field, and
  the proof splits on the category it asks for. `RowsMirrorDevices`: `MirrorInv`
  says that while a driver is ready every node that did not leave is listened to
  (`Listens`), and that row and device agree beyond what is `stale`; a report that
  is not heard makes its aspect stale, and one that is heard settles it.
* **Users** (`AccountsProofs`): `TypeCorrect`, `CodesName`, `LockoutBars`,
  `SchedulesMeanWindows`. The invariant joins the types, `CodesDistinct` (a route
  checks one code against all the others) and that a lock-out once announced is never
  longer than the one in the user's row. `SchedulesMeanWindows` needs of the state
  only that the routes checked every schedule; the rest is arithmetic: weekday and
  minute are the quotient and the remainder of the time, and a window that runs over
  midnight is found from the day after it began.
* **Lock codes** (`LockProofs`): `TypeCorrect`, `SlotsAttributed`, `RecordsKept`,
  `LocalCodesKept`, `SyncedIsHeld`. `LocalsLeft`: no request has its hand on a slot
  that holds a `seen` code, unless it is still to ask the lock for it; a code comes in
  sight only where no request is at work. `Own`: on a lock that only one request works on, what the request remembers
  across its awaits agrees with the table and with the lock. Both speak of a request
  and of tables that another request's turn changes, so the proof first shows that a
  turn leaves the other requests' locks quiet, or the lock is `raced`.
* **Lock automation** (`LockProofs`): `AutomationTypeCorrect`, `ModesMoveLocks`
  (`LocksObey`), `OwnEntriesSkipped` (`OwnChangesAreSkipped`). `Chased`: a bolt that
  a mode still asks for is there, or a command under way moves it there or belongs
  to a loop that has yet to come to it, and nothing under way moves it elsewhere.
  Only listed locks are asked, so a loop that begins comes to each of them.
  `EntryInv`: what is to be skipped fits the mode the exit delay leads to, and is
  forgotten in an alarm and on disarm. What `Advance` returns, and what removing and
  joining do to the elements of a sequence, are lemmas.
* **Mode schedules** (`CommandProofs`): `SchedulesTypeCorrect`, `SchedulesRunOnce`
  (`DueRunsOnce`), `SchedulesTakeEffect` (`ScheduleTakesEffect`). `RunsInv`: who ran
  in this minute has it in `lastRunAt`, and who has to run and did not is due in this
  turn, or this is the first half of the minute and its turn is to come. `TurnInv`:
  what is left of the turn is still due, and the panel waits disarmed for the
  schedule that disarmed it.
* **Dispatcher** (`CommandProofs`): `TypeCorrect`, `QueueHoldsUnanswered`,
  `NativeHasPrecedence`. The lemmas show that ranks in a finite set of numbers count
  from 1 to its size, so a splice keeps each remaining command once and in order;
  `LoopInv` that the loop runs exactly while the queue holds something.
* **Supervisor** (`SupervisorProofs`): `TypeCorrect`, `ShutdownReleases`
  (`StickReleased`), `LiveDriverServed` (`ServesLiveDriver`). `DriverInv`: a ready
  driver is watched until the shutdown takes it. `ChainInv`, `RestartInv`,
  `PortInv`, `ServedInv`: while restarts do not overlap there is one at a time, it is
  about the present driver, and the server that listens when it is over serves that
  one. `RestartInv` holds after a restart that failed as well, which is why the next
  one that listens puts things right; `PortInv` and `ServedInv` only until then.
* `AlarmEventLogProofs`: what `Opened`, `Closed`, `MoveSounding`, `Released`,
  `Aged` and `ResumedLog` preserve, each stated once and cited by name.

The proofs assume only the named assumptions on the constants
(`EventLogAssumption`, `AlarmEventsAssumption`, `PanelAssumption`,
`SirenAssumption`, `KeypadAssumption`, `SensorsAssumption`, `AccountsAssumption`,
`LockCodesAssumption`, `LockAutomationAssumption`, `ModeSchedulesAssumption`,
`DispatcherAssumption`, `SupervisorAssumption`), which TLC evaluates in the runs, and
the conditions named above. They say that bounds are numbers, that tables have
their shape and that different things have different names.

Only model-checked: liveness (`DelayResolves`, `HeldSettles`, `SoundingEnds`,
`EveryoneAnswered`, `ReadyAgain`, `InstallersGo`), which needs fairness and
ENABLED, and the violation of `panel_guest`.

## 5. What is left out, and why

* Zones, sensor settings and delays do not change during a run of Panel; a sensor
  can be removed. `updateSettings` touches only rows read at the next breach.
* `OpenBurglaryShows` and `AlarmHasEvent` are not checked with crashes inside
  handlers: such a crash leaves an open event without a panel in alarm, and no
  document says otherwise.
* The security-event history is modelled only where its insert can fail.
* Siren: a device obeys, the duration is fixed at enrolment. Keypad: writes to a
  node are in order (zwave-js queues them); digits, bypass prompt and chirps are
  left out, a code entered is `Accounts!KeypadCode`. Sensors: zones, names and chimes; a battery level is low or not.
* Lock service: `LockCodes` has its user codes and enrolment, `LockAutomation` its
  bolt. The other parameters (schedules of codes, configuration) and the refresh
  that reads them are left out, and so are people who delete or change a code at the
  lock that the base station put there.
* Accounts: hashing, names, Home Assistant links, time zones with daylight saving.
* ModeSchedules: weekdays; bypass of faulted sensors, which is `Panel!Arm`'s.
* Supervisor: the length of delays. Requests in flight during a shutdown.
* Sessions and rate limits, request validation, the WebSocket stream, migrations,
  the web client and the Home Assistant integration: presentation, library
  configuration, or checks of a single request; no state that interleaves with
  the alarm.

## 6. Disagreements between code and documents

`panel_guest` shows one with TLC's shortest behaviour, `PROJECT.json` "findings"
quotes the line: a guest who stands down the last alarm of their zone also ends
the burglary of another.

Met while modelling, and described by the exceptions and actions of the models,
without a run of their own:

* Panel: removing the sensor that started an entry delay makes the callback throw
  (`EntryDelayThrows`): no alarm until the next start (`data-model.md:20`). With
  more than 50 open events a disarm closes the newest 50
  (`AlarmEventRepository.list`).
* Siren: an alarm cleared while the driver is away leaves its siren on
  (`siren.ts:122` against `:27` and `:33`).
* Keypad: `keypad-controller.ts:81` says that "The keypad siren follows the alarm
  events"; a guest's stand-down, which leaves the alarm, switches it off while a
  smoke or panic event still sounds (`StoodDownInAlarm`). Disarming a sounding alarm can leave the keypad showing "armed"
  (`keypad-controller.ts:306` against `contracts/keypads.md:63`); after a restart
  in an alarm, silencing does not reach it. A keypad that missed writes while it was
  dead and is back before the new driver's gateway adopts it is not shown the state
  (`keypad-service.ts:73-76`). `pendingBypass` is shared by all
  keypads, so the same request on another one confirms it.
* Lock codes: two users given a code at once may get the same slot
  (`lock-code-sync.ts:61` against `lock-code-slots.ts:6`); a code cleared before a
  lock's interview is over stays on the lock while its record goes; "the lowest slot
  that neither holds a code on the lock nor belongs to another app user"
  (`lock-code-sync.ts:75`) is looked for in a bit field that may be old
  (`lock-service.ts:511-515`), so a code programmed since is overwritten; un-enrolling a
  lock whose bit field cannot be read clears the slots last read, not all thirty;
  the sweep at start-up runs before the driver is ready, so an installer's lock
  code stays.
* Lock automation (`lock-automation.ts:49`, "A mode change that a lock itself
  caused does not command any lock"): a zone guest's stand-down from a lock does,
  and so does a restart in the exit delay; the skip left by a zone-only disarm
  swallows a later entry; overlapping loops act on a `locked` read before; "locks or
  unlocks locks when the panel enters a mode" (`:47`) is not so after a start, until
  the driver is ready and the nodes are interviewed, and nothing makes up for it.
* Accounts: the sweep deletes a user who stopped being an installer while it
  waited; `PATCH guestExpiresAt` lifts the 48 h of an installer; a demoted
  administrator keeps a duress code; `DELETE /users/:id` does not ask for the last
  administrator, and the last one with a code may lose it.
* Mode schedules: from home to away the panel passes through `disarmed`, which the
  locks follow; a crash in between loses the run; `findConflict` compares the
  names of time zones, so a null one and the server's own are not the same.
* Dispatcher: the panel's handler is synchronous, so the precedence of FR-014
  (`spec.md:103`) never has two requests to choose from.
* Supervisor: overlapping restarts of the server may leave Home Assistant on a
  dead driver, and one that fails leaves it on none until the driver is replaced again
  (`server.ts:68-72`, "Replace it so Home Assistant's Z-Wave JS integration ... sees
  the live driver"); a server whose port is taken at first is never started; an attempt
  that neither succeeds nor fails is not timed out.
* Sensors: an id that comes back after its node was taken off is not listened to
  until the next driver; an idle Home Security notification clears tamper and
  breach (`sensor-mapper.ts:226`); a sensor assigned while it is open or dead is
  stored as normal and online; `PATCH category` is not checked against the device,
  and turns a CO detector into SMOKE on the way back.

## 7. Plan

The components of section 1 that keep state of their own are modelled. What is
left, in this order:

1. **LockService**: refresh and parameters across awaits, with un-enrolment.
2. **Keypad**: the digits, the bypass prompt and the chirps.
3. **Zones** and the settings that the panel reads, edited while it runs.
4. Proofs: that the mode machines of LockAutomation and ModeSchedules are
   `PanelContract`'s, which is so far by reading.
