# aquaOne: models and proofs

aquaOne is firmware for aquarium controllers on the ESP32, and an integration
for Home Assistant. This directory holds TLA+ models of the parts of it where
order, time, failure or concurrency decide whether the code is right, TLC
configurations that check them on small instances, and proofs of what holds for
every value of the constants. Each definition names in `PROJECT.json` ("map")
the lines of the source it stands for.

## The system

One firmware per product, over a shared library. Two tasks matter on every
device: the *application task*, whose `loop()` calls the components one after
another for ever, and the *HTTP task* of ESP-IDF's server, which serves requests
and WebSocket clients. They meet only in bridges, published snapshots and the
realtime transport.

| Component | State it keeps | Operations | Talks to |
|---|---|---|---|
| Core command bridge (`WebActionBridge`, `WebApplicationBridge`, `NativeActionBoundary`) | slots with state, owner token and result; ring of pending slots; one completion semaphore per slot | submit, wait, abandon (HTTP task), processOne (application) | every product's web adapter |
| Core configuration (`StorageService`, `ConfigLifecycle`) | two flash slots with generation, CRC and schema; desired and active configuration, status flags | begin, loadLatestRaw, saveCurrentRaw; startup, update | Hydro and Luma settings, Doser storage |
| Core realtime (`RealtimeResync`, `Realtime`, `EspIdfWebTransport`) | stream position, snapshots, client registry, recovery slots, work pool | publish cohort, handshake, send, recover | HTTP task, Home Assistant |
| Core runtime (`ApplicationRuntime`, `RuntimeStateCoordinator`, maintenance, command gates, `ActionLockCoordinator`, `AlarmState`) | status with phase, health and safety; start report; alarms and what is stored of them | start, handoff, refresh, requestMaintenanceTransition, evaluate, setCondition, acknowledge, clearLatched, restore | every product |
| Core network and time (`NetworkService`, `NtpService`, `RtcService`, `ResilientTimeService`) | link state, reconnect anchor, attempt at a time server, battery clock, remembered time | begin, update, poll, sync | schedules |
| Core HTTP server (`NativeWebService`, `EspIdfWebTransport`, `HttpRouteRegistry`) | table of routes, server handle, callback in progress, control bytes | compose, begin, dispatch, stop | HTTP task |
| Core diagnostics, logging, events, identity | rings of records | report, render | every product |
| Hydro top-up (`HydroSenseApp` and its components) | pump, debounced float, tank measurement, reserve grade, controller state, alarm, mute, pending restart | one pass of `update()`, web commands | pump, buzzer, HTTP task |
| Doser dosing (`SchedulerManager`, `PumpDriver`, `PumpManager`, `StorageManager`, manual dose of `MqttManager`) | scheduler state, running pump, pumps' settings and last dose, two flash records | one pass of `loop()`, MQTT commands | pumps, flash |
| Doser firmware upload (`StreamingUploadBridge`, `DoserOtaApplication`, `DoserNativeOtaRoute`) | one-slot bridge with session and cancel flag; update state machine; restart | admit, submit, wait, take, complete, cancel, watchdog | scheduler, pumps, HTTP task |
| Luma light (`LumaCore`, `ModeManager`, `DayEngine`, `FirmwareApp`, drivers) | mode and overrides, transition, timers, profile, levels of the outputs | enter/exit of each mode, update | LED drivers, HTTP task |
| Home Assistant (`realtime_client`, `coordinator`) | WebSocket state, installed and seen positions, overlap buffer | connect, resync, live, fallback | a device's realtime transport |
| Gas, Clima, Fauna | values read, or nothing | one pass | - |

What is hard in it: two tasks and a time-out between them (bridges, upload,
realtime); power failures between and inside flash writes (configuration, last
doses); a clock of 32-bit milliseconds, read at irregular passes; a wall clock that
is set, lost and found again; callbacks that call back; actuators that several
inputs may stop and start in one pass; reconnects and resynchronisation
of a stream with a snapshot. `PROJECT.json` ("hazards") lists each with its line.

What makes each component correct:

* *command bridge*: a command runs at most once, in the order of submission,
  with its result given to its caller or to nobody; no slot is lost while the
  synchronizer works; a caller is told that its token is open when it is.
* *configuration*: a saved configuration survives power failures and failing
  writes, is never replaced by an older one or by the defaults, and the status
  says when the stored and the running settings differ.
* *Hydro*: the pump runs only when asked for, allowed and unattended, not for
  longer than its limit; low water is answered; a lockout and an alarm stay
  until somebody deals with them.
* *Doser*: one pump at a time, at most one dose per pump and day, the reservoir
  accounts for what was pumped; a missed dose is not made up for later.
* *upload*: an image is written whole or not at all, nothing doses or restarts
  meanwhile, a committed image leads to exactly one restart and an abandoned one
  gives the device back.
* *realtime*: the device tells a client of every change or closes its connection,
  and recovers from any failing call; a client that believes it is up to date is,
  never shows something older than it has shown, and catches up in the end.
* *runtime*: a start calls everything once and in order, and nothing of the
  network before the safety gate; a failure is for good; a command is carried out
  only in a state it fits and while nothing locks it; who follows an alarm's
  events knows its state, and a latched alarm is never lost silently.
* *network and time*: attempts are paced and never stop while they may help; a
  stopped clock is not believed; the time is right once the world is kind.
* *HTTP server*: only a whole table is served, an exchange that was not read to
  its end costs its connection, and a stop returns.
* *Luma*: sessions nest, and each that has a limit ends; the light moves in
  small steps whatever happens to modes, profiles and the clock; nothing is lit
  that the core does not show.

## The modules

### CommandService, CommandBridge, BridgeAndConfigProofs

`CommandService` says what a producer may rely on: a command is submitted, runs
at most once and in order, and settles as answered, unanswered or refused.
`CommandBridge` is the code: `slots`, `pending` and `completion` are the members of
both bridges and of the ESP32 synchronizer; each producer has the program counter of
`NativeActionBoundary::submitAndWait` and of one of four callers (`Variants`:
the boundary itself, Hydro's, Luma's and Doser's adapters, which clean up
differently); the application's `processOne` is split where it leaves the lock,
around the command. A call of the synchronizer may fail (`MaxFaults` times), a
wait may time out at any moment. `ImplementsService` is the refinement: a
command's outcome is read from its slot and its producer.

`SlotsAccounted` says that the ring holds each queued slot once and nothing else
and that a token reported closed owns no slot; `LossesBounded` that a slot, or an
anomaly in the counters, costs a fault of the synchronizer; `AcceptedCommandSettles`
that every accepted command ends.

### DualSlotStorage, ConfigLifecycle, BridgeAndConfigProofs

`DualSlotStorage` holds `StorageService`'s functions: which slot is the latest
(`Newer` compares generations modulo `GenMod`), where a save writes and what can
come of it: it is refused, written, torn, or written and reported as failed.
`ConfigLifecycle` adds the lifecycle's startup and update, three firmware releases
with a schema each, and power failures between and inside these steps. A release
migrates the schema before its own and no other: after a skipped release the
start ends with `MigrationFailed` and the record stays as it was. Of the products
only the diagnostic provider and the tests use the lifecycle yet.

`AcknowledgedSurvives` is stated for boots that can read the flash. Two
situations are outside it on purpose. A boot that misreads the newer slot falls
back to the older record (`LoadFaults` is empty in the run). And a write that
landed while being reported as failed, followed by a misread, is a double fault
which two slots cannot mask. `NewerSchemaUntouched` is about a downgrade: the
record of the newer release is neither overwritten nor taken for damaged. `DriftIsReported` is the promise the code keeps after a failed
save, `NoHiddenDrift` the stronger one of the decision record, which it does not.

### HydroSense, HydroSenseProofs

One step is one pass of `HydroSenseApp::update()`: an operator per component, in
the order of the calls, each with the component's members as a record. The
inputs of a pass are the time since the last (1..`MaxStall`), the float's pin,
the sensor's echo and level, a button gesture and a web command. Ages replace
time stamps and wrap at `TimeMod` as differences of `millis()` do. The button's
debounce, the beep pattern, the network and the published status are left out;
changed settings act only after the restart they cause, so a save is only that.

`PumpGuarded` relates the pump to the float, the service switch and the last
complete measurement, and bounds its runtime; `TopupRules` says of every order of
inputs that the pump starts after the whole delay only, that a lockout ends only
on request, and that a mute ends with its alarm. Both lean on a stop-watch held
outside of the device (`onFor`, `lowFor`). `GradeSteady`, a theorem only, needs a
positive hysteresis, which the validator does not require. The lockout is in RAM
and does not survive a restart, so `TopupRules` allows `Begin`.

### DoserDosing, DoserProofs

One step is one pass of the Doser's `loop()`: `DriverLoop`, the firmware upload's
effect on the pumps and the scheduler, `SchedulerLoop`, then at most one MQTT
message. `driver` and `sched` are the members of `PumpDriver` and
`SchedulerManager`, `pumps` what `PumpManager` holds and `flash` the two stored
records; a write that fails leaves its record as it was. `SavePump` writes the
record of all pumps, so a later save repairs an earlier failed one, as in the
code. Time is UTC in units, days have `DayLen` of them, a date is the number of
the day in Poland, whose clocks are `Ahead` of UTC (`LocalTime`); an event's hour
becomes an instant as if it were one of UTC (`EventTime`), as `mktime` does in a
program that never sets its time zone. A dose is its runtime: calibration and volume are one quantity. Wi-Fi
and NTP appear as a time that is valid or not and may be corrected (`Jumps`).
`Restart` is any restart followed by `setup()`. Each of the two records may be lost
(`lost`), and the keys of an older release, which nothing erases, may take its place
(`imported`: `OldConfig`, `OldRuntime`); without them it gets the defaults. When the
runtime record was lost, the pumps without a history are disabled (`FailSafe`). A
configuration that nobody has made is one of a first start: pump 1 gets the test
configuration and all is saved (`SaveAll`). Each of these writes may fail. `NextDose` is
the announced next dose (`getNextDose`).

`tried` and `given` record, per pump, the last event started and the last one
completed and remembered. Both start afresh when the pump's time is edited: an edit
of its days moves no event. A restart keeps `given` if the record of that dose reached
the flash (`Remembered`). `DoseNotRepeated` compares it with every start; corrections
that set the clock back by more than a day less a window can make the device repeat a
dose, and the run's stay below (`SetBackAtMost`). `DriverAgrees` ties
pins, driver and scheduler to one running pump, `NothingMissed` is about passes without
disturbances (`calm`) and doses that leave the driver's limit a stall's margin.
`RecordsKept` says that the records follow the RAM until a write fails, and that
a pump whose history was lost stays off until somebody enables it (`forgot`). It excepts
three boots: one that could not write the disabled configuration, after which the device
doses without a history from its next restart on; one that lost the configuration too,
which an older release's may replace; and a first start, whose test configuration enables
pump 1.

Not modelled: publishing, names, the beginning and end of summer time, the estimate of
the last dose of a reservoir.

### FirmwareUpdate, FirmwareUpload, DoserProofs

`FirmwareUpdate` is what an upload promises for the inactive flash partition: it
is written in order by one upload, chosen for the next boot only when whole, not
interrupted by a restart, and booted once chosen. `FirmwareUpload` is the code.
The HTTP task (`routePc`) takes one request at a time through
`DoserNativeOtaRoute`: headers, admission, START, one CHUNK per part, END and the
request for the restart. Each operation goes through the one slot of
`StreamingUploadBridge` to the application's loop (`appPc`), which runs
`DoserOtaApplication`, `DoserWebApplication`, the MQTT service and the restart
in the order of `main.cpp`. A step is what happens between two critical sections
of the bridge, so a cancellation may fall before an operation, between the two
looks at the flag, or after them. An image is the sequence of the parts
`<<session, number>>` found in the bridge's buffer when they were written; they
are read outside of the lock, and a buffer reused too early would show.

A wait may time out, a client or the connection break and a flash operation fail
at any time. The mutex never refuses, as `Esp32ActionBridgeSynchronizer` takes it
without a limit. Of the clock only the second before a restart and the watchdog's
thirty remain (`RestartTime`, `WatchdogTime`). A restart ends the behaviour.

`AnswersTrue` compares what the client was told with the image that will be
booted: a time-out after END is the one answer that may be either. `SessionEnds`
is about a session that was admitted and abandoned at any point, `NoDoseWhileWriting`
about the scheduler and MQTT, which start pumps by different ways.

### RealtimeStream, RealtimeTransport, RealtimeClient and their proofs

`RealtimeStream` is the contract between a Luma and Home Assistant: the status
served over HTTP carries a position; a connection gets a StreamStart and then
every position after it, or is cut; what is served at a position changes only
with the position, except while nobody is connected; the status becomes
available again, and a connection is brought up to date or cut (`DeviceKeepsUp`).
`RealtimeTransport` implements it, and `RealtimeClient` relies on it and on
nothing else of the device, so that each side is checked alone.

`RealtimeTransport` has the application's task (`appPc`: `LumaRealtime::update`
and `serviceRecovery` with the publisher they call) and the HTTP task (`httpPc`:
handshakes and the queued StreamStart, notification and close items). A step is
what one task does under the transport's mutex or between two such sections, so
a publication falls between a handshake's capture and its StreamStart, and a
socket chosen for closing may be another client's when it is closed. The calls
that may fail (`Fault`) are building the status, queueing work, sending,
closing, stopping and starting the server. A publication is withheld, built,
published, announced to new clients and notified in the order of `publishAt`;
publishing and withholding cannot fail, as their lock waits without a limit.
The periods of the loop (100 ms, 1 s) are left out, the ten seconds of
`RetryNeeded` are `TenSeconds`. The client is one that connects again after each
connection; its former socket stays open on the device until the device closes
it or notices. Assumed of ESP-IDF and lwIP: work is run in the order it was
queued, by one task, and a new connection takes the lowest free descriptor. A
failure to register the handlers when the server is restarted is left out: the
code then never starts it again (`registrationFailed_`), and no recovery follows.

Three checks of the code turn out to be second lines of defence: the model keeps
the contract without `missedWhileConnecting`, without the generation that
notifications carry, and when the recovery may end before the last client is
gone, each taken away alone. The first-in first-out queue already orders them.
Closing every client when a recovery starts is what cannot be left out.

A client's own frames reach the device as well (`ReceiveFrame`): a ping or a
frame without content is answered, a closing frame and everything the device does
not support end the connection.

`RealtimeClient` has the session of `LumaRealtimeClient` (`phase`) under
the coordinator's supervisor, the polls of the coordinator, and the lock that
makes their HTTP reads one at a time (`readers`). Everything asyncio does
between two awaits is one step. A read is answered with the status of a moment
between its request and its arrival, so notifications overtake it. Frames are
positions; contents are numbered in the order the device says them. Reboots of
the device change the runtime, whose positions have no order with the former
ones; there the lock alone keeps what is shown from going back. The watermark of
the installed status is that of `data`, and only `seen` is kept.

`InSync` says that no notification is forgotten. `CatchesUp` includes the way
out of a failed poll: a safety poll that was answered before a notification the
session has already seen is rejected, the update fails, the stream is blocked
and the socket closed, and only a later poll unblocks it. Until then the
entities are unavailable although every request succeeded. Not modelled:
unloading the entry, frames that cannot be parsed, a firmware without the stream.

### LumaModes, LumaCore, LumaLamp, LumaFirmware, LumaSchedule, ModeStack, LumaProofs

`LumaModes` is `ModeManager` and `LumaCore` the pass and the requests of the
core, both as operators on a record; `LumaLamp` is a driver of the outputs whose
calls may fail; `LumaFirmware` composes them as `FirmwareApp` and `main.cpp` do.
Its phases are those of `loop()`: a pass, then at most one request from the pages
(or from the sessions of the core that no page offers yet). A driver call that
fails turns the lamp off and stops the firmware for good; only `Reboot` tries it
again. `ModeStack` is the promise of the modes: sessions nest.

Levels are abstract: they are named by where they come from, and any point
inside a transition is `<<"mid">>`. The clock reads one of three points of a day,
between which it drifts; a jump may lead to any of them. What the levels are
within a day is the subject of `LumaSchedule`: the eight stages of `DayEngine`
and the curve between them, one channel, in whole percents, progress and curve
in thousandths. `DayEngine` multiplies floats, so that a stage whose second is a
whole number may fall a second short: 0.84 does so for 27 of the photoperiods.
The model lets any such stage fall short, one at a time, and the light has to be
seamless either way. Its second half is `isSignificantTimeJump`.

`ModeSpec` is the refinement of `ModeStack`; `Smooth` says that no pass of a lit
lamp shows anything but what the last one showed or what a transition has
reached since, whatever modes, profiles and clock did; `SessionsEnd` that what
is timed ends; `LitByCore` that no channel is lit that the core does not show,
even when two driver calls fail together; `ClockRunsSmoothly` that the schedule
alone has no edge and that a jump is seen exactly when clock and uptime disagree
by more than 3.5 s. Not modelled: editing a profile and its fingerprint, thermal
readings, storage (a boot finds any profile; storing may fail), and the wrap of
a simulation's age.

### AlarmState, CoreRuntime, DeviceLife, RuntimeAndTimeProofs

`DeviceLife` is what a device promises of its life: a start that must clear its
safety, work, service and back, and failures that are for good. `CoreRuntime` is
the code: `ApplicationRuntime` with a plan, the `RuntimeStateCoordinator`, the
maintenance transition, the four gates commands pass, `ActionLockCoordinator`,
and alarms (`AlarmState`, operators on one alarm's record).

All calls come from one task, but the callback of a participant may make any of
them before it returns, `start()` included; `CallbackReturns` is therefore an
action of its own and everything else may happen before it. `refresh()` and the
handoff are asked for by the product and may come late: `fresh` says whether the
status tells what the providers now say. Requests for maintenance are not nested
(the header asks this of the callers; the code does not check it). The plans of
the run are constants: two that are right and seventeen with one rule broken each.
After a start that failed nobody reads alarms and providers any more
(`Followed`); a restart forgets all but what the application has stored.

`GatesHold` joins the order of the start and the obedience to locks; `EventsTell`
compares an alarm with what somebody knows who heard its events only; `AlarmHeld`
is about latched alarms across operations, restores and restarts; `LifeSpec` is
the refinement of `DeviceLife`.

### NetworkService, NtpService, RtcService, DoserTime, DeviceTime, Calendar, RuntimeAndTimeProofs

`DeviceTime` is a device in the hands of its loop: a tick is a pass, which
updates `NetworkService` and then lets one of three drivers keep the time, the
core's `NetworkNtpSync`, the lamp's `NtpSyncCoordinator` or the Doser's
`TimeManager` (`DoserTime`). `NtpService` is an attempt at the time server and
its period; `RtcService` the battery clock, of which the model keeps whether its
registers are the right time, a wrong one or garbage, the flag that its
oscillator stopped, and whether it was never completely set since (`unset`). A
register write that is acknowledged is assumed to have happened; one that is not
may have happened in part. That three values are enough for the registers is what
`Calendar` justifies: it holds the calendar arithmetic of five files, which
`OneCalendar` compares with one another day by day over eight years, leap, not
leap, 2100, 2106 and 2199 among them, and `CalendarIsOne` for all two hundred years.
It is attached to the device's state, since
a time shown may come from any of them.

The ages of the core are 64 bits wide and saturate in the model; that the
32-bit clock is widened right assumes one observation in 2^32 ms, which the pass
makes. The Doser compares in 32 bits, so its counters wrap (`Wrap`). What the
world does is `weather`: anything, then possibly fair or without a station for
ever. `quiet` and `gap` measure what `AskedInTime` is about; only a Doser that was not
told the time since it started, or has none, may ask again before a day is over. Shipped Dosers are
built with `RTC_MODULE_ENABLED` false; the run has a Doser of either build. A
Luma is configured without a connection timeout; a station that reports
"connecting" for ever is then never retried, and `KeepsTrying` leaves this out
of the weather `down`. Access point, names, addresses and time zones other than
Warsaw are left out.

### WebServer, WebServerProofs

The table of routes that a product composes (`NativeWebService`,
`EspIdfWebTransport`, `HttpRouteRegistry`), its start, stop and recycling by the
application's task (`appPc`), and the exchanges of the HTTP task (`httpPc`) from
the dispatch of a request to the purge of its body. The HTTP task exists from
`httpd_start` on, so requests arrive while the table is being installed. A path
stands for a path with its method, a length counts pieces of the receiving
buffer, every receive and send may fail or time out. ESP-IDF's server is
external: after a callback that returns `ESP_OK` it reads the rest of the body
and keeps the session, after another it closes it, and its control message comes
before the next request. A disabled configuration and a change of the port are
left out, `abort()` on a table that cannot be composed ends the device.

`TableServed` says that a handler runs only under the whole table and that a
start that failed leaves no task behind; `ExchangesClean` that no byte of a body
is taken for a request, that no callback leaves a body to the server's own
unbounded purge while the transport accepts requests, and that a stream is told its end or its
abort; the realtime path is excepted where its handler looks at no body and
answers no plain GET. `StopReturns` says that `httpd_stop`, which waits for a callback that may wait
for the task that stops it, comes back.

## The runs

| Run | Instance | Result |
|---|---|---|
| `command_bridge` | 2 producers, 2 slots, 3 commands, 2 faults, 4 callers | the bridge implements the service and settles what it accepts |
| `config_lifecycle` | 3 releases, 3 boots, 2 saves, 2 failing writes, 1 misread during a save, generations modulo 8 | nothing acknowledged is lost; drift is reported |
| `hydro_topup` | delays of 2 and 3, stalls of 2, clock modulo 8, levels 0, 1, 3, 4 around 0 and 2 | all properties hold |
| `doser_dosing` | 2 pumps, days of 8, windows of 6, a gap of 1, stalls of 2, 2 disturbances in 9 units around midnight | all properties hold |
| `doser_manual` | as above, one message, a limit of 5 | violated: a manual dose does not end when planned |
| `firmware_upload` | 2 sessions of 1 or 2 parts | all properties hold; the code implements `FirmwareUpdate` |
| `realtime_transport` | 2 places, 1 work item, 2 sockets, 2 changes, 2 connections, 1 failing call | places come back; the code implements `RealtimeStream` |
| `realtime_client` | 2 runtimes, 2 notifications and 1 change of the content, 2 attempts, an overlap of 1, 1 failing request | all properties hold |
| `luma_firmware` | 2 profiles, 2 levels, 2 open sessions, timers of 2 ticks, 2 channels, 2 failing calls; schedules of 1, 5 and 120 minutes, readings at 5 seconds of the day | sessions nest, light never jumps, what is timed ends |
| `core_runtime` | 19 plans, 2 alarms, 1 other provider, 1 record for failures | the runtime lives as `DeviceLife`; the gates hold |
| `device_time` | 11 devices: 3 drivers, with and without a clock, 10 Wi-Fi configurations; 8 years | paced, never stuck, right in the end |
| `web_server` | 3 routes, 1 page, bodies of up to 3 pieces over a buffer of 1 | all properties hold |

Bounds. Two producers and two slots let one producer detach while the other
reuses its slot and fill the ring; three commands let a slot be used again by
its first owner's successor; two faults let a call
of the clean-up fail after the call that made it necessary, and any number is
covered by the proof. Three boots are enough for an upgrade, a
downgrade and a boot after it; two saves overwrite both slots.
Hydro's passes are shorter and longer than its delays (its ages are differences
modulo eight, so that a wrap of `millis()` is built in, not put to the test), and the levels include one in each hysteresis band. The Doser's two pumps
are due together in the morning or in the evening, or apart after an edit; the horizon covers
the previous evening's window and a morning, and ends as the next day begins in Poland. Its day has nine units, so
that the morning's window ends, and a missed dose is noticed, before midnight in Poland. Two disturbances
are what each property needs to be put at risk: a failed write and the restart
that forgets, a lost record and the refill that makes the pump ready, an upload
and a message, an edit during a run. Two uploads let a late operation of the
first meet the second, and two parts have an order. Two changes fill a pool of
one work item and let a publication follow a missed one; two connections make a
new client meet the place, the queued work and the descriptor of the former one;
one failing call of each kind is what starts a recovery. The client's overlap of
one is exceeded by two notifications, and two attempts reach the fallback.

The lamp's timers of two ticks end in the pass after next, so that a request, a
jump of the clock or a failing call falls between; two open sessions are the
least that nest, and reach every pair of modes. Seventeen of the nineteen plans
break one rule each, and the two right ones have an optional participant on
either side of the safety gate. Retries, time-outs and counts of failures of two
or three ticks make each limit fall before, on and after another; the Doser's
clock wraps at four, so each of its differences is taken across the wrap. Three
calls compose too many routes for the table or one too few; a body of three
pieces is longer than the buffer by more than one piece.

Fairness. `CommandBridge` assumes weak fairness of the application's loop and of
each producer's own steps, which FreeRTOS gives both tasks (the loop yields, and
a wait has a time-out); nothing is assumed of clients, which may never submit.
Hydro assumes only that the device goes on taking steps, passes or boots.
`FirmwareUpload` assumes it of the loop, of the HTTP task once a request is there
(a body may take ten minutes at most, every wait has a deadline) and of the two
deadlines; nobody has to start a request. `RealtimeTransport` assumes it of both
tasks and of the ten seconds; no client has to connect or to leave.
`RealtimeClient` assumes it of the session and of the polls (every wait of the
session has a time-out, the coordinator rearms its timer), that a request which
is asked for again and again is answered in the end (strong fairness of `Ask`,
as the status is withheld for a moment at every publication), and the contract's
liveness, which `realtime_transport` shows of the device.

The lamp's loop and a device's passes are assumed to go on (`WF` of the phase and
of `Pass`): nothing in them waits. What a person or the weather does is not: a
time is right in the end only if the network and the time server stay up
(`weather`). `WebServer` assumes that a callback and the stop go on, as every
receive, send and wait in them has a time-out; no request has to arrive.

`CHECK_DEADLOCK FALSE` appears where the number of commands, boots and saves is
bounded, since an instance that has used them up stops, and where a restart, or a
server that cannot be started, ends the behaviour.

## Known divergences

One run expects a violation: `doser_manual`. `serviceManualDose` is called from
nowhere, so a manual dose ends at the driver's limit instead of its planned time,
is not taken from the reservoir and refuses every later one. Other divergences
were met while modelling. The first six have a definition beside the properties
of their module, which no configuration checks; to see one violated, put it alone
into the named run's.

| Definition | What the code does | What is said of it |
|---|---|---|
| `ConfigLifecycle!NoHiddenDrift` (`config_lifecycle`) | `ConfigLifecycle.cpp:527`: after a failed save the desired configuration may differ from the flash although the flag says aligned | `docs/ARCHITECTURE_VNEXT_DECISIONS.md:1952`, `:1969` |
| `ConfigLifecycle!DefaultsOnlyOnEmptyFlash` (with a `LoadFaults`) | `StorageService.cpp:496`: a slot that cannot be read counts as empty, and defaults are written over settings that exist | the same document, `:1934` |
| `HydroSense!PumpOffUntilRestart` (`hydro_topup`) | `HydroSenseApp.cpp:296`: the pump may start while a restart waits | `docs/WEB_F9_7E1_HYDRO_MIGRATION_GATE.md:102`, `SAFETY_STANDARD.md:718` |
| `DoserDosing!DosedAtLocalTime` (`doser_dosing`) | `SchedulerManager.cpp:174`, `206`: the hour of a dose goes through `mktime` and nothing calls `setenv` or `tzset`, so 08:00 is 08:00 UTC, one or two hours late; a dose whose window ends after 22:00 or 23:00 is never found missed, since the day it belongs to is over | `app_config.h:16` |
| `DoserDosing!AnnouncesNext` (`doser_dosing`) | `SchedulerManager.cpp:345`: after midnight in Poland, and before that of UTC, the next dose is looked for from tomorrow's UTC date on, and one that comes before is passed over | `HaDiscovery.cpp:190` |
| `DoserDosing!ExecutedOnceInWindow` (`doser_dosing`) | `SchedulerManager.cpp:288`: a dose stopped by the driver's limit is not remembered and repeated in its window | `SAFETY_STANDARD.md:792` |
| - | `TopupController.cpp:24`: a lockout is in RAM only, a restart starts in Idle | - |
| - | `SchedulerManager.cpp:312`: the reservoir loses the dose that is set at the end of a run, not the one that was pumped | - |
| - | `StorageManager.cpp:420`, `434`: a lost runtime record is replaced by the history that an older release left, however long ago; it is not 0, so the pump stays on and may give the day's dose again | the comment at `:429` asks for a certain history |
| - | `main.cpp:110`: the test configuration enables pump 1 although the history was lost too | the same comment |
| - | `SchedulerManager.cpp:227`: an edit around midnight makes yesterday's event due again; `NothingMissed` and `DoseNotRepeated` start afresh when a time is edited | - |
| - | `MqttManager.cpp:102`: a pump that changes again while a round is being published waits for the next change | - |
| - | `EspIdfWebTransport::dispatch` answers 503 while it does not accept requests and reports success with the body unread, which ESP-IDF then reads without a limit | the comments at `rejectUnreadBody`, `rejectOversizeBody` |
| - | `EspIdfWebTransport::realtimeDispatch` reports success for a GET without looking whether it has a body, which ESP-IDF then reads without a limit, or asks for an upgrade, without which nobody answers it; the exception in `ExchangesClean` | the same comments |

## What is proved

`BridgeAndConfigProofs` holds the theorems about the two services that every
application has, each on its own. Of the bridge, for any number of producers, slots,
commands and faults:

* `TypeCorrect`: the type invariant.
* `QueueAlwaysIntact`: the ring holds each queued slot exactly once and nothing
  else. The strengthening says also that the ring's entries are distinct.
* `ClosedTokensOwnNothing`: when a call reports its token closed, no slot is
  attached to it. The invariant behind it ties each attached slot to the
  producer's program counter and to the token it was given.
* `SlotsAlwaysAccounted`: both of these, the property of the run.
* `BridgeImplementsService`: the code implements `CommandService`, step by step. The
  refinement needs to know which slot is a command's: `ServedInv` says what the
  application has in hand, `PhaseInv`, `ResultInv` and `AppInv` in which phase each slot
  is while its producer waits, gives up or takes the result.
* `LossesAlwaysBounded`: `LossInv` gives each stranded slot, orphaned completion and
  wrong count a call of the synchronizer that failed for it (`Charged`), with
  `HeldInv` and `CompletionInv` for the slots that are held on the way.

The invariants are conjunctions of named parts that `Init` establishes and every
action preserves, one lemma per part, one step per action.

Of the storage, for every set of settings, releases and bounds, and every even size
of the generation above 3 (the code's is 2^32):

* `AcknowledgedAlwaysSurvives`, `DriftAlwaysReported` and `NewerSchemaAlwaysUntouched`: the
  properties of the run, for boots that read the flash (`BootsRead`) and fewer failed writes than
  half of the generations (`FewWriteFaults`). Both are needed: a boot that misreads
  the newer slot takes the older one for current, and each write that lands unreported
  moves the newest record one generation away from the base in RAM.

The generations of two intact slots are neighbours (`ChainInv`), and the base in
RAM is the newest record, or as far behind it as writes have failed, and then the newest
is the firmware's own (`BaseInv`). So a save builds on the newest record whatever it
misreads (`SaveBaseIs`) and writes to the other slot (`SaveEnds`). `ActiveInv` adds that
a firmware which may write is no older than that record.

`HydroSenseProofs`, for all delays, runtimes, stalls, sets of levels and
thresholds that the assumptions of the module allow (the limits and a stall fit
in the clock's range, the critical level lies below the low one):

* `PumpAlwaysGuarded` (from `PumpSafe` and `RuntimeLimited`) and
  `TopupRulesHold`: the safety properties of the run, at any hysteresis, 0 included.
* `TypeCorrect`, `AlarmHeard`: types, and that a mute never meets a second alarm.
* `GradeHolds`: with a positive hysteresis an unchanged level never moves the
  grade. The validator admits 0, for which it is false.

None of these is inductive. `Inv` adds what links the components between
passes: the permission is that of the grade (`GradeInv`), an active controller
is permitted, unattended and saw low water (`ActiveInv`), the observer's
stop-watch is the controller's age and a pumping controller has a level above
the critical one (`PumpInv`), and a wait is no longer than the water has been
low (`WaitInv`). The last two also keep the ages that matter from wrapping. One
lemma per component says what its `update()` returns (`ControlStep` for all that
happens to the controller in a pass), and `PassStep` composes them in the order
of the pass; every theorem then reads its part of the step off `NextStep`.

`DoserProofs`, for one to eight pumps (`PUMP_COUNT` is 8) and every
calendar, schedule, limit, correction of the clock and number of disturbances:

* `TypeCorrect`; `DriverAlwaysAgrees` (from `PumpsAlwaysWatched` and `RunsOwned`) and
  `RecordsAlwaysKept` (from `FlashUpToDate` and `LostHistoryStaysOff`): the
  invariants of `doser_dosing` but `NothingMissed`, for which see below.
* `NoDoseRepeated`: `DoseNotRepeated`, if all corrections of the clock together set it
  back by no more than a day less a window (`SetBackAtMost`).
* `NothingEverMissed`: `NothingMissed`, if no scheduled dose exceeds a `D` with which
  the doses fit their windows (`ScheduleFits`): all the other pumps, at the cost of
  their doses, gaps and late passes (`Cost`), and one late pass more take less than a
  window, and two windows and one dose less than a day. For the code's constants, eight
  pumps, a gap of 2 s, a window of 300 s and passes less than a second apart, these are
  doses of up to 40 s. Eight doses of a minute that are due at once do not fit, and the
  last pump misses its own: the code does not check the schedule. The first condition
  is tight: three pumps that are due as the device starts, with doses and gaps of 1 and
  passes up to 2 apart, miss one with a window of 10, and none with one of 11. It is
  sufficient, not necessary: `doser_dosing`, with a window of 6 in a day of 9, has less
  of both than it asks for, and nothing is missed.

`Inv` asks the driver's pins to be those of the pump it watches (`DriverOK`),
the scheduler's run to be the driver's since its start (`Owns`), the flash to
equal the RAM until a write fails (`Saved`), and the pumps without a history to
be disabled in the RAM and in the flash (`Disabled`): in the RAM because the
scheduler reads it, in the flash because a restart does. In the middle of a pass
`Owns` is weaker, since the driver's own limit has stopped a pump that the
scheduler still counts (`OwnsOrOff`); `ServiceStep` restores it. The missed
doses of several pumps go into one record that is written once per pump, and the
last write holds all of them because it is that of the greatest number: this and
the choice of the pump that starts need least and greatest elements of a set of
pumps, which are found by cases as the prover has no induction, hence the limit
of eight. `GivenInv` adds, for `NoDoseRepeated`, that the last dose given is the one
the RAM remembers, and that it was due no later than now but for what corrections have
set the clock back; an event that is due and later than the remembered dose is then a
later event. `RecoverParts` says once, for every loss, import and failed write, what a
restart ends with (`EndsWith`); both invariants are kept by it.

For `NothingEverMissed` that a pump has not waited too long is not inductive: it must
be known whom it waited for. `ServedInv` says, while all is calm, that a pump which
waits for its event has waited no longer than what the pumps took that have been served
since, the running one included (`Punctual`): `Taken` counts those whose last event is
not older than this one by more than a window and a dose (`Overtaking`), so
each counts once, as its next event is a day later (`NextMoment`), and there are at most
`PumpCount - 1` of them (`CrowdBound`). A pump that falls due during a dose or a gap
finds the one that holds it up among them (`Overtaken`). There is a lemma for each thing
a pass may find: the run goes on (`RunGoesOn`), it ends (`RunEnds`), the gap goes on or
ends (`GapGoesOn`, `GapFrees`), nothing is due (`IdleGoesOn`); where the driver is left
free a pump that waits is still within its window (`FreeInTime`), so it is ready
(`WaitingIsReady`), none is late (`NoneLate`), and the one that starts adds itself to
the crowd before the others (`CrowdGrows`, `StartPunctual`).

`RuntimeAndTimeProofs`, for every plan, set of alarms, provider and capacity:

* `LivesAsPromised`: the runtime implements `DeviceLife`, step by step.
* `GatesAlwaysHold`: `GatesHold`, from `StartInv` and `LocksAlwaysObeyed`.
* `EventsAlwaysTell` and `AlarmsAlwaysHeld`: the properties of the alarms.

`AlarmInv` adds to `EventsTell` that an alarm which was heard of is live, so no
late restore can undo what was told; one lemma per operation of an alarm keeps
it. `RuntimeInv` says who may write the status when (`Stages`: a start has no
coordinator yet, an active coordinator remembers a failure) and that a fresh
status without a lock was written when nothing asked for one (`Truthful`). Each
action is then mapped to the steps of `DeviceLife` it may take. `StartInv` says that what
was called and what is still to be called are in order together; `SchedulesOrdered`
gives that order for a valid plan, whose callbacks are called by phase and, within a
phase, as listed.

The same module, for every set of devices with their Wi-Fi configurations and
every interval, retry and time-out (a retry no longer than the interval of a day):

* `ClockNeverTrustedTooSoon`: `StoppedClockUntrusted`, from the type of the clock,
  as only a complete write takes `unset` and the flag away.
* `AlwaysAskedInTime`: `AskedInTime`.

`PaceInv` is the invariant of the second. Of the radio (`Waiting`) it says that
the age of the anchor is never greater than `quiet`, whatever states the station
reports in between, and that a connected station has no anchor; so a wait that is
over was quiet all along. Of the server (`AskInv`, `Calm`) it says
that the age of the last attempt is never greater than `gap`, or that nothing was
asked in this connection yet; the Doser's wrapping counter makes the difference
only smaller. One lemma per driver (`CoreAsks`, `LampAsks`, `DoserAsks`) and one
for `NetworkService` (`ConnectsWaits`) carry it over a pass.

And the calendar, for every date from 2000 to 2199:

* `CalendarIsOne`: `OneCalendar`, for whatever years, from `DaysAlwaysAgree`,
  `TimesAlwaysAgree`, `WarsawAlwaysChanges` and `StampsAlwaysAgree`.
* `EveryTimeAgrees`: the same of every time of the day, where the run examines the
  hours at which something could change.

`DaysFromCivil` is a straight count: the days before a year that begins in March
(`YearStart`), before the month (`MonthStart`), and the day (`DaysCounted`). Dividing
it back finds the year in each of the two eras of 400 years (`EraFound`), then the
month (`MonthFound`); the day after a date counts one more (`NextDay`). Zeller's
congruence differs from the count by a multiple of seven in each century
(`ZellerYear`), so the last Sunday of a month is the last day that the count makes a
Sunday (`LastSundayIs`), and the code's comparison of months, days and hours is the
property's of days and seconds (`SummerIs`).

`WebServerProofs`, for every set of paths, limit and number of calls:

* `TableAlwaysServed`: `TableServed`. `TableInv` says which step may move the table
  when: what is frozen is registered with all routes of the Core (`FrozenInv`);
  the server is started only when its former task has gone, and nothing is
  accepted from a stop until the next installation is complete (`TaskInv`); a
  failed start left no task, through a recycle too (`FailedInv`). What is accepted
  or being handled is then under the whole table (`ServedInv`).
* `ExchangesAlwaysClean`: `ExchangesClean`, from `ExchangeInv`, which needs of the
  HTTP task only where the body is known to be read and a stream may be open, and
  that a handshake is of a realtime request.

The other half of `DoserProofs`, for every number and size of sessions of an upload:

* `NeverDosesWhileWriting` and `AnswersAlwaysTrue`: the safety properties of the run.
* `KeepsUpdatePromise`: the code implements `FirmwareUpdate`, its first states and
  every step. The restart that must follow a chosen image is left to TLC.

`SessionInv` ties the two tasks to the active session: the request's token is the last
one given and has no answer yet (`RouteInv`), the slot's command is that of the
active session and waited for or given up (`SlotInv`), what the loop has in hand
is in the slot (`LoopInv`), what is written is the active session's and holds
the pumps back (`WriteInv`), and after END nothing but the restart can still be
in the slot, so no answer is taken back (`AnswerInv`). The refinement needs two
more: `CountInv`, that the request has counted the parts as the loop has, or one
less while the result of a part is on its way, and `ImageInv`, that the image is
the first `received` parts of the session and that no restart waits while it is
written.

`RealtimeTransportProofs`, for every registry, pool and set of descriptors and every
number of changes, connections and failing calls:

* `StreamIsKept`: the transport implements `RealtimeStream`, its first states and every
  step; from `TransportInvariant`. That it also becomes available again and brings its
  links up (`DeviceKeepsUp`) is left to TLC.

`AppInv` says where a publication stands: the start that is announced, the position of
the status and the sequencer's are one apart at most, in that order (`Positions`), and a
status is rebuilt at the position it had only when it says the same or every place is
free (`Contents`, `Reasons`, `Stopped`). `NetInv` says that an open socket has a place
and is the client's (`OneSocket`, `Held`); `QueueInv` that what is queued is busy,
queued once, and that after a recovery nothing in it is of the present generation
(`Eras`). The heart is what a client may count on. The notifications of this generation
that still wait are in the order of their positions (`Notes`). A connecting client that
has missed none so far captured all that is owed, and behind its StreamStart waits at
most the notification of that very position (`Misses`). A live one
was told of a position such that every later one that is owed waits in the queue, or is
being sent (`Follows`, `Awaited`): so the next frame is the next position, or the
StreamStart's once more. All of it is stated for the time without a recovery; when one
begins every place is closed, and what was queued no longer passes `Accepts`.

`RealtimeClientProofs`, for every number of positions, contents, runtimes, attempts and
failing requests:

* `NothingForgotten` and `ShownNeverGoesBack`: `InSync` and `NeverBack`, from
  `ClientInvariant`.

`IInv` rests on two orders. Statuses are ordered by runtime, number and content
(`Follows`), and only the reader at the head of the lock has an answer (`Locked`), so
the answer is at least as new as what is shown when it arrives, and what is shown
never goes back (`Ordered`). The frames of a link are received in their order, and what
was read while the link is up is still what the device serves at that position
(`Settled`). So a live session shows, or will read, what it has seen (`Reaches`). A
resynchronisation steps through the overlap, and each step reaches the notification
that it takes (`AdvanceReaches`, `ResyncedReaches`).

`LumaProofs`, for every number of channels, every set of profiles, levels, timeouts
and valid schedules, and every length of the transitions of more than a tick
(`LengthAssumption`; the code's take seconds):

* `LightComesFromCore`: `LitByCore`, whichever calls of the driver fail together, as long
  as one of the three ways of turning a channel off works (`FaultAssumption`: without
  it the lamp stays lit and no software can help). `CoreIsTyped` is the type invariant.
* `SessionsNest`: the modes implement `ModeStack`, its first states and every step.
* `LightNeverJumps`: `Smooth`, and `AlwaysSmoothInv`, the invariant behind it.
* `ClockAlwaysSmooth`: `ClockRunsSmoothly`, from `AlwaysSeamless`, in which any number of
  stages may fall short at a time, and `JumpsAlwaysSeen`. `EveryJumpSeen` says the
  latter of every reading and uptime, not only of the examined ones.

`LampInv` holds types, lamp and modes: the mode in charge and the one it returns to are
the two highest of what is open (`ModesOK`). Everything a request does to the core
is one of six things or nothing (`Asked`), and what a pass ends is what lies highest
(`Outlives`, `Unwound`); both become pushes and pops of the stack that the open sessions
make when they are put in the order of their priority (`StackOpened`, `StackUnwound`).
`SmoothInv` says what a pass remembers: the recorded mode, profile, day state and
levels are those that the requested levels came from, unless a transition has just
begun (`LightInv`); and between two passes at most one request came, which leaves a
lamp that follows its schedule with a session too young to end in the next pass
(`AskedInv`, `Fresh`). Without the second part a session could come and go unseen
while the clock jumps. So a pass that starts no transition asks for what the last
one asked for (`NothingChanges`), and one that starts a transition starts it where
the light is (`ShownSmooth`, `StartsWhereItIs`). The curve of the day is
arithmetic: the slope of the cubic (`CurveSlope`), and a second of a segment under the
divisions (`CurveStep`).

Only model-checked: liveness, which is out of the prover's reach, as is `ENABLED`.

## Plan

The modules above are the plan as carried out. What it has left, in the order of
what it would add:

1. Realtime: unloading the entry of Home Assistant, several clients on a device.
2. Luma: edits of a profile while it is shown, and its fingerprint.

## Not modelled

`PROJECT.json` ("components") lists every part with its status and reason. Left
out for good: rendering of pages and JSON, log and diagnostic formatting, drivers
that only convert a reading, the Gas controller (no actuator yet), the Clima and
Fauna stubs, Luma's legacy reference sources, spikes and test rigs.

Some code has no user in the products: `WebService` with `Esp32WebBackend`, which
`NativeWebService` has replaced, the pool of publications of the realtime
library, and the Doser's older web manager. `ConfigLifecycle` is modelled although
only the diagnostic provider and the tests use it so far. The Doser's MQTT
publishing and discovery and Luma's storage and pages format what others hold.
