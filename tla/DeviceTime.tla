------------------------------- MODULE DeviceTime -------------------------------
(***************************************************************************)
(* How an aquaOne device keeps its Wi-Fi and its time.  Every tick is a pass *)
(* of its loop, which updates NetworkService and then lets one of three     *)
(* drivers keep the time: NetworkNtpSync of the core, with RtcWallClock;    *)
(* NtpSyncCoordinator of the lamp, with its TimeService; or TimeManager of  *)
(* the doser.                                                               *)
(***************************************************************************)
EXTENDS NetworkService, RtcService, NtpService, DoserTime, Calendar

CONSTANT Devices   \* [driver, rtc, config]: the driver, whether it has a clock, its Wi-Fi
ASSUME DevicesAssumption ==
  \A d \in Devices :
    /\ d.driver \in {"core", "lamp", "doser"}
    /\ {d.config.interval, d.config.fast, d.config.timeout} \subseteq Nat
ASSUME PacingAssumption == Retry <= NtpInterval   \* ten seconds and a day

VARIABLES
  device, net, ntp, memory,  \* the device and its three services
  clock, bus,                \* the battery clock, and whether its bus was begun
  shown,                     \* the time last read by its application
  weather,                   \* what the world is like from now on
  quiet, gap                 \* history: ticks since the last connection or reconnect, and
                             \* since the last attempt of this session
timeVars == <<device, net, ntp, memory, clock, bus, shown, weather, quiet, gap>>

Far == IF NtpInterval > Retry THEN NtpInterval ELSE Retry
Times == {"right", "wrong", "none"}

\* setup(), after power-up: what the radio and the bus do is not known.
Boots(d, r, works, reads, begun) ==
  /\ net' = Begun(d.config, works) /\ ntp' = NtpBegun(begun)
  /\ bus' = ("bus" \in works /\ d.rtc)
  /\ memory' = IF d.rtc THEN Remembers(IF bus' THEN Reading(r, reads) ELSE "none") ELSE NoClock
  /\ shown' = IF d.driver = "doser" THEN memory'.cache ELSE "none"
  /\ quiet' = 0 /\ gap' = Far
Radios == {{"radio", "ap", "host", "sta", "bus"}, {"radio", "ap", "host", "bus"},
           {"radio", "ap", "sta", "bus"}, {"bus"}, {"radio", "bus"}, {"radio", "ap", "host", "sta"}}

\* A clock that was never set, one that was, and one that was set badly or runs wrong.
NewClocks == {r \in Clocks : r.unset => r.osf /\ r.content # "right"}
Absent == [content |-> "garbage", osf |-> TRUE, unset |-> TRUE]

TimeInit ==
  /\ device \in Devices /\ clock \in IF device.rtc THEN NewClocks ELSE {Absent}
  /\ net = Down(device.config) /\ ntp = NtpBegun(FALSE) /\ memory = NoClock /\ bus = FALSE
  /\ shown = "none" /\ weather = "off" /\ quiet = 0 /\ gap = Far

\* The device is switched on, or restarts.
Boot ==
  /\ weather \in {"off", "any"} /\ weather' = "any"
  /\ \E works \in Radios, reads \in BOOLEAN, begun \in BOOLEAN :
       Boots(device, clock, works, reads, begun)
  /\ UNCHANGED <<device, clock>>

\* Between two passes nothing is called.
NoCall(n) == net' = [n EXCEPT !.called = FALSE] /\ ntp' = [ntp EXCEPT !.started = FALSE]

\* The clock loses its battery, or is disturbed.
ClockStops ==
  /\ weather = "any" /\ device.rtc /\ clock' \in Stopped(clock) /\ NoCall(net)
  /\ UNCHANGED <<device, memory, bus, shown, weather, quiet, gap>>

\* The Wi-Fi task reports why the station was disconnected.
ReasonComes ==
  /\ weather \in {"any", "down"} /\ \E why \in {"fast", "other"} : NoCall([net EXCEPT !.reason = why])
  /\ UNCHANGED <<device, memory, clock, bus, shown, weather, quiet, gap>>

\* From some time on the world may be kind, or keep the station from connecting.
Settles ==
  /\ weather = "any" /\ weather' \in {"fair", "down"} /\ NoCall(net)
  /\ UNCHANGED <<device, memory, clock, bus, shown, quiet, gap>>

Fair == weather = "fair"
Stas == IF Fair THEN {"Connected"}
        ELSE IF weather = "down"
        THEN {s \in Backends \ {"Connected"} : s = "Connecting" => device.config.timeout > 0}
        ELSE Backends
Answers(asked, wifi) ==
  IF ~Hears(asked, wifi) THEN {"Pending"} ELSE IF Fair THEN {"Time"}
  ELSE {"Pending", "Failure", "Time"}
Settings(answer) ==
  IF answer # "Time" \/ ~bus THEN SetsNothing(clock) ELSE IF Fair THEN SetsWell(clock)
  ELSE SetUtc(clock)
Starts == IF Fair THEN {TRUE} ELSE BOOLEAN
Reads == IF Fair THEN {TRUE} ELSE BOOLEAN
ReadsOf(r, works) == IF bus THEN Reading(r, works) ELSE "none"

\* NetworkService::update()
Connects(s) ==
  \E works \in BOOLEAN, race \in Reasons :
    LET asked == Consumes(net, s)
        raced == race # "none"
        reason == IF raced THEN race ELSE net.reason
    IN /\ raced => asked /\ net.anchor = None /\ net.reason # "none"
       /\ net' = [Updated(net, s, reason, works) EXCEPT !.reason = IF asked THEN race ELSE @]
       /\ ~works => net'.called
       /\ quiet' = IF net'.state = "Connected" \/ net'.called THEN 0
                   ELSE Older(quiet, Longest(net.c))

Gap(s, wifi) == IF ~wifi THEN Far ELSE IF s.started THEN 0
                ELSE IF gap < Far THEN gap + 1 ELSE gap

\* NetworkNtpSync::update(), after which the wall clock is read.
CorePass ==
  LET wifi == net'.state = "Connected"
      s == NtpOlder(ntp) IN
  /\ \E answer \in Answers(s, wifi), starts \in Starts, reads \in Reads :
       LET heard == NtpUpdated(s, wifi, answer) IN
       /\ \E set \in Settings(answer) : clock' = set.clock
       /\ ntp' = IF ~wifi \/ ~heard.up THEN heard
                 ELSE IF ~heard.result /\ ~heard.going THEN RequestSync(heard, TRUE, starts)
                 ELSE RequestPeriodicSync(heard, TRUE, starts)
       /\ shown' = ReadsOf(clock', reads)
  /\ gap' = Gap(ntp', wifi)
  /\ UNCHANGED memory

\* NtpSyncCoordinator::update(), before which the lamp has read the time.
LampPass ==
  LET wifi == net'.state = "Connected"
      s == NtpOlder(ntp) IN
  /\ \E starts \in Starts, reads \in Reads :
       LET asked == IF wifi /\ ~memory.was THEN RequestSync(s, TRUE, starts) ELSE s IN
       \E answer \in Answers(asked, wifi) :
         LET heard == NtpUpdated(asked, wifi, answer) IN
         /\ \E set \in Settings(answer) : clock' = set.clock
         /\ ntp' = IF wifi THEN RequestPeriodicSync(heard, TRUE, starts) ELSE heard
         /\ shown' = ReadsOf(clock, reads)
  /\ memory' = [memory EXCEPT !.was = wifi]
  /\ gap' = Gap(ntp', wifi)

\* TimeManager::loop()
DoserPass(wifi) ==
  LET m == MemoryOlder(memory)
      s == NtpOlder(ntp) IN
  /\ \E starts \in Starts, reads \in Reads :
       LET polled == IF device.rtc /\ PollDue(m) THEN Polled(m, ReadsOf(clock, reads)) ELSE m
           asks == Asks(polled, wifi, s.going)
           asked == CASE asks \in {"session", "retry"} -> RequestSync(s, TRUE, starts)
                      [] asks = "periodic" -> RequestPeriodicSync(s, TRUE, starts)
                      [] OTHER -> s
           tried == Attempted(polled, asks, asked.started)
       IN \E answer \in Answers(asked, wifi) :
            LET heard == NtpUpdated(asked, wifi, answer)
                told == IF answer = "Time" THEN Told(tried) ELSE tried
            IN /\ \E set \in Settings(answer) : clock' = set.clock
               /\ ntp' = heard
               /\ memory' = [told EXCEPT !.was = wifi]
               /\ gap' = Gap(asked, wifi)
  /\ shown' = Now(memory')

Pass ==
  /\ weather # "off"
  /\ \E s \in Stas :
       /\ Connects(s)
       /\ CASE device.driver = "core" -> CorePass
            [] device.driver = "lamp" -> LampPass
            [] OTHER -> DoserPass(s = "Connected")
  /\ UNCHANGED <<device, bus, weather>>

TimeNext == Boot \/ ClockStops \/ ReasonComes \/ Settles \/ Pass

TimeSpec == TimeInit /\ [][TimeNext]_timeVars /\ WF_timeVars(Pass)

-----------------------------------------------------------------------------
(* Properties                                                               *)

\* Unless the clock was set since it stopped, it says so: a time that is not one is never
\* read as the time, however a write of it fails.
StoppedClockUntrusted == clock.unset => clock.osf

\* NetworkService reconnects only after the whole wait it has chosen since the station was
\* last connected or last told to reconnect; and within one connection the time server is
\* asked again only after a day, or after ten seconds by a doser that has not been told the time
\* since it started, or has none.
Timeless == device.driver = "doser" /\ (~memory.synced \/ memory.cache = "none")
MinGap == IF Timeless THEN Retry ELSE NtpInterval
AskedInTime ==
  [][(net'.called => quiet + 1 >= net.active) /\ (ntp'.started => gap + 1 >= MinGap)]_timeVars

\* What is called right is one time: RtcService, EuropeWarsawTimeService, ResilientTimeService,
\* RtcWallClock and TimeManager each have calendar arithmetic of their own, and a device that
\* shows the right time may have had it from any of them; together they keep one calendar.
OneCalendar == shown = "right" => DaysAgree /\ TimesAgree /\ WarsawChanges /\ StampsAgree

\* Once the network, the server and the clock all work, the time gets right and stays so,
\* whatever went wrong before, for a device whose start did not fail.
Able == ntp.up /\ (device.driver = "doser" \/ (bus /\ net.up /\ ~net.failed /\ device.config.sta))
TimeGetsRight == <>[](weather = "fair" /\ Able) => <>[](shown = "right")

\* A station that does not connect is told to reconnect again and again, if so configured.
Tries == net.up /\ ~net.failed /\ device.config.sta /\ device.config.auto
KeepsTrying == <>[](weather = "down" /\ Tries) => []<>net.called
=============================================================================
