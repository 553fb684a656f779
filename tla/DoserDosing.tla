------------------------------ MODULE DoserDosing ------------------------------
(***************************************************************************)
(* aquaOne Doser: eight dosing pumps on a schedule, one at a time.  One     *)
(* task runs loop() for ever; a pass serves the pump driver, the firmware   *)
(* upload, the scheduler and, unless an upload blocks it, MQTT, in that     *)
(* order, and is one step here.  A restart may come between two passes.     *)
(*                                                                         *)
(* Time is discrete.  `now' is UTC since the first day, in units; dates     *)
(* count days and stand for the date keys.  Differences of millis() are     *)
(* ages.  A pump delivers one unit of liquid per unit of time: the planned  *)
(* runtime of a dose, doseMl / calibrationMlPerSec, is the dose.            *)
(*                                                                         *)
(* The dates the scheduler starts from are those of Poland, `Ahead' units   *)
(* before those of UTC (TimeManager::getLocalTime).  The hour of a dose it  *)
(* turns into an instant with mktime(), whose time zone nobody sets: the C  *)
(* library takes it for UTC.  Summer time does not begin or end here.       *)
(***************************************************************************)
EXTENDS Integers, FiniteSetsExt

CONSTANTS
  PumpCount,
  DayLen, Week,     \* units in a day, days in a week
  Ahead,            \* how far the clocks of Poland are ahead of UTC
  LastTime,         \* bound: the last instant
  Window,           \* SCHEDULE_WINDOW_MINUTES
  Gap,              \* PUMP_GAP_MS
  MaxRun,           \* MAX_PUMP_RUNTIME_SEC
  MaxStall,         \* longest time between two passes
  Doses, Minutes, DaySets, Refill,  \* values of doseMl, hour and minute, daysMask, remainingMl
  Schedules,        \* how the pumps are set up at first
  Eight,            \* eight o'clock, the default time of a dose
  TestConfig,       \* what a first start sets for pump 1
  OldConfig, OldRuntime,  \* what the keys of an older release say: they are never erased
  Jumps,            \* corrections of the clock by NTP
  MaxEvents         \* bound: restarts, passes with failed writes, messages, uploads, corrections

Pumps == 1..PumpCount
FirstDay == 2          \* 0 is no date, and 1 is the day before the first
ASSUME DoserAssumption ==
  /\ PumpCount \in 1..8               \* PUMP_COUNT is 8
  /\ DayLen \in Nat \ {0} /\ Week \in Nat \ {0} /\ Ahead \in 0..(DayLen - 1)
  /\ LastTime \in Nat /\ LastTime >= FirstDay * DayLen
  /\ Window \in 1..DayLen /\ Gap \in Nat /\ MaxRun \in Nat /\ MaxStall \in Nat \ {0}
  /\ Doses \subseteq Nat /\ Minutes \subseteq 0..(DayLen - 1) /\ Refill \in Nat
  /\ DaySets \subseteq SUBSET (0..(Week - 1)) /\ Jumps \subseteq Int
  /\ Schedules \subseteq [Pumps -> [at : Minutes, dose : Doses \ {0}]]
  /\ Eight \in Minutes /\ 0 \in Doses
  /\ TestConfig \in [enabled : {TRUE}, at : Minutes, days : SUBSET (0..(Week - 1)),
                     dose : Doses \ {0}]
  /\ OldConfig \in [Pumps -> [enabled : BOOLEAN, at : Minutes,
                              days : SUBSET (0..(Week - 1)), dose : Doses]]
  /\ OldRuntime \in [Pumps -> [remaining : 0..Refill, lastDose : 0..1, lastMissed : 0..1]]
  /\ \E p \in Pumps : OldConfig[p].dose # 0      \* the older release was set up
  /\ MaxEvents \in Nat

VARIABLES
  now,       \* UTC
  driver,    \* PumpDriver: the pins that are HIGH, runningPump, its age
  sched,     \* SchedulerManager: state, activePump, activeEventDate, plannedRuntimeMs, an age
  pumps,     \* PumpManager::pumps, and StorageManager::persisted_, which savePump makes equal
  flash,     \* the stored records: config and runtime of every pump
  manual,    \* MqttManager: manualDoseActive, manualPump, manualRuntimeMs
  ota,       \* SchedulerManager::otaInProgress
  events,    \* how many of MaxEvents have happened
  \* History:
  tried,     \* per pump, the event of its last start since its time was edited
  given,     \* per pump, the last of these that was completed, as far as it was recorded
  unsaved,   \* a write failed
  calm,      \* nothing but passes has happened
  forgot     \* the pumps that lost their history and that nothing has enabled since

vars == <<now, driver, sched, pumps, flash, manual, ota, events, tried, given,
          unsaved, calm, forgot>>

None == 0

-----------------------------------------------------------------------------
(* PumpDriver *)

AllOff == [pins |-> {}, pump |-> None, age |-> 0]
\* mutant: a second pump may start
AnotherStarts(v) == TRUE
\* startPump refuses while another pump runs.
Starting(v) == v.pump = None
StartPump(v, p) == [pins |-> v.pins \cup {p}, pump |-> p, age |-> 0]
StopPump(v, p) == IF p \in v.pins THEN [pins |-> v.pins \ {p}, pump |-> None, age |-> 0] ELSE v
\* loop(): the last defence against a pump that nobody stops.
DriverLoop(v, d) ==
  IF v.pump = None THEN v
  ELSE IF v.age + d > MaxRun THEN StopPump(v, v.pump)
  ELSE [v EXCEPT !.age = @ + d]

-----------------------------------------------------------------------------
(* StorageManager.  savePump writes the record of all pumps whose part of   *)
(* pump p changed; a write that fails is not repeated.                      *)

ConfigOf(r) == [enabled |-> r.enabled, at |-> r.at, days |-> r.days, dose |-> r.dose]
RuntimeOf(r) == [remaining |-> r.remaining, lastDose |-> r.lastDose, lastMissed |-> r.lastMissed]
Merged(c, r) == [enabled |-> c.enabled, at |-> c.at, days |-> c.days, dose |-> c.dose,
                 remaining |-> r.remaining, lastDose |-> r.lastDose, lastMissed |-> r.lastMissed]

\* What the device remembers: m is a pair of its RAM and its flash.
SavePump(m, p, new, ok) ==
  LET old == m.pumps[p]
      all == [m.pumps EXCEPT ![p] = new]
  IN  [pumps |-> all,
       flash |-> [config |-> IF ok /\ ConfigOf(new) # ConfigOf(old)
                               THEN [q \in Pumps |-> ConfigOf(all[q])] ELSE m.flash.config,
                  runtime |-> IF ok /\ RuntimeOf(new) # RuntimeOf(old)
                               THEN [q \in Pumps |-> RuntimeOf(all[q])] ELSE m.flash.runtime]]

-----------------------------------------------------------------------------
(* SchedulerManager: dates and events *)

LocalTime(t) == t + Ahead
DateKey(t) == LocalTime(t) \div DayLen
\* The instant of an event, whose hour is taken for one of UTC.
EventTime(r, e) == e * DayLen + r.at
ScheduledOn(r, e) == e % Week \in r.days

\* findDueEvent: today's event, or yesterday's before midnight, less than Window ago.
DueEvents(r, t) == {e \in {DateKey(t), DateKey(t) - 1} :
                      ScheduledOn(r, e) /\ t - EventTime(r, e) \in 0..(Window - 1)}

Ready(r, t) ==
  /\ r.enabled /\ r.dose > 0 /\ r.days # {}
  /\ DueEvents(r, t) # {}
  /\ r.lastDose # Max(DueEvents(r, t))
  /\ r.remaining >= r.dose
  /\ r.dose <= MaxRun

Missed(r, t) ==
  /\ r.enabled /\ r.dose > 0 /\ r.days # {} /\ ScheduledOn(r, DateKey(t))
  /\ t - EventTime(r, DateKey(t)) >= Window
  /\ r.lastDose # DateKey(t) /\ r.lastMissed # DateKey(t)

\* Every missed pump is saved in turn; the writes of the pumps in `failing' fail.
DetectMissed(m, t, failing) ==
  LET late == {p \in Pumps : Missed(m.pumps[p], t)}
      all == [p \in Pumps |-> IF p \in late THEN [m.pumps[p] EXCEPT !.lastMissed = DateKey(t)]
                              ELSE m.pumps[p]]
      last == Max(late \ failing)
  IN  [pumps |-> all,
       flash |-> [m.flash EXCEPT !.runtime =
         IF late \subseteq failing THEN @
         ELSE [q \in Pumps |-> RuntimeOf(IF q <= last THEN all[q] ELSE m.pumps[q])]]]

-----------------------------------------------------------------------------
(* SchedulerManager::loop.  x holds the driver v, the scheduler s, what the *)
(* device remembers m, and the event that this pass served, if any.         *)

IdleSched == [state |-> "Idle", active |-> None, event |-> 0, plan |-> 0, age |-> 0]
InGap == [IdleSched EXCEPT !.state = "Gap"]
Aged(s, d) == IF s.state = "Idle" THEN s ELSE [s EXCEPT !.age = Min({@ + d, MaxRun + Gap})]

\* mutant: the date of the dose is not recorded
DosedUndated(r, e) == [r EXCEPT !.remaining = IF @ > r.dose THEN @ - r.dose ELSE 0]
Dosed(r, e) == [r EXCEPT !.remaining = IF @ > r.dose THEN @ - r.dose ELSE 0, !.lastDose = e]

\* serviceRunningPump and finishSuccessfulDose
ServiceRunning(x, failing) ==
  LET p == x.s.active
  IN  IF x.s.state # "Running" THEN x
      ELSE IF p \notin x.v.pins THEN [x EXCEPT !.s = InGap]
      ELSE IF x.s.age < x.s.plan THEN x
      ELSE [v |-> StopPump(x.v, p), s |-> InGap,
            m |-> SavePump(x.m, p, Dosed(x.m.pumps[p], x.s.event), p \notin failing),
            served |-> TRUE]

\* mutant: the gap begins anew in every pass
EndlessGap(s) == IF s.state = "Gap" /\ s.age < Gap THEN InGap ELSE s
GapServed(s) == IF s.state = "Gap" /\ s.age >= Gap THEN IdleSched ELSE s

\* The first pump that is ready starts, unless another user holds the driver.
StartFirst(x, t) ==
  LET ready == {p \in Pumps : Ready(x.m.pumps[p], t)}
      p == Min(ready)
  IN  IF ready = {} \/ ~Starting(x.v) THEN x
      ELSE [v |-> StartPump(x.v, p), m |-> x.m, served |-> x.served,
            s |-> [state |-> "Running", active |-> p, plan |-> x.m.pumps[p].dose,
                   event |-> Max(DueEvents(x.m.pumps[p], t)), age |-> 0]]

SchedulerLoop(x, t, valid, blocked, failing) ==
  LET y == ServiceRunning(x, failing)
      z == [v |-> y.v, s |-> GapServed(y.s), m |-> DetectMissed(y.m, t, failing),
            served |-> y.served]
  IN  IF y.s.state = "Running" THEN y
      ELSE IF blocked \/ ~valid THEN [y EXCEPT !.v = AllOff]
      ELSE IF z.s.state = "Idle" THEN StartFirst(z, t) ELSE z

-----------------------------------------------------------------------------
(* MqttManager: a message for pump p                                        *)

NoCommand == [kind |-> "none", pump |-> 1, value |-> 0]
Commands ==
  {NoCommand}
    \cup [kind : {"enabled"}, pump : Pumps, value : BOOLEAN]
    \cup [kind : {"dose"}, pump : Pumps, value : Doses \ {0}]
    \cup [kind : {"time"}, pump : Pumps, value : Minutes]
    \cup [kind : {"day"}, pump : Pumps, value : DaySets]
    \cup [kind : {"remaining"}, pump : Pumps, value : {Refill}]
    \cup [kind : {"manual"}, pump : Pumps, value : {0}]

\* The setters of PumpManager.
Edited(r, c, valid) ==
  CASE c.kind = "enabled" -> [r EXCEPT !.enabled = c.value]
    [] c.kind = "dose" -> [r EXCEPT !.dose = c.value]
    [] c.kind = "time" -> [r EXCEPT !.at = c.value]
    [] c.kind = "day" -> [r EXCEPT !.days = c.value]
    [] c.kind = "remaining" /\ valid -> [r EXCEPT !.remaining = c.value]
    [] OTHER -> r

NoManual == [active |-> FALSE, pump |-> None, plan |-> 0]
MayDoseManually(v, r) ==
  /\ ~manual.active /\ v.pump = None
  /\ r.dose > 0 /\ r.remaining >= r.dose /\ r.dose <= MaxRun

-----------------------------------------------------------------------------
(* main.cpp *)

Init ==
  /\ now = FirstDay * DayLen
  /\ driver = AllOff /\ sched = IdleSched /\ manual = NoManual /\ ota = FALSE
  /\ \E first \in Schedules :
       pumps = [p \in Pumps |->
         [enabled |-> TRUE, at |-> first[p].at, days |-> 0..(Week - 1), dose |-> first[p].dose,
          remaining |-> Refill, lastDose |-> 0, lastMissed |-> 0]]
  /\ flash = [config |-> [p \in Pumps |-> ConfigOf(pumps[p])],
              runtime |-> [p \in Pumps |-> RuntimeOf(pumps[p])]]
  /\ events = 0 /\ unsaved = FALSE
  /\ tried = [p \in Pumps |-> 0] /\ given = [p \in Pumps |-> 0]
  /\ calm = TRUE /\ forgot = {}

One(happened) == IF happened THEN 1 ELSE 0
Edits(c, p) == c.kind = "time" /\ c.pump = p
Started(s) == s.state = "Running" /\ s.age = 0

\* One pass of loop(), d after the last one, with the clock corrected by jump.
Pass(d, jump, valid, upload, c, failing) ==
  LET t == now + d + jump
      blocked == upload = "begin" \/ (ota /\ upload # "end")
      v1 == DriverLoop(driver, d)
      v2 == IF upload = "begin" THEN AllOff ELSE v1       \* stopPumps()
      x == SchedulerLoop([v |-> v2, s |-> Aged(sched, d), served |-> FALSE,
                          m |-> [pumps |-> pumps, flash |-> flash]], t, valid, blocked, failing)
      p == c.pump
      r == x.m.pumps[p]
      m2 == SavePump(x.m, p, Edited(r, c, valid), p \notin failing)
      dosesNow == c.kind = "manual" /\ MayDoseManually(x.v, r)
  IN  /\ t >= FirstDay * DayLen /\ t <= LastTime
      /\ blocked => c = NoCommand                         \* blocksMqttService()
      /\ now' = t /\ ota' = blocked
      /\ sched' = x.s
      /\ driver' = IF dosesNow THEN StartPump(x.v, p) ELSE x.v
      /\ manual' = IF dosesNow THEN [active |-> TRUE, pump |-> p, plan |-> r.dose] ELSE manual
      /\ pumps' = m2.pumps /\ flash' = m2.flash
      /\ tried' = [q \in Pumps |-> IF Edits(c, q) THEN 0
                                   ELSE IF Started(x.s) /\ q = x.s.active THEN x.s.event
                                   ELSE tried[q]]
      /\ given' = [q \in Pumps |-> IF Edits(c, q) THEN 0
                                   ELSE IF x.served /\ q = sched.active THEN tried[q]
                                   ELSE given[q]]
      /\ calm' = (calm /\ valid /\ jump = 0 /\ ~blocked /\ c = NoCommand)
      /\ forgot' = IF c.kind = "enabled" /\ c.value THEN forgot \ {p} ELSE forgot
      /\ unsaved' = (unsaved \/ failing # {})

Loop ==
  /\ \E d \in 1..MaxStall, valid \in BOOLEAN,
        jump \in Jumps \cup {0}, upload \in {"none", IF ota THEN "end" ELSE "begin"},
        c \in Commands, failing \in SUBSET Pumps :
       /\ events' = events + One(jump # 0) + One(upload = "begin") + One(c # NoCommand)
                           + One(failing # {})
       /\ events' <= MaxEvents
       /\ Pass(d, jump, valid, upload, c, failing)

(***************************************************************************)
(* A restart asked for over MQTT or the web, a crash or a power failure,    *)
(* then setup().  Each record may be lost, and an older release's taken in  *)
(* its place if that can be read.  Without the runtime record a pump of     *)
(* unknown history is disabled.  A configuration that nobody has made gets  *)
(* the values of a first start, and all is saved once more.  Every write    *)
(* may fail.                                                                *)
(***************************************************************************)
Records == {"config", "runtime"}
EmptyRuntime == [remaining |-> 0, lastDose |-> 0, lastMissed |-> 0]
DefaultConfig == [enabled |-> FALSE, at |-> Eight, days |-> {}, dose |-> 0]
\* tryReadLegacyConfig: a pump whose settings cannot be right is off.
LegacyConfig(p) ==
  IF OldConfig[p].days = {} THEN [DefaultConfig EXCEPT !.dose = OldConfig[p].dose]
  ELSE [OldConfig[p] EXCEPT !.enabled = @ /\ OldConfig[p].dose > 0]
ConfigFound(lost, imported) ==
  [p \in Pumps |-> IF "config" \notin lost THEN flash.config[p]
                   ELSE IF "config" \in imported THEN LegacyConfig(p) ELSE DefaultConfig]
RuntimeFound(lost, imported) ==
  [p \in Pumps |-> IF "runtime" \notin lost THEN flash.runtime[p]
                   ELSE IF "runtime" \in imported THEN OldRuntime[p] ELSE EmptyRuntime]
\* mutant: an unreadable history counts as an empty one
TrustsEmptyHistory(c) == c
FailSafe(c) == [c EXCEPT !.enabled = FALSE]
Unknown(runtime) == {p \in Pumps : runtime[p].lastDose = 0}

\* DoserConfigPayload::initialized: a record that nobody has changed holds the defaults.
Initialized(config) == \E p \in Pumps : config[p] # DefaultConfig
\* saveAll: the runtime is not written when the configuration could not be.
SaveAll(f, config, runtime, failed) ==
  [config |-> IF "allConfig" \in failed THEN f.config ELSE config,
   runtime |-> IF failed \cap {"allConfig", "allRuntime"} = {} THEN runtime ELSE f.runtime]

\* The record is of a dose under the time that is still set.
Remembered(p, config, runtime) ==
  config[p].at = pumps[p].at /\ runtime[p].lastDose <= given[p]

\* begin() finds `found' and `history' and keeps what is `safe'; setup() ends with config and
\* runtime.
Recovers(lost, imported, failed) ==
  LET found == ConfigFound(lost, imported)
      history == RuntimeFound(lost, imported)
      unknown == IF "runtime" \in lost THEN Unknown(history) ELSE {}
      safe == [p \in Pumps |-> IF p \in unknown THEN FailSafe(found[p]) ELSE found[p]]
      first == ~Initialized(found)
      config == IF first THEN [safe EXCEPT ![1] = TestConfig] ELSE safe
      runtime == IF first THEN [history EXCEPT ![1].remaining = Refill] ELSE history
      begun == [config |-> IF "config" \in failed THEN flash.config ELSE safe,
                runtime |-> IF "runtime" \in failed THEN flash.runtime ELSE history]
      kept == IF "config" \in lost THEN {} ELSE forgot
  IN  /\ failed \subseteq lost \cup (IF \E p \in unknown : found[p].enabled THEN {"config"} ELSE {})
                             \cup (IF first THEN {"allConfig", "allRuntime"} ELSE {})
      /\ pumps' = [p \in Pumps |-> Merged(config[p], runtime[p])]
      /\ flash' = IF first THEN SaveAll(begun, config, runtime, failed) ELSE begun
      /\ given' = [p \in Pumps |-> IF Remembered(p, config, runtime)
                                     THEN runtime[p].lastDose ELSE 0]
      /\ forgot' = (IF "config" \in failed THEN kept ELSE kept \cup unknown)
                      \ (IF first THEN {1} ELSE {})
      /\ unsaved' = (unsaved \/ failed # {})

Restart ==
  /\ events < MaxEvents /\ events' = events + 1
  /\ \E lost \in SUBSET Records : \E imported \in SUBSET lost,
        failed \in SUBSET {"config", "runtime", "allConfig", "allRuntime"} :
       Recovers(lost, imported, failed)
  /\ driver' = AllOff /\ sched' = IdleSched /\ manual' = NoManual /\ ota' = FALSE
  /\ tried' = [p \in Pumps |-> 0] /\ calm' = FALSE
  /\ UNCHANGED now

Next == Loop \/ Restart
Spec == Init /\ [][Next]_vars

-----------------------------------------------------------------------------
Dates == 0..DateKey(LastTime)
ConfigType == [enabled : BOOLEAN, at : Minutes, days : SUBSET (0..(Week - 1)), dose : Doses]
RuntimeType == [remaining : 0..Refill, lastDose : Dates, lastMissed : Dates]
PumpType == [enabled : BOOLEAN, at : Minutes, days : SUBSET (0..(Week - 1)), dose : Doses,
             remaining : 0..Refill, lastDose : Dates, lastMissed : Dates]
FlashType == [config : [Pumps -> ConfigType], runtime : [Pumps -> RuntimeType]]
DriverType == [pins : SUBSET Pumps, pump : Pumps \cup {None}, age : 0..MaxRun]
SchedType == [state : {"Idle", "Running", "Gap"}, active : Pumps \cup {None}, event : Dates,
              plan : 0..MaxRun, age : 0..(MaxRun + Gap)]
ManualType == [active : BOOLEAN, pump : Pumps \cup {None}, plan : 0..MaxRun]
TypeOK ==
  /\ now \in 0..LastTime /\ ota \in BOOLEAN
  /\ driver \in DriverType /\ sched \in SchedType /\ manual \in ManualType
  /\ pumps \in [Pumps -> PumpType] /\ flash \in FlashType
  /\ tried \in [Pumps -> Dates] /\ given \in [Pumps -> Dates]
  /\ events \in 0..MaxEvents /\ {calm, unsaved} \subseteq BOOLEAN
  /\ forgot \subseteq Pumps

(***************************************************************************)
(* At most one pump is on, it is the one that the driver's safety timer     *)
(* watches, and it has run for no longer than the timer allows.  Scheduled  *)
(* and manual doses, lost time, uploads and the timer itself all switch     *)
(* the pumps.                                                               *)
(***************************************************************************)
PumpsWatched ==
  /\ driver.pins = IF driver.pump = None THEN {} ELSE {driver.pump}
  /\ driver.age <= MaxRun

(***************************************************************************)
(* While the scheduler counts a dose, the pump that runs is its own, since  *)
(* its own start: it never takes a manual dose, or one that was stopped and *)
(* started by somebody else, for the dose it records.                       *)
(***************************************************************************)
RunIsOwned ==
  sched.state = "Running" => driver.pump = sched.active /\ driver.age = sched.age

\* Driver, pins and scheduler agree on which pump runs, and since when.
DriverAgrees == PumpsWatched /\ RunIsOwned

(***************************************************************************)
(* While its time is not edited, a dose of a pump that was completed and    *)
(* recorded is never given again, whatever restarts, failed writes, edits   *)
(* of its days and dose, uploads or lost time follow, and whatever          *)
(* corrections of the clock, as long as all of them together set it back by *)
(* no more than a day less a window.                                        *)
(***************************************************************************)
Starts(p) == sched'.state = "Running" /\ sched'.active = p /\ sched.state # "Running"
SetBackAtMost(back) ==
  (\A j \in Jumps : j >= -1 - back) /\ MaxEvents * back + Window <= DayLen
DoseNotRepeated == [][\A p \in Pumps : Starts(p) => sched'.event > given[p]]_vars

(***************************************************************************)
(* Pumps that fall due together are all served within their windows, one    *)
(* after the other, as long as nothing interferes and no dose comes so      *)
(* close to the driver's limit that a late pass exceeds it.                 *)
(***************************************************************************)
NothingMissed ==
  calm /\ (\A p \in Pumps : /\ pumps[p].dose + MaxStall <= MaxRun + 1
                            /\ pumps[p].remaining >= pumps[p].dose)
    => \A p \in Pumps : pumps[p].lastMissed = 0

(***************************************************************************)
(* StorageManager::savePump: unless a write failed, the flash holds all     *)
(* that the device would lose in a restart.                                 *)
(***************************************************************************)
NothingUnsaved ==
  ~unsaved => \A p \in Pumps : /\ flash.config[p] = ConfigOf(pumps[p])
                               /\ flash.runtime[p] = RuntimeOf(pumps[p])

(***************************************************************************)
(* StorageManager::begin's "Fail-Safe Duplicate Dosing Protection": a pump  *)
(* whose history was lost, and of which no older release knows one, doses   *)
(* by schedule again only after somebody has enabled it, across further     *)
(* restarts too, until the configuration is lost as well.                   *)
(***************************************************************************)
LostHistoryDisables == sched.state = "Running" => sched.active \notin forgot

\* The two records neither fall behind the RAM nor make up a history.
RecordsKept == NothingUnsaved /\ LostHistoryDisables

-----------------------------------------------------------------------------
(* What documents and names say, and the code does not do                   *)

(***************************************************************************)
(* docs/SAFETY_STANDARD.md:792: an event is not executed twice in its       *)
(* window.  A dose near the driver's limit that a late pass stops, or one   *)
(* that an upload interrupts, is not recorded and starts again in full.     *)
(***************************************************************************)
ExecutedOnceInWindow == [][\A p \in Pumps : Starts(p) => sched'.event # tried[p]]_vars

(***************************************************************************)
(* include/app_config.h:16: the time zone is Poland's, so a dose starts     *)
(* within a window from its hour on the clocks there.  It starts as much    *)
(* later as they are ahead of UTC.                                          *)
(***************************************************************************)
DosedAtLocalTime ==
  [][\A p \in Pumps : Starts(p) =>
       LocalTime(now') - EventTime(pumps[p], sched'.event) \in 0..(Window - 1)]_vars

(***************************************************************************)
(* HaDiscovery.cpp:190: the device announces each pump's next dose          *)
(* (getNextDose).  After midnight in Poland it looks for it from the next   *)
(* day of UTC on, and passes over one that comes before.                    *)
(***************************************************************************)
Coming(r, t, from) == {e \in from..(DateKey(t) + Week) : ScheduledOn(r, e) /\ EventTime(r, e) >= t}
NextDose(r, t) == Min(Coming(r, t, DateKey(t)))
AnnouncesNext ==
  \A p \in Pumps : pumps[p].enabled /\ pumps[p].days # {} =>
    NextDose(pumps[p], now) = Min(Coming(pumps[p], now, DateKey(now) - 1))

(***************************************************************************)
(* MqttManager::startManualDose plans manualRuntimeMs for a manual dose, so *)
(* the pump is off at the first pass after it.  serviceManualDose, which    *)
(* would stop and account for it, is called from nowhere.                   *)
(***************************************************************************)
ManualDoseMetered ==
  manual.active /\ driver.pump = manual.pump /\ sched.state # "Running"
    => driver.age < manual.plan + MaxStall
=============================================================================
