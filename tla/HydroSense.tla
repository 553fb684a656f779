------------------------------ MODULE HydroSense ------------------------------
(***************************************************************************)
(* aquaOne Hydro: the automatic top-up of an aquarium from a reserve tank. *)
(* One task runs HydroSenseApp::update() over and over; each pass reads    *)
(* the button, the ultrasonic tank sensor and the float switch, drives the *)
(* pump, raises alarms, executes at most one command from the web and      *)
(* serves a pending restart.  A pass is one step, made of one operator per *)
(* component in the order in which update() calls them.                    *)
(*                                                                         *)
(* Time is discrete.  A stretch of 1..MaxStall units passes between two    *)
(* passes.  The code keeps the time at which something began and computes  *)
(* now - start in 32 bits; the model keeps that difference, which wraps at *)
(* TimeMod in the same way.  A time nobody compares any more (the age of a *)
(* settled float, or of a state without a deadline) is kept at 0.          *)
(***************************************************************************)
EXTENDS Integers

CONSTANTS
  TimeMod,          \* millis() wraps (2^32 in the code)
  MaxStall,         \* longest time between two passes of the loop
  StartDelay, MaxRuntime,                        \* TopupController::configure
  Debounce,                                      \* FloatSensor::configure
  SampleInterval, SampleCount, MinValidSamples, MaxFailedSeries,  \* WaterTank
  Levels, LowLevel, CriticalLevel, Hysteresis,   \* WaterReserve::configure
  RestartDelay                                   \* 500 ms in handleRestartRequest

ASSUME TimeAssumption ==
  /\ MaxStall \in Nat \ {0} /\ StartDelay \in Nat /\ MaxRuntime \in Nat \ {0} /\ Debounce \in Nat
  /\ SampleInterval \in Nat /\ RestartDelay \in Nat /\ TimeMod \in Nat
  \* validateHydroSenseConfig: an hour at most, against the 49 days of millis().
  /\ MaxRuntime + MaxStall < TimeMod /\ StartDelay + MaxStall < TimeMod
ASSUME TankAssumption ==
  /\ SampleCount \in Nat \ {0} /\ MinValidSamples \in 1..SampleCount
  /\ MaxFailedSeries \in 1..255
ASSUME LevelAssumption ==
  /\ Levels \subseteq Nat /\ CriticalLevel \in Nat /\ LowLevel \in Nat /\ Hysteresis \in Nat
  /\ CriticalLevel < LowLevel           \* validateHydroSenseConfig

VARIABLES
  running,   \* FALSE between ESP.restart() and the next begin()
  pumpOn,    \* Pump::isOn_
  float,     \* FloatSensor: raw_, stable_ and the age of the last raw change
  tank,      \* WaterTank
  reserve,   \* WaterReserve::state_
  topup,     \* TopupController: state_, its age, serviceMode_, pumpAllowed_
  alarm,     \* AlarmManager::code_
  buzzer,    \* BuzzerController: muted_ and lastAlarmCode_
  restart,   \* restartRequested_, restartPending_ and its age
  \* What an observer with a stop-watch sees:
  onFor,     \* how long the pump has been running
  lowFor     \* how long the float has reported low water, up to StartDelay

vars == <<running, pumpOn, float, tank, reserve, topup, alarm, buzzer, restart,
          onFor, lowFor>>

\* saveSettings is a save that succeeds; one that is refused changes nothing.
Commands == {"none", "toggleService", "mute", "resetLockout", "saveSettings"}
Gestures == {"none", "short", "long"}
Older(age, d) == (age + d) % TimeMod
Least(a, b) == IF a < b THEN a ELSE b

-----------------------------------------------------------------------------
(* FloatSensor::update *)

FloatAfter(f, d, pin) ==
  LET age == IF pin # f.raw THEN 0 ELSE Older(f.age, d)
      settled == f.stable = pin \/ age >= Debounce
  IN  [raw |-> pin, stable |-> IF settled THEN pin ELSE f.stable,
       age |-> IF settled THEN 0 ELSE age]

-----------------------------------------------------------------------------
(* WaterTank::update and finishSeries.  The median of a series that has     *)
(* enough samples is any level; that of an invalid one is never read.       *)
(* failedSeries_ counts to 255 and is only compared with MaxFailedSeries,   *)
(* where the model stops counting.                                          *)

Sampled(t, hit) ==
  [age |-> 0, attempts |-> t.attempts + 1, samples |-> IF hit THEN t.samples + 1 ELSE t.samples,
   failed |-> t.failed, valid |-> t.valid, fault |-> t.fault, level |-> t.level]
SeriesOk(t) == t.samples >= MinValidSamples
FinishSeries(t, level) ==
  IF SeriesOk(t)
    THEN [age |-> t.age, attempts |-> 0, samples |-> 0, failed |-> 0,
          valid |-> TRUE, fault |-> FALSE, level |-> level]
    ELSE [age |-> t.age, attempts |-> 0, samples |-> 0, valid |-> FALSE,
          failed |-> Least(t.failed + 1, MaxFailedSeries), level |-> 0,
          fault |-> t.fault \/ t.failed + 1 >= MaxFailedSeries]
TankAfter(t, d, hit, level) ==
  IF Older(t.age, d) < SampleInterval THEN [t EXCEPT !.age = Older(t.age, d)]
  ELSE IF t.attempts + 1 < SampleCount THEN Sampled(t, hit)
  ELSE FinishSeries(Sampled(t, hit), level)

-----------------------------------------------------------------------------
(* WaterReserve::update *)

Graded(level) == IF level <= CriticalLevel THEN "Critical"
                 ELSE IF level <= LowLevel THEN "Low" ELSE "Ok"
\* mutant: an invalid measurement keeps the last grade
KeepsLastGrade(r, t) == IF t.valid THEN Graded(t.level) ELSE r
ReserveAfter(r, t) ==
  CASE ~t.valid -> "Unknown"
    [] t.valid /\ r \in {"Unknown", "Ok"} -> Graded(t.level)
    [] t.valid /\ r = "Low" ->
         IF t.level > CriticalLevel /\ t.level >= LowLevel + Hysteresis THEN "Ok"
         ELSE IF t.level > CriticalLevel THEN "Low" ELSE "Critical"
    [] t.valid /\ r = "Critical" ->
         IF t.level < CriticalLevel + Hysteresis THEN "Critical"
         ELSE IF t.level <= LowLevel THEN "Low" ELSE "Ok"
AllowsPump(r) == r \in {"Ok", "Low"}

-----------------------------------------------------------------------------
(* TopupController.  A controller is the pair of its members and the pump.  *)

Timed(state) == state \in {"Waiting", "Pumping"}
Controller(d) == [state |-> topup.state,
                  age |-> IF Timed(topup.state) THEN Older(topup.age, d) ELSE 0,
                  service |-> topup.service, allowed |-> topup.allowed, pump |-> pumpOn]

EnterState(c, s) ==
  [state |-> s, age |-> 0, service |-> c.service, allowed |-> c.allowed,
   pump |-> s = "Pumping" /\ ~c.service /\ c.allowed]
PumpOff(c) == [c EXCEPT !.pump = FALSE]

\* mutant: service mode leaves a lockout like any other state
ServiceUnlocks(c, enabled) ==
  IF c.service = enabled THEN c
  ELSE EnterState([c EXCEPT !.service = enabled], IF c.allowed THEN "Idle" ELSE "Blocked")
SetServiceMode(c, enabled) ==
  LET off == PumpOff([c EXCEPT !.service = enabled])
  IN  IF c.service = enabled THEN c
      ELSE IF c.state = "Lockout" THEN off
      ELSE EnterState(off, IF c.allowed THEN "Idle" ELSE "Blocked")

SetPumpAllowed(c, allowed) ==
  LET given == [c EXCEPT !.allowed = allowed]
  IN  IF c.allowed = allowed THEN c
      ELSE IF allowed THEN given
      ELSE IF c.state = "Lockout" THEN PumpOff(given)
      ELSE EnterState(PumpOff(given), "Blocked")

ResetLockout(c) == EnterState(c, IF c.allowed THEN "Idle" ELSE "Blocked")

ExactDelay(c) == c.age = StartDelay         \* mutant: a late pass misses the moment
DelayPassed(c) == c.age >= StartDelay
RuntimeSpent(c) == c.age >= MaxRuntime

\* The switch of update(), in service of neither an operator nor a block.
Regulated(c, low) ==
  CASE c.state = "Idle" /\ low -> EnterState(c, "Waiting")
    [] c.state = "Idle" /\ ~low -> PumpOff(c)
    [] c.state = "Waiting" /\ ~low -> EnterState(c, "Idle")
    [] c.state = "Waiting" /\ low /\ DelayPassed(c) -> EnterState(c, "Pumping")
    [] c.state = "Waiting" /\ low /\ ~DelayPassed(c) -> PumpOff(c)
    [] c.state = "Pumping" /\ ~low -> EnterState(c, "Idle")
    [] c.state = "Pumping" /\ low /\ RuntimeSpent(c) -> EnterState(c, "Lockout")
    [] c.state = "Pumping" /\ low /\ ~RuntimeSpent(c) -> c
    [] OTHER -> PumpOff(c)

TopupUpdate(c, low) ==
  IF c.service THEN PumpOff(c)
  ELSE IF ~c.allowed
    THEN IF c.state \in {"Lockout", "Blocked"} THEN PumpOff(c)
         ELSE EnterState(PumpOff(c), "Blocked")
  ELSE Regulated(IF c.state = "Blocked" THEN EnterState(c, "Idle") ELSE c, low)

-----------------------------------------------------------------------------
(* AlarmManager::update and BuzzerController::update *)

AlarmFor(c, t, r) ==
  CASE c.state = "Lockout" -> "PumpLockout"
    [] c.state # "Lockout" /\ t.fault -> "TankSensorFault"
    [] c.state # "Lockout" /\ ~t.fault /\ r = "Critical" -> "TankLevelCritical"
    [] c.state # "Lockout" /\ ~t.fault /\ r = "Low" -> "TankLevelLow"
    [] OTHER -> "None"

BuzzerAfter(b, code) ==
  [muted |-> b.muted /\ code # "None" /\ code = b.last, last |-> code]

-----------------------------------------------------------------------------
(* HydroWebApplication::execute: what a command does to the controller.     *)

Executed(c, cmd) ==
  CASE cmd = "toggleService" -> SetServiceMode(c, ~c.service)
    [] cmd = "resetLockout" -> ResetLockout(c)
    [] OTHER -> c

-----------------------------------------------------------------------------
(* HydroSenseApp *)

FreshFloat(pin) == [raw |-> pin, stable |-> pin, age |-> 0]
FreshTank == [age |-> 0, attempts |-> 0, samples |-> 0, failed |-> 0, valid |-> FALSE,
              fault |-> FALSE, level |-> 0]
FreshTopup == [state |-> "Idle", age |-> 0, service |-> FALSE, allowed |-> FALSE]
FreshBuzzer == [muted |-> FALSE, last |-> "None"]
NoRestart == [requested |-> FALSE, pending |-> FALSE, age |-> 0]

Init ==
  /\ running = TRUE /\ pumpOn = FALSE
  /\ \E pin \in BOOLEAN : float = FreshFloat(pin)
  /\ tank = FreshTank /\ reserve = "Unknown" /\ topup = FreshTopup
  /\ alarm = "None" /\ buzzer = FreshBuzzer /\ restart = NoRestart
  /\ onFor = 0 /\ lowFor = 0

\* begin(), after a restart that was asked for, a crash or a power failure.
Begin ==
  /\ running' = TRUE /\ pumpOn' = FALSE
  /\ \E pin \in BOOLEAN : float' = FreshFloat(pin)
  /\ tank' = FreshTank /\ reserve' = "Unknown" /\ topup' = FreshTopup
  /\ alarm' = "None" /\ buzzer' = FreshBuzzer /\ restart' = NoRestart
  /\ onFor' = 0 /\ lowFor' = 0

\* handleRestartRequest: the request after this pass, and what it does to the pump.
RestartAfter(r, d, saved) ==
  LET asked == r.requested \/ saved
  IN  IF r.pending THEN [requested |-> asked, pending |-> TRUE, age |-> Older(r.age, d)]
      ELSE IF asked THEN [requested |-> FALSE, pending |-> TRUE, age |-> 0]
      ELSE r
RestartDue(r) == r.pending /\ r.age >= RestartDelay
StopsPump(before, after) == RestartDue(after) \/ (after.pending /\ ~before.pending)

HandleButton(c, gesture) == IF gesture = "long" THEN SetServiceMode(c, ~c.service) ELSE c

SeriesEnds(d, hit) ==
  /\ Older(tank.age, d) >= SampleInterval /\ tank.attempts + 1 >= SampleCount
  /\ SeriesOk(Sampled(tank, hit))

\* One pass of update(): d is the time since the last one; the button, the
\* float's pin, the echo of the sensor and the web are the other inputs.
Pass(d, gesture, pin, hit, level, cmd) ==
  LET float2 == FloatAfter(float, d, pin)
      tank2 == TankAfter(tank, d, hit, level)
      reserve2 == ReserveAfter(reserve, tank2)
      allowed == SetPumpAllowed(HandleButton(Controller(d), gesture), AllowsPump(reserve2))
      regulated == TopupUpdate(allowed, float2.stable)
      code == AlarmFor(regulated, tank2, reserve2)
      heard == BuzzerAfter([buzzer EXCEPT !.muted = @ \/ gesture = "short"], code)
      buzzer2 == [heard EXCEPT !.muted = @ \/ cmd = "mute"]
      done == Executed(regulated, cmd)
      restart2 == RestartAfter(restart, d, cmd = "saveSettings")
      on == done.pump /\ ~StopsPump(restart, restart2)
  IN  /\ float' = float2 /\ tank' = tank2 /\ reserve' = reserve2
      /\ topup' = [state |-> done.state, age |-> done.age, service |-> done.service,
                   allowed |-> done.allowed]
      /\ alarm' = code /\ buzzer' = buzzer2
      /\ restart' = restart2
      /\ running' = ~RestartDue(restart2)
      /\ pumpOn' = on
      /\ onFor' = IF on /\ pumpOn THEN onFor + d ELSE 0
      /\ lowFor' = IF float2.stable /\ float.stable THEN Least(lowFor + d, StartDelay) ELSE 0

UpdateWith(cmd) ==
  /\ running
  /\ \E d \in 1..MaxStall, gesture \in Gestures, pin, hit \in BOOLEAN :
       \E level \in IF SeriesEnds(d, hit) THEN Levels ELSE {tank.level} :
         Pass(d, gesture, pin, hit, level, cmd)
Update == \E cmd \in Commands : UpdateWith(cmd)

Next == Update \/ Begin

\* loop() calls update() for ever and a chip told to restart boots: the device never
\* stops taking steps.  Nothing else is assumed of them; they may all be restarts.
Spec == Init /\ [][Next]_vars /\ []<><<TRUE>>_vars

-----------------------------------------------------------------------------
Ages == 0..(TimeMod - 1)
Grades == {"Unknown", "Ok", "Low", "Critical"}
Codes == {"None", "TankLevelLow", "TankLevelCritical", "TankSensorFault", "PumpLockout"}
TypeOK ==
  /\ running \in BOOLEAN /\ pumpOn \in BOOLEAN
  /\ float \in [raw : BOOLEAN, stable : BOOLEAN, age : Ages]
  /\ tank \in [age : Ages, attempts : 0..(SampleCount - 1), samples : 0..(SampleCount - 1),
               failed : 0..MaxFailedSeries, valid : BOOLEAN, fault : BOOLEAN, level : Levels \cup {0}]
  /\ reserve \in Grades
  /\ topup \in [state : {"Idle", "Waiting", "Pumping", "Blocked", "Lockout"}, age : Ages,
                service : BOOLEAN, allowed : BOOLEAN]
  /\ alarm \in Codes
  /\ buzzer \in [muted : BOOLEAN, last : Codes]
  /\ restart \in [requested : BOOLEAN, pending : BOOLEAN, age : Ages]
  /\ onFor \in Nat /\ lowFor \in 0..StartDelay

(***************************************************************************)
(* The pump runs only when the aquarium asked for water, nobody is at the  *)
(* device, and the last complete series of the tank sensor was good and    *)
(* above the critical level (TopupController::update, WaterReserve).  The  *)
(* permission, the debounced float, the service switch and the web's       *)
(* commands reach the pump at different places of a pass.                  *)
(***************************************************************************)
PumpOnlyWhenSafe ==
  pumpOn => /\ topup.state = "Pumping" /\ ~topup.service /\ float.stable
            /\ tank.valid /\ tank.level > CriticalLevel

(***************************************************************************)
(* However the passes fall and whatever the clock reads, a pass never      *)
(* leaves the pump running for longer than topupMaxPumpRuntimeMs; with the *)
(* time to the next pass, it runs for less than MaxRuntime + MaxStall.     *)
(***************************************************************************)
RuntimeBounded == pumpOn => onFor < MaxRuntime

\* The pump runs only when it may, and not for too long.
PumpGuarded == PumpOnlyWhenSafe /\ RuntimeBounded

\* The pump starts only after the float has reported low water for StartDelay, and a
\* lockout ends only by the operator's reset, or with a restart.
TopupRules ==
  [][/\ pumpOn' /\ ~pumpOn => lowFor' = StartDelay
     /\ topup.state = "Lockout" /\ topup'.state # "Lockout"
          => UpdateWith("resetLockout") \/ Begin]_vars

(***************************************************************************)
(* The grade of the reserve, and with it the alarm and the permission to   *)
(* pump, changes only with a new measurement: a level that rests on a      *)
(* threshold does not make it flutter.  This needs a positive hysteresis;  *)
(* the validator also lets 0 through.                                      *)
(***************************************************************************)
GradeSteady ==
  [][reserve' # reserve /\ reserve # "Unknown" /\ reserve' # "Unknown"
       => tank'.level # tank.level]_vars

\* An alarm that was not there before is never silent from the start, unless it
\* is muted in the very pass that raises it.
NewAlarmSounds ==
  [][alarm' # alarm /\ alarm' # "None" => ~buzzer'.muted \/ UpdateWith("mute")]_vars

(***************************************************************************)
(* Water that stays low is answered: when nobody interferes and the        *)
(* reserve is fit, the pump starts or the controller is locked out,        *)
(* however irregular the passes are.  (While the water is low, only an     *)
(* operator's reset leaves the controller Idle at the end of a pass.)      *)
(***************************************************************************)
Undisturbed == running /\ float.stable /\ ~topup.service /\ AllowsPump(reserve)
               /\ ~restart.pending /\ topup.state # "Idle"
LowWaterServed == <>[]Undisturbed => []<>(pumpOn \/ topup.state = "Lockout")

(***************************************************************************)
(* docs/WEB_F9_7E1_HYDRO_MIGRATION_GATE.md:102 and                         *)
(* docs/SAFETY_STANDARD.md:718: a controlled restart turns the pump off,   *)
(* waits, and restarts; the pump stays off in between.                     *)
(***************************************************************************)
PumpOffUntilRestart == restart.pending => ~pumpOn
=============================================================================
