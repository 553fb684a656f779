--------------------------- MODULE HydroSenseProofs ---------------------------
(***************************************************************************)
(* The safety of the Hydro top-up for every choice of delays, levels and   *)
(* stalls.  One inductive invariant, Inv, carries all the theorems; a lemma *)
(* for each component says what its update() returns, and PassStep puts    *)
(* them together in the order of a pass.                                    *)
(***************************************************************************)
EXTENDS HydroSense, TLAPS

States == {"Idle", "Waiting", "Pumping", "Blocked", "Lockout"}
Ctl == [state : States, age : Ages, service : BOOLEAN, allowed : BOOLEAN, pump : BOOLEAN]
Active(s) == s \in {"Waiting", "Pumping"}

\* What the members of a controller have to do with one another.
CtlOK(c) ==
  /\ c \in Ctl
  /\ Active(c.state) => c.allowed /\ ~c.service
  /\ c.pump => c.state = "Pumping"

FloatType == [raw : BOOLEAN, stable : BOOLEAN, age : Ages]
TankType == [age : Ages, attempts : 0..(SampleCount - 1), samples : 0..(SampleCount - 1),
             failed : 0..MaxFailedSeries, valid : BOOLEAN, fault : BOOLEAN,
             level : Levels \cup {0}]
\* A series that is not finished has no more samples than attempts.
TankOK(t) == t \in TankType /\ t.samples <= t.attempts
TopupType == [state : States, age : Ages, service : BOOLEAN, allowed : BOOLEAN]
BuzzerType == [muted : BOOLEAN, last : Codes]
RestartType == [requested : BOOLEAN, pending : BOOLEAN, age : Ages]

(***************************************************************************)
(* The inductive invariant.  The permission follows the grade; an active   *)
(* controller is permitted, unattended and has seen low water; the pump's  *)
(* stop-watch and the controller's agree; a wait is no longer than the     *)
(* water has been low.                                                     *)
(***************************************************************************)
GradeInv ==
  /\ topup.allowed <=> AllowsPump(reserve)
  /\ reserve # "Unknown" => tank.valid
ActiveInv ==
  Active(topup.state) => topup.allowed /\ ~topup.service /\ float.stable
PumpInv ==
  /\ pumpOn => topup.state = "Pumping" /\ onFor = topup.age
  /\ topup.state = "Pumping" => topup.age < MaxRuntime /\ tank.level > CriticalLevel
WaitInv ==
  topup.state = "Waiting" =>
    (topup.age = 0 \/ topup.age < StartDelay) /\ topup.age <= lowFor
Inv == TypeOK /\ TankOK(tank) /\ alarm = buzzer.last /\ GradeInv /\ ActiveInv /\ PumpInv /\ WaitInv

-----------------------------------------------------------------------------
(* Time.  A younger age than the limits does not wrap in one pass.         *)

LEMMA Modulus == TimeMod \in Nat \ {0} /\ 0 \in Ages
BY TimeAssumption DEF Ages

LEMMA OlderType ==
  ASSUME NEW a \in Ages, NEW d \in 1..MaxStall
  PROVE  Older(a, d) \in Ages /\ (a + d < TimeMod => Older(a, d) = a + d)
BY TimeAssumption, Modulus DEF Ages, Older

-----------------------------------------------------------------------------
(* FloatSensor and WaterTank keep their types.                             *)

LEMMA FloatStep ==
  ASSUME NEW f \in FloatType, NEW d \in 1..MaxStall, NEW pin \in BOOLEAN
  PROVE  FloatAfter(f, d, pin) \in FloatType
BY OlderType, Modulus DEF FloatAfter, FloatType

LEMMA TankStep ==
  ASSUME NEW t, TankOK(t), NEW d \in 1..MaxStall, NEW hit \in BOOLEAN,
         NEW level \in Levels \cup {0}
  PROVE  TankOK(TankAfter(t, d, hit, level))
<1> DEFINE s == Sampled(t, hit)
           aged == [t EXCEPT !.age = Older(t.age, d)]
<1>1. Older(t.age, d) \in Ages
  BY OlderType DEF TankOK, TankType
<1>2. CASE Older(t.age, d) < SampleInterval
  <2>1. aged \in TankType /\ aged.samples = t.samples /\ aged.attempts = t.attempts
    BY <1>1 DEF TankOK, TankType
  <2>2. TankAfter(t, d, hit, level) = aged
    BY <1>2 DEF TankAfter
  <2> QED BY <2>1, <2>2 DEF TankOK
<1>3. CASE ~(Older(t.age, d) < SampleInterval) /\ t.attempts + 1 < SampleCount
  <2>1. TankAfter(t, d, hit, level) = s
    BY <1>3 DEF TankAfter
  <2>2. TankOK(s)
    BY <1>3, TankAssumption, Modulus DEF TankOK, TankType, Sampled
  <2> QED BY <2>1, <2>2
<1>4. CASE ~(Older(t.age, d) < SampleInterval) /\ ~(t.attempts + 1 < SampleCount)
  <2>1. TankAfter(t, d, hit, level) = FinishSeries(s, level)
    BY <1>4 DEF TankAfter
  <2>2. /\ s.age \in Ages /\ s.failed \in 0..MaxFailedSeries /\ s.fault \in BOOLEAN
    BY Modulus DEF TankOK, TankType, Sampled
  <2>3. TankOK(FinishSeries(s, level))
    <3> HIDE DEF s
    <3> QED BY <2>2, TankAssumption DEF FinishSeries, TankOK, TankType, Least
  <2> QED BY <2>1, <2>3
<1> QED BY <1>2, <1>3, <1>4

-----------------------------------------------------------------------------
(* WaterReserve: the grade is known exactly when the measurement is valid,  *)
(* and a permission that goes on rests on a level above the critical one.   *)

LEMMA GradeStep ==
  ASSUME NEW r \in Grades, NEW t \in TankType
  PROVE  /\ ReserveAfter(r, t) \in Grades
         /\ ReserveAfter(r, t) # "Unknown" => t.valid
         /\ AllowsPump(r) /\ AllowsPump(ReserveAfter(r, t)) => t.level > CriticalLevel
<1>0. t.level \in Levels \cup {0}
  BY DEF TankType
<1>1. t.level \in Nat
  <2>1. CASE t.level \in Levels
    BY <2>1, LevelAssumption, Zenon
  <2>2. CASE t.level = 0
    BY <2>2
  <2> QED BY <1>0, <2>1, <2>2
<1> QED
  BY <1>1, LevelAssumption DEF ReserveAfter, Graded, Grades, AllowsPump

-----------------------------------------------------------------------------
(* TopupController                                                          *)

LEMMA EnterOK ==
  ASSUME NEW c \in Ctl, NEW s \in {"Idle", "Blocked", "Lockout"}
  PROVE  /\ CtlOK(EnterState(c, s)) /\ EnterState(c, s).state = s
         /\ EnterState(c, s).service = c.service /\ EnterState(c, s).allowed = c.allowed
         /\ ~EnterState(c, s).pump
BY Modulus DEF EnterState, CtlOK, Ctl, States, Active

LEMMA OffOK ==
  ASSUME NEW c \in Ctl
  PROVE  /\ PumpOff(c) \in Ctl /\ ~PumpOff(c).pump
         /\ PumpOff(c).state = c.state /\ PumpOff(c).age = c.age
         /\ PumpOff(c).service = c.service /\ PumpOff(c).allowed = c.allowed
         /\ CtlOK(c) => CtlOK(PumpOff(c))
BY DEF PumpOff, CtlOK, Ctl

LEMMA ServiceStep ==
  ASSUME NEW c, CtlOK(c), NEW enabled \in BOOLEAN
  PROVE  LET e == SetServiceMode(c, enabled) IN
         /\ CtlOK(e) /\ e.allowed = c.allowed
         /\ \/ e = c
            \/ ~e.pump /\ ~Active(e.state)
         /\ c.state = "Lockout" => e.state = "Lockout"
<1> DEFINE given == [c EXCEPT !.service = enabled]
           off == PumpOff(given)
<1>0. c \in Ctl
  BY DEF CtlOK
<1>1. given \in Ctl /\ given.service = enabled /\ given.state = c.state
      /\ given.allowed = c.allowed
  BY <1>0 DEF Ctl
<1>2. /\ off \in Ctl /\ ~off.pump /\ off.state = c.state /\ off.allowed = c.allowed
  BY <1>1, OffOK
<1> HIDE DEF given
<1>3. CASE c.service = enabled
  BY <1>3 DEF SetServiceMode
<1>4. CASE c.service # enabled /\ c.state = "Lockout"
  <2>1. SetServiceMode(c, enabled) = off
    BY <1>4 DEF SetServiceMode, given
  <2>2. ~Active(off.state)
    BY <1>2, <1>4 DEF Active
  <2>3. CtlOK(off)
    BY <1>2, <2>2 DEF CtlOK
  <2> QED BY <1>2, <1>4, <2>1, <2>2, <2>3
<1>5. CASE c.service # enabled /\ c.state # "Lockout"
  <2>1. SetServiceMode(c, enabled) = EnterState(off, IF c.allowed THEN "Idle" ELSE "Blocked")
    BY <1>5 DEF SetServiceMode, given
  <2> QED BY <1>2, <1>5, <2>1, EnterOK DEF Active
<1> QED BY <1>3, <1>4, <1>5

LEMMA AllowedStep ==
  ASSUME NEW c, CtlOK(c), NEW allowed \in BOOLEAN
  PROVE  LET e == SetPumpAllowed(c, allowed) IN
         /\ CtlOK(e) /\ e.allowed = allowed
         /\ \/ e.state = c.state /\ e.age = c.age /\ e.pump = c.pump
            \/ ~e.pump /\ ~Active(e.state)
         /\ c.state = "Lockout" => e.state = "Lockout"
<1> DEFINE given == [c EXCEPT !.allowed = allowed]
           off == PumpOff(given)
<1>0. c \in Ctl
  BY DEF CtlOK
<1>1. given \in Ctl /\ given.service = c.service /\ given.state = c.state
      /\ given.allowed = allowed /\ given.pump = c.pump
  BY <1>0 DEF Ctl
<1>2. /\ off \in Ctl /\ ~off.pump /\ off.state = c.state /\ off.allowed = allowed
  BY <1>1, OffOK
<1> HIDE DEF given
<1>3. CASE c.allowed = allowed
  BY <1>3 DEF SetPumpAllowed
<1>4. CASE ~c.allowed /\ allowed
  <2>1. SetPumpAllowed(c, allowed) = given
    BY <1>4 DEF SetPumpAllowed, given
  <2>2. ~Active(c.state) /\ ~c.pump
    BY <1>4 DEF CtlOK, Active
  <2> QED BY <1>1, <2>1, <2>2 DEF CtlOK
<1>5. CASE c.allowed /\ ~allowed /\ c.state = "Lockout"
  <2>1. SetPumpAllowed(c, allowed) = off
    BY <1>5 DEF SetPumpAllowed, given
  <2>2. ~Active(off.state)
    BY <1>2, <1>5 DEF Active
  <2>3. CtlOK(off)
    BY <1>2, <2>2 DEF CtlOK
  <2> QED BY <1>2, <1>5, <2>1, <2>2, <2>3
<1>6. CASE c.allowed /\ ~allowed /\ c.state # "Lockout"
  <2>1. SetPumpAllowed(c, allowed) = EnterState(off, "Blocked")
    BY <1>6 DEF SetPumpAllowed, given
  <2> QED BY <1>2, <1>6, <2>1, EnterOK DEF Active
<1> QED BY <1>0, <1>3, <1>4, <1>5, <1>6 DEF Ctl

LEMMA ResetStep ==
  ASSUME NEW c, CtlOK(c)
  PROVE  /\ CtlOK(ResetLockout(c)) /\ ResetLockout(c).allowed = c.allowed
         /\ ~ResetLockout(c).pump /\ ~Active(ResetLockout(c).state)
<1>1. c \in Ctl
  BY DEF CtlOK
<1> QED BY <1>1, EnterOK DEF ResetLockout, Active

\* How an active controller e comes from the controller c before it.
Carries(c, e, low) ==
  /\ Active(e.state) => low
  /\ e.state = "Waiting" =>
       \/ e.age = 0
       \/ c.state = "Waiting" /\ e.age = c.age /\ c.age < StartDelay
  /\ e.state = "Pumping" =>
       \/ c.state = "Waiting" /\ c.age >= StartDelay /\ e.age = 0
       \/ c.state = "Pumping" /\ e.age = c.age /\ e.pump = c.pump /\ c.age < MaxRuntime
\* What update() makes of the controller c, with low water or not.
Proceeds(c, e, low) ==
  /\ CtlOK(e) /\ e.allowed = c.allowed
  /\ Carries(c, e, low)
  /\ c.state = "Lockout" => e.state = "Lockout"

LEMMA ActiveEntry ==
  ASSUME NEW c \in Ctl, c.allowed, ~c.service, NEW s \in {"Waiting", "Pumping"}
  PROVE  /\ CtlOK(EnterState(c, s)) /\ EnterState(c, s).state = s
         /\ EnterState(c, s).age = 0
         /\ EnterState(c, s).allowed = c.allowed
BY Modulus DEF EnterState, CtlOK, Ctl, States, Active

LEMMA RegulatedStep ==
  ASSUME NEW c, CtlOK(c), c.allowed, ~c.service, c.state # "Blocked", NEW low \in BOOLEAN
  PROVE  Proceeds(c, Regulated(c, low), low)
<1>0. c \in Ctl /\ c.state \in States /\ c.age \in Ages
  BY DEF CtlOK, Ctl
<1>1. CASE c.state = "Idle" /\ low
  <2> DEFINE e == EnterState(c, "Waiting")
  <2>1. Regulated(c, low) = e
    BY <1>1 DEF Regulated
  <2>2. CtlOK(e) /\ e.state = "Waiting" /\ e.age = 0 /\ e.allowed = c.allowed
    BY <1>0, ActiveEntry
  <2> HIDE DEF e
  <2>3. Proceeds(c, e, low)
    BY <1>1, <2>2 DEF Proceeds, Carries
  <2> QED BY <2>1, <2>3
<1>2. CASE c.state \in {"Waiting", "Pumping"} /\ ~low
  <2> DEFINE e == EnterState(c, "Idle")
  <2>1. Regulated(c, low) = e
    BY <1>2 DEF Regulated
  <2>2. CtlOK(e) /\ e.state = "Idle" /\ e.allowed = c.allowed
    BY <1>0, EnterOK
  <2> HIDE DEF e
  <2>3. Proceeds(c, e, low)
    BY <1>2, <2>2 DEF Proceeds, Carries, Active
  <2> QED BY <2>1, <2>3
<1>3. CASE c.state = "Waiting" /\ low /\ c.age >= StartDelay
  <2> DEFINE e == EnterState(c, "Pumping")
  <2>1. Regulated(c, low) = e
    BY <1>3 DEF Regulated, DelayPassed
  <2>2. CtlOK(e) /\ e.state = "Pumping" /\ e.age = 0 /\ e.allowed = c.allowed
    BY <1>0, ActiveEntry
  <2> HIDE DEF e
  <2>3. Proceeds(c, e, low)
    BY <1>3, <2>2 DEF Proceeds, Carries
  <2> QED BY <2>1, <2>3
<1>4. CASE c.state = "Waiting" /\ low /\ ~(c.age >= StartDelay)
  <2> DEFINE e == PumpOff(c)
  <2>1. Regulated(c, low) = e
    BY <1>4 DEF Regulated, DelayPassed
  <2>2. c.age < StartDelay
    BY <1>0, <1>4, TimeAssumption DEF Ages
  <2>3. CtlOK(e) /\ e.state = "Waiting" /\ e.age = c.age /\ e.allowed = c.allowed
    BY <1>0, <1>4, OffOK
  <2> HIDE DEF e
  <2>4. Proceeds(c, e, low)
    BY <1>4, <2>2, <2>3 DEF Proceeds, Carries
  <2> QED BY <2>1, <2>4
<1>5. CASE c.state = "Pumping" /\ low /\ c.age >= MaxRuntime
  <2>1. Regulated(c, low) = EnterState(c, "Lockout")
    BY <1>5 DEF Regulated, RuntimeSpent
  <2> DEFINE e == EnterState(c, "Lockout")
  <2>2. CtlOK(e) /\ e.state = "Lockout" /\ e.allowed = c.allowed
    BY <1>0, EnterOK
  <2> HIDE DEF e
  <2>3. Proceeds(c, e, low)
    BY <2>2 DEF Proceeds, Carries, Active
  <2> QED BY <2>1, <2>3 DEF e
<1>6. CASE c.state = "Pumping" /\ low /\ ~(c.age >= MaxRuntime)
  <2>1. Regulated(c, low) = c
    BY <1>6 DEF Regulated, RuntimeSpent
  <2>2. c.age < MaxRuntime
    BY <1>0, <1>6, TimeAssumption DEF Ages
  <2> QED BY <1>6, <2>1, <2>2 DEF Proceeds, Carries
<1>7. CASE c.state = "Lockout" \/ (c.state = "Idle" /\ ~low)
  <2> DEFINE e == PumpOff(c)
  <2>1. Regulated(c, low) = e
    BY <1>7 DEF Regulated
  <2>2. CtlOK(e) /\ e.state = c.state /\ e.allowed = c.allowed
    BY <1>0, OffOK
  <2> HIDE DEF e
  <2>3. Proceeds(c, e, low)
    BY <1>7, <2>2 DEF Proceeds, Carries, Active
  <2> QED BY <2>1, <2>3
<1> QED BY <1>0, <1>1, <1>2, <1>3, <1>4, <1>5, <1>6, <1>7 DEF States

LEMMA UpdateStep ==
  ASSUME NEW c, CtlOK(c), NEW low \in BOOLEAN
  PROVE  Proceeds(c, TopupUpdate(c, low), low)
<1>0. c \in Ctl /\ CtlOK(PumpOff(c)) /\ PumpOff(c) \in Ctl
  BY OffOK DEF CtlOK
<1>1. CASE c.service \/ (~c.allowed /\ c.state \in {"Lockout", "Blocked"})
  <2> DEFINE e == PumpOff(c)
  <2>1. TopupUpdate(c, low) = e
    BY <1>1 DEF TopupUpdate
  <2>2. ~Active(c.state)
    BY <1>1 DEF CtlOK
  <2>3. CtlOK(e) /\ e.state = c.state /\ e.allowed = c.allowed
    BY <1>0, OffOK
  <2> HIDE DEF e
  <2>4. Proceeds(c, e, low)
    BY <2>2, <2>3 DEF Proceeds, Carries, Active
  <2> QED BY <2>1, <2>4
<1>2. CASE ~c.service /\ ~c.allowed /\ c.state \notin {"Lockout", "Blocked"}
  <2> DEFINE e == EnterState(PumpOff(c), "Blocked")
  <2>1. TopupUpdate(c, low) = e
    BY <1>2 DEF TopupUpdate
  <2>2. PumpOff(c).allowed = c.allowed
    BY <1>0, OffOK
  <2>3. CtlOK(e) /\ e.state = "Blocked" /\ e.allowed = c.allowed
    BY <1>0, <2>2, EnterOK
  <2> HIDE DEF e
  <2>4. Proceeds(c, e, low)
    BY <1>2, <2>3 DEF Proceeds, Carries, Active
  <2> QED BY <2>1, <2>4
<1>3. CASE ~c.service /\ c.allowed /\ c.state # "Blocked"
  <2>1. TopupUpdate(c, low) = Regulated(c, low)
    BY <1>3 DEF TopupUpdate
  <2> QED BY <1>3, <2>1, RegulatedStep
<1>4. CASE ~c.service /\ c.allowed /\ c.state = "Blocked"
  <2> DEFINE idle == EnterState(c, "Idle")
  <2>1. TopupUpdate(c, low) = Regulated(idle, low)
    BY <1>4 DEF TopupUpdate
  <2>2. CtlOK(idle) /\ idle.allowed = c.allowed /\ idle.service = c.service /\ idle.state = "Idle"
    BY <1>0, EnterOK
  <2> DEFINE e == Regulated(idle, low)
  <2> HIDE DEF idle
  <2>3. Proceeds(idle, e, low)
    BY <1>4, <2>2, RegulatedStep
  <2> HIDE DEF e
  <2>4. e.state # "Pumping" /\ (e.state = "Waiting" => e.age = 0) /\ CtlOK(e)
        /\ (Active(e.state) => low)
    BY <2>2, <2>3 DEF Proceeds, Carries
  <2>5. e.allowed = c.allowed
    BY <2>2, <2>3, Zenon DEF Proceeds, Carries
  <2>6. Proceeds(c, e, low)
    BY <1>4, <2>4, <2>5 DEF Proceeds, Carries
  <2> QED BY <2>1, <2>6 DEF e
<1> QED BY <1>1, <1>2, <1>3, <1>4

LEMMA ControlStep ==
  ASSUME NEW c, CtlOK(c), NEW gesture, NEW allowed \in BOOLEAN, NEW low \in BOOLEAN, NEW cmd
  PROVE  LET e == TopupUpdate(SetPumpAllowed(HandleButton(c, gesture), allowed), low)
             done == Executed(e, cmd)
         IN  /\ CtlOK(e)
             /\ CtlOK(done) /\ done.allowed = allowed
             /\ Carries(c, done, low)
             /\ c.state = "Lockout" /\ done.state # "Lockout" => cmd = "resetLockout"
<1> DEFINE c1 == HandleButton(c, gesture)
           c2 == SetPumpAllowed(c1, allowed)
           e == TopupUpdate(c2, low)
           done == Executed(e, cmd)
<1>1. /\ CtlOK(c1) /\ (c1 = c \/ (~c1.pump /\ ~Active(c1.state)))
      /\ c.state = "Lockout" => c1.state = "Lockout"
  <2>1. (~c.service) \in BOOLEAN
    OBVIOUS
  <2> QED BY <2>1, ServiceStep DEF HandleButton
<1> HIDE DEF c1
<1>2. /\ CtlOK(c2) /\ c2.allowed = allowed
      /\ \/ c2.state = c1.state /\ c2.age = c1.age /\ c2.pump = c1.pump
         \/ ~c2.pump /\ ~Active(c2.state)
      /\ c1.state = "Lockout" => c2.state = "Lockout"
  BY <1>1, AllowedStep
<1> HIDE DEF c2
<1>3. Proceeds(c2, e, low)
  BY <1>2, UpdateStep
<1> HIDE DEF e
<1>4. /\ CtlOK(e) /\ Carries(c, e, low)
      /\ c.state = "Lockout" => e.state = "Lockout"
  <2>1. /\ CtlOK(e) /\ (c.state = "Lockout" => e.state = "Lockout")
    BY <1>1, <1>2, <1>3 DEF Proceeds
  <2>2. ~Active(c2.state) => Carries(c, e, low)
    BY <1>3 DEF Proceeds, Carries, Active
  <2>3. c2.state = c.state /\ c2.age = c.age /\ c2.pump = c.pump => Carries(c, e, low)
    BY <1>3 DEF Proceeds, Carries
  <2>4. \/ ~Active(c2.state)
        \/ c2.state = c.state /\ c2.age = c.age /\ c2.pump = c.pump
    BY <1>1, <1>2
  <2> QED BY <2>1, <2>2, <2>3, <2>4
<1>5. e.allowed = allowed
  BY <1>2, <1>3, Zenon DEF Proceeds
<1>6. /\ CtlOK(done) /\ done.allowed = e.allowed
      /\ \/ done = e
         \/ ~done.pump /\ ~Active(done.state)
      /\ e.state = "Lockout" /\ done.state # "Lockout" => cmd = "resetLockout"
  <2>1. CASE cmd = "toggleService"
    <3>1. (~e.service) \in BOOLEAN
      OBVIOUS
    <3>2. done = SetServiceMode(e, ~e.service)
      BY <2>1 DEF Executed
    <3> QED BY <1>4, <3>1, <3>2, ServiceStep
  <2>2. CASE cmd = "resetLockout"
    <3>2. done = ResetLockout(e)
      BY <2>2 DEF Executed
    <3> QED BY <1>4, <2>2, <3>2, ResetStep
  <2>3. CASE cmd # "toggleService" /\ cmd # "resetLockout"
    BY <1>4, <2>3 DEF Executed
  <2> QED BY <2>1, <2>2, <2>3
<1> HIDE DEF done
<1>7. done.allowed = allowed
  BY <1>5, <1>6, Zenon
<1>8. Carries(c, done, low)
  BY <1>4, <1>6 DEF Carries, Active
<1>9. c.state = "Lockout" /\ done.state # "Lockout" => cmd = "resetLockout"
  BY <1>4, <1>6
<1> QED BY <1>4, <1>6, <1>7, <1>8, <1>9 DEF done, e, c2, c1

-----------------------------------------------------------------------------
(* AlarmManager, BuzzerController and the restart                          *)

LEMMA AlarmType ==
  ASSUME NEW c, NEW t, NEW r
  PROVE  AlarmFor(c, t, r) \in Codes
<1>1. CASE c.state = "Lockout"
  BY <1>1 DEF AlarmFor, Codes
<1>2. CASE c.state # "Lockout" /\ t.fault
  BY <1>2 DEF AlarmFor, Codes
<1>3. CASE c.state # "Lockout" /\ ~t.fault /\ r = "Critical"
  BY <1>3 DEF AlarmFor, Codes
<1>4. CASE c.state # "Lockout" /\ ~t.fault /\ r = "Low"
  BY <1>4 DEF AlarmFor, Codes
<1>5. CASE c.state # "Lockout" /\ ~t.fault /\ r # "Critical" /\ r # "Low"
  BY <1>5 DEF AlarmFor, Codes
<1> QED BY <1>1, <1>2, <1>3, <1>4, <1>5

\* The buzzer after a pass: the button before its update(), the web after it.
BuzzerNext(b, short, mute, code) ==
  LET heard == BuzzerAfter([b EXCEPT !.muted = @ \/ short], code)
  IN  [heard EXCEPT !.muted = @ \/ mute]

LEMMA BuzzerStep ==
  ASSUME NEW b \in BuzzerType, NEW short \in BOOLEAN, NEW mute \in BOOLEAN, NEW code \in Codes
  PROVE  LET e == BuzzerNext(b, short, mute, code)
         IN  /\ e \in BuzzerType /\ e.last = code
             /\ code # b.last => (e.muted => mute)
<1> DEFINE given == [b EXCEPT !.muted = @ \/ short]
           heard == BuzzerAfter(given, code)
           e == [heard EXCEPT !.muted = @ \/ mute]
<1>1. given \in BuzzerType /\ given.last = b.last
  BY DEF BuzzerType
<1> HIDE DEF given
<1>2. heard \in BuzzerType /\ heard.last = code /\ (code # given.last => ~heard.muted)
  BY <1>1 DEF BuzzerType, BuzzerAfter
<1> HIDE DEF heard
<1>3. e \in BuzzerType /\ e.last = code /\ (e.muted => heard.muted \/ mute)
  BY <1>2 DEF BuzzerType
<1> HIDE DEF e
<1>4. code # b.last => (e.muted => mute)
  BY <1>1, <1>2, <1>3
<1> QED BY <1>3, <1>4 DEF e, heard, given, BuzzerNext

LEMMA RestartStep ==
  ASSUME NEW r \in RestartType, NEW d \in 1..MaxStall, NEW saved \in BOOLEAN
  PROVE  RestartAfter(r, d, saved) \in RestartType
<1>1. Older(r.age, d) \in Ages /\ 0 \in Ages
  BY OlderType, Modulus DEF RestartType
<1>2. (r.requested \/ saved) \in BOOLEAN
  BY DEF RestartType
<1> QED BY <1>1, <1>2 DEF RestartType, RestartAfter

-----------------------------------------------------------------------------
(* One pass                                                                *)

LEMMA InitInv == Init => Inv
<1> SUFFICES ASSUME Init PROVE Inv
  OBVIOUS
<1>1. PICK pin \in BOOLEAN : float = FreshFloat(pin)
  BY DEF Init
<1>2. TypeOK
  <2>1. float \in FloatType
    BY <1>1, Modulus DEF FreshFloat, FloatType
  <2>2. tank \in TankType
    BY Modulus, TankAssumption DEF Init, FreshTank, TankType
  <2>3. topup \in TopupType /\ restart \in RestartType
    BY Modulus DEF Init, FreshTopup, NoRestart, TopupType, RestartType, States
  <2>4. buzzer \in BuzzerType /\ alarm \in Codes /\ reserve \in Grades
    BY DEF Init, FreshBuzzer, BuzzerType, Codes, Grades
  <2>5. running \in BOOLEAN /\ pumpOn \in BOOLEAN
    BY DEF Init
  <2>6. onFor \in Nat /\ lowFor \in 0..StartDelay
    BY TimeAssumption DEF Init
  <2> QED BY <2>1, <2>2, <2>3, <2>4, <2>5, <2>6
          DEF TypeOK, FloatType, TankType, TopupType, RestartType, BuzzerType, States
<1>3. TankOK(tank)
  <2>1. tank \in TankType
    BY <1>2 DEF TypeOK, TankType
  <2> QED BY <2>1 DEF TankOK, Init, FreshTank
<1>4. GradeInv /\ ActiveInv /\ PumpInv /\ WaitInv /\ alarm = buzzer.last
  BY DEF Init, GradeInv, ActiveInv, PumpInv, WaitInv, AllowsPump, FreshTopup, FreshBuzzer, Active
<1> QED BY <1>2, <1>3, <1>4 DEF Inv

LEMMA BeginStep == Begin => Inv'
<1> SUFFICES ASSUME Begin PROVE Inv'
  OBVIOUS
<1>1. PICK pin \in BOOLEAN : float' = FreshFloat(pin)
  BY DEF Begin
<1>2. TypeOK'
  <2>1. float' \in FloatType
    BY <1>1, Modulus DEF FreshFloat, FloatType
  <2>2. tank' \in TankType
    BY Modulus, TankAssumption DEF Begin, FreshTank, TankType
  <2>3. topup' \in TopupType /\ restart' \in RestartType
    BY Modulus DEF Begin, FreshTopup, NoRestart, TopupType, RestartType, States
  <2>4. buzzer' \in BuzzerType /\ alarm' \in Codes /\ reserve' \in Grades
    BY DEF Begin, FreshBuzzer, BuzzerType, Codes, Grades
  <2>5. running' \in BOOLEAN /\ pumpOn' \in BOOLEAN
    BY DEF Begin
  <2>6. onFor' \in Nat /\ lowFor' \in 0..StartDelay
    BY TimeAssumption DEF Begin
  <2> QED BY <2>1, <2>2, <2>3, <2>4, <2>5, <2>6
          DEF TypeOK, FloatType, TankType, TopupType, RestartType, BuzzerType, States
<1>3. TankOK(tank')
  <2>1. tank' \in TankType
    BY <1>2 DEF TypeOK, TankType
  <2> QED BY <2>1 DEF TankOK, Begin, FreshTank
<1>4. (GradeInv /\ ActiveInv /\ PumpInv /\ WaitInv)' /\ alarm' = buzzer'.last
  BY DEF Begin, GradeInv, ActiveInv, PumpInv, WaitInv, AllowsPump, FreshTopup, FreshBuzzer, Active
<1> QED BY <1>2, <1>3, <1>4 DEF Inv

LEMMA ControllerOK ==
  ASSUME Inv, NEW d \in 1..MaxStall
  PROVE  /\ CtlOK(Controller(d))
         /\ Controller(d).state = topup.state
         /\ Controller(d).pump = pumpOn
         /\ Active(topup.state) => Controller(d).age = topup.age + d
<1>1. topup \in TopupType /\ pumpOn \in BOOLEAN
  BY DEF Inv, TypeOK, TopupType, States
<1>2. Older(topup.age, d) \in Ages /\ 0 \in Ages
  BY <1>1, OlderType, Modulus DEF TopupType
<1>3. Active(topup.state) => topup.allowed /\ ~topup.service
  BY DEF Inv, ActiveInv
<1>4. pumpOn => topup.state = "Pumping"
  BY DEF Inv, PumpInv
<1>5. Active(topup.state) => Older(topup.age, d) = topup.age + d
  <2>1. topup.age \in Nat /\ d \in Nat /\ d <= MaxStall
    BY <1>1, TimeAssumption, Modulus DEF TopupType, Ages
  <2>2. topup.state = "Pumping" => topup.age + d < TimeMod
    BY <2>1, TimeAssumption DEF Inv, PumpInv
  <2>3. topup.state = "Waiting" => topup.age + d < TimeMod
    BY <2>1, TimeAssumption DEF Inv, WaitInv
  <2> QED BY <1>1, <2>2, <2>3, OlderType DEF Active, TopupType
<1>6. Controller(d) \in Ctl
  BY <1>1, <1>2 DEF Controller, Ctl, TopupType, Timed
<1>7. CtlOK(Controller(d))
  BY <1>3, <1>4, <1>6 DEF CtlOK, Controller
<1> QED BY <1>5, <1>7 DEF Controller, Timed, Active

\* What a pass may do with the parts of the state that belong together.
PassKeeps(cmd) ==
  /\ pumpOn' /\ ~pumpOn => lowFor' = StartDelay
  /\ topup.state = "Lockout" /\ topup'.state # "Lockout" => cmd = "resetLockout"
  /\ alarm' # alarm /\ alarm' # "None" => (buzzer'.muted => cmd = "mute")

LEMMA PassStep ==
  ASSUME Inv, NEW d \in 1..MaxStall, NEW gesture, NEW pin \in BOOLEAN, NEW hit \in BOOLEAN,
         NEW level \in Levels \cup {0}, NEW cmd, Pass(d, gesture, pin, hit, level, cmd)
  PROVE  Inv' /\ PassKeeps(cmd)
<1> DEFINE float2 == FloatAfter(float, d, pin)
           tank2 == TankAfter(tank, d, hit, level)
           reserve2 == ReserveAfter(reserve, tank2)
           permitted == AllowsPump(reserve2)
           c == Controller(d)
           e == TopupUpdate(SetPumpAllowed(HandleButton(c, gesture), permitted), float2.stable)
           done == Executed(e, cmd)
           code == AlarmFor(e, tank2, reserve2)
           short == gesture = "short"
           mute == cmd = "mute"
           buzzer2 == BuzzerNext(buzzer, short, mute, code)
           saved == cmd = "saveSettings"
           restart2 == RestartAfter(restart, d, saved)
           on == done.pump /\ ~StopsPump(restart, restart2)
<1>1. /\ float' = float2 /\ tank' = tank2 /\ reserve' = reserve2
      /\ topup' = [state |-> done.state, age |-> done.age, service |-> done.service,
                   allowed |-> done.allowed]
      /\ alarm' = code /\ buzzer' = buzzer2
      /\ restart' = restart2
      /\ running' = ~RestartDue(restart2)
      /\ pumpOn' = on
      /\ onFor' = IF on /\ pumpOn THEN onFor + d ELSE 0
      /\ lowFor' = IF float2.stable /\ float.stable THEN Least(lowFor + d, StartDelay) ELSE 0
  BY DEF Pass, BuzzerNext
<1>2. float2 \in FloatType /\ float2.stable \in BOOLEAN
  <2>1. float \in FloatType
    BY DEF Inv, TypeOK, FloatType
  <2>2. float2 \in FloatType
    BY <2>1, FloatStep
  <2> QED BY <2>2 DEF FloatType
<1>3. TankOK(tank2) /\ tank2 \in TankType
  <2>1. TankOK(tank2)
    BY TankStep DEF Inv
  <2> QED BY <2>1 DEF TankOK
<1> HIDE DEF float2, tank2
<1>4. /\ reserve2 \in Grades /\ (reserve2 # "Unknown" => tank2.valid)
      /\ AllowsPump(reserve) /\ permitted => tank2.level > CriticalLevel
      /\ permitted \in BOOLEAN
  <2>1. reserve \in Grades
    BY DEF Inv, TypeOK
  <2> QED BY <1>3, <2>1, GradeStep DEF AllowsPump
<1>5. permitted => reserve2 # "Unknown"
  BY DEF AllowsPump
<1> HIDE DEF reserve2, permitted
<1>6. /\ CtlOK(c) /\ c.state = topup.state /\ c.pump = pumpOn
      /\ Active(topup.state) => c.age = topup.age + d
  BY ControllerOK
<1> HIDE DEF c
<1>7. /\ CtlOK(done) /\ done.allowed = permitted
      /\ Carries(c, done, float2.stable)
      /\ c.state = "Lockout" /\ done.state # "Lockout" => cmd = "resetLockout"
  BY <1>2, <1>4, <1>6, ControlStep
<1>8. code \in Codes
  BY AlarmType
<1> HIDE DEF done, e, code
<1>9. buzzer2 \in BuzzerType /\ buzzer2.last = code /\ (code # buzzer.last => (buzzer2.muted => mute))
  <2>1. buzzer \in BuzzerType /\ short \in BOOLEAN /\ mute \in BOOLEAN
    BY DEF Inv, TypeOK, BuzzerType
  <2> QED BY <1>8, <2>1, BuzzerStep
<1> HIDE DEF buzzer2
<1>10. restart2 \in RestartType
  <2>1. restart \in RestartType /\ saved \in BOOLEAN
    BY DEF Inv, TypeOK, RestartType
  <2> QED BY <2>1, RestartStep
<1> HIDE DEF restart2
<1>11. /\ topup'.state = done.state /\ topup'.age = done.age /\ topup'.service = done.service
       /\ topup'.allowed = done.allowed /\ topup' \in TopupType
  <2>1. done \in Ctl
    BY <1>7 DEF CtlOK
  <2> QED BY <1>1, <2>1 DEF Ctl, TopupType
<1>12. (pumpOn' => done.pump) /\ pumpOn' \in BOOLEAN /\ running' \in BOOLEAN
  <2>1. on \in BOOLEAN /\ (~RestartDue(restart2)) \in BOOLEAN /\ (on => done.pump)
    OBVIOUS
  <2> QED BY <1>1, <2>1
<1>13. TypeOK'
  <2>1. onFor' \in Nat /\ lowFor' \in 0..StartDelay
    BY <1>1, TimeAssumption DEF Inv, TypeOK, Least
  <2>2. alarm' \in Codes /\ buzzer' \in BuzzerType /\ restart' \in RestartType
        /\ float' \in FloatType /\ tank' \in TankType /\ reserve' \in Grades
    BY <1>1, <1>2, <1>3, <1>4, <1>8, <1>9, <1>10
  <2> QED BY <1>11, <1>12, <2>1, <2>2
          DEF TypeOK, FloatType, TankType, TopupType, RestartType, BuzzerType, States
<1>14. /\ Active(done.state) => permitted /\ ~done.service /\ float2.stable
       /\ done.pump => done.state = "Pumping"
  BY <1>7 DEF CtlOK, Carries
<1>15. Active(topup.state) => AllowsPump(reserve) /\ float.stable
  BY DEF Inv, GradeInv, ActiveInv
<1>16. GradeInv' /\ ActiveInv'
  <2>1. topup'.allowed <=> AllowsPump(reserve')
    BY <1>1, <1>7, <1>11 DEF permitted
  <2>2. reserve' # "Unknown" => tank'.valid
    BY <1>1, <1>4
  <2>3. Active(topup'.state) => topup'.allowed /\ ~topup'.service /\ float'.stable
    BY <1>1, <1>7, <1>11, <1>14
  <2> QED BY <2>1, <2>2, <2>3 DEF GradeInv, ActiveInv
<1>17. PumpInv'
  <2>1. pumpOn' => topup'.state = "Pumping"
    BY <1>11, <1>12, <1>14
  <2>2. topup'.state = "Pumping" => topup'.age < MaxRuntime
    BY <1>6, <1>7, <1>11, TimeAssumption DEF Carries
  <2>3. topup'.state = "Pumping" => tank'.level > CriticalLevel
    BY <1>1, <1>4, <1>6, <1>7, <1>11, <1>14, <1>15 DEF Carries, Active
  <2>4. pumpOn' => onFor' = topup'.age
    <3> SUFFICES ASSUME pumpOn' PROVE onFor' = topup'.age
      OBVIOUS
    <3>1. done.pump /\ done.state = "Pumping"
      BY <1>12, <1>14
    <3>2. CASE c.state = "Waiting" /\ done.age = 0
      <4>1. ~pumpOn
        BY <1>6, <3>2 DEF Inv, PumpInv
      <4> QED BY <1>1, <1>11, <3>2, <4>1
    <3>3. CASE c.state = "Pumping" /\ done.age = c.age /\ done.pump = c.pump
      <4>1. pumpOn /\ c.age = topup.age + d
        BY <1>6, <3>1, <3>3 DEF Active
      <4>2. onFor = topup.age
        BY <4>1 DEF Inv, PumpInv
      <4>3. onFor' = onFor + d
        BY <1>1, <4>1
      <4> QED BY <1>11, <3>3, <4>1, <4>2, <4>3
    <3> QED BY <1>7, <3>1, <3>2, <3>3 DEF Carries
  <2> QED BY <2>1, <2>2, <2>3, <2>4 DEF PumpInv
<1>18. topup.state = "Waiting" /\ float2.stable =>
         /\ topup.age \in Nat /\ topup.age <= lowFor /\ c.age = topup.age + d
         /\ lowFor \in Nat /\ lowFor' = Least(lowFor + d, StartDelay)
  <2>1. topup.age \in Nat /\ lowFor \in Nat
    BY Modulus, TimeAssumption DEF Inv, TypeOK, Ages
  <2> QED BY <1>1, <1>6, <1>15, <2>1 DEF Inv, WaitInv, Active
<1>19. d \in Nat /\ StartDelay \in Nat
  BY TimeAssumption
<1>20. WaitInv'
  <2> SUFFICES ASSUME topup'.state = "Waiting"
               PROVE  (topup'.age = 0 \/ topup'.age < StartDelay) /\ topup'.age <= lowFor'
    BY DEF WaitInv
  <2>1. done.state = "Waiting" /\ float2.stable
    BY <1>7, <1>11 DEF Carries, Active
  <2>2. CASE done.age = 0
    <3>1. lowFor' \in Nat
      BY <1>13, <1>19 DEF TypeOK
    <3> QED BY <1>11, <2>2, <3>1
  <2>3. CASE c.state = "Waiting" /\ done.age = c.age /\ c.age < StartDelay
    BY <1>6, <1>11, <1>18, <1>19, <2>1, <2>3 DEF Least
  <2> QED BY <1>7, <2>1, <2>2, <2>3 DEF Carries
<1>21. PassKeeps(cmd)
  <2>1. ASSUME pumpOn', ~pumpOn PROVE lowFor' = StartDelay
    <3>1. done.pump /\ done.state = "Pumping" /\ float2.stable
      BY <1>12, <1>14, <2>1 DEF Active
    <3>2. c.state = "Waiting" /\ c.age >= StartDelay
      BY <1>6, <1>7, <2>1, <3>1 DEF Carries
    <3> QED BY <1>6, <1>18, <1>19, <3>1, <3>2 DEF Least
  <2>2. topup.state = "Lockout" /\ topup'.state # "Lockout" => cmd = "resetLockout"
    BY <1>6, <1>7, <1>11
  <2>3. alarm' # alarm => (buzzer'.muted => cmd = "mute")
    BY <1>1, <1>9 DEF Inv
  <2> QED BY <2>1, <2>2, <2>3 DEF PassKeeps
<1>22. TankOK(tank') /\ alarm' = buzzer'.last
  BY <1>1, <1>3, <1>9
<1> QED BY <1>13, <1>16, <1>17, <1>20, <1>21, <1>22 DEF Inv

\* What a step is: a restart, or a pass that keeps what it must.
StepKeeps == UNCHANGED vars \/ Begin \/ \E cmd \in Commands : UpdateWith(cmd) /\ PassKeeps(cmd)

LEMMA NextStep ==
  ASSUME Inv, [Next]_vars
  PROVE  Inv' /\ StepKeeps
<1>1. CASE Begin
  BY <1>1, BeginStep DEF StepKeeps
<1>2. ASSUME NEW cmd \in Commands, UpdateWith(cmd)
      PROVE  Inv' /\ PassKeeps(cmd)
  <2>1. PICK d \in 1..MaxStall, gesture \in Gestures, pin \in BOOLEAN, hit \in BOOLEAN :
          \E level \in IF SeriesEnds(d, hit) THEN Levels ELSE {tank.level} :
            Pass(d, gesture, pin, hit, level, cmd)
    BY <1>2 DEF UpdateWith
  <2>2. PICK level \in Levels \cup {tank.level} : Pass(d, gesture, pin, hit, level, cmd)
    BY <2>1
  <2>3. tank \in TankType
    BY DEF Inv, TankOK
  <2>4. level \in Levels \cup {0}
    BY <2>2, <2>3 DEF TankType
  <2> QED BY <2>2, <2>4, PassStep
<1>3. CASE Update
  BY <1>2, <1>3 DEF Update, StepKeeps
<1>4. CASE UNCHANGED vars
  <2>1. UNCHANGED <<running, pumpOn, float, tank, reserve, topup, alarm, buzzer, restart,
                    onFor, lowFor>>
    BY <1>4 DEF vars
  <2> QED BY <1>4, <2>1 DEF Inv, TypeOK, GradeInv, ActiveInv, PumpInv, WaitInv, StepKeeps
<1> QED BY <1>1, <1>3, <1>4 DEF Next

THEOREM Invariant == Spec => []Inv
<1>1. Init => Inv
  BY InitInv
<1>2. Inv /\ [Next]_vars => Inv'
  BY NextStep
<1> QED BY <1>1, <1>2, PTL DEF Spec

-----------------------------------------------------------------------------
(* The theorems                                                            *)

\* Every variable keeps its type: the 32-bit ages, the counters of the tank's
\* series and the observer's two stop-watches included.
THEOREM TypeCorrect == Spec => []TypeOK
<1>1. Inv => TypeOK
  BY DEF Inv
<1> QED BY <1>1, Invariant, PTL

\* Whatever the delays, the levels, the stalls and the commands, the pump runs only
\* on an unattended device, with low water and a reserve above the critical level.
THEOREM PumpSafe == Spec => []PumpOnlyWhenSafe
<1>1. Inv => PumpOnlyWhenSafe
  BY DEF Inv, GradeInv, ActiveInv, PumpInv, PumpOnlyWhenSafe, Active, AllowsPump
<1> QED BY <1>1, Invariant, PTL

\* A pass never leaves a pump on that has run for topupMaxPumpRuntimeMs, at any
\* reading of the wrapping clock.
THEOREM RuntimeLimited == Spec => []RuntimeBounded
<1>1. Inv => RuntimeBounded
  BY DEF Inv, PumpInv, RuntimeBounded
<1> QED BY <1>1, Invariant, PTL

\* The pump never starts before the float has reported low water for the delay, and no path
\* of a pass but the reset command leaves a lockout.
THEOREM TopupRulesHold == Spec => TopupRules
<1>1. Inv /\ [Next]_vars =>
        [/\ pumpOn' /\ ~pumpOn => lowFor' = StartDelay
         /\ topup.state = "Lockout" /\ topup'.state # "Lockout"
              => UpdateWith("resetLockout") \/ Begin]_vars
  BY NextStep DEF StepKeeps, PassKeeps, Begin
<1> QED BY <1>1, Invariant, PTL DEF Spec, TopupRules

\* A muted buzzer is not muted for the next alarm.
THEOREM AlarmHeard == Spec => NewAlarmSounds
<1>1. Inv /\ [Next]_vars =>
        [alarm' # alarm /\ alarm' # "None" => ~buzzer'.muted \/ UpdateWith("mute")]_vars
  <2>1. ASSUME Inv, [Next]_vars, alarm' # alarm, alarm' # "None", ~UpdateWith("mute"),
               ~(UNCHANGED vars)
        PROVE  ~buzzer'.muted
    <3>1. CASE Begin
      BY <2>1, <3>1 DEF Begin
    <3>2. CASE \E cmd \in Commands : UpdateWith(cmd) /\ PassKeeps(cmd)
      BY <2>1, <3>2 DEF PassKeeps
    <3> QED BY <2>1, <3>1, <3>2, NextStep DEF StepKeeps
  <2> QED BY <2>1
<1> QED BY <1>1, Invariant, PTL DEF Spec, NewAlarmSounds

(***************************************************************************)
(* Hysteresis: with a positive one, every grade can keep the level it was  *)
(* given, so that the same level never moves it.                           *)
(***************************************************************************)
Keeps(r, level) ==
  /\ r = "Ok" => level > LowLevel
  /\ r = "Low" => level > CriticalLevel /\ level < LowLevel + Hysteresis
  /\ r = "Critical" => level < CriticalLevel + Hysteresis
GradeKept == Keeps(reserve, tank.level)

LEMMA GradeLevel ==
  ASSUME Hysteresis > 0, NEW r \in Grades, NEW t \in TankType
  PROVE  /\ Keeps(ReserveAfter(r, t), t.level)
         /\ Keeps(r, t.level) /\ r # "Unknown" /\ ReserveAfter(r, t) # "Unknown"
              => ReserveAfter(r, t) = r
<1>0. t.level \in Levels \cup {0}
  BY DEF TankType
<1>1. t.level \in Nat
  <2>1. CASE t.level \in Levels
    BY <2>1, LevelAssumption, Zenon
  <2>2. CASE t.level = 0
    BY <2>2
  <2> QED BY <1>0, <2>1, <2>2
<1> QED
  BY <1>1, LevelAssumption DEF ReserveAfter, Graded, Grades, Keeps

\* An unchanged level never moves the grade, the alarm or the permission to pump.
THEOREM GradeHolds == ASSUME Hysteresis > 0 PROVE Spec => GradeSteady
<1>1. Init => GradeKept
  BY DEF Init, GradeKept, Keeps
<1>2. ASSUME Inv, GradeKept, [Next]_vars
      PROVE  GradeKept' /\ [reserve' # reserve /\ reserve # "Unknown" /\ reserve' # "Unknown"
                              => tank'.level # tank.level]_vars
  <2>1. CASE Begin
    BY <2>1 DEF Begin, GradeKept, Keeps
  <2>2. CASE UNCHANGED vars
    <3>1. UNCHANGED <<reserve, tank>>
      BY <2>2 DEF vars
    <3> QED BY <1>2, <2>2, <3>1 DEF GradeKept
  <2>3. CASE Update
    <3>1. reserve \in Grades /\ tank' \in TankType
      BY <1>2, NextStep DEF Inv, TypeOK, TankOK
    <3>2. reserve' = ReserveAfter(reserve, tank')
      BY <2>3 DEF Update, UpdateWith, Pass
    <3> QED BY <1>2, <3>1, <3>2, GradeLevel DEF GradeKept
  <2> QED BY <1>2, <2>1, <2>2, <2>3 DEF Next
<1> QED BY <1>1, <1>2, Invariant, PTL DEF Spec, GradeSteady

\* HydroSenseApp::update: both limits of the pump together.
THEOREM PumpAlwaysGuarded == Spec => []PumpGuarded
<1>1. PumpOnlyWhenSafe /\ RuntimeBounded => PumpGuarded
  BY DEF PumpGuarded
<1> QED BY <1>1, PumpSafe, RuntimeLimited, PTL
=============================================================================
