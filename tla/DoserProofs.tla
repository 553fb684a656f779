----------------------------- MODULE DoserProofs ------------------------------
(***************************************************************************)
(* Theorems about the Doser: its dosing and its firmware upload.            *)
(***************************************************************************)
EXTENDS DoserDosing, FirmwareUpload, FiniteSetTheorems, TLAPS

(***************************************************************************)
(* What holds of the Doser's scheduler, driver and storage for every        *)
(* calendar, schedule, limit and number of pumps up to PUMP_COUNT.          *)
(*                                                                         *)
(* The invariant Inv says of the driver that its pins are those of the pump *)
(* it watches, of the scheduler that the run it counts is the driver's, and *)
(* of the memory that the flash follows the RAM and that a pump without a   *)
(* history is disabled in both.  A pass is a composition of the driver, the *)
(* scheduler and a message, so every part has a lemma of its own (...Step)  *)
(* that says what it keeps; PassInv puts them together.                     *)
(***************************************************************************)

-----------------------------------------------------------------------------
(* Least and greatest pumps, dates and days.  PUMP_COUNT is 8.              *)

\* The smaller of two numbers, as a condition.
LEMMA MinPair ==
  ASSUME NEW a \in Int, NEW b \in Int
  PROVE  Min({a, b}) = IF a <= b THEN a ELSE b
BY DEF Min

\* A set of at most eight pumps has a least element, found by cases.
LEMMA Smallest ==
  ASSUME NEW S, S \subseteq 1..8, S # {}
  PROVE  \E m \in S : \A n \in S : m <= n
<1>1. CASE 1 \in S
  BY <1>1
<1>2. CASE 2 \in S /\ 1 \notin S
  BY <1>2
<1>3. CASE 3 \in S /\ 1 \notin S /\ 2 \notin S
  BY <1>3
<1>4. CASE 4 \in S /\ 1 \notin S /\ 2 \notin S /\ 3 \notin S
  BY <1>4
<1>5. CASE 5 \in S /\ 1 \notin S /\ 2 \notin S /\ 3 \notin S /\ 4 \notin S
  BY <1>5
<1>6. CASE 6 \in S /\ 1 \notin S /\ 2 \notin S /\ 3 \notin S /\ 4 \notin S /\ 5 \notin S
  BY <1>6
<1>7. CASE 7 \in S /\ 1 \notin S /\ 2 \notin S /\ 3 \notin S /\ 4 \notin S /\ 5 \notin S /\ 6 \notin S
  BY <1>7
<1>8. CASE 8 \in S /\ 1 \notin S /\ 2 \notin S /\ 3 \notin S /\ 4 \notin S /\ 5 \notin S /\ 6 \notin S /\ 7 \notin S
  BY <1>8
<1>9. 1 \in S \/ 2 \in S \/ 3 \in S \/ 4 \in S \/ 5 \in S \/ 6 \in S \/ 7 \in S \/ 8 \in S
  <2>1. PICK x \in S : x \in 1..8
    OBVIOUS
  <2>2. x = 1 \/ x = 2 \/ x = 3 \/ x = 4 \/ x = 5 \/ x = 6 \/ x = 7 \/ x = 8
    BY <2>1
  <2> QED BY <2>1, <2>2
<1> QED BY <1>1, <1>2, <1>3, <1>4, <1>5, <1>6, <1>7, <1>8, <1>9

\* The pump that StartFirst takes is one of those that are ready.
LEMMA MinOf ==
  ASSUME NEW S, S \subseteq Pumps, S # {}
  PROVE  Min(S) \in S
<1>1. S \subseteq 1..8
  BY DoserAssumption DEF Pumps
<1>2. PICK m \in S : \A n \in S : m <= n
  BY <1>1, Smallest
<1> QED BY <1>2 DEF Min

\* The last pump that DetectMissed writes is the greatest one; by the mirror image 9 - q.
LEMMA MaxOf ==
  ASSUME NEW S, S \subseteq Pumps, S # {}
  PROVE  Max(S) \in S /\ \A q \in S : q <= Max(S)
<1> DEFINE R == {9 - q : q \in S}
<1>1. R \subseteq 1..8 /\ R # {}
  <2>1. \A q \in S : 9 - q \in 1..8
    BY DoserAssumption DEF Pumps
  <2> QED BY <2>1
<1> HIDE DEF R
<1>2. PICK m \in R : \A n \in R : m <= n
  BY <1>1, Smallest
<1>3. PICK k \in S : m = 9 - k
  BY <1>2 DEF R
<1>4. \A q \in S : k >= q
  <2> SUFFICES ASSUME NEW q \in S PROVE k >= q
    OBVIOUS
  <2>1. 9 - k <= 9 - q
    BY <1>2, <1>3 DEF R
  <2>2. q \in Int /\ k \in Int
    BY DoserAssumption DEF Pumps
  <2> QED BY <2>1, <2>2
<1>5. Max(S) \in S /\ \A q \in S : Max(S) >= q
  BY <1>4 DEF Max
<1>6. S \subseteq Int
  BY DEF Pumps
<1> QED BY <1>5, <1>6

\* A local date and the local time of day make up the instant.
LEMMA Days ==
  ASSUME NEW t \in Nat
  PROVE  /\ DateKey(t) \in Nat
         /\ t + Ahead - DateKey(t) * DayLen \in 0..(DayLen - 1)
<1>1. DayLen \in Nat \ {0} /\ Ahead \in 0..(DayLen - 1)
  BY DoserAssumption
<1> QED BY <1>1 DEF DateKey, LocalTime

\* Dates do not fall as time passes.
LEMMA DateStep ==
  ASSUME NEW t \in Nat, NEW u \in Nat, t <= u
  PROVE  DateKey(t) <= DateKey(u)
<1>1. DayLen \in Nat \ {0} /\ Ahead \in Nat
  BY DoserAssumption
<1>2. /\ DateKey(t) \in Nat /\ t + Ahead - DateKey(t) * DayLen \in 0..(DayLen - 1)
      /\ DateKey(u) \in Nat /\ u + Ahead - DateKey(u) * DayLen \in 0..(DayLen - 1)
  BY Days
<1>3. ASSUME DateKey(t) > DateKey(u) PROVE FALSE
  <2>1. PICK k \in Nat : DateKey(t) = DateKey(u) + 1 + k
    <3>1. DateKey(t) - DateKey(u) - 1 \in Nat
      BY <1>2, <1>3
    <3> QED BY <3>1, <1>2
  <2>2. DateKey(t) * DayLen = DateKey(u) * DayLen + DayLen + k * DayLen
    BY <2>1, <1>2, <1>1
  <2>3. k * DayLen \in Nat /\ DateKey(u) * DayLen \in Nat
    BY <1>1, <1>2
  <2> QED BY <2>2, <2>3, <1>1, <1>2
<1> QED BY <1>2, <1>3

-----------------------------------------------------------------------------
(* The parts of a pass, and what is kept of each.                          *)

DriverOK(v) ==
  v \in DriverType /\ v.pins = IF v.pump = None THEN {} ELSE {v.pump}
SchedOK(s) == s \in SchedType /\ (s.state = "Running" => s.active \in Pumps)
Owns(s, v) == s.state = "Running" => v.pump = s.active /\ v.age = s.age
OwnsOrOff(s, v) == Owns(s, v) \/ v.pump = None

MemType == [pumps : [Pumps -> PumpType], flash : FlashType]
Saved(m) == \A p \in Pumps : /\ m.flash.config[p] = ConfigOf(m.pumps[p])
                             /\ m.flash.runtime[p] = RuntimeOf(m.pumps[p])
\* The pumps in F are off by their settings, in RAM and in the flash.
Disabled(m, F) == \A p \in F : ~m.pumps[p].enabled /\ ~m.flash.config[p].enabled

\* The value that stands for no pump is not a pump's number.
LEMMA NoneIsNoPump == None \notin Pumps
BY DEF None, Pumps

-----------------------------------------------------------------------------
(* PumpDriver                                                               *)

\* stopPumps() leaves the driver off.
LEMMA OffOK == DriverOK(AllOff) /\ AllOff.pump = None
BY DoserAssumption DEF DriverOK, AllOff, DriverType

\* Starting a pump of a driver that is off.
LEMMA StartOK ==
  ASSUME NEW v, DriverOK(v), NEW p \in Pumps, v.pump = None
  PROVE  DriverOK(StartPump(v, p)) /\ StartPump(v, p).pump = p /\ StartPump(v, p).age = 0
BY DoserAssumption, NoneIsNoPump DEF DriverOK, StartPump, DriverType

\* Stopping a pump; it turns the driver off when that pump runs.
LEMMA StopOK ==
  ASSUME NEW v, DriverOK(v), NEW p \in Pumps
  PROVE  DriverOK(StopPump(v, p)) /\ (v.pump = p => StopPump(v, p).pump = None)
<1>1. CASE p \in v.pins
  BY <1>1, DoserAssumption, NoneIsNoPump DEF DriverOK, StopPump, DriverType
<1>2. CASE p \notin v.pins
  BY <1>2, NoneIsNoPump DEF DriverOK, StopPump
<1> QED BY <1>1, <1>2

\* The driver and the scheduler count the same time, or the driver has stopped.
LEMMA DriverStep ==
  ASSUME NEW v, DriverOK(v), NEW s, SchedOK(s), Owns(s, v), NEW d \in 1..MaxStall
  PROVE  /\ DriverOK(DriverLoop(v, d)) /\ SchedOK(Aged(s, d))
         /\ OwnsOrOff(Aged(s, d), DriverLoop(v, d))
         /\ Aged(s, d).state = s.state /\ Aged(s, d).active = s.active
         /\ Aged(s, d).event = s.event
<1>1. /\ MaxRun \in Nat /\ Gap \in Nat /\ d \in Nat
  BY DoserAssumption
<1>2. s.age \in 0..(MaxRun + Gap) /\ v.age \in 0..MaxRun
  BY DEF SchedOK, SchedType, DriverOK, DriverType
<1>3. Min({s.age + d, MaxRun + Gap}) =
        IF s.age + d <= MaxRun + Gap THEN s.age + d ELSE MaxRun + Gap
  BY <1>1, <1>2, MinPair
<1>4. /\ SchedOK(Aged(s, d)) /\ Aged(s, d).state = s.state /\ Aged(s, d).active = s.active
      /\ Aged(s, d).event = s.event
      /\ s.state = "Running" /\ s.age + d <= MaxRun => Aged(s, d).age = s.age + d
  <2>1. Min({s.age + d, MaxRun + Gap}) \in 0..(MaxRun + Gap)
    BY <1>1, <1>2, <1>3
  <2> QED BY <1>1, <1>2, <1>3, <2>1 DEF Aged, SchedOK, SchedType
<1>5. CASE v.pump = None
  BY <1>4, <1>5 DEF DriverLoop, OwnsOrOff
<1>6. CASE v.pump # None /\ v.age + d > MaxRun
  <2>1. v.pump \in Pumps
    BY <1>6 DEF DriverOK, DriverType
  <2>2. DriverLoop(v, d) = StopPump(v, v.pump)
    BY <1>6 DEF DriverLoop
  <2> QED BY <2>1, <2>2, <1>4, StopOK DEF OwnsOrOff
<1>7. CASE v.pump # None /\ ~(v.age + d > MaxRun)
  <2>1. DriverLoop(v, d) = [v EXCEPT !.age = v.age + d]
    BY <1>7 DEF DriverLoop
  <2>2. v.age + d \in 0..MaxRun
    BY <1>1, <1>2, <1>7
  <2>3. /\ DriverOK(DriverLoop(v, d)) /\ DriverLoop(v, d).pump = v.pump
        /\ DriverLoop(v, d).age = v.age + d
    BY <2>1, <2>2 DEF DriverOK, DriverType
  <2> QED BY <1>1, <1>2, <1>4, <2>2, <2>3 DEF Owns, OwnsOrOff
<1> QED BY <1>5, <1>6, <1>7

-----------------------------------------------------------------------------
(* StorageManager and the missed doses                                     *)

\* The two records of a pump.
LEMMA PartsType ==
  ASSUME NEW r \in PumpType
  PROVE  ConfigOf(r) \in ConfigType /\ RuntimeOf(r) \in RuntimeType
BY DEF PumpType, ConfigType, RuntimeType, ConfigOf, RuntimeOf

\* A save that works keeps the flash equal to the RAM; none enables a pump by itself.
LEMMA SaveStep ==
  ASSUME NEW m \in MemType, NEW p \in Pumps, NEW new \in PumpType, NEW ok \in BOOLEAN
  PROVE  /\ SavePump(m, p, new, ok) \in MemType
         /\ SavePump(m, p, new, ok).pumps = [m.pumps EXCEPT ![p] = new]
         /\ ok /\ Saved(m) => Saved(SavePump(m, p, new, ok))
         /\ \A F \in SUBSET Pumps : Disabled(m, F) /\ (p \in F => ~new.enabled)
              => Disabled(SavePump(m, p, new, ok), F)
<1> DEFINE old == m.pumps[p]
           all == [m.pumps EXCEPT ![p] = new]
           c == IF ok /\ ConfigOf(new) # ConfigOf(old)
                  THEN [q \in Pumps |-> ConfigOf(all[q])] ELSE m.flash.config
           r == IF ok /\ RuntimeOf(new) # RuntimeOf(old)
                  THEN [q \in Pumps |-> RuntimeOf(all[q])] ELSE m.flash.runtime
<1>1. /\ m.pumps \in [Pumps -> PumpType] /\ m.flash.config \in [Pumps -> ConfigType]
      /\ m.flash.runtime \in [Pumps -> RuntimeType]
  BY DEF MemType, FlashType
<1>2. all \in [Pumps -> PumpType] /\ \A q \in Pumps : all[q] = IF q = p THEN new ELSE m.pumps[q]
  BY <1>1
<1>3. SavePump(m, p, new, ok) = [pumps |-> all, flash |-> [config |-> c, runtime |-> r]]
  BY DEF SavePump
<1> HIDE DEF all
<1>4. c \in [Pumps -> ConfigType] /\ r \in [Pumps -> RuntimeType]
  BY <1>1, <1>2, PartsType
<1>5. ASSUME ok, Saved(m), NEW q \in Pumps
      PROVE  c[q] = ConfigOf(all[q]) /\ r[q] = RuntimeOf(all[q])
  BY <1>1, <1>2, <1>5 DEF Saved
<1>6. ASSUME NEW F \in SUBSET Pumps, Disabled(m, F), p \in F => ~new.enabled, NEW q \in F
      PROVE  ~all[q].enabled /\ ~c[q].enabled
  <2>1. ~all[q].enabled /\ ~m.flash.config[q].enabled /\ q \in Pumps
    BY <1>2, <1>6 DEF Disabled
  <2>2. CASE c = m.flash.config
    BY <2>1, <2>2
  <2>3. CASE c = [x \in Pumps |-> ConfigOf(all[x])]
    BY <2>1, <2>3 DEF ConfigOf
  <2> QED BY <2>2, <2>3
<1> HIDE DEF c, r
<1>7. [pumps |-> all, flash |-> [config |-> c, runtime |-> r]] \in MemType
  BY <1>2, <1>4 DEF MemType, FlashType
<1>8. ok /\ Saved(m) => Saved([pumps |-> all, flash |-> [config |-> c, runtime |-> r]])
  BY <1>5 DEF Saved
<1>9. \A F \in SUBSET Pumps : Disabled(m, F) /\ (p \in F => ~new.enabled)
        => Disabled([pumps |-> all, flash |-> [config |-> c, runtime |-> r]], F)
  <2> SUFFICES ASSUME NEW F \in SUBSET Pumps, Disabled(m, F), p \in F => ~new.enabled
               PROVE  \A q \in F : ~all[q].enabled /\ ~c[q].enabled
    BY DEF Disabled
  <2> QED BY <1>6
<1> QED BY <1>3, <1>7, <1>8, <1>9 DEF all

\* The instants that the model runs through, all after the first day's date.
Instants == (FirstDay * DayLen)..LastTime

\* Today and yesterday are dates of the model.
LEMMA DueDates ==
  ASSUME NEW t \in Instants
  PROVE  DateKey(t) \in Dates /\ DateKey(t) - 1 \in Dates
<1>1. /\ t \in Nat /\ LastTime \in Nat /\ DayLen \in Nat \ {0} /\ Ahead \in Nat
      /\ t >= 2 * DayLen /\ t <= LastTime
  BY DoserAssumption DEF Instants, FirstDay
<1>2. /\ DateKey(t) \in Nat /\ t + Ahead - DateKey(t) * DayLen \in 0..(DayLen - 1)
      /\ DateKey(LastTime) \in Nat
  BY <1>1, Days
<1>3. DateKey(t) <= DateKey(LastTime)
  BY <1>1, DateStep
<1>4. DateKey(t) # 0
  BY <1>1, <1>2
<1> QED BY <1>2, <1>3, <1>4 DEF Dates

\* detectMissedDoses writes one record for many pumps: the last write holds all of them.
LEMMA MissedStep ==
  ASSUME NEW m \in MemType, NEW t \in Instants, NEW failing \in SUBSET Pumps
  PROVE  /\ DetectMissed(m, t, failing) \in MemType
         /\ failing = {} /\ Saved(m) => Saved(DetectMissed(m, t, failing))
         /\ \A F \in SUBSET Pumps : Disabled(m, F) => Disabled(DetectMissed(m, t, failing), F)
<1> DEFINE missed == {p \in Pumps : Missed(m.pumps[p], t)}
           all == [p \in Pumps |-> IF p \in missed
                     THEN [m.pumps[p] EXCEPT !.lastMissed = DateKey(t)] ELSE m.pumps[p]]
           final == Max(missed \ failing)
           r == IF missed \subseteq failing THEN m.flash.runtime
                ELSE [q \in Pumps |-> RuntimeOf(IF q <= final THEN all[q] ELSE m.pumps[q])]
<1>1. /\ m.pumps \in [Pumps -> PumpType] /\ m.flash \in FlashType
      /\ m.flash.config \in [Pumps -> ConfigType] /\ m.flash.runtime \in [Pumps -> RuntimeType]
  BY DEF MemType, FlashType
<1>2. DateKey(t) \in Dates
  BY DueDates
<1>3. DetectMissed(m, t, failing) = [pumps |-> all, flash |-> [m.flash EXCEPT !.runtime = r]]
  BY DEF DetectMissed
<1>4. missed \subseteq Pumps
  OBVIOUS
<1> HIDE DEF missed
<1>5. ASSUME NEW q \in Pumps
      PROVE  /\ all[q] \in PumpType /\ all[q].enabled = m.pumps[q].enabled
             /\ ConfigOf(all[q]) = ConfigOf(m.pumps[q])
             /\ q \notin missed => all[q] = m.pumps[q]
  <2>1. m.pumps[q] \in PumpType
    BY <1>1
  <2>2. CASE q \in missed
    <3>1. all[q] = [m.pumps[q] EXCEPT !.lastMissed = DateKey(t)]
      BY <2>2
    <3> QED BY <2>1, <2>2, <3>1, <1>2 DEF PumpType, ConfigOf
  <2>3. CASE q \notin missed
    BY <2>1, <2>3
  <2> QED BY <2>2, <2>3
<1>6. all \in [Pumps -> PumpType]
  BY <1>5
<1> HIDE DEF all, final
<1>7. r \in [Pumps -> RuntimeType]
  BY <1>1, <1>5, PartsType
<1>8. ASSUME failing = {}, Saved(m), NEW q \in Pumps
      PROVE  r[q] = RuntimeOf(all[q])
  <2>1. CASE missed = {}
    BY <1>5, <1>8, <2>1 DEF Saved
  <2>2. CASE missed # {}
    <3>1. r[q] = RuntimeOf(IF q <= final THEN all[q] ELSE m.pumps[q])
      BY <2>2, <1>8
    <3>2. q \in missed => q <= final
      BY <1>8, <1>4, <2>2, MaxOf DEF final
    <3>3. (IF q <= final THEN all[q] ELSE m.pumps[q]) = all[q]
      BY <1>5, <3>2
    <3> QED BY <3>1, <3>3
  <2> QED BY <2>1, <2>2
<1> HIDE DEF r
<1>9. [m.flash EXCEPT !.runtime = r] = [config |-> m.flash.config, runtime |-> r]
  BY <1>1 DEF FlashType
<1>10. DetectMissed(m, t, failing) =
         [pumps |-> all, flash |-> [config |-> m.flash.config, runtime |-> r]]
  BY <1>3, <1>9
<1>11. [pumps |-> all, flash |-> [config |-> m.flash.config, runtime |-> r]] \in MemType
  BY <1>1, <1>6, <1>7 DEF MemType, FlashType
<1>12. failing = {} /\ Saved(m) =>
         Saved([pumps |-> all, flash |-> [config |-> m.flash.config, runtime |-> r]])
  BY <1>5, <1>8 DEF Saved
<1>13. \A F \in SUBSET Pumps : Disabled(m, F) =>
         Disabled([pumps |-> all, flash |-> [config |-> m.flash.config, runtime |-> r]], F)
  BY <1>5 DEF Disabled
<1> QED BY <1>10, <1>11, <1>12, <1>13

-----------------------------------------------------------------------------
(* SchedulerManager::loop                                                   *)

XType == [v : DriverType, s : SchedType, m : MemType, served : BOOLEAN]
XOK(x) == x \in XType /\ DriverOK(x.v) /\ SchedOK(x.s)
\* What a part of the pass does for the records and for the pumps in F.
Keeps(x, y, failing) ==
  /\ failing = {} /\ Saved(x.m) => Saved(y.m)
  /\ \A F \in SUBSET Pumps :
       Disabled(x.m, F) /\ (x.s.state = "Running" => x.s.active \notin F)
         => Disabled(y.m, F) /\ (y.s.state = "Running" => y.s.active \notin F)

\* The two states in which the scheduler has no pump.
LEMMA IdleOK == SchedOK(InGap) /\ SchedOK(IdleSched) /\ InGap.state = "Gap"
                  /\ IdleSched.state = "Idle" 
<1>1. 0 \in Dates
  <2>1. DateKey(LastTime) \in Nat
    BY DoserAssumption, Days
  <2> QED BY <2>1 DEF Dates
<1> QED BY <1>1, DoserAssumption DEF SchedOK, SchedType, InGap, IdleSched, None

\* What is left after a dose is never negative.
LEMMA DosedType ==
  ASSUME NEW r \in PumpType, NEW e \in Dates
  PROVE  Dosed(r, e) \in PumpType /\ Dosed(r, e).enabled = r.enabled
<1>1. r.dose \in Nat /\ r.remaining \in 0..Refill /\ Refill \in Nat
  BY DoserAssumption DEF PumpType
<1>2. (IF r.remaining > r.dose THEN r.remaining - r.dose ELSE 0) \in 0..Refill
  BY <1>1
<1> QED BY <1>2 DEF Dosed, PumpType

\* After it the scheduler counts a dose only when the driver runs that pump.
LEMMA ServiceStep ==
  ASSUME NEW x, XOK(x), OwnsOrOff(x.s, x.v), NEW failing \in SUBSET Pumps
  PROVE  LET y == ServiceRunning(x, failing) IN
         XOK(y) /\ Owns(y.s, y.v) /\ Keeps(x, y, failing)
<1> DEFINE p == x.s.active
<1>1. CASE x.s.state # "Running"
  BY <1>1 DEF ServiceRunning, Keeps, Owns
<1>2. CASE x.s.state = "Running" /\ p \notin x.v.pins
  <2>1. ServiceRunning(x, failing) = [x EXCEPT !.s = InGap]
    BY <1>2 DEF ServiceRunning
  <2>2. /\ [x EXCEPT !.s = InGap] \in XType /\ [x EXCEPT !.s = InGap].s = InGap
        /\ [x EXCEPT !.s = InGap].v = x.v /\ [x EXCEPT !.s = InGap].m = x.m
    BY IdleOK DEF XOK, XType, SchedOK
  <2> QED BY <2>1, <2>2, IdleOK DEF XOK, Keeps, Owns
<1>3. CASE x.s.state = "Running" /\ p \in x.v.pins /\ x.s.age < x.s.plan
  <2>1. ServiceRunning(x, failing) = x
    BY <1>3 DEF ServiceRunning
  <2>2. x.v.pump # None
    BY <1>3 DEF XOK, DriverOK
  <2> QED BY <2>1, <2>2, <1>3 DEF OwnsOrOff, Keeps
<1>4. CASE x.s.state = "Running" /\ p \in x.v.pins /\ ~(x.s.age < x.s.plan)
  <2> DEFINE new == Dosed(x.m.pumps[p], x.s.event)
             m == SavePump(x.m, p, new, p \notin failing)
  <2>1. ServiceRunning(x, failing) = [v |-> StopPump(x.v, p), s |-> InGap, m |-> m, served |-> TRUE]
    BY <1>4 DEF ServiceRunning
  <2>2. p \in Pumps /\ x.m \in MemType /\ x.m.pumps[p] \in PumpType /\ x.s.event \in Dates
    <3>1. p \in Pumps
      BY <1>4 DEF XOK, SchedOK
    <3>2. x.m \in MemType /\ x.s \in SchedType
      BY DEF XOK, XType
    <3> QED BY <3>1, <3>2 DEF MemType, SchedType
  <2>3. new \in PumpType /\ new.enabled = x.m.pumps[p].enabled
    BY <2>2, DosedType
  <2> HIDE DEF new
  <2>4. /\ m \in MemType
        /\ failing = {} /\ Saved(x.m) => Saved(m)
        /\ \A F \in SUBSET Pumps : Disabled(x.m, F) => Disabled(m, F)
    <3>1. \A F \in SUBSET Pumps : Disabled(x.m, F) => (p \in F => ~new.enabled)
      BY <2>3 DEF Disabled
    <3>2. (p \notin failing) \in BOOLEAN
      OBVIOUS
    <3>3. failing = {} => p \notin failing
      OBVIOUS
    <3> QED BY <2>2, <2>3, <3>1, <3>2, <3>3, SaveStep
  <2> HIDE DEF m
  <2>5. DriverOK(StopPump(x.v, p))
    BY <2>2, StopOK DEF XOK
  <2>6. [v |-> StopPump(x.v, p), s |-> InGap, m |-> m, served |-> TRUE] \in XType
    BY <2>4, <2>5, IdleOK DEF XType, DriverOK, SchedOK
  <2> QED BY <2>1, <2>4, <2>5, <2>6, IdleOK DEF XOK, Keeps, Owns
<1> QED BY <1>1, <1>2, <1>3, <1>4

\* The end of the gap starts nothing.
LEMMA GapStep ==
  ASSUME NEW s, SchedOK(s), s.state # "Running"
  PROVE  SchedOK(GapServed(s)) /\ GapServed(s).state # "Running"
BY IdleOK DEF GapServed

\* The pump that starts is enabled, so it is none of those that are off.
LEMMA StartStep ==
  ASSUME NEW x, XOK(x), x.s.state # "Running", NEW t \in Instants, NEW failing \in SUBSET Pumps
  PROVE  LET y == StartFirst(x, t) IN
         XOK(y) /\ Owns(y.s, y.v) /\ Keeps(x, y, failing)
<1> DEFINE ready == {p \in Pumps : Ready(x.m.pumps[p], t)}
           p == Min(ready)
           r == x.m.pumps[p]
           e == Max(DueEvents(r, t))
           s == [state |-> "Running", active |-> p, plan |-> r.dose, event |-> e, age |-> 0]
<1>1. CASE ready = {} \/ ~Starting(x.v)
  <2>1. StartFirst(x, t) = x
    BY <1>1 DEF StartFirst
  <2> QED BY <2>1 DEF Keeps, Owns
<1>2. CASE ready # {} /\ Starting(x.v)
  <2>1. StartFirst(x, t) = [v |-> StartPump(x.v, p), m |-> x.m, served |-> x.served, s |-> s]
    BY <1>2 DEF StartFirst
  <2>2. p \in Pumps /\ Ready(r, t)
    <3>1. p \in ready
      BY <1>2, MinOf
    <3> QED BY <3>1
  <2> HIDE DEF p
  <2>3. r \in PumpType /\ x.m \in MemType
    BY <2>2 DEF XOK, XType, MemType
  <2> HIDE DEF r
  <2>4. r.dose \in 0..MaxRun /\ r.enabled
    <3>1. r.dose \in Nat /\ MaxRun \in Nat
      BY <2>3, DoserAssumption DEF PumpType
    <3> QED BY <2>2, <3>1 DEF Ready
  <2>5. e \in Dates
    <3> DEFINE D == DueEvents(r, t)
    <3>1. D \subseteq {DateKey(t), DateKey(t) - 1} /\ D # {}
      BY <2>2 DEF Ready, DueEvents
    <3>2. DateKey(t) \in Int
      BY DoserAssumption, DueDates DEF Dates
    <3> HIDE DEF D
    <3>3. \E k \in D : \A l \in D : k >= l
      <4>1. CASE DateKey(t) \in D
        BY <3>1, <3>2, <4>1
      <4>2. CASE DateKey(t) \notin D
        BY <3>1, <3>2, <4>2
      <4> QED BY <4>1, <4>2
    <3>4. Max(D) \in D
      BY <3>3 DEF Max
    <3>5. Max(D) \in Dates
      BY <3>1, <3>4, DueDates
    <3> QED BY <3>5 DEF D
  <2> HIDE DEF e
  <2>6. SchedOK(s) /\ s.state = "Running" /\ s.active = p /\ s.age = 0
    BY <2>2, <2>4, <2>5, DoserAssumption DEF SchedOK, SchedType
  <2> HIDE DEF s
  <2>7. /\ DriverOK(StartPump(x.v, p)) /\ StartPump(x.v, p).pump = p
        /\ StartPump(x.v, p).age = 0
    BY <1>2, <2>2, StartOK DEF Starting, XOK
  <2>9. [v |-> StartPump(x.v, p), m |-> x.m, served |-> x.served, s |-> s] \in XType
    BY <2>6, <2>7 DEF XOK, XType, DriverOK, SchedOK
  <2>10. \A F \in SUBSET Pumps : Disabled(x.m, F) => p \notin F
    <3>1. x.m.pumps[p].enabled
      BY <2>4 DEF r
    <3> QED BY <3>1 DEF Disabled
  <2> QED BY <2>1, <2>6, <2>7, <2>9, <2>10 DEF XOK, Owns, Keeps
<1> QED BY <1>1, <1>2

\* The whole of SchedulerManager::loop, in its order and with its early returns.
LEMMA SchedulerStep ==
  ASSUME NEW x, XOK(x), OwnsOrOff(x.s, x.v), NEW t \in Instants,
         NEW valid \in BOOLEAN, NEW blocked \in BOOLEAN, NEW failing \in SUBSET Pumps
  PROVE  LET y == SchedulerLoop(x, t, valid, blocked, failing) IN
         XOK(y) /\ Owns(y.s, y.v) /\ Keeps(x, y, failing)
<1> DEFINE y == ServiceRunning(x, failing)
           z == [v |-> y.v, s |-> GapServed(y.s), m |-> DetectMissed(y.m, t, failing),
                 served |-> y.served]
<1>1. XOK(y) /\ Owns(y.s, y.v) /\ Keeps(x, y, failing)
  BY ServiceStep
<1>2. SchedulerLoop(x, t, valid, blocked, failing) =
        IF y.s.state = "Running" THEN y
        ELSE IF blocked \/ ~valid THEN [y EXCEPT !.v = AllOff]
        ELSE IF z.s.state = "Idle" THEN StartFirst(z, t) ELSE z
  BY DEF SchedulerLoop
<1> HIDE DEF y
<1>3. CASE y.s.state = "Running"
  BY <1>1, <1>2, <1>3
<1>4. CASE y.s.state # "Running" /\ (blocked \/ ~valid)
  <2>1. SchedulerLoop(x, t, valid, blocked, failing) = [y EXCEPT !.v = AllOff]
    BY <1>2, <1>4
  <2>2. [y EXCEPT !.v = AllOff] = [v |-> AllOff, s |-> y.s, m |-> y.m, served |-> y.served]
    BY <1>1 DEF XOK, XType
  <2> DEFINE w == [v |-> AllOff, s |-> y.s, m |-> y.m, served |-> y.served]
  <2>3. XOK(w) /\ w.s = y.s /\ w.m = y.m
    BY <1>1, OffOK DEF XOK, XType, DriverOK
  <2> HIDE DEF w
  <2>4. Owns(w.s, w.v) /\ Keeps(x, w, failing)
    BY <1>1, <1>4, <2>3 DEF Owns, Keeps
  <2>5. SchedulerLoop(x, t, valid, blocked, failing) = w
    BY <2>1, <2>2 DEF w
  <2> QED BY <2>3, <2>4, <2>5
<1>5. CASE y.s.state # "Running" /\ ~(blocked \/ ~valid)
  <2> DEFINE m == DetectMissed(y.m, t, failing)
  <2>1. z = [v |-> y.v, s |-> GapServed(y.s), m |-> m, served |-> y.served]
    OBVIOUS
  <2>2. SchedOK(GapServed(y.s)) /\ GapServed(y.s).state # "Running"
    BY <1>1, <1>5, GapStep DEF XOK
  <2>3. /\ m \in MemType /\ (failing = {} /\ Saved(y.m) => Saved(m))
        /\ \A F \in SUBSET Pumps : Disabled(y.m, F) => Disabled(m, F)
    BY <1>1, MissedStep DEF XOK, XType
  <2> HIDE DEF m
  <2>4. XOK(z) /\ z.s.state # "Running" /\ Owns(z.s, z.v) /\ Keeps(x, z, failing)
    <3>1. XOK(z)
      BY <1>1, <2>1, <2>2, <2>3 DEF XOK, XType, SchedOK
    <3>2. z.s.state # "Running" /\ z.m = m
      BY <2>1, <2>2
    <3> QED BY <1>1, <1>5, <2>3, <3>1, <3>2 DEF Owns, Keeps
  <2> HIDE DEF z
  <2>5. CASE z.s.state = "Idle"
    <3>1. XOK(StartFirst(z, t)) /\ Owns(StartFirst(z, t).s, StartFirst(z, t).v)
            /\ Keeps(z, StartFirst(z, t), failing)
      BY <2>4, StartStep
    <3>2. Keeps(x, StartFirst(z, t), failing)
      BY <2>4, <3>1 DEF Keeps
    <3> QED BY <1>2, <1>5, <2>5, <3>1, <3>2
  <2>6. CASE z.s.state # "Idle"
    BY <1>2, <1>5, <2>4, <2>6
  <2> QED BY <2>5, <2>6
<1> QED BY <1>3, <1>4, <1>5

-----------------------------------------------------------------------------
(* The inductive invariant.                                                 *)

Memory == [pumps |-> pumps, flash |-> flash]
Inv ==
  /\ TypeOK /\ DriverOK(driver) /\ SchedOK(sched) /\ Owns(sched, driver)
  /\ ~unsaved => Saved(Memory)
  /\ Disabled(Memory, forgot) /\ (sched.state = "Running" => sched.active \notin forgot)

\* RAM and flash as one record.
LEMMA MemoryOK ==
  ASSUME TypeOK
  PROVE  Memory \in MemType /\ Memory.pumps = pumps /\ Memory.flash = flash
BY DEF Memory, MemType, TypeOK

\* The device starts with its pumps off and its records written.
LEMMA InitInv == Init => Inv
<1> SUFFICES ASSUME Init PROVE Inv
  OBVIOUS
<1>1. 0 \in Dates /\ 0 \in 0..Refill /\ Refill \in 0..Refill /\ 0..(Week - 1) \in SUBSET (0..(Week - 1))
  BY IdleOK, DoserAssumption DEF SchedOK, SchedType, IdleSched
<1>2. PICK first \in Schedules : pumps = [p \in Pumps |->
         [enabled |-> TRUE, at |-> first[p].at, days |-> 0..(Week - 1), dose |-> first[p].dose,
          remaining |-> Refill, lastDose |-> 0, lastMissed |-> 0]]
  BY DEF Init
<1>3. first \in [Pumps -> [at : Minutes, dose : Doses]]
  BY DoserAssumption
<1>4. pumps \in [Pumps -> PumpType]
  BY <1>1, <1>2, <1>3 DEF PumpType
<1>5. flash = [config |-> [p \in Pumps |-> ConfigOf(pumps[p])],
               runtime |-> [p \in Pumps |-> RuntimeOf(pumps[p])]]
  BY DEF Init
<1>6. flash \in FlashType
  BY <1>4, <1>5, PartsType DEF FlashType
<1>7. sched = IdleSched /\ driver = AllOff /\ manual = NoManual /\ forgot = {} /\ ota = FALSE
        /\ events = 0 /\ unsaved = FALSE /\ calm = TRUE /\ now = FirstDay * DayLen
        /\ tried = [p \in Pumps |-> 0] /\ given = [p \in Pumps |-> 0]
  BY DEF Init
<1>8. now \in 0..LastTime
  BY <1>7, DoserAssumption DEF FirstDay
<1>9. manual \in ManualType
  BY <1>7, DoserAssumption DEF NoManual, ManualType
<1>10. TypeOK
  <2>1. tried \in [Pumps -> Dates] /\ given \in [Pumps -> Dates]
    BY <1>1, <1>7
  <2>2. events \in 0..MaxEvents /\ forgot \subseteq Pumps
    BY <1>7, DoserAssumption
  <2>3. ota \in BOOLEAN /\ {calm, unsaved} \subseteq BOOLEAN
    BY <1>7
  <2>4. sched \in SchedType /\ driver \in DriverType
    BY <1>7, IdleOK, OffOK DEF SchedOK, DriverOK
  <2> QED BY <1>4, <1>6, <1>8, <1>9, <2>1, <2>2, <2>3, <2>4 DEF TypeOK
<1>11. Saved(Memory) /\ Disabled(Memory, forgot)
  BY <1>5, <1>7 DEF Saved, Disabled, Memory
<1> QED BY <1>7, <1>10, <1>11, IdleOK, OffOK DEF Inv, Owns

\* Every message names a pump.
LEMMA EditedPump == \A c \in Commands : c.pump \in Pumps
<1>1. 1 \in Pumps
  BY DoserAssumption DEF Pumps
<1> QED BY <1>1 DEF Commands, NoCommand

\* A setter keeps the type of the record and enables a pump only when it is told to.
LEMMA EditedType ==
  ASSUME NEW r \in PumpType, NEW c \in Commands, NEW valid \in BOOLEAN
  PROVE  /\ Edited(r, c, valid) \in PumpType /\ c.pump \in Pumps
         /\ Edited(r, c, valid).enabled = IF c.kind = "enabled" THEN c.value ELSE r.enabled
<1>1. CASE c = NoCommand
  <2>1. 1 \in Pumps
    BY DoserAssumption DEF Pumps
  <2> QED BY <1>1, <2>1 DEF NoCommand, Edited
<1>2. CASE c \in [kind : {"enabled"}, pump : Pumps, value : BOOLEAN]
  BY <1>2 DEF Edited, PumpType
<1>3. CASE c \in [kind : {"dose"}, pump : Pumps, value : Doses \ {0}]
  BY <1>3 DEF Edited, PumpType
<1>4. CASE c \in [kind : {"time"}, pump : Pumps, value : Minutes]
  BY <1>4 DEF Edited, PumpType
<1>5. CASE c \in [kind : {"day"}, pump : Pumps, value : DaySets]
  BY <1>5, DoserAssumption DEF Edited, PumpType
<1>6. CASE c \in [kind : {"remaining"}, pump : Pumps, value : {Refill}]
  <2>1. c.kind = "remaining" /\ c.value = Refill /\ c.pump \in Pumps
    BY <1>6
  <2>2. Edited(r, c, valid) = r \/ Edited(r, c, valid) = [r EXCEPT !.remaining = Refill]
    BY <2>1 DEF Edited
  <2>3. Refill \in 0..Refill
    BY DoserAssumption
  <2>4. /\ [r EXCEPT !.remaining = Refill] \in PumpType
        /\ [r EXCEPT !.remaining = Refill].enabled = r.enabled
    BY <2>3 DEF PumpType
  <2>5. c.kind # "enabled"
    BY <2>1
  <2> QED BY <2>1, <2>2, <2>4, <2>5
<1>7. CASE c \in [kind : {"manual"}, pump : Pumps, value : {0}]
  BY <1>7 DEF Edited, PumpType
<1> QED BY <1>1, <1>2, <1>3, <1>4, <1>5, <1>6, <1>7 DEF Commands

-----------------------------------------------------------------------------
(* One pass keeps the invariant.                                            *)

\* A pass of loop(): driver, upload, scheduler, then a message.
LEMMA PassInv ==
  ASSUME Inv, NEW d \in 1..MaxStall, NEW valid \in BOOLEAN, NEW jump \in Jumps \cup {0},
         NEW upload \in {"none", "begin", "end"}, NEW c \in Commands,
         NEW failing \in SUBSET Pumps, events' \in 0..MaxEvents,
         Pass(d, jump, valid, upload, c, failing)
  PROVE  Inv'
<1> DEFINE t == now + d + jump
           blocked == upload = "begin" \/ (ota /\ upload # "end")
           v1 == DriverLoop(driver, d)
           v2 == IF upload = "begin" THEN AllOff ELSE v1
           w == [v |-> v2, s |-> Aged(sched, d), served |-> FALSE,
                 m |-> [pumps |-> pumps, flash |-> flash]]
           x == SchedulerLoop(w, t, valid, blocked, failing)
           p == c.pump
           r == x.m.pumps[p]
           new == Edited(r, c, valid)
           m2 == SavePump(x.m, p, new, p \notin failing)
           dosesNow == c.kind = "manual" /\ MayDoseManually(x.v, r)
           F == IF c.kind = "enabled" /\ c.value THEN forgot \ {p} ELSE forgot
<1>1. /\ t >= FirstDay * DayLen /\ t <= LastTime /\ now' = t /\ ota' = blocked
      /\ sched' = x.s /\ driver' = IF dosesNow THEN StartPump(x.v, p) ELSE x.v
      /\ manual' = IF dosesNow THEN [active |-> TRUE, pump |-> p, plan |-> r.dose] ELSE manual
      /\ pumps' = m2.pumps /\ flash' = m2.flash
      /\ tried' = [q \in Pumps |-> IF Edits(c, q) THEN 0
                                   ELSE IF Started(x.s) /\ q = x.s.active THEN x.s.event
                                   ELSE tried[q]]
      /\ given' = [q \in Pumps |-> IF Edits(c, q) THEN 0
                                   ELSE IF x.served /\ q = sched.active THEN tried[q]
                                   ELSE given[q]]
      /\ calm' \in BOOLEAN
      /\ forgot' = F /\ unsaved' = (unsaved \/ failing # {})
  BY DEF Pass
<1>2. t \in Instants /\ blocked \in BOOLEAN
  <2>1. now \in Int /\ d \in Int /\ jump \in Int /\ LastTime \in Int /\ DayLen \in Int
    BY DoserAssumption DEF Inv, TypeOK
  <2> QED BY <1>1, <2>1 DEF Instants, FirstDay
<1> HIDE DEF t, blocked
<1>3. XOK(w) /\ OwnsOrOff(w.s, w.v) /\ w.m = Memory /\ w.s.state = sched.state
        /\ w.s.active = sched.active
  <2>1. /\ DriverOK(v1) /\ SchedOK(Aged(sched, d)) /\ OwnsOrOff(Aged(sched, d), v1)
        /\ Aged(sched, d).state = sched.state /\ Aged(sched, d).active = sched.active
    BY DriverStep DEF Inv
  <2> HIDE DEF v1
  <2>2. DriverOK(v2) /\ OwnsOrOff(Aged(sched, d), v2)
    BY <2>1, OffOK DEF OwnsOrOff
  <2> HIDE DEF v2
  <2>3. w \in XType
    BY <2>1, <2>2, MemoryOK DEF Inv, XType, Memory, DriverOK, SchedOK
  <2> QED BY <2>1, <2>2, <2>3 DEF XOK, Memory
<1> HIDE DEF w
<1>4. XOK(x) /\ Owns(x.s, x.v) /\ Keeps(w, x, failing)
  BY <1>2, <1>3, SchedulerStep
<1> HIDE DEF x
<1>5. x.m \in MemType /\ r \in PumpType /\ new \in PumpType /\ p \in Pumps
        /\ new.enabled = IF c.kind = "enabled" THEN c.value ELSE r.enabled
  <2>1. x.m \in MemType /\ p \in Pumps
    BY <1>4, EditedPump DEF XOK, XType
  <2>2. r \in PumpType
    BY <2>1 DEF MemType
  <2> QED BY <2>1, <2>2, EditedType
<1>6. /\ forgot \in SUBSET Pumps /\ F \in SUBSET Pumps
      /\ Disabled(x.m, forgot) /\ (x.s.state = "Running" => x.s.active \notin forgot)
  BY <1>3, <1>4 DEF Inv, TypeOK, Keeps
<1>7. Disabled(x.m, F) /\ (p \in F => ~new.enabled)
  <2>1. CASE c.kind = "enabled" /\ c.value
    BY <1>6, <2>1 DEF Disabled
  <2>2. CASE c.kind = "enabled" /\ ~c.value
    BY <1>5, <1>6, <2>2
  <2>3. CASE c.kind # "enabled"
    BY <1>5, <1>6, <2>3 DEF Disabled
  <2> QED BY <2>1, <2>2, <2>3
<1> HIDE DEF new, r
<1>8. /\ m2 \in MemType /\ Disabled(m2, F)
      /\ failing = {} /\ Saved(x.m) => Saved(m2)
  <2>1. (p \notin failing) \in BOOLEAN /\ (failing = {} => p \notin failing)
    OBVIOUS
  <2> QED BY <1>5, <1>6, <1>7, <2>1, SaveStep
<1> HIDE DEF m2
<1>9. Memory' = m2
  BY <1>1, <1>8 DEF Memory, MemType
<1>10. ~unsaved' => Saved(Memory')
  BY <1>1, <1>3, <1>4, <1>8, <1>9 DEF Inv, Keeps
<1>11. Disabled(Memory', forgot') /\ (sched'.state = "Running" => sched'.active \notin forgot')
  BY <1>1, <1>6, <1>8, <1>9
<1>12. /\ DriverOK(driver') /\ SchedOK(sched') /\ Owns(sched', driver')
       /\ manual' \in ManualType
  <2>1. CASE ~dosesNow
    BY <1>1, <1>4, <2>1 DEF XOK, Inv, TypeOK
  <2>2. CASE dosesNow
    <3>1. x.v.pump = None /\ r.dose <= MaxRun
      BY <2>2 DEF MayDoseManually
    <3>2. x.s.state # "Running"
      BY <1>4, <3>1, NoneIsNoPump DEF XOK, SchedOK, Owns
    <3>3. DriverOK(StartPump(x.v, p))
      BY <1>4, <1>5, <3>1, StartOK DEF XOK
    <3>4. r.dose \in 0..MaxRun
      <4>1. r.dose \in Doses
        BY <1>5 DEF PumpType
      <4>2. r.dose \in Nat /\ MaxRun \in Nat
        BY <4>1, DoserAssumption
      <4> QED BY <3>1, <4>2
    <3>5. manual' \in ManualType
      BY <1>1, <1>5, <2>2, <3>4 DEF ManualType
    <3> QED BY <1>1, <1>4, <2>2, <3>2, <3>3, <3>5 DEF XOK, Owns
  <2> QED BY <2>1, <2>2
<1>13. tried' \in [Pumps -> Dates] /\ given' \in [Pumps -> Dates]
  <2>1. x.s.event \in Dates /\ 0 \in Dates
    BY <1>4, IdleOK DEF XOK, SchedOK, SchedType, IdleSched
  <2>2. tried \in [Pumps -> Dates] /\ given \in [Pumps -> Dates]
    BY DEF Inv, TypeOK
  <2>3. tried' = [q \in Pumps |-> IF Edits(c, q) THEN 0
                                  ELSE IF Started(x.s) /\ q = x.s.active THEN x.s.event
                                  ELSE tried[q]]
    BY <1>1
  <2>4. given' = [q \in Pumps |-> IF Edits(c, q) THEN 0
                                  ELSE IF x.served /\ q = sched.active THEN tried[q]
                                  ELSE given[q]]
    BY <1>1
  <2>5. tried' \in [Pumps -> Dates]
    BY <2>1, <2>2, <2>3
  <2>6. given' \in [Pumps -> Dates]
    BY <2>1, <2>2, <2>4
  <2> QED BY <2>5, <2>6
<1>14. pumps' \in [Pumps -> PumpType] /\ flash' \in FlashType
  BY <1>1, <1>8 DEF MemType
<1>15. now' \in 0..LastTime /\ ota' \in BOOLEAN /\ {calm', unsaved'} \subseteq BOOLEAN
         /\ forgot' \subseteq Pumps
  <2>1. now' \in 0..LastTime
    BY <1>1, <1>2, DoserAssumption DEF Instants, FirstDay
  <2> QED BY <1>1, <1>2, <1>6, <2>1
<1>16. TypeOK'
  BY <1>12, <1>13, <1>14, <1>15 DEF TypeOK, DriverOK, SchedOK
<1> QED BY <1>10, <1>11, <1>12, <1>16 DEF Inv
-----------------------------------------------------------------------------
(* A restart keeps it too.                                                  *)

\* What setup() puts together of the two records falls apart into them again.
LEMMA MergedParts ==
  ASSUME NEW c \in ConfigType, NEW r \in RuntimeType
  PROVE  /\ Merged(c, r) \in PumpType /\ Merged(c, r).enabled = c.enabled
         /\ ConfigOf(Merged(c, r)) = c /\ RuntimeOf(Merged(c, r)) = r
BY DEF ConfigType, RuntimeType, PumpType, Merged, ConfigOf, RuntimeOf

\* What a boot finds is made of records.
LEMMA FoundType ==
  ASSUME flash \in FlashType, NEW lost, NEW imported
  PROVE  /\ ConfigFound(lost, imported) \in [Pumps -> ConfigType]
         /\ RuntimeFound(lost, imported) \in [Pumps -> RuntimeType]
<1>1. flash.config \in [Pumps -> ConfigType] /\ flash.runtime \in [Pumps -> RuntimeType]
  BY DEF FlashType
<1>2. 0 \in Dates /\ 1 \in Dates
  <2>1. DateKey(LastTime) \in Nat /\ DateKey(LastTime) # 0
    BY DoserAssumption, DueDates DEF Instants, FirstDay, Dates
  <2> QED BY <2>1 DEF Dates
<1>3. DefaultConfig \in ConfigType /\ \A p \in Pumps : LegacyConfig(p) \in ConfigType
  <2>1. DefaultConfig \in ConfigType
    BY DoserAssumption DEF DefaultConfig, ConfigType
  <2>2. \A p \in Pumps : OldConfig[p] \in ConfigType
    BY DoserAssumption DEF ConfigType
  <2> QED BY <2>1, <2>2 DEF LegacyConfig, ConfigType
<1>4. EmptyRuntime \in RuntimeType /\ \A p \in Pumps : OldRuntime[p] \in RuntimeType
  BY <1>2, DoserAssumption DEF EmptyRuntime, RuntimeType
<1> QED BY <1>1, <1>3, <1>4 DEF ConfigFound, RuntimeFound

\* What setup() ends with, of a configuration and a history.
EndsWith(config, runtime, failed) ==
  /\ pumps' = [p \in Pumps |-> Merged(config[p], runtime[p])]
  /\ given' = [p \in Pumps |-> IF Remembered(p, config, runtime)
                                 THEN runtime[p].lastDose ELSE 0]
  /\ unsaved' = (unsaved \/ failed # {})
  /\ flash' \in FlashType
  /\ failed = {} => flash'.config = config /\ flash'.runtime = runtime
  /\ forgot' \subseteq Pumps
  /\ \A p \in forgot' : ~config[p].enabled /\ ~flash'.config[p].enabled

\* They are what begin() found, made safe, or the values of a first start.
LEMMA RecoverParts ==
  ASSUME flash \in FlashType, NEW lost \in SUBSET Records, NEW imported, NEW failed,
         Recovers(lost, imported, failed), forgot \subseteq Pumps,
         Disabled([pumps |-> pumps, flash |-> flash], forgot)
  PROVE  \E config \in [Pumps -> ConfigType], runtime \in [Pumps -> RuntimeType] :
           EndsWith(config, runtime, failed)
<1> DEFINE found == ConfigFound(lost, imported)
           history == RuntimeFound(lost, imported)
           unknown == IF "runtime" \in lost THEN Unknown(history) ELSE {}
           safe == [p \in Pumps |-> IF p \in unknown THEN FailSafe(found[p]) ELSE found[p]]
           first == ~Initialized(found)
           config == IF first THEN [safe EXCEPT ![1] = TestConfig] ELSE safe
           runtime == IF first THEN [history EXCEPT ![1].remaining = Refill] ELSE history
           stored == [config |-> IF "config" \in failed THEN flash.config ELSE safe,
                     runtime |-> IF "runtime" \in failed THEN flash.runtime ELSE history]
           kept == IF "config" \in lost THEN {} ELSE forgot
<1>1. /\ pumps' = [p \in Pumps |-> Merged(config[p], runtime[p])]
      /\ flash' = IF first THEN SaveAll(stored, config, runtime, failed) ELSE stored
      /\ given' = [p \in Pumps |-> IF Remembered(p, config, runtime)
                                     THEN runtime[p].lastDose ELSE 0]
      /\ forgot' = (IF "config" \in failed THEN kept ELSE kept \cup unknown)
                      \ (IF first THEN {1} ELSE {})
      /\ unsaved' = (unsaved \/ failed # {})
  BY DEF Recovers
<1>2. found \in [Pumps -> ConfigType] /\ history \in [Pumps -> RuntimeType]
  BY FoundType
<1>3. flash.config \in [Pumps -> ConfigType] /\ flash.runtime \in [Pumps -> RuntimeType]
  BY DEF FlashType
<1>4. \A p \in kept : p \in Pumps /\ ~found[p].enabled /\ ~flash.config[p].enabled
  BY DEF ConfigFound, Disabled
<1>5. unknown \subseteq Pumps
  BY DEF Unknown
<1> HIDE DEF found, history, unknown, kept, first
<1>6. /\ safe \in [Pumps -> ConfigType]
      /\ \A p \in kept \cup unknown : p \in Pumps /\ ~safe[p].enabled
  <2>1. ASSUME NEW c \in ConfigType
        PROVE  FailSafe(c) \in ConfigType /\ ~FailSafe(c).enabled
    BY <2>1 DEF FailSafe, ConfigType
  <2>2. safe \in [Pumps -> ConfigType]
    BY <1>2, <2>1
  <2>3. \A p \in kept \cup unknown : p \in Pumps
    BY <1>4, <1>5
  <2>4. ASSUME NEW p \in kept \cup unknown PROVE ~safe[p].enabled
    <3>1. CASE p \in unknown
      <4>1. safe[p] = FailSafe(found[p]) /\ found[p] \in ConfigType
        BY <1>2, <2>3, <3>1
      <4> QED BY <2>1, <4>1
    <3>2. CASE p \notin unknown
      BY <1>4, <2>3, <3>2
    <3> QED BY <3>1, <3>2
  <2> QED BY <2>2, <2>3, <2>4
<1> HIDE DEF safe
<1>7. /\ config \in [Pumps -> ConfigType]
      /\ \A p \in Pumps : ~(first /\ p = 1) => config[p] = safe[p]
  <2>1. TestConfig \in ConfigType
    BY DoserAssumption DEF ConfigType
  <2> QED BY <1>6, <2>1
<1>8. runtime \in [Pumps -> RuntimeType]
  <2>1. \A p \in Pumps : [history[p] EXCEPT !.remaining = Refill] \in RuntimeType
    BY <1>2, DoserAssumption, SMTT(30) DEF RuntimeType
  <2> QED BY <1>2, <2>1
<1>9. stored.config \in [Pumps -> ConfigType] /\ stored.runtime \in [Pumps -> RuntimeType]
  BY <1>2, <1>3, <1>6
<1>10. /\ flash'.config \in {stored.config, config} /\ flash'.runtime \in {stored.runtime, runtime}
       /\ flash' = [config |-> flash'.config, runtime |-> flash'.runtime]
  BY <1>1 DEF SaveAll
<1>11. failed = {} => flash'.config = config /\ flash'.runtime = runtime
  BY <1>1 DEF SaveAll
<1>12. forgot' \subseteq Pumps
  BY <1>1, <1>4, <1>5
<1> HIDE DEF config, runtime
<1>13. flash' \in FlashType
  BY <1>7, <1>8, <1>9, <1>10 DEF FlashType
<1>14. ASSUME NEW p \in forgot' PROVE ~config[p].enabled /\ ~flash'.config[p].enabled
  <2>1. /\ p \in Pumps /\ ~(first /\ p = 1) /\ p \in kept \cup unknown
        /\ "config" \in failed => p \in kept
    BY <1>1, <1>12
  <2>2. ~config[p].enabled
    BY <1>6, <1>7, <2>1
  <2>3. ~stored.config[p].enabled
    BY <1>4, <1>6, <2>1
  <2> QED BY <1>10, <2>2, <2>3
<1> QED BY <1>1, <1>7, <1>8, <1>11, <1>12, <1>13, <1>14 DEF EndsWith

\* A restart, with whatever is left of the records.
LEMMA RestartInv ==
  ASSUME Inv, Restart
  PROVE  Inv'
<1>1. PICK lost \in SUBSET Records, imported \in SUBSET Records,
           failed \in SUBSET {"config", "runtime", "allConfig", "allRuntime"} :
        Recovers(lost, imported, failed)
  BY DEF Restart
<1>2. /\ events < MaxEvents /\ events' = events + 1
      /\ driver' = AllOff /\ sched' = IdleSched /\ manual' = NoManual
      /\ ota' = FALSE /\ calm' = FALSE /\ now' = now
      /\ tried' = [p \in Pumps |-> 0]
  BY DEF Restart
<1>3. /\ flash \in FlashType /\ now \in 0..LastTime /\ events \in 0..MaxEvents
      /\ forgot \subseteq Pumps /\ unsaved \in BOOLEAN
      /\ Disabled([pumps |-> pumps, flash |-> flash], forgot)
  BY DEF Inv, TypeOK, Memory
<1>4. PICK config \in [Pumps -> ConfigType], runtime \in [Pumps -> RuntimeType] :
        EndsWith(config, runtime, failed)
  BY <1>1, <1>3, RecoverParts
<1>ends. /\ pumps' = [p \in Pumps |-> Merged(config[p], runtime[p])]
         /\ given' = [p \in Pumps |-> IF Remembered(p, config, runtime)
                                        THEN runtime[p].lastDose ELSE 0]
         /\ unsaved' = (unsaved \/ failed # {})
         /\ flash' \in FlashType
         /\ failed = {} => flash'.config = config /\ flash'.runtime = runtime
         /\ forgot' \subseteq Pumps
         /\ \A p \in forgot' : ~config[p].enabled /\ ~flash'.config[p].enabled
  BY <1>4 DEF EndsWith
<1>5. 0 \in Dates /\ Dates \subseteq Nat
  <2>1. 0 \in Dates
    BY IdleOK DEF SchedOK, SchedType, IdleSched
  <2> QED BY <2>1 DEF Dates
<1>6. \A p \in Pumps : pumps'[p] = Merged(config[p], runtime[p])
  BY <1>ends
<1>7. pumps' \in [Pumps -> PumpType]
  BY <1>ends, MergedParts
<1>8. \A p \in Pumps : /\ ConfigOf(pumps'[p]) = config[p] /\ RuntimeOf(pumps'[p]) = runtime[p]
                       /\ pumps'[p].enabled = config[p].enabled
  BY <1>ends, <1>6, MergedParts
<1>9. ~unsaved' => Saved(Memory')
  BY <1>ends, <1>8 DEF Saved, Memory
<1>10. Disabled(Memory', forgot')
  BY <1>ends, <1>8 DEF Disabled, Memory
<1>11. given' \in [Pumps -> Dates]
  BY <1>ends, <1>5 DEF RuntimeType
<1>12. manual' \in ManualType
  BY <1>2, DoserAssumption DEF NoManual, ManualType
<1>13. DriverOK(driver') /\ SchedOK(sched') /\ sched'.state # "Running"
  BY <1>2, OffOK, IdleOK
<1>14. TypeOK'
  <2>1. tried' \in [Pumps -> Dates]
    BY <1>2, <1>5
  <2>2. events' \in 0..MaxEvents /\ now' \in 0..LastTime
    BY <1>2, <1>3, DoserAssumption
  <2>3. ota' \in BOOLEAN /\ {calm', unsaved'} \subseteq BOOLEAN /\ forgot' \subseteq Pumps
    BY <1>2, <1>3, <1>ends
  <2> QED BY <1>ends, <1>7, <1>11, <1>12, <1>13, <2>1, <2>2, <2>3 DEF TypeOK, DriverOK, SchedOK
<1> QED BY <1>9, <1>10, <1>13, <1>14 DEF Inv, Owns

\* Inv is inductive.
LEMMA NextInv == Inv /\ [Next]_vars => Inv'
<1> SUFFICES ASSUME Inv, [Next]_vars PROVE Inv'
  OBVIOUS
<1>1. CASE Loop
  <2>1. PICK d \in 1..MaxStall, valid \in BOOLEAN, jump \in Jumps \cup {0},
             upload \in {"none", IF ota THEN "end" ELSE "begin"}, c \in Commands,
             failing \in SUBSET Pumps :
          /\ events' = events + One(jump # 0) + One(upload = "begin") + One(c # NoCommand)
                              + One(failing # {})
          /\ events' <= MaxEvents
          /\ Pass(d, jump, valid, upload, c, failing)
    BY <1>1 DEF Loop
  <2>2. events' \in 0..MaxEvents
    <3>1. events \in Nat /\ MaxEvents \in Nat
      BY DoserAssumption DEF Inv, TypeOK
    <3> QED BY <2>1, <3>1 DEF One
  <2>3. upload \in {"none", "begin", "end"}
    OBVIOUS
  <2> QED BY <2>1, <2>2, <2>3, PassInv
<1>2. CASE Restart
  BY <1>2, RestartInv
<1>3. CASE UNCHANGED vars
  BY <1>3 DEF vars, Inv, TypeOK, Memory
<1> QED BY <1>1, <1>2, <1>3 DEF Next

\* Inv holds in every state the device reaches.
LEMMA InvAlways == Spec => []Inv
BY InitInv, NextInv, PTL DEF Spec

-----------------------------------------------------------------------------
(* The theorems                                                             *)

(***************************************************************************)
(* Every variable keeps its type: the dates stay within the days modelled,  *)
(* what is left in a bottle never falls below 0 nor rises above Refill      *)
(* (finishSuccessfulDose), and the ages stay within the driver's limit.     *)
(***************************************************************************)
THEOREM TypeCorrect == Spec => []TypeOK
BY InvAlways, PTL DEF Inv

(***************************************************************************)
(* PumpDriver: at most one pump is on, and the safety timer of              *)
(* PumpDriver::loop watches it, whoever started it and whatever stops it.   *)
(***************************************************************************)
THEOREM PumpsAlwaysWatched == Spec => []PumpsWatched
<1>1. Inv => PumpsWatched
  BY DoserAssumption DEF Inv, DriverOK, DriverType, PumpsWatched
<1> QED BY <1>1, InvAlways, PTL

(***************************************************************************)
(* SchedulerManager::serviceRunningPump: the pump whose dose the scheduler  *)
(* counts is the one that runs, since the start of that dose.               *)
(***************************************************************************)
THEOREM RunsOwned == Spec => []RunIsOwned
<1>1. Inv => RunIsOwned
  BY DEF Inv, Owns, RunIsOwned
<1> QED BY <1>1, InvAlways, PTL

(***************************************************************************)
(* StorageManager::savePump: as long as no write has failed, the records in *)
(* the flash hold what the RAM holds, though only the records that changed  *)
(* are written.                                                             *)
(***************************************************************************)
THEOREM FlashUpToDate == Spec => []NothingUnsaved
<1>1. Inv => NothingUnsaved
  BY MemoryOK DEF Inv, Saved, Memory, NothingUnsaved
<1> QED BY <1>1, InvAlways, PTL

(***************************************************************************)
(* StorageManager::begin: a pump that lost its history, and whose settings  *)
(* were written when it was disabled for that, doses by schedule only after *)
(* somebody has enabled it.                                                 *)
(***************************************************************************)
THEOREM LostHistoryStaysOff == Spec => []LostHistoryDisables
<1>1. Inv => LostHistoryDisables
  BY DEF Inv, LostHistoryDisables
<1> QED BY <1>1, InvAlways, PTL

\* PumpDriver and SchedulerManager agree on the pump that runs, and since when.
THEOREM DriverAlwaysAgrees == Spec => []DriverAgrees
<1>1. PumpsWatched /\ RunIsOwned => DriverAgrees
  BY DEF DriverAgrees
<1> QED BY <1>1, PumpsAlwaysWatched, RunsOwned, PTL

\* StorageManager's records keep up with the RAM, and a lost history stays lost.
THEOREM RecordsAlwaysKept == Spec => []RecordsKept
<1>1. NothingUnsaved /\ LostHistoryDisables => RecordsKept
  BY DEF RecordsKept
<1> QED BY <1>1, FlashUpToDate, LostHistoryStaysOff, PTL

-----------------------------------------------------------------------------
(* DoseNotRepeated.  What was given under the time that is set is what the  *)
(* RAM remembers, and it was due no later than now, but for the corrections *)
(* of the clock since.                                                      *)

GivenInv(back) ==
  /\ \A p \in Pumps : given[p] # 0 =>
       /\ pumps[p].lastDose = given[p]
       /\ EventTime(pumps[p], given[p]) <= now + back * events
  /\ sched.state = "Running" =>
       /\ MaxRun > 0
       /\ LET p == sched.active IN
          tried[p] # 0 => /\ tried[p] = sched.event
                          /\ EventTime(pumps[p], tried[p]) <= now + back * events

\* Two states of a pump with the same time and the same last dose.
SameDose(r, u) == u.at = r.at /\ u.lastDose = r.lastDose
\* A run that has just begun, for an event that is due and not the last dose.
Fresh(s, m, t) ==
  /\ s.active \in Pumps /\ s.age = 0 /\ MaxRun > 0
  /\ s.event \in DueEvents(m.pumps[s.active], t)
  /\ s.event # m.pumps[s.active].lastDose

\* Missed doses and gaps leave the last dose alone.
LEMMA MissedKeepsDose ==
  ASSUME NEW m \in MemType, NEW t \in Instants, NEW failing \in SUBSET Pumps, NEW q \in Pumps
  PROVE  SameDose(m.pumps[q], DetectMissed(m, t, failing).pumps[q])
<1>1. m.pumps[q] \in PumpType
  BY DEF MemType
<1>2. \/ DetectMissed(m, t, failing).pumps[q] = m.pumps[q]
      \/ DetectMissed(m, t, failing).pumps[q] = [m.pumps[q] EXCEPT !.lastMissed = DateKey(t)]
  BY DEF DetectMissed
<1> QED BY <1>1, <1>2 DEF PumpType, SameDose

\* The event of the greatest due date is one of them.
LEMMA MaxDue ==
  ASSUME NEW r, NEW t \in Instants, DueEvents(r, t) # {}
  PROVE  Max(DueEvents(r, t)) \in DueEvents(r, t)
<1> DEFINE D == DueEvents(r, t)
<1>1. D \subseteq {DateKey(t), DateKey(t) - 1} /\ D # {}
  BY DEF DueEvents
<1>2. DateKey(t) \in Int
  BY DoserAssumption, DueDates DEF Dates
<1> HIDE DEF D
<1>3. \E k \in D : \A l \in D : k >= l
  <2>1. CASE DateKey(t) \in D
    BY <1>1, <1>2, <2>1
  <2>2. CASE DateKey(t) \notin D
    BY <1>1, <1>2, <2>2
  <2> QED BY <2>1, <2>2
<1>4. Max(D) \in D
  BY <1>3 DEF Max
<1> QED BY <1>4 DEF D

\* StartFirst changes the run at most, to a fresh one.
LEMMA StartEffect ==
  ASSUME NEW x, XOK(x), NEW t \in Instants
  PROVE  LET y == StartFirst(x, t) IN
         y.m = x.m /\ y.served = x.served /\ (y.s = x.s \/ Fresh(y.s, x.m, t))
<1> DEFINE ready == {p \in Pumps : Ready(x.m.pumps[p], t)}
           p == Min(ready)
           r == x.m.pumps[p]
           e == Max(DueEvents(r, t))
           s == [state |-> "Running", active |-> p, plan |-> r.dose, event |-> e, age |-> 0]
<1>1. CASE ready = {} \/ ~Starting(x.v)
  BY <1>1 DEF StartFirst
<1>2. CASE ready # {} /\ Starting(x.v)
  <2>1. StartFirst(x, t) = [v |-> StartPump(x.v, p), m |-> x.m, served |-> x.served, s |-> s]
    BY <1>2 DEF StartFirst
  <2>2. p \in Pumps /\ Ready(r, t)
    <3>1. p \in ready
      BY <1>2, MinOf
    <3> QED BY <3>1
  <2>3. e \in DueEvents(r, t) /\ e # r.lastDose
    BY <2>2, MaxDue DEF Ready
  <2>4. MaxRun > 0
    <3>1. r \in PumpType
      BY <2>2 DEF XOK, XType, MemType
    <3> HIDE DEF r
    <3>2. r.dose \in Nat /\ MaxRun \in Nat
      BY <3>1, DoserAssumption DEF PumpType
    <3>3. r.dose > 0 /\ r.dose <= MaxRun
      BY <2>2 DEF Ready
    <3> QED BY <3>2, <3>3
  <2>5. Fresh(s, x.m, t)
    BY <2>2, <2>3, <2>4 DEF Fresh
  <2> HIDE DEF s
  <2> QED BY <2>1, <2>5
<1> QED BY <1>1, <1>2

\* serviceRunningPump records the dose it completes as the last of its pump.
LEMMA ServiceEffect ==
  ASSUME NEW x, XOK(x), NEW failing \in SUBSET Pumps
  PROVE  LET y == ServiceRunning(x, failing) IN
         /\ y.s = x.s \/ y.s = InGap
         /\ \/ y.m = x.m /\ y.served = x.served
            \/ /\ x.s.state = "Running" /\ x.s.active \in Pumps
               /\ y.s = InGap /\ y.served = TRUE
               /\ \A q \in Pumps : q # x.s.active => y.m.pumps[q] = x.m.pumps[q]
               /\ y.m.pumps[x.s.active].at = x.m.pumps[x.s.active].at
               /\ y.m.pumps[x.s.active].lastDose = x.s.event
<1> DEFINE p == x.s.active
           y == ServiceRunning(x, failing)
<1>1. CASE x.s.state # "Running"
  BY <1>1 DEF ServiceRunning
<1>2. CASE x.s.state = "Running" /\ p \notin x.v.pins
  <2>1. y = [x EXCEPT !.s = InGap]
    BY <1>2 DEF ServiceRunning
  <2> QED BY <2>1 DEF XOK, XType
<1>3. CASE x.s.state = "Running" /\ p \in x.v.pins /\ x.s.age < x.s.plan
  BY <1>3 DEF ServiceRunning
<1>4. CASE x.s.state = "Running" /\ p \in x.v.pins /\ ~(x.s.age < x.s.plan)
  <2> DEFINE new == Dosed(x.m.pumps[p], x.s.event)
  <2>1. p \in Pumps /\ x.m.pumps \in [Pumps -> PumpType] /\ x.m.pumps[p] \in PumpType
    BY <1>4 DEF XOK, SchedOK, XType, MemType
  <2>2. y = [v |-> StopPump(x.v, p), s |-> InGap, served |-> TRUE,
             m |-> SavePump(x.m, p, new, p \notin failing)]
    BY <1>4 DEF ServiceRunning
  <2>3. new.at = x.m.pumps[p].at /\ new.lastDose = x.s.event
    BY <2>1 DEF Dosed, PumpType
  <2> HIDE DEF new, p
  <2>4. y.m.pumps = [x.m.pumps EXCEPT ![p] = new] /\ y.s = InGap /\ y.served = TRUE
    BY <2>2 DEF SavePump
  <2> QED BY <1>4, <2>1, <2>3, <2>4 DEF p
<1> QED BY <1>1, <1>2, <1>3, <1>4

\* What SchedulerManager::loop makes of x: it records the dose it completes, goes on
\* with its run, or starts one that is due.
Effect(x, y, t) ==
  /\ y.s.state = "Running" => y.s = x.s \/ Fresh(y.s, y.m, t)
  /\ \/ /\ y.served = x.served
        /\ \A q \in Pumps : SameDose(x.m.pumps[q], y.m.pumps[q])
     \/ /\ x.s.state = "Running" /\ y.served = TRUE /\ x.s.active \in Pumps
        /\ \A q \in Pumps : q # x.s.active => SameDose(x.m.pumps[q], y.m.pumps[q])
        /\ y.m.pumps[x.s.active].at = x.m.pumps[x.s.active].at
        /\ y.m.pumps[x.s.active].lastDose = x.s.event

\* loop() has that effect, in its order and with its early returns.
LEMMA SchedulerEffect ==
  ASSUME NEW x, XOK(x), OwnsOrOff(x.s, x.v), NEW t \in Instants,
         NEW valid \in BOOLEAN, NEW blocked \in BOOLEAN, NEW failing \in SUBSET Pumps
  PROVE  Effect(x, SchedulerLoop(x, t, valid, blocked, failing), t)
<1> DEFINE p == x.s.active
           Done(y) ==
             \/ /\ y.served = x.served
                /\ \A q \in Pumps : SameDose(x.m.pumps[q], y.m.pumps[q])
             \/ /\ x.s.state = "Running" /\ y.served = TRUE /\ p \in Pumps
                /\ \A q \in Pumps : q # p => SameDose(x.m.pumps[q], y.m.pumps[q])
                /\ y.m.pumps[p].at = x.m.pumps[p].at
                /\ y.m.pumps[p].lastDose = x.s.event
           y == ServiceRunning(x, failing)
           m == DetectMissed(y.m, t, failing)
           z == [v |-> y.v, s |-> GapServed(y.s), m |-> m, served |-> y.served]
<1>1. XOK(y) /\ y.m \in MemType
  BY ServiceStep DEF XOK, XType
<1>2. /\ y.s = x.s \/ y.s = InGap
      /\ Done(y)
      /\ y.s.state = "Running" => y.m = x.m /\ y.served = x.served /\ y.s = x.s
  <2>1. InGap.state = "Gap"
    BY IdleOK
  <2> HIDE DEF y
  <2>2. \/ y.m = x.m /\ y.served = x.served
        \/ /\ x.s.state = "Running" /\ p \in Pumps
           /\ y.s = InGap /\ y.served = TRUE
           /\ \A q \in Pumps : q # p => y.m.pumps[q] = x.m.pumps[q]
           /\ y.m.pumps[p].at = x.m.pumps[p].at
           /\ y.m.pumps[p].lastDose = x.s.event
    BY ServiceEffect DEF y
  <2>3. y.s = x.s \/ y.s = InGap
    BY ServiceEffect DEF y
  <2> HIDE DEF p
  <2> QED BY <2>1, <2>2, <2>3 DEF SameDose
<1>3. SchedulerLoop(x, t, valid, blocked, failing) =
        IF y.s.state = "Running" THEN y
        ELSE IF blocked \/ ~valid THEN [y EXCEPT !.v = AllOff]
        ELSE IF z.s.state = "Idle" THEN StartFirst(z, t) ELSE z
  BY DEF SchedulerLoop
<1> HIDE DEF y
<1>4. CASE y.s.state = "Running"
  BY <1>2, <1>3, <1>4 DEF Effect
<1>5. CASE y.s.state # "Running" /\ (blocked \/ ~valid)
  <2>1. SchedulerLoop(x, t, valid, blocked, failing) = [y EXCEPT !.v = AllOff]
    BY <1>3, <1>5
  <2>2. [y EXCEPT !.v = AllOff] = [v |-> AllOff, s |-> y.s, m |-> y.m, served |-> y.served]
    BY <1>1 DEF XOK, XType
  <2> QED BY <1>2, <1>5, <2>1, <2>2 DEF Effect
<1>6. CASE y.s.state # "Running" /\ ~(blocked \/ ~valid)
  <2>1. SchedOK(GapServed(y.s)) /\ GapServed(y.s).state # "Running"
    BY <1>1, <1>6, GapStep DEF XOK
  <2>2. m \in MemType /\ \A q \in Pumps : SameDose(y.m.pumps[q], m.pumps[q])
    BY <1>1, MissedStep, MissedKeepsDose
  <2>3. XOK(z)
    BY <1>1, <2>1, <2>2 DEF XOK, XType, SchedOK
  <2>4. z.m = m /\ z.served = y.served /\ z.s.state # "Running"
    BY <2>1
  <2> HIDE DEF m, z
  <2> DEFINE u == IF z.s.state = "Idle" THEN StartFirst(z, t) ELSE z
  <2>5. u.m = m /\ u.served = y.served /\ (u.s.state = "Running" => Fresh(u.s, u.m, t))
    BY <2>3, <2>4, StartEffect
  <2>6. SchedulerLoop(x, t, valid, blocked, failing) = u
    BY <1>3, <1>6
  <2> HIDE DEF u, Done, p
  <2>7. Done(u)
    BY <1>2, <2>2, <2>5 DEF Done, SameDose
  <2> QED BY <2>5, <2>6, <2>7 DEF Done, p, Effect
<1> QED BY <1>4, <1>5, <1>6

\* A message sets the time of its pump at most, and no last dose.
LEMMA EditedKeepsDose ==
  ASSUME NEW r \in PumpType, NEW c \in Commands, NEW valid \in BOOLEAN
  PROVE  /\ Edited(r, c, valid).lastDose = r.lastDose
         /\ c.kind # "time" => Edited(r, c, valid).at = r.at
BY DEF Edited, PumpType

\* Counting time makes a run older.
LEMMA AgedOlder ==
  ASSUME NEW s, SchedOK(s), s.state = "Running", MaxRun > 0, NEW d \in 1..MaxStall
  PROVE  Aged(s, d).age # 0
<1>1. /\ MaxRun \in Nat \ {0} /\ Gap \in Nat /\ d \in Nat \ {0} /\ s.age \in Nat
      /\ s \in SchedType
  BY DoserAssumption DEF SchedOK, SchedType
<1>2. Min({s.age + d, MaxRun + Gap}) =
        IF s.age + d <= MaxRun + Gap THEN s.age + d ELSE MaxRun + Gap
  BY <1>1, MinPair
<1>3. Aged(s, d).age = Min({s.age + d, MaxRun + Gap})
  BY <1>1 DEF Aged, SchedType
<1> QED BY <1>1, <1>2, <1>3

\* A pass as these properties see it: the scheduler leaves the doses m behind, and
\* then a message may set the time of a pump.
LEMMA PassEffect ==
  ASSUME Inv, NEW d \in 1..MaxStall, NEW valid \in BOOLEAN, NEW jump \in Jumps \cup {0},
         NEW upload \in {"none", "begin", "end"}, NEW c \in Commands,
         NEW failing \in SUBSET Pumps, Pass(d, jump, valid, upload, c, failing)
  PROVE  /\ now' = now + d + jump /\ now' \in Instants
         /\ \E m \in MemType, served \in BOOLEAN :
              /\ sched'.state = "Running" => sched' = Aged(sched, d) \/ Fresh(sched', m, now')
              /\ \/ ~served /\ \A q \in Pumps : SameDose(pumps[q], m.pumps[q])
                 \/ /\ served /\ sched.state = "Running"
                    /\ \A q \in Pumps : q # sched.active => SameDose(pumps[q], m.pumps[q])
                    /\ m.pumps[sched.active].at = pumps[sched.active].at
                    /\ m.pumps[sched.active].lastDose = sched.event
              /\ \A q \in Pumps : /\ pumps'[q].lastDose = m.pumps[q].lastDose
                                  /\ ~Edits(c, q) => pumps'[q].at = m.pumps[q].at
              /\ tried' = [q \in Pumps |-> IF Edits(c, q) THEN 0
                            ELSE IF Started(sched') /\ q = sched'.active THEN sched'.event
                            ELSE tried[q]]
              /\ given' = [q \in Pumps |-> IF Edits(c, q) THEN 0
                            ELSE IF served /\ q = sched.active THEN tried[q] ELSE given[q]]
<1> DEFINE t == now + d + jump
           blocked == upload = "begin" \/ (ota /\ upload # "end")
           v1 == DriverLoop(driver, d)
           v2 == IF upload = "begin" THEN AllOff ELSE v1
           w == [v |-> v2, s |-> Aged(sched, d), served |-> FALSE,
                 m |-> [pumps |-> pumps, flash |-> flash]]
           x == SchedulerLoop(w, t, valid, blocked, failing)
           p == c.pump
           r == x.m.pumps[p]
           new == Edited(r, c, valid)
           m2 == SavePump(x.m, p, new, p \notin failing)
<1>1. /\ t >= FirstDay * DayLen /\ t <= LastTime /\ now' = t
      /\ sched' = x.s /\ pumps' = m2.pumps
      /\ tried' = [q \in Pumps |-> IF Edits(c, q) THEN 0
                                   ELSE IF Started(x.s) /\ q = x.s.active THEN x.s.event
                                   ELSE tried[q]]
      /\ given' = [q \in Pumps |-> IF Edits(c, q) THEN 0
                                   ELSE IF x.served /\ q = sched.active THEN tried[q]
                                   ELSE given[q]]
  BY DEF Pass
<1>2. t \in Instants /\ blocked \in BOOLEAN
  <2>1. now \in Int /\ d \in Int /\ jump \in Int /\ LastTime \in Int /\ DayLen \in Int
    BY DoserAssumption DEF Inv, TypeOK
  <2> QED BY <1>1, <2>1 DEF Instants, FirstDay
<1>3. now' = now + d + jump
  BY <1>1
<1> HIDE DEF t, blocked
<1>4. /\ XOK(w) /\ OwnsOrOff(w.s, w.v) /\ w.m = Memory /\ w.s = Aged(sched, d)
      /\ w.served = FALSE /\ w.s.state = sched.state /\ w.s.active = sched.active
      /\ w.s.event = sched.event
  <2>1. /\ DriverOK(v1) /\ SchedOK(Aged(sched, d)) /\ OwnsOrOff(Aged(sched, d), v1)
        /\ Aged(sched, d).state = sched.state /\ Aged(sched, d).active = sched.active
        /\ Aged(sched, d).event = sched.event
    BY DriverStep DEF Inv
  <2> HIDE DEF v1
  <2>2. DriverOK(v2) /\ OwnsOrOff(Aged(sched, d), v2)
    BY <2>1, OffOK DEF OwnsOrOff
  <2> HIDE DEF v2
  <2>3. w \in XType
    BY <2>1, <2>2, MemoryOK DEF Inv, XType, Memory, DriverOK, SchedOK
  <2> QED BY <2>1, <2>2, <2>3 DEF XOK, Memory
<1>5. w.m.pumps = pumps
  BY <1>4, MemoryOK DEF Inv
<1> HIDE DEF w
<1>6. Effect(w, x, t)
  BY <1>2, <1>4, SchedulerEffect
<1>7. XOK(x)
  BY <1>2, <1>4, SchedulerStep
<1> HIDE DEF x
<1>8. x.m \in MemType /\ x.served \in BOOLEAN
  BY <1>7 DEF XOK, XType
<1>9. p \in Pumps /\ r \in PumpType /\ new \in PumpType
  <2>1. p \in Pumps
    BY EditedPump
  <2>2. r \in PumpType
    BY <1>8, <2>1 DEF MemType
  <2> QED BY <2>1, <2>2, EditedType
<1>10. ASSUME NEW q \in Pumps
       PROVE  /\ pumps'[q].lastDose = x.m.pumps[q].lastDose
              /\ ~Edits(c, q) => pumps'[q].at = x.m.pumps[q].at
  <2>1. new.lastDose = r.lastDose /\ (c.kind # "time" => new.at = r.at)
    BY <1>9, EditedKeepsDose
  <2> HIDE DEF new
  <2>2. m2.pumps = [x.m.pumps EXCEPT ![p] = new]
    BY DEF SavePump
  <2>3. x.m.pumps \in [Pumps -> PumpType]
    BY <1>8 DEF MemType
  <2> QED BY <1>1, <2>1, <2>2, <2>3 DEF Edits
<1> HIDE DEF m2, new, r
<1>11. /\ sched'.state = "Running" => sched' = Aged(sched, d) \/ Fresh(sched', x.m, now')
       /\ \/ ~x.served /\ \A q \in Pumps : SameDose(pumps[q], x.m.pumps[q])
          \/ /\ x.served /\ sched.state = "Running"
             /\ \A q \in Pumps : q # sched.active => SameDose(pumps[q], x.m.pumps[q])
             /\ x.m.pumps[sched.active].at = pumps[sched.active].at
             /\ x.m.pumps[sched.active].lastDose = sched.event
  <2>1. sched'.state = "Running" => sched' = Aged(sched, d) \/ Fresh(sched', x.m, now')
    BY <1>1, <1>4, <1>6 DEF Effect
  <2>2. CASE x.served = w.served /\ \A q \in Pumps : SameDose(w.m.pumps[q], x.m.pumps[q])
    BY <1>4, <1>5, <2>1, <2>2
  <2>3. CASE /\ w.s.state = "Running" /\ x.served = TRUE
             /\ \A q \in Pumps : q # w.s.active => SameDose(w.m.pumps[q], x.m.pumps[q])
             /\ x.m.pumps[w.s.active].at = w.m.pumps[w.s.active].at
             /\ x.m.pumps[w.s.active].lastDose = w.s.event
    BY <1>4, <1>5, <2>1, <2>3
  <2> QED BY <1>6, <2>2, <2>3 DEF Effect
<1>12. now' \in Instants
  BY <1>1, <1>2
<1>13. /\ tried' = [q \in Pumps |-> IF Edits(c, q) THEN 0
                      ELSE IF Started(sched') /\ q = sched'.active THEN sched'.event
                      ELSE tried[q]]
       /\ given' = [q \in Pumps |-> IF Edits(c, q) THEN 0
                      ELSE IF x.served /\ q = sched.active THEN tried[q] ELSE given[q]]
  BY <1>1
<1> QED BY <1>3, <1>8, <1>10, <1>11, <1>12, <1>13

\* A pass may set the clock back, but it then costs an event.
LEMMA PassClock ==
  ASSUME Inv, NEW back \in Nat, SetBackAtMost(back), NEW d \in 1..MaxStall,
         NEW jump \in Jumps \cup {0}, NEW k \in Nat, events' = events + One(jump # 0) + k,
         now' = now + d + jump
  PROVE  now + back * events <= now' + back * events'
<1>1. /\ now \in Int /\ d \in Nat \ {0} /\ events \in Nat /\ jump \in Int
  BY DoserAssumption DEF Inv, TypeOK
<1>2. CASE jump = 0
  <2>1. events' = events + k
    BY <1>1, <1>2 DEF One
  <2>2. back * (events + k) = back * events + back * k /\ back * k \in Nat
    BY <1>1
  <2>3. back * events' = back * events + back * k
    BY <2>1, <2>2
  <2> QED BY <1>1, <1>2, <2>2, <2>3
<1>3. CASE jump # 0
  <2>1. events' = events + 1 + k /\ jump >= -1 - back
    BY <1>1, <1>3 DEF One, SetBackAtMost
  <2>2. back * events' = back * events + back + back * k /\ back * k \in Nat
    BY <1>1, <2>1
  <2> QED BY <1>1, <2>1, <2>2
<1> QED BY <1>2, <1>3

\* An event that was due stays due when nobody edits the time of its pump.
LEMMA StillDue ==
  ASSUME NEW r, NEW u, u.at = r.at, NEW e, NEW a, NEW b, EventTime(r, e) <= a, a <= b,
         e \in Nat, r.at \in Nat, a \in Int, b \in Int
  PROVE  EventTime(u, e) <= b
<1>1. e * DayLen \in Nat
  BY DoserAssumption
<1> QED BY <1>1 DEF EventTime

\* One pass keeps what is given the last dose.
LEMMA PassGiven ==
  ASSUME Inv, NEW back \in Nat, SetBackAtMost(back), GivenInv(back),
         NEW d \in 1..MaxStall, NEW valid \in BOOLEAN, NEW jump \in Jumps \cup {0},
         NEW upload \in {"none", "begin", "end"}, NEW c \in Commands,
         NEW failing \in SUBSET Pumps, Pass(d, jump, valid, upload, c, failing),
         NEW k \in Nat, events' = events + One(jump # 0) + k
  PROVE  GivenInv(back)'
<1>1. PICK m \in MemType, served \in BOOLEAN :
        /\ sched'.state = "Running" => sched' = Aged(sched, d) \/ Fresh(sched', m, now')
        /\ \/ ~served /\ \A q \in Pumps : SameDose(pumps[q], m.pumps[q])
           \/ /\ served /\ sched.state = "Running"
              /\ \A q \in Pumps : q # sched.active => SameDose(pumps[q], m.pumps[q])
              /\ m.pumps[sched.active].at = pumps[sched.active].at
              /\ m.pumps[sched.active].lastDose = sched.event
        /\ \A q \in Pumps : /\ pumps'[q].lastDose = m.pumps[q].lastDose
                            /\ ~Edits(c, q) => pumps'[q].at = m.pumps[q].at
        /\ tried' = [q \in Pumps |-> IF Edits(c, q) THEN 0
                      ELSE IF Started(sched') /\ q = sched'.active THEN sched'.event
                      ELSE tried[q]]
        /\ given' = [q \in Pumps |-> IF Edits(c, q) THEN 0
                      ELSE IF served /\ q = sched.active THEN tried[q] ELSE given[q]]
  BY PassEffect
<1>2. now' = now + d + jump /\ now' \in Instants
  BY PassEffect
<1> DEFINE a == now + back * events
           b == now' + back * events'
<1>3. a <= b
  BY <1>2, PassClock
<1>4. a \in Int /\ b \in Int /\ back * events' \in Nat /\ now' \in Nat
  <2>1. now \in Int /\ events \in Nat /\ events' \in Nat /\ now' \in Nat
    BY <1>2, DoserAssumption DEF Inv, TypeOK, One, Instants, FirstDay
  <2>2. back * events \in Nat /\ back * events' \in Nat
    BY <2>1
  <2> QED BY <2>1, <2>2
<1>5. \A q \in Pumps : /\ pumps[q].at \in Nat /\ m.pumps[q].at \in Nat
                       /\ given[q] \in Nat /\ tried[q] \in Nat
  <2>1. pumps \in [Pumps -> PumpType] /\ m.pumps \in [Pumps -> PumpType]
    BY DEF Inv, TypeOK, MemType
  <2>2. Minutes \subseteq Nat
    BY DoserAssumption
  <2>3. \A q \in Pumps : pumps[q].at \in Nat /\ m.pumps[q].at \in Nat
    BY <2>1, <2>2 DEF PumpType
  <2>4. \A q \in Pumps : given[q] \in Nat /\ tried[q] \in Nat
    <3>1. given \in [Pumps -> Dates] /\ tried \in [Pumps -> Dates]
      BY DEF Inv, TypeOK
    <3>2. Dates \subseteq Nat
      BY DEF Dates
    <3> QED BY <3>1, <3>2
  <2> QED BY <2>3, <2>4
<1>6. \A q \in Pumps : ~Edits(c, q) => pumps'[q].at = pumps[q].at
  BY <1>1 DEF SameDose
<1>7. ASSUME NEW q \in Pumps, given[q] # 0
      PROVE  pumps[q].lastDose = given[q] /\ EventTime(pumps[q], given[q]) <= a
  BY <1>7 DEF GivenInv
<1>8. ASSUME sched.state = "Running"
      PROVE  /\ MaxRun > 0 /\ sched.active \in Pumps
             /\ tried[sched.active] # 0 =>
                  /\ tried[sched.active] = sched.event
                  /\ EventTime(pumps[sched.active], tried[sched.active]) <= a
  BY <1>8 DEF GivenInv, Inv, SchedOK
<1> HIDE DEF a, b
<1>9. ASSUME NEW q \in Pumps, given'[q] # 0
      PROVE  pumps'[q].lastDose = given'[q] /\ EventTime(pumps'[q], given'[q]) <= b
  <2>1. ~Edits(c, q) /\ pumps'[q].at = pumps[q].at
    BY <1>1, <1>6, <1>9
  <2>2. CASE served /\ q = sched.active
    <3>1. given'[q] = tried[q] /\ tried[q] # 0 /\ sched.state = "Running"
      BY <1>1, <1>9, <2>1, <2>2
    <3>2. tried[q] = sched.event /\ EventTime(pumps[q], tried[q]) <= a
      BY <1>8, <2>2, <3>1
    <3>3. pumps'[q].lastDose = sched.event
      BY <1>1, <2>2
    <3>4. EventTime(pumps'[q], tried[q]) <= b
      BY <1>3, <1>4, <1>5, <2>1, <3>2, StillDue
    <3> QED BY <3>1, <3>2, <3>3, <3>4
  <2>3. CASE ~(served /\ q = sched.active)
    <3>1. given'[q] = given[q] /\ given[q] # 0
      BY <1>1, <1>9, <2>1, <2>3
    <3>2. pumps'[q].lastDose = pumps[q].lastDose
      BY <1>1, <2>3 DEF SameDose
    <3>3. EventTime(pumps'[q], given[q]) <= b
      BY <1>3, <1>4, <1>5, <1>7, <2>1, <3>1, StillDue
    <3> QED BY <1>7, <3>1, <3>2, <3>3
  <2> QED BY <2>2, <2>3
<1>10. ASSUME sched'.state = "Running"
       PROVE  /\ MaxRun > 0
              /\ tried'[sched'.active] # 0 =>
                   /\ tried'[sched'.active] = sched'.event
                   /\ EventTime(pumps'[sched'.active], tried'[sched'.active]) <= b
  <2> DEFINE q == sched'.active
  <2>1. CASE sched' = Aged(sched, d)
    <3>1. /\ SchedOK(sched) /\ Aged(sched, d).state = sched.state
          /\ Aged(sched, d).active = sched.active /\ Aged(sched, d).event = sched.event
      BY DriverStep DEF Inv
    <3>2. sched.state = "Running" /\ q = sched.active /\ sched'.event = sched.event
      BY <1>10, <2>1, <3>1
    <3>3. MaxRun > 0 /\ q \in Pumps
      BY <1>8, <3>2
    <3>4. ~Started(sched')
      BY <2>1, <3>1, <3>2, <3>3, AgedOlder DEF Started
    <3> HIDE DEF q
    <3>5. ASSUME tried'[q] # 0
          PROVE  tried'[q] = sched'.event /\ EventTime(pumps'[q], tried'[q]) <= b
      <4>1. ~Edits(c, q) /\ tried'[q] = tried[q]
        BY <1>1, <3>3, <3>4, <3>5
      <4>2. tried[q] = sched.event /\ EventTime(pumps[q], tried[q]) <= a
        BY <1>8, <3>2, <3>5, <4>1
      <4>3. EventTime(pumps'[q], tried[q]) <= b
        BY <1>3, <1>4, <1>5, <1>6, <3>3, <4>1, <4>2, StillDue
      <4> QED BY <3>2, <4>1, <4>2, <4>3
    <3> QED BY <3>3, <3>5 DEF q
  <2>2. CASE Fresh(sched', m, now')
    <3>1. /\ q \in Pumps /\ MaxRun > 0 /\ Started(sched')
          /\ sched'.event \in DueEvents(m.pumps[q], now')
      BY <1>10, <2>2 DEF Fresh, Started
    <3> HIDE DEF q
    <3>2. ASSUME tried'[q] # 0
          PROVE  tried'[q] = sched'.event /\ EventTime(pumps'[q], tried'[q]) <= b
      <4>1. ~Edits(c, q) /\ tried'[q] = sched'.event
        BY <1>1, <3>1, <3>2 DEF q
      <4>2. now' - EventTime(m.pumps[q], sched'.event) \in 0..(Window - 1)
        BY <3>1 DEF DueEvents
      <4>3. pumps'[q].at = m.pumps[q].at
        BY <1>1, <3>1, <4>1
      <4>4. sched'.event * DayLen + m.pumps[q].at \in Int
        <5>1. DateKey(now') \in Int /\ DayLen \in Int
          BY <1>2, DueDates, DoserAssumption DEF Dates
        <5>2. sched'.event \in Int
          BY <3>1, <5>1 DEF DueEvents
        <5>3. m.pumps[q].at \in Int
          BY <1>5, <3>1
        <5> QED BY <5>1, <5>2, <5>3
      <4>5. EventTime(pumps'[q], sched'.event) <= now'
        BY <1>4, <4>2, <4>3, <4>4, DoserAssumption DEF EventTime
      <4>6. now' <= b
        BY <1>4 DEF b
      <4>7. EventTime(pumps'[q], sched'.event) \in Int
        BY <4>3, <4>4 DEF EventTime
      <4> QED BY <1>4, <4>1, <4>5, <4>6, <4>7
    <3> QED BY <3>1, <3>2 DEF q
  <2> QED BY <1>1, <1>10, <2>1, <2>2
<1> QED BY <1>9, <1>10 DEF GivenInv, b

\* A restart forgets what was given, or remembers an earlier dose of the same schedule.
LEMMA RestartGiven ==
  ASSUME Inv, NEW back \in Nat, GivenInv(back), Restart
  PROVE  GivenInv(back)'
<1>1. PICK lost \in SUBSET Records, imported \in SUBSET Records,
           failed \in SUBSET {"config", "runtime", "allConfig", "allRuntime"} :
        Recovers(lost, imported, failed)
  BY DEF Restart
<1>2. \E config, runtime :
        /\ pumps' = [p \in Pumps |-> Merged(config[p], runtime[p])]
        /\ given' = [p \in Pumps |-> IF Remembered(p, config, runtime)
                                       THEN runtime[p].lastDose ELSE 0]
  <2>1. /\ flash \in FlashType /\ forgot \subseteq Pumps
        /\ Disabled([pumps |-> pumps, flash |-> flash], forgot)
    BY DEF Inv, TypeOK, Memory
  <2>2. PICK config \in [Pumps -> ConfigType], runtime \in [Pumps -> RuntimeType] :
          EndsWith(config, runtime, failed)
    BY <1>1, <2>1, RecoverParts
  <2> QED BY <2>2 DEF EndsWith
<1>3. PICK config, runtime :
        /\ pumps' = [p \in Pumps |-> Merged(config[p], runtime[p])]
        /\ given' = [p \in Pumps |-> IF Remembered(p, config, runtime)
                                       THEN runtime[p].lastDose ELSE 0]
  BY <1>2
<1>4. events' = events + 1 /\ now' = now /\ sched' = IdleSched
  BY DEF Restart
<1>5. ASSUME NEW p \in Pumps, given'[p] # 0
      PROVE  /\ pumps'[p].lastDose = given'[p]
             /\ EventTime(pumps'[p], given'[p]) <= now' + back * events'
  <2>1. /\ given'[p] = runtime[p].lastDose /\ given'[p] <= given[p]
        /\ config[p].at = pumps[p].at
    BY <1>3, <1>5 DEF Remembered
  <2>2. pumps'[p].lastDose = runtime[p].lastDose /\ pumps'[p].at = config[p].at
    BY <1>3 DEF Merged
  <2>3. given'[p] \in Nat /\ given[p] \in Nat /\ pumps[p].at \in Nat
    <3>1. Inv'
      BY RestartInv
    <3>2. given' \in [Pumps -> Dates] /\ given \in [Pumps -> Dates] /\ pumps \in [Pumps -> PumpType]
      BY <3>1 DEF Inv, TypeOK
    <3>3. Dates \subseteq Nat /\ Minutes \subseteq Nat
      BY DoserAssumption DEF Dates
    <3> QED BY <3>2, <3>3 DEF PumpType
  <2>4. EventTime(pumps[p], given[p]) <= now + back * events
    BY <1>5, <2>1, <2>3 DEF GivenInv
  <2>5. given'[p] * DayLen <= given[p] * DayLen
    <3>1. PICK k \in Nat : given[p] = given'[p] + k
      <4>1. given[p] - given'[p] \in Nat
        BY <2>1, <2>3
      <4> QED BY <2>3, <4>1
    <3>2. /\ (given'[p] + k) * DayLen = given'[p] * DayLen + k * DayLen
          /\ k * DayLen \in Nat /\ given'[p] * DayLen \in Nat
      BY <2>3, DoserAssumption
    <3> QED BY <3>1, <3>2
  <2>6. /\ given'[p] * DayLen \in Nat /\ given[p] * DayLen \in Nat
    BY <2>3, DoserAssumption
  <2>7. now + back * events <= now' + back * events' /\ now + back * events \in Int
          /\ now' + back * events' \in Int
    <3>1. now \in Nat /\ events \in Nat
      BY DoserAssumption DEF Inv, TypeOK
    <3>2. back * (events + 1) = back * events + back /\ back * events \in Nat
      BY <3>1
    <3> QED BY <1>4, <3>1, <3>2
  <2>8. pumps'[p].at = pumps[p].at
    BY <2>1, <2>2
  <2> QED BY <2>1, <2>2, <2>3, <2>4, <2>5, <2>6, <2>7, <2>8 DEF EventTime
<1>6. sched'.state # "Running"
  BY <1>4, IdleOK DEF IdleSched
<1> QED BY <1>5, <1>6 DEF GivenInv

\* Nothing is given at first.
LEMMA InitGiven ==
  ASSUME NEW back \in Nat
  PROVE  Init => GivenInv(back)
<1> SUFFICES ASSUME Init PROVE GivenInv(back)
  OBVIOUS
<1>1. sched = IdleSched /\ given = [p \in Pumps |-> 0]
  BY DEF Init
<1> QED BY <1>1 DEF IdleSched, GivenInv

\* The events of a pass are those of the clock and others.
LEMMA LoopPass ==
  ASSUME Inv, Loop
  PROVE  \E d \in 1..MaxStall, valid \in BOOLEAN, jump \in Jumps \cup {0},
            upload \in {"none", "begin", "end"}, c \in Commands,
            failing \in SUBSET Pumps, k \in Nat :
           /\ Pass(d, jump, valid, upload, c, failing)
           /\ events' = events + One(jump # 0) + k /\ events' <= MaxEvents
<1>1. PICK d \in 1..MaxStall, valid \in BOOLEAN, jump \in Jumps \cup {0},
           upload \in {"none", IF ota THEN "end" ELSE "begin"}, c \in Commands,
           failing \in SUBSET Pumps :
        /\ events' = events + One(jump # 0) + One(upload = "begin") + One(c # NoCommand)
                            + One(failing # {})
        /\ events' <= MaxEvents
        /\ Pass(d, jump, valid, upload, c, failing)
  BY DEF Loop
<1> DEFINE k == One(upload = "begin") + One(c # NoCommand) + One(failing # {})
<1>2. k \in Nat
  BY DEF One
<1>3. events' = events + One(jump # 0) + k
  BY <1>1 DEF Inv, TypeOK, One
<1>4. upload \in {"none", "begin", "end"}
  OBVIOUS
<1> HIDE DEF k
<1> QED BY <1>1, <1>2, <1>3, <1>4

\* Every step keeps what is given the last dose.
LEMMA NextGiven ==
  ASSUME NEW back \in Nat, SetBackAtMost(back)
  PROVE  Inv /\ GivenInv(back) /\ [Next]_vars => GivenInv(back)'
<1> SUFFICES ASSUME Inv, GivenInv(back), [Next]_vars PROVE GivenInv(back)'
  OBVIOUS
<1>1. CASE Loop
  <2>1. PICK d \in 1..MaxStall, valid \in BOOLEAN, jump \in Jumps \cup {0},
             upload \in {"none", "begin", "end"}, c \in Commands,
             failing \in SUBSET Pumps, k \in Nat :
          /\ Pass(d, jump, valid, upload, c, failing)
          /\ events' = events + One(jump # 0) + k /\ events' <= MaxEvents
    BY <1>1, LoopPass
  <2> QED BY <2>1, PassGiven
<1>2. CASE Restart
  BY <1>2, RestartGiven
<1>3. CASE UNCHANGED vars
  BY <1>3 DEF vars, GivenInv
<1> QED BY <1>1, <1>2, <1>3 DEF Next

\* A dose that starts is not one of a day up to that of the last dose.
LEMMA FreshIsLater ==
  ASSUME NEW back \in Nat, SetBackAtMost(back), NEW r, NEW t \in Instants,
         NEW e \in DueEvents(r, t), NEW g \in Nat, g # 0 => e # g,
         r.at \in Nat, NEW n \in 0..MaxEvents,
         g # 0 => EventTime(r, g) <= t + back * n
  PROVE  e > g
<1>1. /\ DayLen \in Nat \ {0} /\ Window \in Nat /\ MaxEvents \in Nat /\ t \in Int
      /\ Ahead \in Nat /\ t >= 2 * DayLen /\ n \in Nat /\ n <= MaxEvents
  BY DoserAssumption DEF Instants, FirstDay
<1>2. e \in Nat /\ e > 0
  <2>1. DateKey(t) \in Nat /\ t + Ahead - DateKey(t) * DayLen \in 0..(DayLen - 1)
    BY <1>1, Days
  <2>2. DateKey(t) # 0 /\ DateKey(t) # 1
    BY <1>1, <2>1
  <2>3. e = DateKey(t) \/ e = DateKey(t) - 1
    BY DEF DueEvents
  <2> QED BY <2>1, <2>2, <2>3
<1>3. EventTime(r, e) + Window > t
  <2>1. t - EventTime(r, e) \in 0..(Window - 1)
    BY DEF DueEvents
  <2>2. EventTime(r, e) \in Int
    BY <1>1, <1>2 DEF EventTime
  <2> QED BY <1>1, <2>1, <2>2
<1>4. ASSUME g # 0, e < g PROVE FALSE
  <2>1. PICK k \in Nat : g = e + 1 + k
    <3>1. g - e - 1 \in Nat
      BY <1>2, <1>4
    <3> QED BY <3>1, <1>2
  <2>2. /\ (e + 1 + k) * DayLen = e * DayLen + DayLen + k * DayLen
        /\ k * DayLen \in Nat /\ e * DayLen \in Nat
    BY <1>1, <1>2
  <2>3. EventTime(r, g) >= EventTime(r, e) + DayLen
    <3>1. g * DayLen = e * DayLen + DayLen + k * DayLen
      BY <2>1, <2>2
    <3> QED BY <1>1, <2>2, <3>1 DEF EventTime
  <2>4. PICK i \in Nat : MaxEvents = n + i
    <3>1. MaxEvents - n \in Nat
      BY <1>1
    <3> QED BY <1>1, <3>1
  <2>5. back * (n + i) = back * n + back * i /\ back * i \in Nat /\ back * n \in Nat
    BY <1>1
  <2>6. MaxEvents * back + Window <= DayLen /\ MaxEvents * back = back * (n + i)
    <3>1. MaxEvents * back = back * MaxEvents
      BY <1>1
    <3> QED BY <2>4, <3>1 DEF SetBackAtMost
  <2>7. EventTime(r, e) \in Int /\ EventTime(r, g) \in Int
    BY <1>1, <1>2 DEF EventTime
  <2> QED BY <1>1, <1>3, <1>4, <2>3, <2>5, <2>6, <2>7
<1> QED BY <1>2, <1>4

\* In no step does a pump start with the event it was given, or an earlier one.
LEMMA StepNotRepeated ==
  ASSUME NEW back \in Nat, SetBackAtMost(back), Inv, GivenInv(back), [Next]_vars,
         NEW p \in Pumps, Starts(p)
  PROVE  sched'.event > given[p]
<1>1. CASE Loop
  <2>1. PICK d \in 1..MaxStall, valid \in BOOLEAN, jump \in Jumps \cup {0},
             upload \in {"none", "begin", "end"}, c \in Commands,
             failing \in SUBSET Pumps, k \in Nat :
          /\ Pass(d, jump, valid, upload, c, failing)
          /\ events' = events + One(jump # 0) + k /\ events' <= MaxEvents
    BY <1>1, LoopPass
  <2>2. now' = now + d + jump /\ now' \in Instants
    BY <2>1, PassEffect
  <2>3. \E m \in MemType, served \in BOOLEAN :
          /\ sched'.state = "Running" => sched' = Aged(sched, d) \/ Fresh(sched', m, now')
          /\ \/ ~served /\ \A q \in Pumps : SameDose(pumps[q], m.pumps[q])
             \/ /\ served /\ sched.state = "Running"
                /\ \A q \in Pumps : q # sched.active => SameDose(pumps[q], m.pumps[q])
                /\ m.pumps[sched.active].at = pumps[sched.active].at
                /\ m.pumps[sched.active].lastDose = sched.event
    BY <2>1, PassEffect
  <2>4. PICK m \in MemType :
          /\ sched'.state = "Running" => sched' = Aged(sched, d) \/ Fresh(sched', m, now')
          /\ sched.state # "Running" => SameDose(pumps[p], m.pumps[p])
    BY <2>3
  <2>5. Aged(sched, d).state = sched.state
    BY DriverStep DEF Inv
  <2>6. Fresh(sched', m, now') /\ SameDose(pumps[p], m.pumps[p]) /\ sched'.active = p
    BY <2>4, <2>5 DEF Starts
  <2>7. now + back * events <= now' + back * events'
    BY <2>1, <2>2, PassClock
  <2>8. /\ sched'.event \in DueEvents(m.pumps[p], now') /\ sched'.event # pumps[p].lastDose
        /\ m.pumps[p].at = pumps[p].at
    BY <2>6 DEF Fresh, SameDose
  <2>9. given[p] \in Nat /\ m.pumps[p].at \in Nat
    <3>1. given \in [Pumps -> Dates] /\ Dates \subseteq Nat /\ m.pumps \in [Pumps -> PumpType]
      BY DEF Inv, TypeOK, MemType, Dates
    <3>2. Minutes \subseteq Nat
      BY DoserAssumption
    <3> QED BY <3>1, <3>2 DEF PumpType
  <2>10. events' \in 0..MaxEvents /\ events \in Nat /\ now \in Nat /\ now' \in Nat
    BY <2>1, <2>2, DoserAssumption DEF Inv, TypeOK, One, Instants, FirstDay
  <2>11. given[p] # 0 => /\ sched'.event # given[p]
                         /\ EventTime(m.pumps[p], given[p]) <= now' + back * events'
    <3>1. SUFFICES ASSUME given[p] # 0
                   PROVE  /\ sched'.event # given[p]
                          /\ EventTime(m.pumps[p], given[p]) <= now' + back * events'
      OBVIOUS
    <3>2. pumps[p].lastDose = given[p] /\ EventTime(pumps[p], given[p]) <= now + back * events
      BY <3>1 DEF GivenInv
    <3>3. back * events \in Nat /\ back * events' \in Nat
      <4>1. events \in Nat /\ events' \in Nat
        BY <2>10, DoserAssumption
      <4>2. \A n \in Nat : back * n \in Nat
        OBVIOUS
      <4> QED BY <4>1, <4>2
    <3>4. EventTime(m.pumps[p], given[p]) <= now' + back * events'
      BY <2>7, <2>8, <2>9, <2>10, <3>2, <3>3, StillDue
    <3> QED BY <2>8, <3>2, <3>4
  <2> QED BY <2>2, <2>8, <2>9, <2>10, <2>11, FreshIsLater
<1>2. CASE Restart
  <2>1. sched' = IdleSched
    BY <1>2 DEF Restart
  <2> QED BY <2>1 DEF IdleSched, Starts
<1>3. CASE UNCHANGED vars
  BY <1>3 DEF vars, Starts
<1> QED BY <1>1, <1>2, <1>3 DEF Next

(***************************************************************************)
(* SchedulerManager and StorageManager: as long as all corrections of the   *)
(* clock together set it back by no more than a day less a window, a dose   *)
(* that was completed under the time that is set, and recorded, is never    *)
(* given again, across restarts, failed writes, uploads and edits.          *)
(***************************************************************************)
THEOREM NoDoseRepeated ==
  ASSUME NEW back \in Nat, SetBackAtMost(back)
  PROVE  Spec => DoseNotRepeated
<1>1. Init => GivenInv(back)
  BY InitGiven
<1>2. Inv /\ GivenInv(back) /\ [Next]_vars => GivenInv(back)'
  BY NextGiven
<1>3. Inv /\ GivenInv(back) /\ [Next]_vars
        => [\A p \in Pumps : Starts(p) => sched'.event > given[p]]_vars
  BY StepNotRepeated
<1> QED BY <1>1, <1>2, <1>3, InvAlways, PTL DEF Spec, DoseNotRepeated

-----------------------------------------------------------------------------
(***************************************************************************)
(* NothingMissed.  A pump that waits has been overtaken only by doses that  *)
(* other pumps got since, and each pump gets one at most before the next    *)
(* day.  What a dose takes, with the gap after it and the two passes that   *)
(* may come late, is Cost(D) at most.                                       *)
(***************************************************************************)
Cost(D) == D + Gap + 2 * (MaxStall - 1)

\* Every pump gets its dose of at most D within the window even if all fall due at once, the
\* first pass comes late and this pump is the last; and a window, and what may have been served
\* before it, are over within a day.
ScheduleFits(D) ==
  /\ \A first \in Schedules : \A p \in Pumps : first[p].dose <= D
  /\ (PumpCount - 1) * Cost(D) + MaxStall < Window
  /\ 2 * Window + Cost(D) <= DayLen /\ Window + Ahead <= DayLen

\* The instant of an event: EventTime for a dose at time `at'.
Moment(at, e) == e * DayLen + at
\* The pumps that may have been served since pump p falls due at event e, when their hours are
\* those of at, and their last events, or those of the run, those of cur.
Overtaking(at, cur, p, e, D) ==
  {q \in Pumps \ {p} : Moment(at[q], cur[q]) > Moment(at[p], e) - Window - Cost(D)}
Crowd(at, cur, p, e, D) == Cardinality(Overtaking(at, cur, p, e, D))
\* What all these take.
Taken(at, cur, p, e, D) == Cost(D) * Crowd(at, cur, p, e, D)

\* Pump p waits for its event e at u.
Waiting(at, cur, u, p, e) == e >= FirstDay /\ cur[p] < e /\ Moment(at[p], e) <= u
\* It waits no longer than they took; the one that runs, or has run before the gap, included.
OnTime(at, cur, s, u, p, e, D) ==
  \/ s.state = "Idle" /\ u = Moment(at[p], e)
  \/ /\ s.state = "Running"
     /\ u - Moment(at[p], e) + Cost(D) <= Taken(at, cur, p, e, D) + MaxStall + s.age
  \/ /\ s.state = "Gap"
     /\ u - Moment(at[p], e) + Gap <= Taken(at, cur, p, e, D) + s.age + 1
Punctual(at, cur, s, u, D) ==
  \A p \in Pumps, e \in Nat : Waiting(at, cur, u, p, e) => OnTime(at, cur, s, u, p, e, D)
\* The same, g into the gap.
GapBound(at, cur, u, g, D) ==
  \A p \in Pumps, e \in Nat : Waiting(at, cur, u, p, e) =>
    u - Moment(at[p], e) + Gap <= Taken(at, cur, p, e, D) + g + 1
\* The same, where the next dose may start.
Free(at, cur, u, D) ==
  \A p \in Pumps, e \in Nat : Waiting(at, cur, u, p, e) =>
    u - Moment(at[p], e) <= Taken(at, cur, p, e, D) + MaxStall

\* What is known of the run or the gap: when it began, and for which event.
RunKnown(at, cur, s, u, D) ==
  /\ s.state \in {"Idle", "Running", "Gap"} /\ s.age \in Nat
  /\ s.state = "Running" => /\ s.active \in Pumps /\ s.age < D
                            /\ u - s.age - Moment(at[s.active], cur[s.active]) < Window
  /\ s.state = "Gap" => /\ s.age < Gap
                        /\ \E q \in Pumps :
                             u - s.age - Moment(at[q], cur[q]) < Window + D + MaxStall - 1

Hours == [Pumps -> 0..(DayLen - 1)]
\* Pump q has got on to event f.
Advanced(cur, new, q, f) == new[q] = f /\ \A r \in Pumps \ {q} : new[r] = cur[r]

\* The numbers of this section.
LEMMA Numbers ==
  ASSUME NEW D \in Nat, ScheduleFits(D)
  PROVE  /\ DayLen \in Nat \ {0} /\ Window \in Nat \ {0} /\ Gap \in Nat /\ MaxStall \in Nat \ {0}
         /\ MaxRun \in Nat /\ Ahead \in Nat /\ Ahead < DayLen /\ PumpCount \in 1..8
         /\ Cost(D) \in Nat /\ Cost(D) = D + Gap + 2 * (MaxStall - 1)
         /\ MaxStall < Window /\ 2 * Window + Cost(D) <= DayLen /\ Window + Ahead <= DayLen
<1>1. /\ DayLen \in Nat \ {0} /\ Window \in Nat \ {0} /\ Gap \in Nat /\ MaxStall \in Nat \ {0}
      /\ MaxRun \in Nat /\ Ahead \in Nat /\ Ahead < DayLen /\ PumpCount \in 1..8
  BY DoserAssumption
<1>2. Cost(D) \in Nat /\ Cost(D) = D + Gap + 2 * (MaxStall - 1)
  BY <1>1 DEF Cost
<1>3. \A j, c \in Nat : j * c \in Nat
  OBVIOUS
<1>4. (PumpCount - 1) * Cost(D) \in Nat
  BY <1>1, <1>2, <1>3
<1> QED BY <1>1, <1>2, <1>4 DEF ScheduleFits

\* The events of a pump are a day apart.
LEMMA NextMoment ==
  ASSUME NEW a \in 0..(DayLen - 1), NEW e \in Nat, NEW f \in Nat
  PROVE  /\ Moment(a, e) \in Nat /\ Moment(a, f) \in Nat
         /\ e < f => Moment(a, f) >= Moment(a, e) + DayLen
<1>1. DayLen \in Nat \ {0} /\ a \in Nat
  BY DoserAssumption
<1>2. \A i, j \in Nat : i * j \in Nat
  OBVIOUS
<1>3. ASSUME e < f PROVE f * DayLen >= e * DayLen + DayLen
  <2>1. PICK k \in Nat : f = e + 1 + k
    <3>1. f - e - 1 \in Nat
      BY <1>3
    <3> QED BY <3>1
  <2>2. (e + 1 + k) * DayLen = e * DayLen + DayLen + k * DayLen
    BY <1>1
  <2>3. k * DayLen \in Nat /\ e * DayLen \in Nat
    BY <1>1, <1>2
  <2> QED BY <1>1, <2>1, <2>2, <2>3
<1>4. e * DayLen \in Nat /\ f * DayLen \in Nat
  BY <1>1, <1>2
<1> QED BY <1>1, <1>3, <1>4 DEF Moment

\* At most all the other pumps overtake one.
LEMMA CrowdBound ==
  ASSUME NEW D \in Nat, ScheduleFits(D), NEW at, NEW cur, NEW p \in Pumps, NEW e
  PROVE  /\ IsFiniteSet(Overtaking(at, cur, p, e, D))
         /\ Crowd(at, cur, p, e, D) \in 0..(PumpCount - 1)
         /\ Taken(at, cur, p, e, D) \in Nat
         /\ Taken(at, cur, p, e, D) + MaxStall < Window
<1> DEFINE S == Overtaking(at, cur, p, e, D)
           n == Cardinality(S)
<1>1. PumpCount \in 1..8 /\ Cost(D) \in Nat /\ MaxStall \in Nat /\ Window \in Nat
  BY Numbers
<1>2. IsFiniteSet(Pumps) /\ Cardinality(Pumps) = PumpCount
  <2>1. 1 \in Int /\ PumpCount \in Int /\ ~(1 > PumpCount) /\ PumpCount - 1 + 1 = PumpCount
    BY <1>1
  <2> QED BY <2>1, FS_Interval DEF Pumps
<1>3. IsFiniteSet(Pumps \ {p}) /\ Cardinality(Pumps \ {p}) = PumpCount - 1
  BY <1>2, FS_RemoveElement
<1>4. S \in SUBSET (Pumps \ {p})
  BY DEF Overtaking
<1> HIDE DEF S
<1>5. IsFiniteSet(S) /\ n <= PumpCount - 1
  BY <1>3, <1>4, FS_Subset
<1>6. n \in Nat
  BY <1>5, FS_CardinalityType
<1> HIDE DEF n
<1>7. Cost(D) * n \in Nat /\ Cost(D) * n <= (PumpCount - 1) * Cost(D)
  <2>1. PICK k \in Nat : PumpCount - 1 = n + k
    <3>1. PumpCount - 1 - n \in Nat
      BY <1>1, <1>5, <1>6
    <3> QED BY <3>1, <1>1, <1>6
  <2> DEFINE c == Cost(D)
  <2>2. c \in Nat
    BY <1>1
  <2> HIDE DEF c
  <2>3. (n + k) * c = c * n + c * k
    BY <1>6, <2>2
  <2>4. \A i, j \in Nat : i * j \in Nat
    OBVIOUS
  <2>5. c * n \in Nat /\ c * k \in Nat
    BY <1>6, <2>2, <2>4
  <2>6. c * n <= (PumpCount - 1) * c
    BY <2>1, <2>3, <2>5
  <2> QED BY <2>5, <2>6 DEF c
<1>8. (PumpCount - 1) * Cost(D) \in Int
  BY <1>1
<1>9. Cost(D) * n + MaxStall < Window
  BY <1>1, <1>7, <1>8 DEF ScheduleFits
<1>10. Crowd(at, cur, p, e, D) = n
  BY DEF Crowd, n, S
<1>11. Taken(at, cur, p, e, D) = Cost(D) * n
  BY <1>10 DEF Taken
<1> QED BY <1>1, <1>5, <1>6, <1>7, <1>9, <1>10, <1>11 DEF S

\* A pump that starts adds one to the crowd before every pump that waits.
LEMMA CrowdGrows ==
  ASSUME NEW D \in Nat, ScheduleFits(D), NEW at \in Hours, NEW cur \in [Pumps -> Nat],
         NEW u \in Nat, NEW p \in Pumps, NEW e \in Nat, Waiting(at, cur, u, p, e),
         u - Moment(at[p], e) < Window,
         NEW q \in Pumps \ {p}, NEW f \in Nat, cur[q] < f,
         Moment(at[q], f) <= u, u - Moment(at[q], f) < Window,
         NEW new, Advanced(cur, new, q, f)
  PROVE  Crowd(at, new, p, e, D) = Crowd(at, cur, p, e, D) + 1
<1> DEFINE S == Overtaking(at, cur, p, e, D)
<1>1. /\ DayLen \in Nat \ {0} /\ Window \in Nat /\ Cost(D) \in Nat
      /\ 2 * Window + Cost(D) <= DayLen
  BY Numbers
<1>2. /\ Moment(at[p], e) \in Nat /\ Moment(at[q], f) \in Nat /\ Moment(at[q], cur[q]) \in Nat
      /\ Moment(at[q], f) >= Moment(at[q], cur[q]) + DayLen
  BY NextMoment DEF Hours
<1>3. Moment(at[p], e) <= u
  BY DEF Waiting
<1>4. q \notin S
  BY <1>1, <1>2, <1>3 DEF Overtaking
<1>5. Overtaking(at, new, p, e, D) = S \cup {q}
  <2>1. Moment(at[q], f) > Moment(at[p], e) - Window - Cost(D)
    BY <1>1, <1>2, <1>3
  <2> QED BY <2>1 DEF Overtaking, Advanced
<1>6. IsFiniteSet(S)
  BY CrowdBound
<1> HIDE DEF S
<1>7. Cardinality(S \cup {q}) = Cardinality(S) + 1
  BY <1>4, <1>6, FS_AddElement
<1> QED BY <1>5, <1>7 DEF Crowd, S

\* A pump that was served shortly before is one of those that overtook a pump that waits.
LEMMA Overtaken ==
  ASSUME NEW D \in Nat, ScheduleFits(D), NEW at \in Hours, NEW cur \in [Pumps -> Nat],
         NEW u \in Nat, NEW q \in Pumps, u - Moment(at[q], cur[q]) < Window + Cost(D),
         NEW p \in Pumps, NEW e \in Nat, Waiting(at, cur, u, p, e)
  PROVE  Taken(at, cur, p, e, D) >= Cost(D)
<1> DEFINE S == Overtaking(at, cur, p, e, D)
           n == Crowd(at, cur, p, e, D)
<1>1. /\ DayLen \in Nat \ {0} /\ Window \in Nat /\ Cost(D) \in Nat
      /\ 2 * Window + Cost(D) <= DayLen
  BY Numbers
<1>2. /\ Moment(at[p], e) \in Nat /\ Moment(at[q], cur[q]) \in Nat
      /\ p = q => Moment(at[p], e) >= Moment(at[q], cur[q]) + DayLen
  BY NextMoment DEF Hours, Waiting
<1>3. Moment(at[p], e) <= u
  BY DEF Waiting
<1>4. q \in S
  BY <1>1, <1>2, <1>3 DEF Overtaking
<1>5. IsFiniteSet(S) /\ Cardinality(S) = n
  BY CrowdBound DEF Crowd
<1>6. n \in Nat /\ n # 0
  <2>1. S # {}
    BY <1>4
  <2> HIDE DEF S, n
  <2> QED BY <2>1, <1>5, FS_EmptySet, FS_CardinalityType
<1> HIDE DEF n
<1>7. PICK k \in Nat : n = k + 1
  <2>1. n - 1 \in Nat
    BY <1>6
  <2> QED BY <2>1, <1>6
<1> DEFINE c == Cost(D)
<1>8. c \in Nat
  BY <1>1
<1> HIDE DEF c
<1>9. c * (k + 1) = c * k + c /\ c * k \in Nat
  <2>1. \A i, j \in Nat : i * j \in Nat
    OBVIOUS
  <2> QED BY <1>8, <2>1
<1> QED BY <1>7, <1>8, <1>9 DEF c, n, Taken

\* A pump that waits after a pass waited before it, or is due since.
LEMMA WaitedBefore ==
  ASSUME NEW D \in Nat, ScheduleFits(D), NEW at \in Hours, NEW cur \in [Pumps -> Nat],
         NEW u \in Nat, NEW d \in 1..MaxStall, NEW w \in Nat, w = u + d,
         NEW p \in Pumps, NEW e \in Nat, Waiting(at, cur, w, p, e)
  PROVE  /\ Moment(at[p], e) \in Nat
         /\ Waiting(at, cur, u, p, e) \/ w - Moment(at[p], e) < MaxStall
<1>1. Moment(at[p], e) \in Nat
  BY NextMoment DEF Hours
<1>2. MaxStall \in Nat
  BY Numbers
<1> QED BY <1>1, <1>2 DEF Waiting

\* A pass in which the run goes on.
LEMMA RunGoesOn ==
  ASSUME NEW D \in Nat, ScheduleFits(D), NEW at \in Hours, NEW cur \in [Pumps -> Nat],
         NEW u \in Nat, NEW d \in 1..MaxStall, NEW w \in Nat, w = u + d,
         NEW s, RunKnown(at, cur, s, u, D),
         Punctual(at, cur, s, u, D), s.state = "Running",
         NEW v, v.state = "Running", v.age = s.age + d, v.active = s.active, v.age < D
  PROVE  Punctual(at, cur, v, w, D) /\ RunKnown(at, cur, v, w, D)
<1>1. /\ Gap \in Nat /\ MaxStall \in Nat \ {0} /\ Cost(D) \in Nat /\ Window \in Nat
      /\ Cost(D) = D + Gap + 2 * (MaxStall - 1) /\ d \in Nat /\ d <= MaxStall
  BY Numbers
<1>2. /\ s.age \in Nat /\ s.active \in Pumps
      /\ u - s.age - Moment(at[s.active], cur[s.active]) < Window
  BY DEF RunKnown
<1>3. Moment(at[s.active], cur[s.active]) \in Nat
  BY <1>2, NextMoment DEF Hours
<1>4. RunKnown(at, cur, v, w, D)
  <2>1. w - v.age = u - s.age
    BY <1>2
  <2> QED BY <1>2, <2>1 DEF RunKnown
<1>5. ASSUME NEW p \in Pumps, NEW e \in Nat, Waiting(at, cur, w, p, e)
      PROVE  w - Moment(at[p], e) + Cost(D) <= Taken(at, cur, p, e, D) + MaxStall + v.age
  <2>1. /\ Moment(at[p], e) \in Nat /\ Taken(at, cur, p, e, D) \in Nat
        /\ Waiting(at, cur, u, p, e) \/ w - Moment(at[p], e) < MaxStall
    BY <1>5, WaitedBefore, CrowdBound
  <2>2. CASE Waiting(at, cur, u, p, e)
    <3>1. u - Moment(at[p], e) + Cost(D) <= Taken(at, cur, p, e, D) + MaxStall + s.age
      BY <2>2 DEF Punctual, OnTime
    <3> QED BY <1>1, <1>2, <2>1, <3>1
  <2>3. CASE w - Moment(at[p], e) < MaxStall
    <3>1. w - Moment(at[s.active], cur[s.active]) < Window + Cost(D)
      BY <1>1, <1>2, <1>3
    <3>2. Taken(at, cur, p, e, D) >= Cost(D)
      BY <1>1, <1>2, <1>5, <3>1, Overtaken
    <3> QED BY <1>1, <1>2, <2>1, <2>3, <3>2
  <2> QED BY <2>1, <2>2, <2>3
<1> QED BY <1>4, <1>5 DEF Punctual, OnTime

\* A pass that ends the run.
LEMMA RunEnds ==
  ASSUME NEW D \in Nat, ScheduleFits(D), NEW at \in Hours, NEW cur \in [Pumps -> Nat],
         NEW u \in Nat, NEW d \in 1..MaxStall, NEW w \in Nat, w = u + d,
         NEW s, RunKnown(at, cur, s, u, D),
         Punctual(at, cur, s, u, D), s.state = "Running"
  PROVE  /\ GapBound(at, cur, w, 0, D)
         /\ \E q \in Pumps : w - Moment(at[q], cur[q]) < Window + D + MaxStall - 1
<1>1. /\ Gap \in Nat /\ MaxStall \in Nat \ {0} /\ Cost(D) \in Nat /\ Window \in Nat
      /\ Cost(D) = D + Gap + 2 * (MaxStall - 1) /\ d \in Nat /\ d <= MaxStall
  BY Numbers
<1>2. /\ s.age \in Nat /\ s.active \in Pumps /\ s.age < D
      /\ u - s.age - Moment(at[s.active], cur[s.active]) < Window
  BY DEF RunKnown
<1>3. Moment(at[s.active], cur[s.active]) \in Nat
  BY <1>2, NextMoment DEF Hours
<1>4. w - Moment(at[s.active], cur[s.active]) < Window + D + MaxStall - 1
  BY <1>1, <1>2, <1>3
<1>5. ASSUME NEW p \in Pumps, NEW e \in Nat, Waiting(at, cur, w, p, e)
      PROVE  w - Moment(at[p], e) + Gap <= Taken(at, cur, p, e, D) + 0 + 1
  <2>1. /\ Moment(at[p], e) \in Nat /\ Taken(at, cur, p, e, D) \in Nat
        /\ Waiting(at, cur, u, p, e) \/ w - Moment(at[p], e) < MaxStall
    BY <1>5, WaitedBefore, CrowdBound
  <2>2. CASE Waiting(at, cur, u, p, e)
    <3>1. u - Moment(at[p], e) + Cost(D) <= Taken(at, cur, p, e, D) + MaxStall + s.age
      BY <2>2 DEF Punctual, OnTime
    <3> QED BY <1>1, <1>2, <2>1, <3>1
  <2>3. CASE w - Moment(at[p], e) < MaxStall
    <3>1. w - Moment(at[s.active], cur[s.active]) < Window + Cost(D)
      BY <1>1, <1>3, <1>4
    <3>2. Taken(at, cur, p, e, D) >= Cost(D)
      BY <1>1, <1>2, <1>5, <3>1, Overtaken
    <3> QED BY <1>1, <1>2, <2>1, <2>3, <3>2
  <2> QED BY <2>1, <2>2, <2>3
<1> QED BY <1>2, <1>4, <1>5 DEF GapBound

\* A pass in the gap.
LEMMA GapGoesOn ==
  ASSUME NEW D \in Nat, ScheduleFits(D), NEW at \in Hours, NEW cur \in [Pumps -> Nat],
         NEW u \in Nat, NEW d \in 1..MaxStall, NEW w \in Nat, w = u + d,
         NEW s, RunKnown(at, cur, s, u, D),
         Punctual(at, cur, s, u, D), s.state = "Gap", NEW g, g = s.age + d
  PROVE  GapBound(at, cur, w, g, D)
<1>1. /\ Gap \in Nat /\ MaxStall \in Nat \ {0} /\ Cost(D) \in Nat /\ Window \in Nat
      /\ Cost(D) = D + Gap + 2 * (MaxStall - 1) /\ d \in Nat /\ d <= MaxStall
  BY Numbers
<1>2. s.age \in Nat /\ s.age < Gap
  BY DEF RunKnown
<1>3. PICK q \in Pumps : u - s.age - Moment(at[q], cur[q]) < Window + D + MaxStall - 1
  BY DEF RunKnown
<1>4. Moment(at[q], cur[q]) \in Nat
  BY NextMoment DEF Hours
<1>5. ASSUME NEW p \in Pumps, NEW e \in Nat, Waiting(at, cur, w, p, e)
      PROVE  w - Moment(at[p], e) + Gap <= Taken(at, cur, p, e, D) + g + 1
  <2>1. /\ Moment(at[p], e) \in Nat /\ Taken(at, cur, p, e, D) \in Nat
        /\ Waiting(at, cur, u, p, e) \/ w - Moment(at[p], e) < MaxStall
    BY <1>5, WaitedBefore, CrowdBound
  <2>2. CASE Waiting(at, cur, u, p, e)
    <3>1. u - Moment(at[p], e) + Gap <= Taken(at, cur, p, e, D) + s.age + 1
      BY <2>2 DEF Punctual, OnTime
    <3> QED BY <1>1, <1>2, <2>1, <3>1
  <2>3. CASE w - Moment(at[p], e) < MaxStall
    <3>1. w - Moment(at[q], cur[q]) < Window + Cost(D)
      BY <1>1, <1>2, <1>3, <1>4
    <3>2. Taken(at, cur, p, e, D) >= Cost(D)
      BY <1>1, <1>5, <3>1, Overtaken
    <3> QED BY <1>1, <1>2, <2>1, <2>3, <3>2
  <2> QED BY <2>1, <2>2, <2>3
<1> QED BY <1>5 DEF GapBound

\* A pass when no pump is due.
LEMMA IdleGoesOn ==
  ASSUME NEW D \in Nat, ScheduleFits(D), NEW at \in Hours, NEW cur \in [Pumps -> Nat],
         NEW u \in Nat, NEW d \in 1..MaxStall, NEW w \in Nat, w = u + d,
         NEW s, Punctual(at, cur, s, u, D), s.state = "Idle"
  PROVE  Free(at, cur, w, D)
<1> SUFFICES ASSUME NEW p \in Pumps, NEW e \in Nat, Waiting(at, cur, w, p, e)
             PROVE  w - Moment(at[p], e) <= Taken(at, cur, p, e, D) + MaxStall
  BY DEF Free
<1>1. /\ Moment(at[p], e) \in Nat
      /\ Waiting(at, cur, u, p, e) \/ w - Moment(at[p], e) < MaxStall
  BY WaitedBefore
<1>2. Waiting(at, cur, u, p, e) => u = Moment(at[p], e)
  BY DEF Punctual, OnTime
<1>3. Taken(at, cur, p, e, D) \in Nat
  BY CrowdBound
<1>4. MaxStall \in Nat
  BY Numbers
<1> QED BY <1>1, <1>2, <1>3, <1>4

\* A gap that is over, or has just begun, leaves the driver free in time.
LEMMA GapFrees ==
  ASSUME NEW D \in Nat, ScheduleFits(D), NEW at \in Hours, NEW cur \in [Pumps -> Nat],
         NEW u \in Nat, NEW g \in Nat, g < Gap + MaxStall, GapBound(at, cur, u, g, D)
  PROVE  Free(at, cur, u, D)
<1> SUFFICES ASSUME NEW p \in Pumps, NEW e \in Nat, Waiting(at, cur, u, p, e)
             PROVE  u - Moment(at[p], e) <= Taken(at, cur, p, e, D) + MaxStall
  BY DEF Free
<1>1. Moment(at[p], e) \in Nat /\ Taken(at, cur, p, e, D) \in Nat /\ Gap \in Nat /\ MaxStall \in Nat
  BY NextMoment, CrowdBound, Numbers DEF Hours
<1>2. u - Moment(at[p], e) + Gap <= Taken(at, cur, p, e, D) + g + 1
  BY DEF GapBound
<1> QED BY <1>1, <1>2

\* So no wait is as long as the window.
LEMMA FreeInTime ==
  ASSUME NEW D \in Nat, ScheduleFits(D), NEW at \in Hours, NEW cur \in [Pumps -> Nat],
         NEW u \in Nat, Free(at, cur, u, D), NEW p \in Pumps, NEW e \in Nat,
         Waiting(at, cur, u, p, e)
  PROVE  u - Moment(at[p], e) \in 0..(Window - 1)
<1>1. /\ Moment(at[p], e) \in Nat /\ Taken(at, cur, p, e, D) \in Nat
      /\ Taken(at, cur, p, e, D) + MaxStall < Window
      /\ MaxStall \in Nat /\ Window \in Nat /\ Moment(at[p], e) <= u
  BY NextMoment, CrowdBound, Numbers DEF Hours, Waiting
<1>2. u - Moment(at[p], e) <= Taken(at, cur, p, e, D) + MaxStall
  BY DEF Free
<1> QED BY <1>1, <1>2

\* The pump that starts keeps the others punctual.
LEMMA StartPunctual ==
  ASSUME NEW D \in Nat, ScheduleFits(D), NEW at \in Hours, NEW cur \in [Pumps -> Nat],
         NEW u \in Nat, Free(at, cur, u, D),
         NEW q \in Pumps, NEW f \in Nat, cur[q] < f,
         Moment(at[q], f) <= u, u - Moment(at[q], f) < Window,
         NEW v, v.state = "Running", v.age = 0, NEW new, Advanced(cur, new, q, f)
  PROVE  Punctual(at, new, v, u, D)
<1>1. /\ DayLen \in Nat \ {0} /\ Window \in Nat /\ Cost(D) \in Nat /\ MaxStall \in Nat
      /\ 2 * Window + Cost(D) <= DayLen
  BY Numbers
<1>2. ASSUME NEW p \in Pumps, NEW e \in Nat, Waiting(at, new, u, p, e)
      PROVE  u - Moment(at[p], e) + Cost(D) <= Taken(at, new, p, e, D) + MaxStall + v.age
  <2>1. p # q
    <3> SUFFICES ASSUME p = q PROVE FALSE
      OBVIOUS
    <3>1. f < e /\ Moment(at[p], e) <= u
      BY <1>2 DEF Waiting, Advanced
    <3>2. /\ Moment(at[p], e) \in Nat /\ Moment(at[q], f) \in Nat
          /\ Moment(at[p], e) >= Moment(at[q], f) + DayLen
      BY <3>1, NextMoment DEF Hours
    <3> QED BY <1>1, <3>1, <3>2
  <2>2. Waiting(at, cur, u, p, e)
    BY <1>2, <2>1 DEF Waiting, Advanced
  <2>3. u - Moment(at[p], e) \in 0..(Window - 1)
    BY <2>2, FreeInTime
  <2>4. Taken(at, new, p, e, D) = Taken(at, cur, p, e, D) + Cost(D)
    <3>1. u - Moment(at[p], e) < Window /\ q \in Pumps \ {p}
      BY <1>1, <2>1, <2>3
    <3>2. Crowd(at, new, p, e, D) = Crowd(at, cur, p, e, D) + 1
      BY <2>2, <3>1, CrowdGrows
    <3>3. \A i, j \in Nat : i * (j + 1) = i * j + i
      OBVIOUS
    <3>4. Crowd(at, cur, p, e, D) \in Nat
      BY CrowdBound
    <3> QED BY <1>1, <3>2, <3>3, <3>4 DEF Taken
  <2>5. Taken(at, cur, p, e, D) \in Nat
    BY CrowdBound
  <2>6. u - Moment(at[p], e) <= Taken(at, cur, p, e, D) + MaxStall
    BY <2>2 DEF Free
  <2>7. Moment(at[p], e) \in Nat
    BY NextMoment DEF Hours
  <2> QED BY <1>1, <2>4, <2>5, <2>6, <2>7
<1> QED BY <1>2 DEF Punctual, OnTime

\* The hours and the events of the pumps m under the scheduler's state s.
HoursOf(m) == [p \in Pumps |-> m[p].at]
EventsOf(m, s) ==
  [p \in Pumps |-> IF s.state = "Running" /\ s.active = p THEN s.event ELSE m[p].lastDose]
\* A pump that doses every day, and has missed none.
Healthy(r, u, D) ==
  /\ r.enabled /\ r.days = 0..(Week - 1) /\ r.dose \in 1..D /\ r.lastMissed = 0
  /\ EventTime(r, r.lastDose) <= u
\* The conditions of NothingMissed on a pump.
Servable(r) == r.dose + MaxStall <= MaxRun + 1 /\ r.remaining >= r.dose

\* All is served in time: driver v, scheduler s and the pumps m at u.
Serving(v, s, m, u, D) ==
  /\ s.state # "Running" => v.pump = None
  /\ \A p \in Pumps : Healthy(m[p], u, D)
  /\ s.state = "Running" => /\ s.plan = m[s.active].dose /\ s.age < s.plan
                            /\ EventTime(m[s.active], s.event) <= u
  /\ RunKnown(HoursOf(m), EventsOf(m, s), s, u, D)
  /\ Punctual(HoursOf(m), EventsOf(m, s), s, u, D)

\* Between the dose that ended, if any, and the next one.
Resting(v, s, m, u, D) ==
  /\ s.state \in {"Idle", "Gap"} /\ v.pump = None
  /\ \A p \in Pumps : Healthy(m[p], u, D)
  /\ Free(HoursOf(m), EventsOf(m, s), u, D)
  /\ s.state = "Gap" /\ s.age < Gap =>
       /\ RunKnown(HoursOf(m), EventsOf(m, s), s, u, D)
       /\ Punctual(HoursOf(m), EventsOf(m, s), s, u, D)

\* Hours and events are what the lemmas above take.
LEMMA PumpTimes ==
  ASSUME NEW m \in [Pumps -> PumpType], NEW s, SchedOK(s)
  PROVE  /\ HoursOf(m) \in Hours /\ EventsOf(m, s) \in [Pumps -> Nat]
         /\ \A p \in Pumps : /\ HoursOf(m)[p] = m[p].at
                             /\ m[p].at \in 0..(DayLen - 1) /\ m[p].lastDose \in Nat
                             /\ m[p].dose \in Nat
         /\ \A p \in Pumps, e \in Nat : Moment(HoursOf(m)[p], e) = EventTime(m[p], e)
<1>1. Dates \subseteq Nat /\ Minutes \subseteq 0..(DayLen - 1) /\ Doses \subseteq Nat
  BY DoserAssumption DEF Dates
<1>2. \A p \in Pumps : /\ m[p].at \in 0..(DayLen - 1) /\ m[p].lastDose \in Nat
                       /\ m[p].dose \in Nat
  BY <1>1 DEF PumpType
<1>3. s.event \in Nat
  BY <1>1 DEF SchedOK, SchedType
<1> QED BY <1>2, <1>3 DEF HoursOf, Hours, EventsOf, Moment, EventTime

\* The dates around an event whose window is open.
LEMMA OpenWindow ==
  ASSUME NEW D \in Nat, ScheduleFits(D), NEW t \in Instants, NEW a \in 0..(DayLen - 1),
         NEW e \in Nat, t - Moment(a, e) \in 0..(Window - 1)
  PROVE  e = DateKey(t) \/ e = DateKey(t) - 1
<1>1. /\ DayLen \in Nat \ {0} /\ Window \in Nat \ {0} /\ Ahead \in Nat /\ Window + Ahead <= DayLen
      /\ a \in Nat /\ a < DayLen
  BY Numbers
<1>2. t \in Nat
  BY DoserAssumption DEF Instants, FirstDay
<1>3. DateKey(t) \in Nat /\ t + Ahead - DateKey(t) * DayLen \in 0..(DayLen - 1)
  BY <1>2, Days
<1> DEFINE k == DateKey(t)
<1>4. k \in Nat /\ t + Ahead - k * DayLen \in 0..(DayLen - 1)
  BY <1>3
<1> HIDE DEF k
<1>5. Moment(a, e) = e * DayLen + a /\ e * DayLen \in Nat /\ k * DayLen \in Nat
  <2>1. \A i, j \in Nat : i * j \in Nat
    OBVIOUS
  <2> QED BY <1>1, <1>4, <2>1 DEF Moment
<1>6. t >= e * DayLen /\ t + Ahead < e * DayLen + 2 * DayLen
  BY <1>1, <1>2, <1>5
<1>7. ASSUME k < e PROVE FALSE
  <2>1. PICK i \in Nat : e = k + 1 + i
    <3>1. e - k - 1 \in Nat
      BY <1>4, <1>7
    <3> QED BY <3>1, <1>4
  <2>2. (k + 1 + i) * DayLen = k * DayLen + DayLen + i * DayLen /\ i * DayLen \in Nat
    BY <1>1, <1>4
  <2> QED BY <1>1, <1>2, <1>4, <1>5, <1>6, <2>1, <2>2
<1>8. ASSUME k > e + 1 PROVE FALSE
  <2>1. PICK i \in Nat : k = e + 2 + i
    <3>1. k - e - 2 \in Nat
      BY <1>4, <1>8
    <3> QED BY <3>1, <1>4
  <2>2. (e + 2 + i) * DayLen = e * DayLen + 2 * DayLen + i * DayLen /\ i * DayLen \in Nat
    BY <1>1, <1>4
  <2> QED BY <1>1, <1>2, <1>4, <1>5, <1>6, <2>1, <2>2
<1> QED BY <1>4, <1>7, <1>8 DEF k

\* No event of a pump that is due lies behind its last one.
LEMMA DueIsLater ==
  ASSUME NEW D \in Nat, ScheduleFits(D), NEW t \in Instants, NEW r \in PumpType,
         EventTime(r, r.lastDose) <= t, NEW e \in DueEvents(r, t)
  PROVE  /\ e \in Nat /\ t - Moment(r.at, e) \in 0..(Window - 1)
         /\ e >= r.lastDose
<1>1. /\ DayLen \in Nat \ {0} /\ Window \in Nat \ {0} /\ 2 * Window + Cost(D) <= DayLen
      /\ Cost(D) \in Nat
  BY Numbers
<1>2. e \in Nat
  BY DueDates, DoserAssumption DEF DueEvents, Dates
<1>3. r.at \in 0..(DayLen - 1) /\ r.lastDose \in Nat
  <2>1. Minutes \subseteq 0..(DayLen - 1) /\ Dates \subseteq Nat
    BY DoserAssumption DEF Dates
  <2> QED BY <2>1 DEF PumpType
<1>4. t - Moment(r.at, e) \in 0..(Window - 1)
  BY DEF DueEvents, EventTime, Moment
<1>5. Moment(r.at, r.lastDose) <= t
  BY DEF EventTime, Moment
<1>6. t \in Nat
  BY DoserAssumption DEF Instants, FirstDay
<1>7. /\ Moment(r.at, e) \in Nat /\ Moment(r.at, r.lastDose) \in Nat
      /\ e < r.lastDose => Moment(r.at, r.lastDose) >= Moment(r.at, e) + DayLen
  BY <1>2, <1>3, NextMoment
<1> QED BY <1>1, <1>2, <1>3, <1>4, <1>5, <1>6, <1>7

\* detectMissedDoses finds nothing.
LEMMA NoneLate ==
  ASSUME NEW D \in Nat, ScheduleFits(D), NEW m \in [Pumps -> PumpType], NEW v,
         NEW s, SchedOK(s), NEW t \in Instants, Resting(v, s, m, t, D), NEW p \in Pumps
  PROVE  ~Missed(m[p], t)
<1> SUFFICES ASSUME Missed(m[p], t) PROVE FALSE
  OBVIOUS
<1> DEFINE e == DateKey(t)
           at == HoursOf(m)
           cur == EventsOf(m, s)
<1>1. t \in Nat /\ t >= 2 * DayLen /\ DayLen \in Nat \ {0} /\ Ahead \in Nat /\ Window \in Nat
  BY DoserAssumption DEF Instants, FirstDay
<1>2. e \in Nat /\ t + Ahead - e * DayLen \in 0..(DayLen - 1)
  BY <1>1, Days
<1>3. e >= FirstDay
  BY <1>1, <1>2 DEF FirstDay
<1>4. /\ m[p].at \in 0..(DayLen - 1) /\ m[p].lastDose \in Nat /\ at[p] = m[p].at
      /\ Moment(at[p], e) = EventTime(m[p], e)
      /\ Moment(at[p], m[p].lastDose) = EventTime(m[p], m[p].lastDose)
      /\ at \in Hours /\ cur \in [Pumps -> Nat]
  BY <1>2, PumpTimes
<1>5. cur[p] = m[p].lastDose
  BY DEF EventsOf, Resting
<1>6. t - EventTime(m[p], e) >= Window /\ m[p].lastDose # e
  BY DEF Missed
<1>7. EventTime(m[p], m[p].lastDose) <= t
  BY DEF Resting, Healthy
<1>8. Free(at, cur, t, D)
  BY DEF Resting
<1> HIDE DEF at, cur, e
<1>9. Moment(at[p], e) \in Nat /\ Moment(at[p], m[p].lastDose) \in Nat
        /\ Moment(at[p], m[p].lastDose) = m[p].lastDose * DayLen + m[p].at
        /\ Moment(at[p], e) <= t
  <2>1. Moment(at[p], e) \in Nat /\ Moment(at[p], m[p].lastDose) \in Nat
    BY <1>2, <1>4, NextMoment
  <2> QED BY <1>1, <1>4, <1>6, <2>1 DEF Moment
<1>10. m[p].lastDose < e
  <2> DEFINE l == m[p].lastDose
  <2>1. l \in Nat /\ l # e /\ l * DayLen + m[p].at <= t
    BY <1>4, <1>6, <1>7, <1>9
  <2>2. ASSUME l > e PROVE FALSE
    <3> HIDE DEF l
    <3>1. PICK i \in Nat : l = e + 1 + i
      <4>1. l - e - 1 \in Nat
        BY <1>2, <2>1, <2>2
      <4> QED BY <4>1, <1>2, <2>1
    <3>2. (e + 1 + i) * DayLen = e * DayLen + DayLen + i * DayLen /\ i * DayLen \in Nat
            /\ e * DayLen \in Nat
      BY <1>1, <1>2
    <3>3. m[p].at \in Nat
      BY <1>4
    <3>4. l * DayLen = e * DayLen + DayLen + i * DayLen
      BY <3>1, <3>2
    <3> QED BY <1>1, <1>2, <2>1, <3>2, <3>3, <3>4
  <2> QED BY <1>2, <2>1, <2>2
<1>11. Waiting(at, cur, t, p, e)
  BY <1>3, <1>5, <1>9, <1>10 DEF Waiting
<1>12. t - Moment(at[p], e) \in 0..(Window - 1)
  BY <1>1, <1>2, <1>4, <1>8, <1>11, FreeInTime
<1> QED BY <1>1, <1>4, <1>6, <1>9, <1>12

\* A pump that waits is ready.
LEMMA WaitingIsReady ==
  ASSUME NEW D \in Nat, ScheduleFits(D), NEW m \in [Pumps -> PumpType], NEW v,
         NEW s, SchedOK(s), NEW t \in Instants, Resting(v, s, m, t, D), NEW p \in Pumps,
         Servable(m[p]), NEW e \in Nat, Waiting(HoursOf(m), EventsOf(m, s), t, p, e)
  PROVE  Ready(m[p], t)
<1> DEFINE at == HoursOf(m)
           cur == EventsOf(m, s)
           r == m[p]
<1>1. /\ DayLen \in Nat \ {0} /\ Window \in Nat \ {0} /\ 2 * Window + Cost(D) <= DayLen
      /\ Cost(D) \in Nat /\ MaxStall \in Nat \ {0} /\ MaxRun \in Nat
  BY Numbers
<1>2. t \in Nat
  BY DoserAssumption DEF Instants, FirstDay
<1>3. /\ r.at \in 0..(DayLen - 1) /\ r.lastDose \in Nat /\ at[p] = r.at /\ r.dose \in Nat
      /\ at \in Hours /\ cur \in [Pumps -> Nat] /\ cur[p] = r.lastDose
  BY PumpTimes DEF EventsOf, Resting
<1>4. Healthy(r, t, D) /\ Free(at, cur, t, D)
  BY DEF Resting
<1>5. t - Moment(at[p], e) \in 0..(Window - 1)
  BY <1>2, <1>3, <1>4, FreeInTime
<1>6. r.lastDose < e
  BY <1>3 DEF Waiting
<1>7. r \in PumpType
  OBVIOUS
<1>8. Servable(r)
  OBVIOUS
<1> HIDE DEF at, cur, r
<1>9. e \in DueEvents(r, t)
  <2>1. e = DateKey(t) \/ e = DateKey(t) - 1
    BY <1>3, <1>5, OpenWindow
  <2>2. e % Week \in 0..(Week - 1)
    BY DoserAssumption
  <2> QED BY <1>3, <1>4, <1>5, <2>1, <2>2 DEF DueEvents, ScheduledOn, Healthy, EventTime, Moment
<1>10. DueEvents(r, t) # {}
  BY <1>9
<1>11. r.lastDose # Max(DueEvents(r, t))
  <2>1. Max(DueEvents(r, t)) \in DueEvents(r, t)
    BY <1>10, MaxDue
  <2> SUFFICES ASSUME r.lastDose \in DueEvents(r, t) PROVE FALSE
    BY <2>1
  <2>2. t - Moment(r.at, r.lastDose) \in 0..(Window - 1)
    BY DEF DueEvents, EventTime, Moment
  <2>3. /\ Moment(r.at, e) \in Nat /\ Moment(r.at, r.lastDose) \in Nat
        /\ Moment(r.at, e) >= Moment(r.at, r.lastDose) + DayLen
    BY <1>3, <1>6, NextMoment
  <2> QED BY <1>1, <1>2, <1>3, <1>5, <2>2, <2>3
<1>12. r.dose > 0 /\ r.dose <= MaxRun /\ r.remaining >= r.dose /\ r.enabled
  BY <1>1, <1>3, <1>4, <1>8 DEF Servable, Healthy
<1>13. r.days # {}
  <2>1. 0 \in 0..(Week - 1)
    BY DoserAssumption
  <2> QED BY <1>4, <2>1 DEF Healthy
<1>14. Ready(r, t)
  BY <1>10, <1>11, <1>12, <1>13 DEF Ready
<1> QED BY <1>14 DEF r

\* The next dose starts in time, if a pump waits.
LEMMA StartServes ==
  ASSUME NEW D \in Nat, ScheduleFits(D), NEW x, XOK(x), NEW t \in Instants,
         x.s.state = "Idle", Resting(x.v, x.s, x.m.pumps, t, D),
         \A p \in Pumps : Servable(x.m.pumps[p])
  PROVE  LET y == StartFirst(x, t) IN
         y.m = x.m /\ Serving(y.v, y.s, y.m.pumps, t, D)
<1> DEFINE m == x.m.pumps
           at == HoursOf(m)
           cur == EventsOf(m, x.s)
           ready == {p \in Pumps : Ready(m[p], t)}
           q == Min(ready)
           f == Max(DueEvents(m[q], t))
           s == [state |-> "Running", active |-> q, plan |-> m[q].dose, event |-> f, age |-> 0]
           new == EventsOf(m, s)
<1>1. m \in [Pumps -> PumpType] /\ SchedOK(x.s) /\ x.s.age \in Nat /\ t \in Nat
  BY DoserAssumption DEF XOK, XType, MemType, SchedOK, SchedType, Instants, FirstDay
<1>2. /\ at \in Hours /\ cur \in [Pumps -> Nat]
      /\ \A p \in Pumps : /\ at[p] = m[p].at /\ m[p].at \in 0..(DayLen - 1)
                          /\ m[p].lastDose \in Nat /\ m[p].dose \in Nat
                          /\ cur[p] = m[p].lastDose
  <2>1. \A p \in Pumps : cur[p] = m[p].lastDose
    BY DEF EventsOf
  <2> QED BY <1>1, <2>1, PumpTimes
<1>3. /\ x.v.pump = None /\ Free(at, cur, t, D)
      /\ \A p \in Pumps : Healthy(m[p], t, D)
  BY DEF Resting
<1>4. CASE ready = {}
  <2>1. StartFirst(x, t) = x
    BY <1>4 DEF StartFirst
  <2>2. \A p \in Pumps, e \in Nat : ~Waiting(at, cur, t, p, e)
    BY <1>1, <1>4, WaitingIsReady
  <2> QED BY <1>1, <1>3, <2>1, <2>2 DEF Serving, Punctual, RunKnown
<1>5. CASE ready # {}
  <2>1. StartFirst(x, t) = [v |-> StartPump(x.v, q), m |-> x.m, served |-> x.served, s |-> s]
    BY <1>3, <1>5 DEF StartFirst, Starting
  <2>2. q \in Pumps /\ Ready(m[q], t)
    <3>1. q \in ready
      BY <1>5, MinOf
    <3> QED BY <3>1
  <2> HIDE DEF q, ready
  <2>3. f \in DueEvents(m[q], t) /\ m[q].lastDose # f
    BY <2>2, MaxDue DEF Ready
  <2>4. f \in Nat /\ t - Moment(at[q], f) \in 0..(Window - 1) /\ m[q].lastDose < f
    <3>1. EventTime(m[q], m[q].lastDose) <= t
      BY <1>3, <2>2 DEF Healthy
    <3>2. /\ f \in Nat /\ t - Moment(m[q].at, f) \in 0..(Window - 1)
          /\ f >= m[q].lastDose
      BY <1>1, <2>2, <2>3, <3>1, DueIsLater
    <3> QED BY <1>2, <2>2, <2>3, <3>2
  <2>5. Moment(at[q], f) \in Nat /\ Moment(at[q], f) = EventTime(m[q], f)
    BY <1>2, <2>2, <2>4, NextMoment DEF Moment, EventTime
  <2> HIDE DEF f
  <2>6. /\ s.state = "Running" /\ s.active = q /\ s.plan = m[q].dose /\ s.event = f /\ s.age = 0
        /\ new = [cur EXCEPT ![q] = f]
    BY <1>2, <2>2 DEF EventsOf
  <2> HIDE DEF s, at, cur
  <2>7. Advanced(cur, new, q, f) /\ new[q] = f
    BY <1>2, <2>2, <2>6 DEF Advanced
  <2> HIDE DEF new
  <2>8. Moment(at[q], f) <= t /\ t - Moment(at[q], f) < Window
    BY <1>1, <2>4, <2>5, Numbers
  <2>9. Punctual(at, new, s, t, D)
    BY <1>1, <1>2, <1>3, <2>2, <2>4, <2>6, <2>7, <2>8, StartPunctual
  <2>10. m[q].dose \in 1..D
    BY <1>3, <2>2 DEF Healthy
  <2>11. RunKnown(at, new, s, t, D)
    BY <1>1, <2>2, <2>5, <2>6, <2>7, <2>8, <2>10 DEF RunKnown
  <2>12. Serving(StartPump(x.v, q), s, m, t, D)
    BY <1>3, <2>5, <2>6, <2>8, <2>9, <2>10, <2>11 DEF Serving, at, new
  <2> QED BY <2>1, <2>12
<1> QED BY <1>4, <1>5

\* The rest of loop() after the run has ended, or without one.
LEMMA RestServes ==
  ASSUME NEW D \in Nat, ScheduleFits(D), NEW y, XOK(y), NEW t \in Instants,
         NEW failing \in SUBSET Pumps, Resting(y.v, y.s, y.m.pumps, t, D),
         NEW z, z = [v |-> y.v, s |-> GapServed(y.s), m |-> DetectMissed(y.m, t, failing),
                     served |-> y.served],
         NEW x, x = IF z.s.state = "Idle" THEN StartFirst(z, t) ELSE z,
         \A p \in Pumps : Servable(x.m.pumps[p])
  PROVE  Serving(x.v, x.s, x.m.pumps, t, D)
<1> DEFINE m == DetectMissed(y.m, t, failing)
<1>1. y.m.pumps \in [Pumps -> PumpType] /\ SchedOK(y.s) /\ y.m \in MemType
  BY DEF XOK, XType, MemType
<1>2. m.pumps = y.m.pumps
  <2>1. \A p \in Pumps : ~Missed(y.m.pumps[p], t)
    BY <1>1, NoneLate
  <2>2. {p \in Pumps : Missed(y.m.pumps[p], t)} = {}
    BY <2>1
  <2> QED BY <1>1, <2>2 DEF DetectMissed
<1>3. m \in MemType
  BY <1>1, MissedStep
<1>4. y.s.state # "Running" /\ SchedOK(GapServed(y.s)) /\ GapServed(y.s).state # "Running"
  <2>1. y.s.state # "Running"
    BY DEF Resting
  <2> QED BY <1>1, <2>1, GapStep
<1>5. z.v = y.v /\ z.s = GapServed(y.s) /\ z.m = m
  OBVIOUS
<1>6. XOK(z)
  <2> HIDE DEF m
  <2>1. /\ y.v \in DriverType /\ DriverOK(y.v) /\ y.served \in BOOLEAN
        /\ GapServed(y.s) \in SchedType
    BY <1>4 DEF XOK, XType, SchedOK
  <2>2. [v |-> y.v, s |-> GapServed(y.s), m |-> m, served |-> y.served] \in XType
    BY <1>3, <2>1 DEF XType
  <2>3. z = [v |-> y.v, s |-> GapServed(y.s), m |-> m, served |-> y.served]
    BY DEF m
  <2>4. z \in XType
    BY <2>2, <2>3
  <2> QED BY <1>4, <1>5, <2>1, <2>4 DEF XOK
<1> HIDE DEF m
<1>7. CASE y.s.state = "Gap" /\ y.s.age < Gap
  <2>1. GapServed(y.s) = y.s
    <3>1. ~(y.s.age >= Gap)
      BY <1>1, <1>7, DoserAssumption DEF SchedOK, SchedType
    <3> QED BY <3>1 DEF GapServed
  <2>2. x = z /\ z.s = y.s
    BY <1>5, <1>7, <2>1
  <2> QED BY <1>2, <1>4, <1>5, <1>7, <2>2 DEF Resting, Serving
<1>8. CASE ~(y.s.state = "Gap" /\ y.s.age < Gap)
  <2>1. GapServed(y.s).state = "Idle"
    <3>1. y.s.state \in {"Idle", "Gap"}
      BY DEF Resting
    <3>2. CASE y.s.state = "Idle"
      BY <3>2 DEF GapServed
    <3>3. CASE y.s.state = "Gap"
      <4>1. y.s.age >= Gap
        BY <1>1, <1>8, <3>3, DoserAssumption DEF SchedOK, SchedType
      <4> QED BY <3>3, <4>1 DEF GapServed, IdleSched
    <3> QED BY <3>1, <3>2, <3>3
  <2>2. x = StartFirst(z, t) /\ z.s.state = "Idle"
    BY <1>5, <2>1
  <2>3. x.m = z.m
    BY <1>6, <2>2, StartEffect
  <2>4. \A p \in Pumps : Servable(z.m.pumps[p])
    BY <2>3
  <2>5. EventsOf(z.m.pumps, z.s) = EventsOf(y.m.pumps, y.s)
    BY <1>2, <1>4, <1>5 DEF EventsOf
  <2>6. Resting(z.v, z.s, z.m.pumps, t, D)
    BY <1>2, <1>5, <2>2, <2>5 DEF Resting
  <2> QED BY <1>6, <2>2, <2>4, <2>6, StartServes
<1> QED BY <1>7, <1>8

\* A health lasts.
LEMMA StaysHealthy ==
  ASSUME NEW D \in Nat, ScheduleFits(D), NEW r \in PumpType, NEW u \in Nat, NEW w \in Nat, u <= w,
         Healthy(r, u, D)
  PROVE  Healthy(r, w, D)
<1>1. EventTime(r, r.lastDose) \in Nat
  <2>1. r.at \in 0..(DayLen - 1) /\ r.lastDose \in Nat
    <3>1. Minutes \subseteq 0..(DayLen - 1) /\ Dates \subseteq Nat
      BY DoserAssumption DEF Dates
    <3> QED BY <3>1 DEF PumpType
  <2>2. Moment(r.at, r.lastDose) \in Nat
    BY <2>1, NextMoment
  <2> QED BY <2>2 DEF Moment, EventTime
<1> QED BY <1>1 DEF Healthy

\* In a calm pass the driver's limit stops no dose, and both count the same time.
LEMMA RunAges ==
  ASSUME NEW D \in Nat, ScheduleFits(D), NEW v, DriverOK(v), NEW s, SchedOK(s), Owns(s, v),
         NEW m \in [Pumps -> PumpType], NEW u \in Nat, NEW d \in 1..MaxStall,
         Serving(v, s, m, u, D), s.state = "Running", Servable(m[s.active])
  PROVE  /\ Aged(s, d).age = s.age + d /\ Aged(s, d).plan = s.plan
         /\ DriverLoop(v, d).pump = s.active /\ s.active \in DriverLoop(v, d).pins
<1>1. /\ MaxRun \in Nat /\ Gap \in Nat /\ d \in Nat \ {0} /\ MaxStall \in Nat /\ d <= MaxStall
      /\ s \in SchedType /\ s.age \in Nat /\ s.active \in Pumps
  BY DoserAssumption DEF SchedOK, SchedType
<1>2. m[s.active].dose \in Nat
  BY <1>1, DoserAssumption DEF PumpType
<1>3. s.age + d <= MaxRun
  BY <1>1, <1>2 DEF Serving, Servable
<1>4. Min({s.age + d, MaxRun + Gap}) = s.age + d
  <2>1. s.age + d \in Int /\ MaxRun + Gap \in Int /\ s.age + d <= MaxRun + Gap
    BY <1>1, <1>3
  <2> QED BY <2>1, MinPair
<1>5. v.pump = s.active /\ v.age = s.age /\ v.pump # None /\ v.pins = {s.active}
  BY <1>1, NoneIsNoPump DEF Owns, DriverOK
<1>6. DriverLoop(v, d) = [v EXCEPT !.age = v.age + d]
  <2>1. ~(v.age + d > MaxRun)
    BY <1>1, <1>3, <1>5
  <2> QED BY <1>5, <2>1 DEF DriverLoop
<1>7. v \in DriverType
  BY DEF DriverOK
<1>8. Aged(s, d) = [s EXCEPT !.age = s.age + d]
  BY <1>4 DEF Aged
<1> QED BY <1>1, <1>5, <1>6, <1>7, <1>8 DEF DriverType, SchedType

\* The dose goes on.
LEMMA RunServed ==
  ASSUME NEW D \in Nat, ScheduleFits(D), NEW v, DriverOK(v), NEW s, SchedOK(s), Owns(s, v),
         NEW m \in [Pumps -> PumpType], NEW u \in Nat, NEW d \in 1..MaxStall,
         NEW w \in Nat, w = u + d,
         Serving(v, s, m, u, D), s.state = "Running", Servable(m[s.active]),
         Aged(s, d).age < Aged(s, d).plan, NEW z
  PROVE  Serving(z, Aged(s, d), m, w, D)
<1> DEFINE a == Aged(s, d)
           at == HoursOf(m)
           cur == EventsOf(m, s)
<1>1. /\ a.state = "Running" /\ a.active = s.active /\ a.event = s.event
      /\ a.age = s.age + d /\ a.plan = s.plan /\ a.age < a.plan
  BY RunAges, DriverStep
<1>2. at \in Hours /\ cur \in [Pumps -> Nat] /\ s.active \in Pumps /\ d \in Nat
        /\ \A p \in Pumps : m[p].dose \in Nat
  BY PumpTimes, DoserAssumption DEF SchedOK
<1> HIDE DEF a
<1>3. EventsOf(m, a) = cur
  BY <1>1 DEF EventsOf
<1>4. \A p \in Pumps : Healthy(m[p], w, D)
  <2>1. u <= w
    BY <1>2
  <2> QED BY <2>1, StaysHealthy DEF Serving
<1>5. EventTime(m[s.active], s.event) <= w
  <2>1. EventTime(m[s.active], s.event) <= u
    BY DEF Serving
  <2>2. EventTime(m[s.active], s.event) \in Nat
    <3>1. s.event \in Nat /\ m[s.active].at \in 0..(DayLen - 1)
      BY <1>2, PumpTimes, DoserAssumption DEF SchedOK, SchedType, Dates
    <3>2. Moment(m[s.active].at, s.event) \in Nat
      BY <3>1, NextMoment
    <3> QED BY <3>2 DEF Moment, EventTime
  <2> QED BY <1>2, <2>1, <2>2
<1>6. RunKnown(at, cur, s, u, D) /\ Punctual(at, cur, s, u, D) /\ s.plan = m[s.active].dose
  BY DEF Serving
<1> HIDE DEF at, cur
<1>7. a.age < D
  <2>1. m[s.active].dose \in 1..D
    BY <1>2, <1>4 DEF Healthy
  <2>2. s.age \in Nat
    BY <1>6 DEF RunKnown
  <2> QED BY <1>1, <1>2, <1>6, <2>1, <2>2
<1>8. RunKnown(at, cur, a, w, D) /\ Punctual(at, cur, a, w, D)
  BY <1>1, <1>2, <1>6, <1>7, RunGoesOn
<1>9. Serving(z, a, m, w, D)
  BY <1>1, <1>3, <1>4, <1>5, <1>6, <1>8 DEF Serving, at
<1> QED BY <1>9 DEF a

\* The dose ends.
LEMMA RunOver ==
  ASSUME NEW D \in Nat, ScheduleFits(D), NEW v, DriverOK(v), NEW s, SchedOK(s), Owns(s, v),
         NEW m \in [Pumps -> PumpType], NEW u \in Nat, NEW d \in 1..MaxStall,
         NEW w \in Nat, w = u + d,
         Serving(v, s, m, u, D), s.state = "Running", Servable(m[s.active]),
         NEW n, n = [m EXCEPT ![s.active] = Dosed(m[s.active], s.event)]
  PROVE  Resting(StopPump(DriverLoop(v, d), s.active), InGap, n, w, D)
<1> DEFINE at == HoursOf(m)
           cur == EventsOf(m, s)
           q == s.active
<1>1. /\ at \in Hours /\ cur \in [Pumps -> Nat] /\ q \in Pumps /\ d \in Nat /\ m[q] \in PumpType
      /\ Gap \in Nat /\ MaxStall \in Nat \ {0}
  BY PumpTimes, DoserAssumption DEF SchedOK
<1>2. RunKnown(at, cur, s, u, D) /\ Punctual(at, cur, s, u, D)
  BY DEF Serving
<1>3. /\ \A p \in Pumps \ {q} : n[p] = m[p]
      /\ n[q] = Dosed(m[q], s.event)
      /\ n[q].at = m[q].at /\ n[q].lastDose = s.event /\ n[q].dose = m[q].dose
      /\ n[q].enabled = m[q].enabled /\ n[q].days = m[q].days /\ n[q].lastMissed = m[q].lastMissed
  <2>1. n[q] = Dosed(m[q], s.event) /\ \A p \in Pumps \ {q} : n[p] = m[p]
    BY <1>1
  <2>2. LET r == Dosed(m[q], s.event) IN
        /\ r.at = m[q].at /\ r.lastDose = s.event /\ r.dose = m[q].dose
        /\ r.enabled = m[q].enabled /\ r.days = m[q].days /\ r.lastMissed = m[q].lastMissed
    BY <1>1 DEF Dosed, PumpType
  <2> QED BY <2>1, <2>2
<1>4. HoursOf(n) = at
  BY <1>3 DEF HoursOf
<1>5. EventsOf(n, InGap) = cur
  BY <1>3 DEF EventsOf, InGap, IdleSched
<1>6. \A p \in Pumps : Healthy(n[p], w, D)
  <2>1. \A p \in Pumps : Healthy(m[p], w, D)
    <3>1. u <= w
      BY <1>1
    <3> QED BY <3>1, StaysHealthy DEF Serving
  <2>2. Healthy(n[q], w, D)
    <3>1. EventTime(m[q], s.event) <= u
      BY DEF Serving
    <3>2. EventTime(m[q], s.event) \in Nat
      <4>1. s.event \in Nat /\ m[q].at \in 0..(DayLen - 1)
        BY <1>1, PumpTimes, DoserAssumption DEF SchedOK, SchedType, Dates
      <4>2. Moment(m[q].at, s.event) \in Nat
        BY <4>1, NextMoment
      <4> QED BY <4>2 DEF Moment, EventTime
    <3>3. EventTime(n[q], n[q].lastDose) = EventTime(m[q], s.event)
      BY <1>3 DEF EventTime
    <3>4. EventTime(n[q], n[q].lastDose) <= w
      BY <1>1, <3>1, <3>2, <3>3
    <3>5. Healthy(m[q], w, D)
      BY <1>1, <2>1
    <3> QED BY <1>3, <3>4, <3>5 DEF Healthy
  <2> QED BY <1>3, <2>1, <2>2
<1>7. StopPump(DriverLoop(v, d), q).pump = None
  <2>1. DriverLoop(v, d).pump = q
    BY RunAges
  <2>2. DriverOK(DriverLoop(v, d))
    BY DriverStep
  <2> QED BY <1>1, <2>1, <2>2, StopOK
<1> HIDE DEF at, cur
<1>8. GapBound(at, cur, w, 0, D)
        /\ \E p \in Pumps : w - Moment(at[p], cur[p]) < Window + D + MaxStall - 1
  BY <1>1, <1>2, RunEnds
<1>9. Free(at, cur, w, D)
  <2>1. 0 < Gap + MaxStall
    BY <1>1
  <2> QED BY <1>1, <1>8, <2>1, GapFrees
<1>10. InGap.state = "Gap" /\ InGap.age = 0
  BY DEF InGap, IdleSched
<1>11. Gap > 0 => RunKnown(at, cur, InGap, w, D) /\ Punctual(at, cur, InGap, w, D)
  <2>1. w - 0 = w
    OBVIOUS
  <2> QED BY <1>8, <1>10, <2>1 DEF RunKnown, Punctual, OnTime, GapBound
<1>12. InGap.age < Gap => Gap > 0
  BY <1>1, <1>10
<1> QED BY <1>4, <1>5, <1>6, <1>7, <1>9, <1>10, <1>11, <1>12 DEF Resting

\* Without a dose.
LEMMA NoRunServed ==
  ASSUME NEW D \in Nat, ScheduleFits(D), NEW v, DriverOK(v), NEW s, SchedOK(s),
         NEW m \in [Pumps -> PumpType], NEW u \in Nat, NEW d \in 1..MaxStall,
         NEW w \in Nat, w = u + d,
         Serving(v, s, m, u, D), s.state # "Running"
  PROVE  Resting(DriverLoop(v, d), Aged(s, d), m, w, D)
<1> DEFINE at == HoursOf(m)
           cur == EventsOf(m, s)
           a == Aged(s, d)
<1>1. /\ at \in Hours /\ cur \in [Pumps -> Nat] /\ d \in Nat \ {0} /\ d <= MaxStall
      /\ Gap \in Nat /\ MaxStall \in Nat \ {0} /\ MaxRun \in Nat /\ s \in SchedType
  BY PumpTimes, DoserAssumption DEF SchedOK
<1>2. RunKnown(at, cur, s, u, D) /\ Punctual(at, cur, s, u, D) /\ v.pump = None
  BY DEF Serving
<1>3. DriverLoop(v, d) = v
  BY <1>2 DEF DriverLoop
<1>4. \A p \in Pumps : Healthy(m[p], w, D)
  <2>1. u <= w
    BY <1>1
  <2> QED BY <2>1, StaysHealthy DEF Serving
<1>5. a.state = s.state /\ s.state \in {"Idle", "Gap"}
  BY <1>1, <1>2 DEF Aged, SchedType, RunKnown
<1>6. EventsOf(m, a) = cur
  BY <1>5 DEF EventsOf
<1>7. CASE s.state = "Idle"
  <2>1. Free(at, cur, w, D)
    <3> HIDE DEF at, cur
    <3> QED BY <1>1, <1>2, <1>7, IdleGoesOn
  <2> QED BY <1>2, <1>3, <1>4, <1>5, <1>6, <1>7, <2>1 DEF Resting
<1>8. CASE s.state = "Gap"
  <2> DEFINE g == s.age + d
  <2>1. s.age \in Nat /\ s.age < Gap /\ g \in Nat /\ g < Gap + MaxStall
    BY <1>1, <1>2, <1>8 DEF RunKnown
  <2>2. a.age = IF g <= MaxRun + Gap THEN g ELSE MaxRun + Gap
    <3>1. g \in Int /\ MaxRun + Gap \in Int
      BY <1>1, <2>1
    <3>2. a.age = Min({g, MaxRun + Gap})
      BY <1>1, <1>8 DEF Aged, SchedType
    <3> QED BY <3>1, <3>2, MinPair
  <2>3. a.age < Gap => a.age = g
    BY <1>1, <2>1, <2>2
  <2> HIDE DEF a, at, cur
  <2>4. GapBound(at, cur, w, g, D)
    BY <1>1, <1>2, <1>8, GapGoesOn
  <2>5. Free(at, cur, w, D)
    BY <1>1, <2>1, <2>4, GapFrees
  <2>6. a.age < Gap => RunKnown(at, cur, a, w, D) /\ Punctual(at, cur, a, w, D)
    <3> SUFFICES ASSUME a.age < Gap
                 PROVE  RunKnown(at, cur, a, w, D) /\ Punctual(at, cur, a, w, D)
      OBVIOUS
    <3>1. PICK p \in Pumps : u - s.age - Moment(at[p], cur[p]) < Window + D + MaxStall - 1
      BY <1>2, <1>8 DEF RunKnown
    <3>2. w - a.age = u - s.age /\ a.age \in Nat
      BY <1>1, <2>1, <2>3
    <3>3. RunKnown(at, cur, a, w, D)
      BY <1>5, <1>8, <3>1, <3>2 DEF RunKnown
    <3>4. Punctual(at, cur, a, w, D)
      BY <1>5, <1>8, <2>3, <2>4 DEF Punctual, OnTime, GapBound
    <3> QED BY <3>3, <3>4
  <2> QED BY <1>2, <1>3, <1>4, <1>5, <1>6, <1>8, <2>5, <2>6 DEF Resting, at, a
<1> QED BY <1>5, <1>7, <1>8

\* serviceRunningPump in a calm pass: the dose goes on, or the driver is left free in time.
LEMMA CalmService ==
  ASSUME NEW D \in Nat, ScheduleFits(D), NEW v, DriverOK(v), NEW s, SchedOK(s), Owns(s, v),
         NEW m \in MemType, NEW u \in Nat, NEW d \in 1..MaxStall, NEW w \in Nat, w = u + d,
         Serving(v, s, m.pumps, u, D), \A p \in Pumps : Servable(m.pumps[p]),
         NEW failing \in SUBSET Pumps,
         NEW x, x = [v |-> DriverLoop(v, d), s |-> Aged(s, d), served |-> FALSE, m |-> m],
         NEW y, y = ServiceRunning(x, failing)
  PROVE  \/ y.s.state = "Running" /\ Serving(y.v, y.s, y.m.pumps, w, D)
         \/ y.s.state # "Running" /\ Resting(y.v, y.s, y.m.pumps, w, D)
<1> DEFINE q == s.active
<1>1. /\ x.v = DriverLoop(v, d) /\ x.s = Aged(s, d) /\ x.m = m
      /\ x.s.state = s.state /\ x.s.active = q /\ x.s.event = s.event
      /\ m.pumps \in [Pumps -> PumpType]
  BY DriverStep DEF MemType
<1>2. CASE s.state # "Running"
  <2>1. y = x
    BY <1>1, <1>2 DEF ServiceRunning
  <2> QED BY <1>1, <1>2, <2>1, NoRunServed
<1>3. CASE s.state = "Running"
  <2>1. q \in Pumps /\ Servable(m.pumps[q])
    BY <1>3 DEF SchedOK
  <2>2. q \in x.v.pins
    BY <1>1, <1>3, <2>1, RunAges
  <2>3. CASE x.s.age < x.s.plan
    <3>1. y = x
      BY <1>1, <1>3, <2>2, <2>3 DEF ServiceRunning
    <3>2. Serving(x.v, x.s, m.pumps, w, D)
      BY <1>1, <1>3, <2>1, <2>3, RunServed
    <3> QED BY <1>1, <1>3, <3>1, <3>2
  <2>4. CASE ~(x.s.age < x.s.plan)
    <3> DEFINE n == [m.pumps EXCEPT ![q] = Dosed(m.pumps[q], s.event)]
    <3>1. y = [v |-> StopPump(x.v, q), s |-> InGap, served |-> TRUE,
               m |-> SavePump(m, q, Dosed(m.pumps[q], s.event), q \notin failing)]
      BY <1>1, <1>3, <2>2, <2>4 DEF ServiceRunning
    <3>2. SavePump(m, q, Dosed(m.pumps[q], s.event), q \notin failing).pumps = n
      BY DEF SavePump
    <3> HIDE DEF n
    <3>3. y.v = StopPump(DriverLoop(v, d), q) /\ y.s = InGap /\ y.m.pumps = n
      BY <1>1, <3>1, <3>2
    <3>4. Resting(StopPump(DriverLoop(v, d), q), InGap, n, w, D)
      BY <1>1, <1>3, <2>1, RunOver DEF n
    <3>5. InGap.state # "Running"
      BY IdleOK
    <3> QED BY <3>3, <3>4, <3>5
  <2> QED BY <2>3, <2>4
<1> QED BY <1>2, <1>3

\* SchedulerManager::loop in a calm pass.
LEMMA CalmLoop ==
  ASSUME NEW D \in Nat, ScheduleFits(D), NEW v, DriverOK(v), NEW s, SchedOK(s), Owns(s, v),
         NEW m \in MemType, NEW u \in Nat, NEW d \in 1..MaxStall, NEW w \in Instants, w = u + d,
         Serving(v, s, m.pumps, u, D), \A p \in Pumps : Servable(m.pumps[p]),
         NEW failing \in SUBSET Pumps,
         NEW x, x = [v |-> DriverLoop(v, d), s |-> Aged(s, d), served |-> FALSE, m |-> m],
         NEW z, z = SchedulerLoop(x, w, TRUE, FALSE, failing),
         \A p \in Pumps : Servable(z.m.pumps[p])
  PROVE  Serving(z.v, z.s, z.m.pumps, w, D)
<1> DEFINE y == ServiceRunning(x, failing)
           g == [v |-> y.v, s |-> GapServed(y.s), m |-> DetectMissed(y.m, w, failing),
                 served |-> y.served]
<1>1. w \in Nat
  BY DoserAssumption DEF Instants, FirstDay
<1>2. \/ y.s.state = "Running" /\ Serving(y.v, y.s, y.m.pumps, w, D)
      \/ y.s.state # "Running" /\ Resting(y.v, y.s, y.m.pumps, w, D)
  BY <1>1, CalmService
<1>3. z = IF y.s.state = "Running" THEN y
          ELSE IF g.s.state = "Idle" THEN StartFirst(g, w) ELSE g
  BY DEF SchedulerLoop
<1>4. XOK(x) /\ OwnsOrOff(x.s, x.v)
  <2>1. /\ DriverOK(DriverLoop(v, d)) /\ SchedOK(Aged(s, d))
        /\ OwnsOrOff(Aged(s, d), DriverLoop(v, d))
    BY DriverStep
  <2>2. x \in XType
    BY <2>1 DEF XType, DriverOK, SchedOK
  <2> QED BY <2>1, <2>2 DEF XOK
<1>5. XOK(y)
  BY <1>4, ServiceStep
<1> HIDE DEF y
<1>6. CASE y.s.state = "Running"
  BY <1>2, <1>3, <1>6
<1>7. CASE y.s.state # "Running"
  <2>1. Resting(y.v, y.s, y.m.pumps, w, D)
    BY <1>2, <1>7
  <2>2. z = IF g.s.state = "Idle" THEN StartFirst(g, w) ELSE g
    BY <1>3, <1>7
  <2> QED BY <1>5, <2>1, <2>2, RestServes
<1> QED BY <1>6, <1>7

\* A pass without a message takes from the bottles at most, and changes no dose.
OnlyUses(m, n) == \A p \in Pumps : n[p].dose = m[p].dose /\ n[p].remaining <= m[p].remaining

\* serviceRunningPump takes the dose.
LEMMA ServiceUses ==
  ASSUME NEW x, XOK(x), NEW failing \in SUBSET Pumps
  PROVE  OnlyUses(x.m.pumps, ServiceRunning(x, failing).m.pumps)
<1> DEFINE y == ServiceRunning(x, failing)
           q == x.s.active
           new == Dosed(x.m.pumps[q], x.s.event)
<1>1. /\ x.m.pumps \in [Pumps -> PumpType]
      /\ \A p \in Pumps : x.m.pumps[p].dose \in Nat /\ x.m.pumps[p].remaining \in Nat
  <2>1. x.m.pumps \in [Pumps -> PumpType]
    BY DEF XOK, XType, MemType
  <2>2. Doses \subseteq Nat /\ 0..Refill \subseteq Nat
    BY DoserAssumption
  <2> QED BY <2>1, <2>2 DEF PumpType
<1>2. CASE y.m = x.m
  BY <1>1, <1>2 DEF OnlyUses
<1>3. CASE x.s.state = "Running" /\ q \in x.v.pins /\ ~(x.s.age < x.s.plan)
  <2>1. y = [v |-> StopPump(x.v, q), s |-> InGap, served |-> TRUE,
             m |-> SavePump(x.m, q, new, q \notin failing)]
    BY <1>3 DEF ServiceRunning
  <2>2. q \in Pumps
    BY <1>3 DEF XOK, SchedOK
  <2>3. new.dose = x.m.pumps[q].dose /\ new.remaining <= x.m.pumps[q].remaining
    <3> DEFINE r == x.m.pumps[q]
    <3>1. r \in PumpType /\ r.dose \in Nat /\ r.remaining \in Nat
      BY <1>1, <2>2
    <3> HIDE DEF r
    <3>2. /\ Dosed(r, x.s.event).dose = r.dose
          /\ Dosed(r, x.s.event).remaining = IF r.remaining > r.dose THEN r.remaining - r.dose ELSE 0
      BY <3>1 DEF Dosed, PumpType
    <3>3. Dosed(r, x.s.event).remaining <= r.remaining
      BY <3>1, <3>2
    <3> QED BY <3>2, <3>3 DEF r
  <2> HIDE DEF new
  <2>4. y.m.pumps = [x.m.pumps EXCEPT ![q] = new]
    BY <2>1 DEF SavePump
  <2> HIDE DEF y, q
  <2>5. OnlyUses(x.m.pumps, y.m.pumps)
    BY <1>1, <2>2, <2>3, <2>4 DEF OnlyUses
  <2> QED BY <2>5 DEF y
<1>4. y.m = x.m \/ (x.s.state = "Running" /\ q \in x.v.pins /\ ~(x.s.age < x.s.plan))
  BY DEF ServiceRunning, XOK, XType
<1> QED BY <1>2, <1>3, <1>4

\* The rest of the pass takes nothing.
LEMMA SchedulerUses ==
  ASSUME NEW x, XOK(x), OwnsOrOff(x.s, x.v), NEW t \in Instants, NEW failing \in SUBSET Pumps
  PROVE  OnlyUses(x.m.pumps, SchedulerLoop(x, t, TRUE, FALSE, failing).m.pumps)
<1> DEFINE y == ServiceRunning(x, failing)
           m == DetectMissed(y.m, t, failing)
           z == [v |-> y.v, s |-> GapServed(y.s), m |-> m, served |-> y.served]
<1>1. XOK(y) /\ OnlyUses(x.m.pumps, y.m.pumps)
  BY ServiceStep, ServiceUses
<1>2. SchedulerLoop(x, t, TRUE, FALSE, failing) =
        IF y.s.state = "Running" THEN y
        ELSE IF z.s.state = "Idle" THEN StartFirst(z, t) ELSE z
  BY DEF SchedulerLoop
<1> HIDE DEF y
<1>3. y.m \in MemType
  BY <1>1 DEF XOK, XType
<1>4. OnlyUses(x.m.pumps, m.pumps)
  <2>1. ASSUME NEW p \in Pumps
        PROVE  m.pumps[p].dose = y.m.pumps[p].dose /\ m.pumps[p].remaining = y.m.pumps[p].remaining
    <3>1. y.m.pumps[p] \in PumpType
      BY <1>3 DEF MemType
    <3>2. \/ m.pumps[p] = y.m.pumps[p]
          \/ m.pumps[p] = [y.m.pumps[p] EXCEPT !.lastMissed = DateKey(t)]
      BY DEF DetectMissed
    <3> QED BY <3>1, <3>2 DEF PumpType
  <2> HIDE DEF m
  <2> QED BY <1>1, <2>1 DEF OnlyUses
<1>5. CASE y.s.state = "Running"
  BY <1>1, <1>2, <1>5
<1>6. CASE y.s.state # "Running"
  <2>1. SchedOK(GapServed(y.s)) /\ m \in MemType
    BY <1>1, <1>3, <1>6, GapStep, MissedStep DEF XOK
  <2>2. XOK(z) /\ z.m = m
    BY <1>1, <2>1 DEF XOK, XType, SchedOK
  <2> HIDE DEF z, m
  <2>3. StartFirst(z, t).m = m
    BY <2>2, StartEffect
  <2> QED BY <1>2, <1>4, <1>6, <2>2, <2>3
<1> QED BY <1>5, <1>6

\* The inductive invariant of NothingMissed.
ServedInv(D) ==
  calm /\ (\A p \in Pumps : Servable(pumps[p]))
    => ota = FALSE /\ Serving(driver, sched, pumps, now, D)

\* A first start has all doses before it.
LEMMA InitServed ==
  ASSUME NEW D \in Nat, ScheduleFits(D)
  PROVE  Init => ServedInv(D)
<1> SUFFICES ASSUME Init PROVE ota = FALSE /\ Serving(driver, sched, pumps, now, D)
  BY DEF ServedInv
<1> DEFINE at == HoursOf(pumps)
           cur == EventsOf(pumps, sched)
<1>1. /\ now = FirstDay * DayLen /\ driver = AllOff /\ sched = IdleSched /\ ota = FALSE
  BY DEF Init
<1>2. PICK first \in Schedules :
        pumps = [p \in Pumps |->
          [enabled |-> TRUE, at |-> first[p].at, days |-> 0..(Week - 1), dose |-> first[p].dose,
           remaining |-> Refill, lastDose |-> 0, lastMissed |-> 0]]
  BY DEF Init
<1>3. \A p \in Pumps :
        /\ pumps[p].enabled /\ pumps[p].days = 0..(Week - 1) /\ pumps[p].dose = first[p].dose
        /\ pumps[p].lastDose = 0 /\ pumps[p].lastMissed = 0 /\ pumps[p].at = first[p].at
        /\ first[p].at \in 0..(DayLen - 1) /\ first[p].dose \in 1..D
  <2>1. \A p \in Pumps : first[p].at \in Minutes /\ first[p].dose \in Doses \ {0}
    BY DoserAssumption
  <2>2. Minutes \subseteq 0..(DayLen - 1) /\ Doses \subseteq Nat
    BY DoserAssumption
  <2>3. \A p \in Pumps : first[p].dose <= D
    BY DEF ScheduleFits
  <2>4. \A p \in Pumps : first[p].dose \in 1..D
    <3>1. \A n \in Nat \ {0} : n <= D => n \in 1..D
      OBVIOUS
    <3>2. \A p \in Pumps : first[p].dose \in Nat \ {0}
      BY <2>1, <2>2
    <3> QED BY <2>3, <3>1, <3>2
  <2> QED BY <1>2, <2>1, <2>2, <2>4
<1>4. DayLen \in Nat \ {0} /\ now = 2 * DayLen /\ now \in Nat
  BY <1>1, DoserAssumption DEF FirstDay
<1>5. \A p \in Pumps : Healthy(pumps[p], now, D)
  <2>1. ASSUME NEW p \in Pumps PROVE EventTime(pumps[p], pumps[p].lastDose) <= now
    BY <1>3, <1>4 DEF EventTime
  <2> QED BY <1>3, <2>1 DEF Healthy
<1>6. sched.state = "Idle" /\ sched.age = 0 /\ driver.pump = None
  BY <1>1, OffOK DEF IdleSched
<1>7. Punctual(at, cur, sched, now, D)
  <2> SUFFICES ASSUME NEW p \in Pumps, NEW e \in Nat, Waiting(at, cur, now, p, e)
               PROVE  now = Moment(at[p], e)
    BY <1>6 DEF Punctual, OnTime
  <2>1. at[p] = first[p].at /\ at[p] \in Nat
    BY <1>3 DEF HoursOf
  <2>2. e >= 2 /\ Moment(at[p], e) <= now
    BY DEF Waiting, FirstDay
  <2> HIDE DEF at
  <2>3. PICK k \in Nat : e = 2 + k
    <3>1. e - 2 \in Nat
      BY <2>2
    <3> QED BY <3>1
  <2>4. (2 + k) * DayLen = 2 * DayLen + k * DayLen /\ k * DayLen \in Nat
    BY <1>4
  <2>5. Moment(at[p], e) = 2 * DayLen + k * DayLen + at[p]
    BY <2>3, <2>4 DEF Moment
  <2> QED BY <1>4, <2>1, <2>2, <2>4, <2>5
<1>8. RunKnown(at, cur, sched, now, D)
  BY <1>6 DEF RunKnown
<1> QED BY <1>1, <1>5, <1>6, <1>7, <1>8 DEF Serving

\* A calm pass keeps it.
LEMMA PassServed ==
  ASSUME NEW D \in Nat, ScheduleFits(D), Inv, ServedInv(D), NEW d \in 1..MaxStall,
         NEW valid \in BOOLEAN, NEW jump \in Jumps \cup {0},
         NEW upload \in {"none", "begin", "end"}, ota \/ upload # "end", NEW c \in Commands,
         NEW failing \in SUBSET Pumps, Pass(d, jump, valid, upload, c, failing)
  PROVE  ServedInv(D)'
<1> SUFFICES ASSUME calm', \A p \in Pumps : Servable(pumps'[p])
             PROVE  ota' = FALSE /\ Serving(driver', sched', pumps', now', D)
  BY DEF ServedInv
<1> DEFINE t == now + d + jump
           blocked == upload = "begin" \/ (ota /\ upload # "end")
           v2 == IF upload = "begin" THEN AllOff ELSE DriverLoop(driver, d)
           w == [v |-> v2, s |-> Aged(sched, d), served |-> FALSE,
                 m |-> [pumps |-> pumps, flash |-> flash]]
           x == SchedulerLoop(w, t, valid, blocked, failing)
           r == x.m.pumps[c.pump]
           m2 == SavePump(x.m, c.pump, Edited(r, c, valid), c.pump \notin failing)
           dosesNow == c.kind = "manual" /\ MayDoseManually(x.v, r)
<1>1. /\ t >= FirstDay * DayLen /\ t <= LastTime /\ now' = t /\ ota' = blocked /\ sched' = x.s
      /\ driver' = IF dosesNow THEN StartPump(x.v, c.pump) ELSE x.v
      /\ pumps' = m2.pumps
      /\ calm' = (calm /\ valid /\ jump = 0 /\ ~blocked /\ c = NoCommand)
  BY DEF Pass
<1>2. calm /\ valid = TRUE /\ jump = 0 /\ blocked = FALSE /\ c = NoCommand
  BY <1>1
<1>3. c.kind = "none" /\ c.pump \in Pumps
  BY <1>2, EditedPump DEF NoCommand
<1>4. upload # "begin"
  BY <1>2
<1>5. t = now + d /\ t \in Instants /\ now \in Nat
  <2>1. now \in Nat /\ d \in Int /\ LastTime \in Int /\ DayLen \in Int
    BY DoserAssumption DEF Inv, TypeOK
  <2> QED BY <1>1, <1>2, <2>1 DEF Instants, FirstDay
<1>6. x = SchedulerLoop([v |-> DriverLoop(driver, d), s |-> Aged(sched, d), served |-> FALSE,
                         m |-> Memory], t, TRUE, FALSE, failing)
  BY <1>2, <1>4 DEF Memory
<1>7. Memory \in MemType /\ Memory.pumps = pumps
  BY MemoryOK DEF Inv
<1>8. ~dosesNow
  BY <1>3
<1> HIDE DEF t, blocked, dosesNow
<1> DEFINE w0 == [v |-> DriverLoop(driver, d), s |-> Aged(sched, d), served |-> FALSE,
                  m |-> Memory]
<1>9. XOK(w0) /\ OwnsOrOff(w0.s, w0.v) /\ w0.m = Memory
  <2>1. /\ DriverOK(DriverLoop(driver, d)) /\ SchedOK(Aged(sched, d))
        /\ OwnsOrOff(Aged(sched, d), DriverLoop(driver, d))
    BY DriverStep DEF Inv
  <2>2. w0 \in XType
    BY <1>7, <2>1 DEF XType, DriverOK, SchedOK
  <2> QED BY <2>1, <2>2 DEF XOK
<1>10. XOK(x) /\ OnlyUses(pumps, x.m.pumps)
  <2>1. XOK(SchedulerLoop(w0, t, TRUE, FALSE, failing))
    BY <1>5, <1>9, SchedulerStep
  <2>2. OnlyUses(w0.m.pumps, SchedulerLoop(w0, t, TRUE, FALSE, failing).m.pumps)
    BY <1>5, <1>9, SchedulerUses
  <2> QED BY <1>6, <1>7, <1>9, <2>1, <2>2
<1> HIDE DEF w0, x
<1>11. pumps' = x.m.pumps
  <2>1. x.m.pumps \in [Pumps -> PumpType]
    BY <1>10 DEF XOK, XType, MemType
  <2>2. Edited(r, c, valid) = r
    BY <1>3 DEF Edited
  <2>3. m2.pumps = [x.m.pumps EXCEPT ![c.pump] = r]
    BY <2>2 DEF SavePump
  <2> QED BY <1>1, <2>1, <2>3
<1>12. \A p \in Pumps : Servable(pumps[p])
  <2>1. ASSUME NEW p \in Pumps PROVE Servable(pumps[p])
    <3>1. /\ pumps'[p].dose = pumps[p].dose /\ pumps'[p].remaining <= pumps[p].remaining
          /\ pumps'[p].remaining >= pumps'[p].dose /\ pumps'[p].dose + MaxStall <= MaxRun + 1
      BY <1>10, <1>11 DEF OnlyUses, Servable
    <3>2. pumps[p].dose \in Nat /\ pumps[p].remaining \in Nat /\ pumps'[p].remaining \in Nat
      <4>1. pumps[p] \in PumpType /\ pumps'[p] \in PumpType
        BY <1>10, <1>11 DEF Inv, TypeOK, XOK, XType, MemType
      <4>2. Doses \subseteq Nat /\ 0..Refill \subseteq Nat
        BY DoserAssumption
      <4> QED BY <4>1, <4>2 DEF PumpType
    <3> QED BY <3>1, <3>2 DEF Servable
  <2> QED BY <2>1
<1>13. Serving(driver, sched, pumps, now, D)
  BY <1>2, <1>12 DEF ServedInv
<1>14. DriverOK(driver) /\ SchedOK(sched) /\ Owns(sched, driver)
  BY DEF Inv
<1>15. Serving(x.v, x.s, x.m.pumps, t, D)
  <2>1. x = SchedulerLoop(w0, t, TRUE, FALSE, failing)
    BY <1>6 DEF w0
  <2>2. \A p \in Pumps : Servable(x.m.pumps[p])
    BY <1>11
  <2> QED BY <1>5, <1>7, <1>12, <1>13, <1>14, <2>1, <2>2, CalmLoop DEF w0
<1> QED BY <1>1, <1>2, <1>8, <1>11, <1>15

\* Every step keeps it.
LEMMA NextServed ==
  ASSUME NEW D \in Nat, ScheduleFits(D)
  PROVE  Inv /\ ServedInv(D) /\ [Next]_vars => ServedInv(D)'
<1> SUFFICES ASSUME Inv, ServedInv(D), [Next]_vars PROVE ServedInv(D)'
  OBVIOUS
<1>1. CASE Loop
  <2>1. PICK d \in 1..MaxStall, valid \in BOOLEAN, jump \in Jumps \cup {0},
             upload \in {"none", IF ota THEN "end" ELSE "begin"}, c \in Commands,
             failing \in SUBSET Pumps : Pass(d, jump, valid, upload, c, failing)
    BY <1>1 DEF Loop
  <2>2. upload \in {"none", "begin", "end"} /\ (ota \/ upload # "end")
    OBVIOUS
  <2> QED BY <2>1, <2>2, PassServed
<1>2. CASE Restart
  BY <1>2 DEF Restart, ServedInv
<1>3. CASE UNCHANGED vars
  BY <1>3 DEF vars, ServedInv
<1> QED BY <1>1, <1>2, <1>3 DEF Next

(***************************************************************************)
(* SchedulerManager: pumps that fall due together are served one after the  *)
(* other, each within its window, as long as nothing but passes happens, no  *)
(* dose exceeds D and ScheduleFits(D).                                      *)
(***************************************************************************)
THEOREM NothingEverMissed ==
  ASSUME NEW D \in Nat, ScheduleFits(D)
  PROVE  Spec => []NothingMissed
<1>1. Init => ServedInv(D)
  BY InitServed
<1>2. Inv /\ ServedInv(D) /\ [Next]_vars => ServedInv(D)'
  BY NextServed
<1>3. ServedInv(D) => NothingMissed
  BY DEF ServedInv, NothingMissed, Servable, Serving, Healthy
<1> QED BY <1>1, <1>2, <1>3, InvAlways, PTL DEF Spec

-----------------------------------------------------------------------------
(***************************************************************************)
(* The firmware upload, for every number and size of sessions and every     *)
(* interleaving of the two tasks.  What is in the bridge's slot, what the    *)
(* loop has in hand and what is being written belong to the active session,  *)
(* which is not released before it is over; and an answer is final, as the   *)
(* last operation of a session was waited for or was given up.  The parts    *)
(* written are counted by the request and by the loop, one ahead while a     *)
(* part is under way: hence the refinement of FirmwareUpdate.                *)
(***************************************************************************)

Texts == {"none", "ok", "refused", "unknown"}
InFlight == slot \in {"Queued", "Processing"}

\* The request in the HTTP task is that of the last session, and not answered while it goes on.
RouteInv ==
  /\ last \in 0..MaxSessions /\ active \in {NoGeneration, last} /\ token \in {NoGeneration, last}
  /\ told \in [Generations -> Texts]
  /\ \A g \in Generations : g > last => told[g] = "none"
  /\ op \in {"start", "chunk", "end", "arm"}
  /\ routePc \in {"idle", "body", "admit", "submit", "wait", "close"}
  /\ routePc \in {"submit", "wait"} => token # NoGeneration
  /\ routePc = "admit" => token = NoGeneration
  /\ routePc \in {"body", "admit"} /\ token = NoGeneration => last < MaxSessions
  /\ routePc = "body" /\ token # NoGeneration => told[token] = "none"
  /\ routePc \in {"submit", "wait"} /\ op # "arm" => told[token] = "none"

\* A command in the slot is that of the active session, and either waited for or given up.
SlotInv ==
  /\ slot \in {"Free", "Queued", "Processing", "Completed"}
  /\ routePc \in {"body", "admit", "submit"} => slot = "Free"
  /\ slot = "Completed" => routePc = "wait"
  /\ routePc = "wait" => slot # "Free" /\ attached /\ command.kind = op
  /\ InFlight => active # NoGeneration /\ command.gen = active /\ (attached => routePc = "wait")
  /\ InFlight /\ command.kind = "end" => told[active] \in {"none", "unknown"}

\* What the loop has in hand is what is in the slot.
LoopInv ==
  /\ slot = "Processing" <=> appPc \in {"work", "recheck", "complete"}
  /\ appPc \in {"work", "recheck", "complete"} => taken = command
  /\ appPc = "release" => state = "Idle"
  /\ appPc = "recheck" => state \in {"Starting", "Receiving"} /\ taken.kind \in {"start", "chunk"}

\* What is being written, or was, is the active session's, and holds the pumps back.
WriteInv ==
  /\ state \in {"Idle", "Starting", "Receiving", "Succeeded"}
  /\ state # "Idle" => active # NoGeneration /\ generation = active /\ guard /\ pumping = FALSE
  /\ begun => state \in {"Starting", "Receiving"}

\* An image is complete once its END was carried out, whose answer may be on its way.
Answering == routePc = "wait" /\ op = "end" /\
  (\/ slot = "Processing" /\ appPc = "complete" /\ outcome = "ok"
   \/ slot = "Completed" /\ result = "ok")
AnswerInv ==
  /\ state = "Succeeded" =>
       /\ told[active] # "refused"
       /\ Answering \/ (routePc \in {"submit", "wait"} /\ op = "arm") \/ routePc \in {"close", "idle"}
       /\ InFlight /\ appPc # "complete" => command.kind = "arm"
  /\ slot = "Completed" /\ command.kind = "end" /\ result = "ok" => state = "Succeeded"
  /\ appPc = "complete" /\ taken.kind = "end" /\ outcome = "ok" => state = "Succeeded"
  /\ \A g \in Generations : told[g] = "ok" => state = "Succeeded" /\ active = g

SessionInv == RouteInv /\ SlotInv /\ LoopInv /\ WriteInv /\ AnswerInv

LEMMA InvInit == OtaInit => SessionInv
BY UploadAssumption DEF OtaInit, SessionInv, RouteInv, SlotInv, LoopInv, WriteInv, AnswerInv, InFlight,
   Texts

\* The two safety properties are read off WriteInv and AnswerInv.
LEMMA InvEnough == SessionInv => NoDoseWhileWriting /\ AnswersTrue
<1>1. SessionInv => NoDoseWhileWriting
  BY DEF SessionInv, WriteInv, NoDoseWhileWriting
<1>2. SessionInv => AnswersTrue
  BY DEF SessionInv, WriteInv, AnswerInv, AnswersTrue, Chosen
<1> QED
  BY <1>1, <1>2

-----------------------------------------------------------------------------
(* Each action keeps the invariant                                          *)

LEMMA RequestKeeps ==
  ASSUME SessionInv, \E n \in Sizes : Request(n)
  PROVE  SessionInv'
<1>1. RouteInv'
  BY DEF Request, bridge, SessionInv, RouteInv
<1>2. SlotInv'
  BY DEF Request, bridge, SessionInv, SlotInv, InFlight
<1>3. LoopInv'
  BY DEF Request, bridge, update, work, SessionInv, LoopInv
<1>4. WriteInv'
  BY DEF Request, update, SessionInv, WriteInv
<1>5. AnswerInv'
  BY DEF Request, bridge, update, work, SessionInv, WriteInv, AnswerInv
<1> QED
  BY <1>1, <1>2, <1>3, <1>4, <1>5 DEF SessionInv

LEMMA ReceiveKeeps ==
  ASSUME SessionInv, Receive
  PROVE  SessionInv'
<1>1. RouteInv'
  BY UploadAssumption DEF Receive, FileHeader, FileData, FileEnd, Broken, Answer, bridge, SessionInv,
     RouteInv, Texts
<1>2. SlotInv'
  BY DEF Receive, FileHeader, FileData, FileEnd, Broken, bridge, SessionInv, SlotInv, InFlight
<1>3. LoopInv'
  BY DEF Receive, bridge, update, work, SessionInv, LoopInv
<1>4. WriteInv'
  BY DEF Receive, bridge, update, device, SessionInv, WriteInv
<1>5. AnswerInv'
  BY DEF Receive, FileHeader, FileData, FileEnd, Broken, Answer, bridge, update, work, SessionInv,
     RouteInv, AnswerInv, Answering
<1> QED
  BY <1>1, <1>2, <1>3, <1>4, <1>5 DEF SessionInv

LEMMA AdmitSessionKeeps ==
  ASSUME SessionInv, AdmitSession
  PROVE  SessionInv'
<1>1. RouteInv'
  BY UploadAssumption DEF AdmitSession, SessionInv, RouteInv, Generations, NoGeneration
<1>2. SlotInv'
  BY DEF AdmitSession, SessionInv, SlotInv, InFlight
<1>3. LoopInv'
  BY DEF AdmitSession, update, work, SessionInv, LoopInv
<1>4. WriteInv'
  BY DEF AdmitSession, update, device, SessionInv, WriteInv
<1>5. AnswerInv'
  BY DEF AdmitSession, update, work, SessionInv, AnswerInv, Answering
<1> QED
  BY <1>1, <1>2, <1>3, <1>4, <1>5 DEF SessionInv

LEMMA SubmitKeeps ==
  ASSUME SessionInv, Submit
  PROVE  SessionInv'
<1>1. RouteInv'
  BY UploadAssumption DEF Submit, Answer, SessionInv, RouteInv, Texts
<1>2. SlotInv'
  BY UploadAssumption DEF Submit, Accepts, SessionInv, RouteInv, SlotInv, InFlight
<1>3. LoopInv'
  BY DEF Submit, Accepts, update, work, SessionInv, LoopInv
<1>4. WriteInv'
  BY DEF Submit, update, device, SessionInv, WriteInv
<1>5. AnswerInv'
  BY UploadAssumption DEF Submit, Answer, update, work, SessionInv, RouteInv, AnswerInv, Answering,
     InFlight
<1> QED
  BY <1>1, <1>2, <1>3, <1>4, <1>5 DEF SessionInv

LEMMA CollectKeeps ==
  ASSUME SessionInv, Collect
  PROVE  SessionInv'
<1>1. RouteInv'
  BY UploadAssumption DEF Collect, Goes, Answer, SessionInv, RouteInv, Texts
<1>2. SlotInv'
  BY DEF Collect, Goes, SlotInv, InFlight
<1>3. LoopInv'
  BY DEF Collect, update, SessionInv, LoopInv
<1>4. WriteInv'
  BY DEF Collect, update, device, SessionInv, WriteInv
<1>5. AnswerInv'
  BY UploadAssumption DEF Collect, Goes, Answer, update, work, SessionInv, RouteInv, SlotInv, WriteInv,
     AnswerInv, Answering, InFlight
<1> QED
  BY <1>1, <1>2, <1>3, <1>4, <1>5 DEF SessionInv

LEMMA TimeOutKeeps ==
  ASSUME SessionInv, TimeOut
  PROVE  SessionInv'
<1>1. RouteInv'
  BY UploadAssumption DEF TimeOut, TimeoutAnswer, Answer, SessionInv, RouteInv, Texts
<1>2. SlotInv'
  BY UploadAssumption DEF TimeOut, TimeoutAnswer, Answer, SessionInv, RouteInv, SlotInv, InFlight
<1>3. LoopInv'
  BY DEF TimeOut, update, work, SessionInv, LoopInv
<1>4. WriteInv'
  BY DEF TimeOut, update, device, SessionInv, WriteInv
<1>5. AnswerInv'
  BY UploadAssumption DEF TimeOut, TimeoutAnswer, Answer, update, work, SessionInv, RouteInv, SlotInv,
     WriteInv, AnswerInv, Answering
<1> QED
  BY <1>1, <1>2, <1>3, <1>4, <1>5 DEF SessionInv

LEMMA CloseKeeps ==
  ASSUME SessionInv, Close
  PROVE  SessionInv'
<1>1. RouteInv'
  BY DEF Close, SessionInv, RouteInv
<1>2. SlotInv'
  BY DEF Close, SessionInv, SlotInv, InFlight
<1>3. LoopInv'
  BY DEF Close, update, work, SessionInv, LoopInv
<1>4. WriteInv'
  BY DEF Close, update, device, SessionInv, WriteInv
<1>5. AnswerInv'
  BY DEF Close, update, work, SessionInv, AnswerInv, InFlight
<1> QED
  BY <1>1, <1>2, <1>3, <1>4, <1>5 DEF SessionInv

LEMMA TakeKeeps ==
  ASSUME SessionInv, Take
  PROVE  SessionInv'
<1>1. RouteInv'
  BY DEF Take, route, SessionInv, RouteInv
<1>2. SlotInv'
  BY DEF Take, route, SessionInv, SlotInv, InFlight
<1>3. LoopInv'
  BY DEF Take, SessionInv, LoopInv
<1>4. WriteInv'
  BY DEF Take, update, device, SessionInv, WriteInv
<1>5. AnswerInv'
  BY DEF Take, route, update, SessionInv, AnswerInv, Answering, InFlight
<1> QED
  BY <1>1, <1>2, <1>3, <1>4, <1>5 DEF SessionInv

LEMMA WorkKeeps ==
  ASSUME SessionInv, Work
  PROVE  SessionInv'
<1>1. RouteInv'
  BY DEF Work, bridge, route, SessionInv, RouteInv
<1>2. SlotInv'
  BY DEF Work, bridge, route, SessionInv, SlotInv, InFlight
<1>3. LoopInv'
  BY DEF Work, Start, Chunk, End, ArmRestart, Refuses, Fails, Ends, bridge, SessionInv, LoopInv
<1>4. WriteInv'
  BY DEF Work, Start, Chunk, End, ArmRestart, Refuses, Fails, Cleanup, bridge, update, SessionInv,
     SlotInv, LoopInv, WriteInv, InFlight
<1>5. AnswerInv'
  BY DEF Work, Start, Chunk, End, ArmRestart, Refuses, Fails, Ends, Cleanup, bridge, route,
     update, SessionInv, RouteInv, SlotInv, LoopInv, AnswerInv, Answering, InFlight
<1> QED
  BY <1>1, <1>2, <1>3, <1>4, <1>5 DEF SessionInv

LEMMA RecheckKeeps ==
  ASSUME SessionInv, Recheck
  PROVE  SessionInv'
<1>1. RouteInv'
  BY DEF Recheck, bridge, route, SessionInv, RouteInv
<1>2. SlotInv'
  BY DEF Recheck, bridge, route, SessionInv, SlotInv, InFlight
<1>3. LoopInv'
  BY DEF Recheck, Fails, Ends, bridge, SessionInv, LoopInv
<1>4. WriteInv'
  BY DEF Recheck, Fails, Cleanup, bridge, SessionInv, LoopInv, WriteInv
<1>5. AnswerInv'
  BY DEF Recheck, Fails, Cleanup, bridge, route, SessionInv, LoopInv, AnswerInv
<1> QED
  BY <1>1, <1>2, <1>3, <1>4, <1>5 DEF SessionInv

LEMMA CompleteKeeps ==
  ASSUME SessionInv, Complete
  PROVE  SessionInv'
<1>1. RouteInv'
  BY DEF Complete, route, SessionInv, RouteInv
<1>2. SlotInv'
  BY DEF Complete, route, SessionInv, SlotInv, InFlight
<1>3. LoopInv'
  BY DEF Complete, update, SessionInv, LoopInv
<1>4. WriteInv'
  BY DEF Complete, update, device, SessionInv, WriteInv
<1>5. AnswerInv'
  BY DEF Complete, route, update, SessionInv, SlotInv, LoopInv, AnswerInv, Answering, InFlight
<1> QED
  BY <1>1, <1>2, <1>3, <1>4, <1>5 DEF SessionInv

LEMMA AbandonKeeps ==
  ASSUME SessionInv, Abandon
  PROVE  SessionInv'
<1>1. RouteInv'
  BY DEF Abandon, bridge, route, SessionInv, RouteInv
<1>2. SlotInv'
  BY DEF Abandon, bridge, route, SessionInv, SlotInv, InFlight
<1>3. LoopInv'
  BY DEF Abandon, Doomed, Cleanup, bridge, update, SessionInv, LoopInv
<1>4. WriteInv'
  BY DEF Abandon, Cleanup, bridge, update, SessionInv, WriteInv
<1>5. AnswerInv'
  BY DEF Abandon, Doomed, Cleanup, bridge, route, update, SessionInv, AnswerInv, Answering, InFlight
<1> QED
  BY <1>1, <1>2, <1>3, <1>4, <1>5 DEF SessionInv

LEMMA ReleaseKeeps ==
  ASSUME SessionInv, Release
  PROVE  SessionInv'
<1>1. RouteInv'
  BY DEF Release, route, SessionInv, RouteInv
<1>2. SlotInv'
  BY DEF Release, route, SessionInv, SlotInv, InFlight
<1>3. LoopInv'
  BY DEF Release, SessionInv, LoopInv
<1>4. WriteInv'
  BY DEF Release, update, SessionInv, LoopInv, WriteInv
<1>5. AnswerInv'
  BY DEF Release, route, update, SessionInv, LoopInv, AnswerInv
<1> QED
  BY <1>1, <1>2, <1>3, <1>4, <1>5 DEF SessionInv

LEMMA WebKeeps ==
  ASSUME SessionInv, Web
  PROVE  SessionInv'
<1>1. RouteInv'
  BY DEF Web, bridge, route, SessionInv, RouteInv
<1>2. SlotInv'
  BY DEF Web, bridge, route, SessionInv, SlotInv, InFlight
<1>3. LoopInv'
  BY DEF Web, bridge, SessionInv, LoopInv
<1>4. WriteInv'
  BY DEF Web, bridge, update, SessionInv, WriteInv
<1>5. AnswerInv'
  BY DEF Web, bridge, route, update, SessionInv, AnswerInv, Answering, InFlight
<1> QED
  BY <1>1, <1>2, <1>3, <1>4, <1>5 DEF SessionInv

LEMMA FinishKeeps ==
  ASSUME SessionInv, Finish
  PROVE  SessionInv'
<1>1. RouteInv'
  BY DEF Finish, bridge, route, SessionInv, RouteInv
<1>2. SlotInv'
  BY DEF Finish, bridge, route, SessionInv, SlotInv, InFlight
<1>3. LoopInv'
  BY DEF Finish, bridge, SessionInv, LoopInv
<1>4. WriteInv'
  BY DEF Finish, Blocks, RestartDone, bridge, SessionInv, WriteInv
<1>5. AnswerInv'
  BY DEF Finish, bridge, route, SessionInv, AnswerInv, Answering, InFlight
<1> QED
  BY <1>1, <1>2, <1>3, <1>4, <1>5 DEF SessionInv

LEMMA InvNext ==
  ASSUME SessionInv, [OtaNext]_otaVars
  PROVE  SessionInv'
<1>1. CASE UNCHANGED otaVars \/ AskRestart \/ RestartTime
  BY <1>1 DEF AskRestart, RestartTime, otaVars, bridge, route, update, work, device, SessionInv, RouteInv,
     SlotInv, LoopInv, WriteInv, AnswerInv, Answering, InFlight
<1>2. CASE WatchdogTime
  BY <1>2 DEF WatchdogTime, bridge, route, update, work, SessionInv, RouteInv, SlotInv, LoopInv,
     WriteInv, AnswerInv, Answering, InFlight
<1>3. CASE (\E n \in Sizes : Request(n)) \/ Http
  BY <1>3, RequestKeeps, ReceiveKeeps, AdmitSessionKeeps, SubmitKeeps, CollectKeeps,
     TimeOutKeeps, CloseKeeps DEF Http
<1>4. CASE App
  BY <1>4, TakeKeeps, WorkKeeps, RecheckKeeps, CompleteKeeps, AbandonKeeps, ReleaseKeeps,
     WebKeeps, FinishKeeps DEF App
<1> QED
  BY <1>1, <1>2, <1>3, <1>4 DEF OtaNext

\* What the slot, the loop and the flash hold belongs to the active session, for any number and
\* size of sessions (StreamingUploadBridge, DoserOtaApplication).
THEOREM Invariant == OtaSpec => []SessionInv
<1>1. OtaInit => SessionInv
  BY InvInit
<1>2. SessionInv /\ [OtaNext]_otaVars => SessionInv'
  BY InvNext
<1> QED
  BY <1>1, <1>2, PTL DEF OtaSpec

\* Whatever the order of operations, cancellations and time-outs, no pump runs from the moment the
\* flash is opened until the session is over (setOtaInProgress, blocksMqttService).
THEOREM NeverDosesWhileWriting == OtaSpec => []NoDoseWhileWriting
BY Invariant, InvEnough, PTL

\* 200 and a refusal are final, however many sessions and time-outs come before or after
\* (DoserNativeOtaRoute).
THEOREM AnswersAlwaysTrue == OtaSpec => []AnswersTrue
BY Invariant, InvEnough, PTL

-----------------------------------------------------------------------------
(* What is written                                                          *)

Writing == state \in {"Starting", "Receiving"}
Waits == slot = "Queued" \/ appPc = "work"        \* for the loop to carry it out
Done == appPc \in {"recheck", "complete"} \/ slot = "Completed"

\* The request counts its parts as the loop does, one part ahead while one is under way.
CountInv ==
  /\ sent \in Nat /\ received \in Nat /\ expected \in Nat
  /\ routePc # "idle" => size \in Sizes
  /\ command.kind \in {"start", "chunk", "end", "arm"}
  /\ Waits /\ command.kind = "start" => command.size \in Sizes /\ state = "Idle"
  /\ (routePc = "body" /\ token = NoGeneration) \/ routePc = "admit" => sent = 0 /\ active = NoGeneration
  /\ routePc \in {"submit", "wait"} /\ op = "start" => sent = 0
  /\ routePc = "body" /\ token = NoGeneration => state = "Idle"
  /\ routePc = "submit" /\ op = "start" => state = "Idle"
  /\ routePc \in {"body", "submit"} /\ token # NoGeneration /\ Writing => received = sent
  /\ Waits /\ command.kind = "chunk" /\ Writing =>
       data = <<active, received + 1>> /\ (routePc = "wait" => received = sent)
  /\ routePc = "wait" /\ Done /\ Writing =>
       received = IF op = "chunk" THEN sent + 1 ELSE sent
  /\ state = "Starting" => appPc = "recheck"
  /\ (routePc \in {"submit", "wait"} /\ op = "arm") \/ (Waits /\ command.kind = "arm") => ~Writing

\* The parts written are the first of the active session, in order, and in the end all of them.
ImageInv ==
  /\ begun <=> Writing
  /\ state # "Idle" =>
       /\ expected \in Sizes /\ generation \in Generations
       /\ image = Update!Parts(generation, received) /\ received <= expected
  /\ state = "Succeeded" => received = expected
  /\ restart # "none" => ~begun

UploadInv == CountInv /\ ImageInv

LEMMA UploadInit == OtaInit => UploadInv
BY DEF OtaInit, UploadInv, CountInv, ImageInv, Writing, NoUpload

\* A part after the first n.
LEMMA NextPart ==
  ASSUME NEW g, NEW n \in Nat
  PROVE  /\ Append(Update!Parts(g, n), <<g, n + 1>>) = Update!Parts(g, n + 1)
         /\ Len(Update!Parts(g, n)) = n
         /\ Update!Parts(g, 0) = << >>
<1> DEFINE P(k) == [i \in 1..k |-> <<g, i>>]
<1>1. P(n) \in Seq({g} \X Nat) /\ Len(P(n)) = n
  OBVIOUS
<1>2. Append(P(n), <<g, n + 1>>) = P(n + 1)
  BY <1>1
<1>3. P(0) = << >>
  OBVIOUS
<1> QED
  BY <1>1, <1>2, <1>3 DEF Update!Parts

\* Each action keeps the count.
LEMMA RequestCounts ==
  ASSUME SessionInv, UploadInv, \E n \in Sizes : Request(n)
  PROVE  UploadInv'
<1>1. CountInv'
  BY DEF Request, bridge, update, SessionInv, SlotInv, LoopInv, WriteInv, InFlight, UploadInv,
     CountInv, Waits
<1>2. ImageInv'
  BY DEF Request, update, SessionInv, WriteInv, ImageInv, Writing
<1> QED
  BY <1>1, <1>2 DEF UploadInv

LEMMA ReceiveCounts ==
  ASSUME SessionInv, UploadInv, Receive
  PROVE  UploadInv'
<1>1. CountInv'
  BY DEF Receive, FileHeader, FileData, FileEnd, Broken, bridge, update, UploadInv, CountInv,
     Writing, Waits
<1>2. ImageInv'
  BY DEF Receive, update, device, UploadInv, ImageInv, Writing
<1> QED
  BY <1>1, <1>2 DEF UploadInv

LEMMA AdmitSessionCounts ==
  ASSUME SessionInv, UploadInv, AdmitSession
  PROVE  UploadInv'
<1>1. CountInv'
  BY DEF AdmitSession, update, SessionInv, WriteInv, UploadInv, CountInv, Writing, Waits
<1>2. ImageInv'
  BY DEF AdmitSession, update, device, UploadInv, ImageInv, Writing
<1> QED
  BY <1>1, <1>2 DEF UploadInv

LEMMA SubmitCounts ==
  ASSUME SessionInv, UploadInv, Submit
  PROVE  UploadInv'
<1>1. ImageInv'
  BY DEF Submit, update, device, UploadInv, ImageInv, Writing
<1>2. /\ routePc = "submit" /\ slot = "Free" /\ token # NoGeneration
      /\ UNCHANGED <<active, token, op, sent, size, appPc, state, expected, received>>
      /\ appPc \notin {"work", "recheck", "complete"}
  BY DEF Submit, update, SessionInv, RouteInv, SlotInv, LoopInv
<1>3. ~Waits /\ ~Done /\ Writing' = Writing
  BY <1>2 DEF Waits, Done, Writing
<1>4. CASE routePc' \in {"idle", "close"} /\ UNCHANGED <<command, data, slot>>
  BY <1>1, <1>2, <1>3, <1>4 DEF UploadInv, CountInv, Waits
<1>5. CASE /\ Accepts /\ routePc' = "wait" /\ slot' = "Queued"
           /\ command' = [kind |-> op, gen |-> token, size |-> IF op = "start" THEN size ELSE 0]
           /\ data' = IF op = "chunk" THEN <<token, sent + 1>> ELSE data
  <2>1. ~Done' /\ token = active
    BY <1>2, <1>5 DEF Accepts, Done
  <2>2. command'.kind = op /\ (op = "start" => command'.size = size)
    BY <1>5
  <2>3. op \in {"start", "chunk", "end", "arm"}
    BY DEF SessionInv, RouteInv
  <2>4. CountInv'
    BY <1>2, <1>3, <1>5, <2>1, <2>2, <2>3 DEF UploadInv, CountInv
  <2> QED
    BY <1>1, <2>4 DEF UploadInv
<1> QED
  BY <1>1, <1>4, <1>5 DEF Submit, UploadInv

LEMMA CollectCounts ==
  ASSUME SessionInv, UploadInv, Collect
  PROVE  UploadInv'
<1>1. ImageInv'
  BY DEF Collect, update, device, UploadInv, ImageInv, Writing
<1>2. /\ routePc = "wait" /\ slot = "Completed" /\ slot' = "Free" /\ token # NoGeneration
      /\ active' = active /\ token' = token /\ command' = command /\ data' = data /\ appPc' = appPc
      /\ state' = state /\ expected' = expected /\ received' = received /\ size' = size
      /\ sent' = IF op = "chunk" /\ result = "ok" THEN sent + 1 ELSE sent
  BY DEF Collect, update, SessionInv, RouteInv
<1>3. appPc \notin {"work", "recheck", "complete"}
  BY <1>2 DEF SessionInv, LoopInv
<1>4. ~Waits' /\ ~Done' /\ Writing' = Writing
  BY <1>2, <1>3 DEF Waits, Done, Writing
<1>5. sent \in Nat /\ sent' \in Nat
  BY <1>2 DEF UploadInv, CountInv
<1>6. Writing => received = IF op = "chunk" THEN sent + 1 ELSE sent
  BY <1>2 DEF UploadInv, CountInv, Done
<1>7. \/ routePc' \in {"idle", "close"}
      \/ routePc' = "body" /\ op \in {"start", "chunk"} /\ result = "ok"
      \/ routePc' = "submit" /\ op = "end" /\ op' = "arm" /\ result = "ok"
  BY DEF Collect, Goes, Answer
<1>8. CountInv'
  <2>1. CASE routePc' \in {"idle", "close"}
    BY <1>2, <1>3, <1>4, <1>5, <2>1 DEF UploadInv, CountInv
  <2>2. CASE routePc' = "body" /\ op \in {"start", "chunk"} /\ result = "ok"
    BY <1>2, <1>3, <1>4, <1>5, <1>6, <2>2 DEF UploadInv, CountInv
  <2>3. CASE routePc' = "submit" /\ op = "end" /\ op' = "arm" /\ result = "ok"
    <3>1. state = "Succeeded"
      BY <1>2, <2>3 DEF SessionInv, SlotInv, AnswerInv
    <3> QED
      BY <1>2, <1>3, <1>4, <1>5, <2>3, <3>1 DEF UploadInv, CountInv, Writing
  <2> QED
    BY <1>7, <2>1, <2>2, <2>3
<1> QED
  BY <1>1, <1>8 DEF UploadInv

LEMMA TimeOutCounts ==
  ASSUME SessionInv, UploadInv, TimeOut
  PROVE  UploadInv'
<1>1. CountInv'
  BY DEF TimeOut, update, UploadInv, CountInv, Writing, Waits
<1>2. ImageInv'
  BY DEF TimeOut, update, device, UploadInv, ImageInv, Writing
<1> QED
  BY <1>1, <1>2 DEF UploadInv

LEMMA CloseCounts ==
  ASSUME SessionInv, UploadInv, Close
  PROVE  UploadInv'
<1>1. CountInv'
  BY DEF Close, update, UploadInv, CountInv, Writing, Waits
<1>2. ImageInv'
  BY DEF Close, update, device, UploadInv, ImageInv, Writing
<1> QED
  BY <1>1, <1>2 DEF UploadInv

LEMMA TakeCounts ==
  ASSUME SessionInv, UploadInv, Take
  PROVE  UploadInv'
<1>1. CountInv'
  BY DEF Take, route, update, UploadInv, CountInv, Writing, Waits, Done
<1>2. ImageInv'
  BY DEF Take, update, device, UploadInv, ImageInv, Writing
<1> QED
  BY <1>1, <1>2 DEF UploadInv

LEMMA WorkCounts ==
  ASSUME SessionInv, UploadInv, Work
  PROVE  UploadInv'
<1>1. /\ slot = "Processing" /\ slot' = slot /\ appPc = "work" /\ taken = command
      /\ routePc \notin {"body", "admit", "submit"} /\ routePc' = routePc
      /\ UNCHANGED <<active, command, data, token, op, sent, size>>
      /\ active \in Generations /\ command.gen = active /\ (routePc = "wait" => op = command.kind)
      /\ Waits
  BY DEF Work, bridge, route, SessionInv, RouteInv, SlotInv, LoopInv, InFlight, Waits, Generations,
     NoGeneration
<1>2. /\ appPc' \in {"recheck", "complete"} /\ ~Waits' /\ Done'
  BY <1>1 DEF Work, Start, Chunk, End, ArmRestart, Refuses, Fails, Ends, Waits, Done
<1>3. CASE Cleanup
  <2>1. state' = "Idle" /\ received' = 0 /\ expected' = 0 /\ begun' = FALSE
    BY <1>3 DEF Cleanup
  <2>2. CountInv'
    BY <1>1, <1>2, <2>1 DEF UploadInv, CountInv, Writing
  <2>3. ImageInv'
    BY <2>1 DEF ImageInv, Writing
  <2> QED
    BY <2>2, <2>3 DEF UploadInv
<1>4. ASSUME ~Writing, UNCHANGED <<state, generation, expected, received, begun, image>>
      PROVE  UploadInv'
  <2>1. CountInv'
    BY <1>1, <1>2, <1>4 DEF UploadInv, CountInv, Writing
  <2>2. ImageInv'
    BY <1>4 DEF UploadInv, ImageInv, Writing
  <2> QED
    BY <2>1, <2>2 DEF UploadInv
<1>5. CASE Refuses
  <2>1. state = "Receiving" => Valid
    BY <1>1 DEF Valid, SessionInv, WriteInv
  <2>2. Writing => state = "Receiving" /\ command.kind \in {"chunk", "end"}
    BY <1>1 DEF UploadInv, CountInv, Writing
  <2>3. ~Writing
    BY <1>1, <1>5, <2>1, <2>2 DEF Work, Start, Chunk, End, ArmRestart, Refuses, Fails, Cleanup,
       update
  <2> QED
    BY <1>4, <1>5, <2>3 DEF Refuses, update
<1>6. CASE ArmRestart /\ state = "Succeeded"
  BY <1>4, <1>5, <1>6 DEF ArmRestart, Writing
<1>7. CASE Start /\ appPc' = "recheck"
  <2>1. /\ state' = "Starting" /\ generation' = active /\ expected' = command.size /\ received' = 0
        /\ begun' = TRUE /\ image' = << >> /\ restart' = "none" /\ command.kind = "start"
    BY <1>1, <1>7 DEF Start, Refuses, Ends
  <2>2. command.size \in Sizes /\ (routePc = "wait" => op = "start" /\ sent = 0)
    BY <1>1, <2>1 DEF UploadInv, CountInv
  <2>3. CountInv'
    BY UploadAssumption, <1>1, <1>2, <1>7, <2>1, <2>2 DEF UploadInv, CountInv
  <2>4. Update!Parts(active, 0) = << >>
    BY NextPart
  <2>5. ImageInv'
    <3>1. image' = Update!Parts(generation', received')
      BY <2>1, <2>4
    <3>2. received' <= expected'
      <4>1. command.size \in Nat
        BY UploadAssumption, <2>2 DEF UploadAssumption
      <4>2. \A n \in Nat : 0 <= n
        OBVIOUS
      <4> QED
        BY <2>1, <4>1, <4>2
    <3> QED
      BY <1>1, <1>7, <2>1, <2>2, <3>1, <3>2 DEF ImageInv, Writing
  <2> QED
    BY <2>3, <2>5 DEF UploadInv
<1>8. CASE Chunk /\ appPc' = "recheck"
  <2>1. /\ state = "Receiving" /\ received < expected /\ image' = Append(image, data)
        /\ received' = received + 1 /\ command.kind = "chunk"
        /\ UNCHANGED <<state, generation, expected, begun, restart>>
    BY <1>1, <1>8 DEF Chunk, Refuses, Ends, Fails
  <2>2. data = <<active, received + 1>> /\ (routePc = "wait" => op = "chunk" /\ received = sent)
    BY <1>1, <2>1 DEF UploadInv, CountInv, Writing
  <2>3. generation = active
    BY <2>1 DEF SessionInv, WriteInv
  <2>4. CountInv'
    BY <1>1, <1>2, <2>1, <2>2 DEF UploadInv, CountInv
  <2>5. image' = Update!Parts(generation', received')
    BY <2>1, <2>2, <2>3, NextPart DEF UploadInv, CountInv, ImageInv
  <2>6. ImageInv'
    BY <2>1, <2>5 DEF UploadInv, CountInv, ImageInv, Writing
  <2> QED
    BY <2>4, <2>6 DEF UploadInv
<1>9. CASE End /\ state' = "Succeeded" /\ outcome' = "ok"
  <2>1. /\ state = "Receiving" /\ received = expected /\ ~begun' /\ command.kind = "end"
        /\ UNCHANGED <<generation, expected, received, image>>
    BY <1>1, <1>9 DEF End, Refuses, Ends, Fails
  <2>2. CountInv'
    BY <1>1, <1>2, <1>9, <2>1 DEF UploadInv, CountInv, Writing
  <2>3. ImageInv'
    BY <1>9, <2>1 DEF UploadInv, ImageInv, Writing
  <2> QED
    BY <2>2, <2>3 DEF UploadInv
<1> QED
  BY <1>3, <1>5, <1>6, <1>7, <1>8, <1>9 DEF Work, Start, Chunk, End, ArmRestart, Fails, Ends

LEMMA RecheckCounts ==
  ASSUME SessionInv, UploadInv, Recheck
  PROVE  UploadInv'
<1>1. /\ slot = "Processing" /\ slot' = slot /\ appPc = "recheck" /\ appPc' = "complete"
      /\ routePc \notin {"body", "admit", "submit"} /\ UNCHANGED <<routePc, op, sent, size>>
      /\ command' = command /\ state \in {"Starting", "Receiving"}
  BY DEF Recheck, Fails, Ends, bridge, route, SessionInv, SlotInv, LoopInv
<1>2. CASE Cancelled(taken.gen)
  <2>1. state' = "Idle" /\ received' = 0 /\ expected' = 0 /\ begun' = FALSE
    BY <1>2 DEF Recheck, Fails, Cleanup
  <2>2. CountInv'
    BY <1>1, <2>1 DEF UploadInv, CountInv, Writing, Waits
  <2>3. ImageInv'
    BY <2>1 DEF ImageInv, Writing
  <2> QED
    BY <2>2, <2>3 DEF UploadInv
<1>3. CASE ~Cancelled(taken.gen)
  <2>1. /\ state' = "Receiving" /\ UNCHANGED <<active, data>>
        /\ UNCHANGED <<generation, expected, received, begun, image, restart>>
    BY <1>3 DEF Recheck, Ends, bridge
  <2>2. CountInv'
    BY <1>1, <2>1 DEF UploadInv, CountInv, Writing, Waits, Done
  <2>3. ImageInv'
    BY <1>1, <2>1 DEF UploadInv, ImageInv, Writing
  <2> QED
    BY <2>2, <2>3 DEF UploadInv
<1> QED
  BY <1>2, <1>3

LEMMA CompleteCounts ==
  ASSUME SessionInv, UploadInv, Complete
  PROVE  UploadInv'
<1>1. CountInv'
  BY DEF Complete, route, update, UploadInv, CountInv, Writing, Waits, Done
<1>2. ImageInv'
  BY DEF Complete, update, device, UploadInv, ImageInv, Writing
<1> QED
  BY <1>1, <1>2 DEF UploadInv

LEMMA AbandonCounts ==
  ASSUME SessionInv, UploadInv, Abandon
  PROVE  UploadInv'
<1>1. /\ appPc = "cancel" /\ appPc' \in {"release", "web"} /\ slot # "Processing"
      /\ UNCHANGED <<active, slot, command, data, routePc, token, op, sent, size, restart>>
  BY DEF Abandon, bridge, route, SessionInv, LoopInv
<1>2. CASE UNCHANGED <<update, image>>
  BY <1>1, <1>2 DEF update, UploadInv, CountInv, ImageInv, Writing, Waits, Done
<1>3. CASE Cleanup
  <2>1. state' = "Idle" /\ received' = 0 /\ expected' = 0 /\ begun' = FALSE
    BY <1>3 DEF Cleanup
  <2>2. CountInv'
    BY <1>1, <2>1 DEF UploadInv, CountInv, Writing, Waits
  <2>3. ImageInv'
    BY <2>1 DEF ImageInv, Writing
  <2> QED
    BY <2>2, <2>3 DEF UploadInv
<1> QED
  BY <1>2, <1>3 DEF Abandon

LEMMA ReleaseCounts ==
  ASSUME SessionInv, UploadInv, Release
  PROVE  UploadInv'
<1>1. CountInv'
  BY DEF Release, route, update, SessionInv, LoopInv, UploadInv, CountInv, Writing, Waits
<1>2. ImageInv'
  BY DEF Release, update, SessionInv, LoopInv, WriteInv, ImageInv, Writing
<1> QED
  BY <1>1, <1>2 DEF UploadInv

LEMMA WebCounts ==
  ASSUME SessionInv, UploadInv, Web
  PROVE  UploadInv'
<1>1. CountInv'
  BY DEF Web, bridge, route, update, UploadInv, CountInv, Writing, Waits, Done
<1>2. ImageInv'
  <2>1. begun => active # NoGeneration
    BY DEF SessionInv, WriteInv
  <2>2. restart' # "none" => ~begun
    BY <2>1 DEF Web, Grants, UploadInv, ImageInv
  <2> QED
    BY <2>2 DEF Web, update, UploadInv, ImageInv, Writing
<1> QED
  BY <1>1, <1>2 DEF UploadInv

LEMMA FinishCounts ==
  ASSUME SessionInv, UploadInv, Finish
  PROVE  UploadInv'
<1>1. CountInv'
  BY DEF Finish, bridge, route, UploadInv, CountInv, Writing, Waits, Done
<1>2. ImageInv'
  BY DEF Finish, Blocks, SessionInv, WriteInv, UploadInv, ImageInv, Writing
<1> QED
  BY <1>1, <1>2 DEF UploadInv

LEMMA UploadNext ==
  ASSUME SessionInv, UploadInv, [OtaNext]_otaVars
  PROVE  UploadInv'
<1>1. CASE UNCHANGED otaVars \/ AskRestart \/ RestartTime \/ WatchdogTime
  BY <1>1 DEF AskRestart, RestartTime, WatchdogTime, otaVars, bridge, route, update, device,
     UploadInv, CountInv, ImageInv, Writing, Waits, Done
<1>2. CASE (\E n \in Sizes : Request(n)) \/ Http
  BY <1>2, RequestCounts, ReceiveCounts, AdmitSessionCounts, SubmitCounts, CollectCounts,
     TimeOutCounts, CloseCounts DEF Http
<1>3. CASE App
  BY <1>3, TakeCounts, WorkCounts, RecheckCounts, CompleteCounts, AbandonCounts, ReleaseCounts,
     WebCounts, FinishCounts DEF App
<1> QED
  BY <1>1, <1>2, <1>3 DEF OtaNext

-----------------------------------------------------------------------------
(* Every step is one of FirmwareUpdate, or leaves what it sees alone        *)

Promised == [Update!Next]_(Update!vars)

\* A step that changes nothing FirmwareUpdate sees.
LEMMA Stutters ==
  ASSUME restart # "done", restart' # "done", begun' = begun, UNCHANGED <<expected, generation, image>>,
         (state' = "Succeeded") = (state = "Succeeded")
  PROVE  Promised
BY DEF Promised, Update!vars, Running

\* What was written is discarded, or there was nothing.
LEMMA Discards ==
  ASSUME UploadInv, restart # "done", restart' = restart, state # "Succeeded", Cleanup
  PROVE  Promised
<1>1. state' = "Idle" /\ begun' = FALSE /\ image' = IF begun THEN << >> ELSE image
  BY DEF Cleanup
<1>2. CASE begun
  BY <1>1, <1>2 DEF Promised, Update!Next, Update!Discard, Running
<1>3. CASE ~begun
  BY <1>1, <1>3 DEF Promised, Update!vars, Running
<1> QED
  BY <1>2, <1>3

\* execute() begins, writes, chooses or discards.
LEMMA WorkPromised ==
  ASSUME SessionInv, UploadInv, Running, Work
  PROVE  Promised
<1>1. /\ slot = "Processing" /\ appPc = "work" /\ taken = command /\ active \in Generations
      /\ command.gen = active /\ restart # "done" /\ Waits
  BY DEF Work, SessionInv, RouteInv, SlotInv, LoopInv, InFlight, Waits, Running, Generations, NoGeneration
<1>2. state = "Succeeded" => command.kind = "arm"
  BY <1>1 DEF SessionInv, AnswerInv, InFlight
<1>3. CASE Cleanup /\ restart' = restart /\ state # "Succeeded"
  BY <1>1, <1>3, Discards
<1>4. CASE Refuses
  BY <1>1, <1>4, Stutters DEF Refuses, update
<1>5. CASE ArmRestart
  <2>1. CASE Refuses
    BY <1>4, <2>1
  <2>2. CASE /\ restart' = (IF armed THEN restart ELSE Scheduled)
             /\ UNCHANGED <<state, generation, expected, begun, image>>
    BY <1>1, <2>2, Stutters DEF Scheduled
  <2> QED
    BY <1>5, <2>1, <2>2 DEF ArmRestart
<1>6. CASE Start /\ appPc' = "recheck"
  <2>1. /\ state = "Idle" /\ state' = "Starting" /\ generation' = active /\ expected' = command.size
        /\ begun' = TRUE /\ image' = << >> /\ restart' = restart /\ command.kind = "start"
    BY <1>1, <1>6 DEF Start, Refuses, Ends
  <2>2. command.size \in Sizes /\ begun = FALSE
    BY <1>1, <2>1 DEF UploadInv, CountInv, ImageInv, Writing
  <2>3. Update!Begin
    BY <1>1, <2>1, <2>2 DEF Update!Begin, Update!Parts, Running
  <2> QED
    BY <2>3 DEF Promised, Update!Next
<1>7. CASE Chunk /\ appPc' = "recheck"
  <2>1. /\ state = "Receiving" /\ received < expected /\ image' = Append(image, data)
        /\ command.kind = "chunk" /\ UNCHANGED <<state, generation, expected, begun, restart>>
    BY <1>1, <1>7 DEF Chunk, Refuses, Ends, Fails
  <2>2. data = <<generation, received + 1>>
    BY <1>1, <2>1 DEF UploadInv, CountInv, Writing, SessionInv, WriteInv
  <2>3. begun /\ Len(image) = received /\ received \in Nat /\ expected \in Nat
    BY <2>1, NextPart DEF UploadInv, CountInv, ImageInv, Writing
  <2>4. Update!Write
    BY <1>1, <2>1, <2>2, <2>3 DEF Update!Write, Running
  <2> QED
    BY <2>4 DEF Promised, Update!Next
<1>8. CASE End /\ state' = "Succeeded" /\ outcome' = "ok"
  <2>1. /\ state = "Receiving" /\ received = expected /\ begun' = FALSE
        /\ UNCHANGED <<generation, expected, image, restart>>
    BY <1>1, <1>8 DEF End, Refuses, Ends, Fails
  <2>2. begun /\ image = Update!Parts(generation, expected)
    BY <2>1 DEF UploadInv, ImageInv, Writing
  <2>3. Update!Choose
    BY <1>1, <1>8, <2>1, <2>2 DEF Update!Choose, Update!Parts, Running
  <2> QED
    BY <2>3 DEF Promised, Update!Next
<1> QED
  BY <1>1, <1>2, <1>3, <1>4, <1>5, <1>6, <1>7, <1>8 DEF Work, Start, Chunk, End, Fails, Ends

\* A restart meets no open flash: a session is over, or its image was chosen.
LEMMA FinishPromised ==
  ASSUME SessionInv, UploadInv, Running, Finish
  PROVE  Promised
<1>1. UNCHANGED <<state, generation, expected, begun, image>> /\ restart # "done"
  BY DEF Finish, Running
<1>2. CASE restart' = "done" /\ (~Blocks \/ restart = "due")
  <2>1. ~begun
    BY <1>2 DEF Blocks, SessionInv, WriteInv, UploadInv, ImageInv
  <2> QED
    BY <1>1, <1>2, <2>1 DEF Promised, Update!Next, Update!Restart, Running
<1>3. CASE restart' # "done"
  BY <1>1, <1>3, Stutters
<1> QED
  BY <1>1, <1>2, <1>3 DEF Finish, RestartDone, Scheduled

LEMMA StepPromised ==
  ASSUME SessionInv, UploadInv, [OtaNext]_otaVars
  PROVE  Promised
<1>1. CASE UNCHANGED otaVars
  BY <1>1 DEF Promised, Update!vars, Running, otaVars, update, device
<1>2. CASE /\ Running /\ (restart = "done" <=> restart' = "done")
           /\ UNCHANGED <<begun, state, expected, generation, image>>
  BY <1>2, Stutters DEF Running
<1>3. CASE (\E n \in Sizes : Request(n)) \/ Http \/ AskRestart \/ RestartTime \/ WatchdogTime
  BY <1>1, <1>2, <1>3 DEF OtaNext, Http, Request, Receive, AdmitSession, Submit, Collect, TimeOut,
     Close, AskRestart, RestartTime, WatchdogTime, update, device
<1>4. CASE Running /\ (Take \/ Complete \/ Release \/ Web)
  BY <1>2, <1>4 DEF Running, Take, Complete, Release, Web, update, device
<1>5. CASE Running /\ Recheck
  <2>1. state \in {"Starting", "Receiving"}
    BY <1>5 DEF Recheck, SessionInv, LoopInv
  <2>2. CASE Fails
    BY <1>5, <2>1, <2>2, Discards DEF Fails, Running
  <2>3. CASE state' = "Receiving" /\ UNCHANGED <<generation, expected, begun, image, restart>>
    BY <1>5, <2>1, <2>3, Stutters DEF Running
  <2> QED
    BY <1>5, <2>2, <2>3 DEF Recheck
<1>6. CASE Running /\ Abandon
  <2>1. CASE UNCHANGED <<update, image>>
    BY <1>2, <1>6, <2>1 DEF Abandon, Running, update
  <2>2. CASE Cleanup /\ Doomed # {} /\ generation # NoGeneration
    <3>1. state # "Succeeded"
      BY <2>2 DEF Doomed
    <3> QED
      BY <1>6, <2>2, <3>1, Discards DEF Abandon, Running
  <2> QED
    BY <1>6, <2>1, <2>2 DEF Abandon
<1>7. CASE Running /\ (Work \/ Finish)
  BY <1>7, WorkPromised, FinishPromised
<1> QED
  BY <1>1, <1>3, <1>4, <1>5, <1>6, <1>7 DEF OtaNext, App

\* DoserOtaApplication, behind the bridge and its time-outs, implements FirmwareUpdate: every part
\* once and in order, the image chosen when it is whole, and no restart while it is written.
THEOREM KeepsUpdatePromise == OtaSpec => Update!Init /\ [][Update!Next]_(Update!vars)
<1>1. OtaInit => SessionInv /\ UploadInv /\ Update!Init
  BY InvInit, UploadInit DEF OtaInit, Update!Init, Running
<1>2. SessionInv /\ UploadInv /\ [OtaNext]_otaVars => SessionInv' /\ UploadInv'
  BY InvNext, UploadNext
<1>3. SessionInv /\ UploadInv /\ [OtaNext]_otaVars => [Update!Next]_(Update!vars)
  BY StepPromised DEF Promised
<1> QED
  BY <1>1, <1>2, <1>3, PTL DEF OtaSpec
===============================================================================
