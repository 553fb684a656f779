------------------------------ MODULE LumaSchedule ------------------------------
(***************************************************************************)
(* The light that the clock alone gives a lamp (DayEngine): the eight       *)
(* stages of a day are spread over its photoperiod, and a channel follows   *)
(* an S-shaped curve from each to the next.  And the test by which LumaCore *)
(* tells a clock that was set from a clock that went on                     *)
(* (isSignificantTimeJump).  Channels do not depend on each other: one is   *)
(* enough.  Levels are in percent, progress and the curve in thousandths.   *)
(***************************************************************************)
EXTENDS Integers, FiniteSets, FiniteSetsExt

CONSTANTS
  Photoperiods,   \* bound: first and last minutes of the days examined
  Lights,         \* bound: levels of the eight stages examined
  NightLight,     \* the level of a night that is not dark
  Readings        \* bound: seconds of the day at which a reading is judged

SecondsPerDay == 86400
DayStages == 1..8
\* DAY_STAGE_POSITION, in hundredths of the photoperiod
DayStagePosition == <<0, 7, 20, 41, 68, 84, 93, 100>>

\* ConfigValidator::validateProfile
ValidProfile(p) ==
  /\ p.start \in 0..1439 /\ p.end \in 0..1439 /\ p.start < p.end
  /\ p.light \in [DayStages -> 0..100] /\ p.night \in 0..100
ScheduleProfiles ==
  {p \in [start : {d[1] : d \in Photoperiods}, end : {d[2] : d \in Photoperiods},
          light : Lights, night : {0, NightLight}] :
     <<p.start, p.end>> \in Photoperiods}
ASSUME ScheduleAssumption ==
  /\ Readings \subseteq 0..(SecondsPerDay - 1)
  /\ \A p \in ScheduleProfiles : ValidProfile(p)

-----------------------------------------------------------------------------
(* DayEngine::calculateSeconds *)

Photoperiod(p) == (p.end - p.start) * 60
\* The stages whose second is a whole number, which the product of two floats may just miss.
WholeStages(p) == {i \in 2..7 : (Photoperiod(p) * DayStagePosition[i]) % 100 = 0}
\* short: the stages whose product falls just below a whole number
StageSecond(p, short, i) ==
  p.start * 60 + (Photoperiod(p) * DayStagePosition[i]) \div 100 - (IF i \in short THEN 1 ELSE 0)

\* mutant: the comparisons are swapped
SwapsEnds(p, short, i, s) == StageSecond(p, short, i) < s /\ s <= StageSecond(p, short, i + 1)
InSegment(p, short, i, s) == StageSecond(p, short, i) <= s /\ s < StageSecond(p, short, i + 1)
\* The first segment that holds the second, or the first of all.
CurrentStage(p, short, s) ==
  LET found == {i \in 1..7 : InSegment(p, short, i, s)} IN IF found = {} THEN 1 ELSE Min(found)

Clamped(progress) == Max({0, Min({progress, 1000})})
Smoothstep(x) == (x * x * (3000 - 2 * x)) \div 1000000
SegmentProgress(p, short, s) ==
  LET i == CurrentStage(p, short, s)
      length == StageSecond(p, short, i + 1) - StageSecond(p, short, i)
  IN  IF length > 0 THEN Clamped((1000 * (s - StageSecond(p, short, i))) \div length) ELSE 0

IsNight(p, s) == s < p.start * 60 \/ s >= p.end * 60
\* In thousandths of a percent.
LightAt(p, short, s) ==
  LET i == CurrentStage(p, short, s) IN
  IF IsNight(p, s) THEN 1000 * p.night
  ELSE 1000 * p.light[i]
         + (p.light[i + 1] - p.light[i]) * Smoothstep(SegmentProgress(p, short, s))

-----------------------------------------------------------------------------
(* LumaCore: isSignificantTimeJump *)

\* Milliseconds in whole seconds, a half rounded up.
WholeSeconds(ms) == (ms + 500) \div 1000
\* A difference of two times of day, as the shorter way round.
Folded(d) == IF d > SecondsPerDay \div 2 THEN d - SecondsPerDay
             ELSE IF d < -(SecondsPerDay \div 2) THEN d + SecondsPerDay ELSE d
Differs(previous, current, elapsed) ==
  LET expected == WholeSeconds(elapsed) % SecondsPerDay
      actual == (current + SecondsPerDay - previous) % SecondsPerDay
  IN  Folded(actual - expected)
TimeJump(previous, current, elapsed) == Differs(previous, current, elapsed) \notin -3..3

-----------------------------------------------------------------------------
\* The steepest that the light of a segment may move in a second: half as much again as its mean,
\* and the thousandths that the divisions drop.
Steepest(p, short, i) ==
  LET rise == p.light[i + 1] - p.light[i]
      length == StageSecond(p, short, i + 1) - StageSecond(p, short, i)
  IN  (IF rise < 0 THEN -rise ELSE rise) * (1500 \div length + 3)

\* Every second of a day is in one segment, whichever products fall short; a stage shows its own
\* light, and from one second to the next the light moves no further than the curve's slope.
SeamlessOver(p, short) ==
  /\ \A i \in 1..7 : StageSecond(p, short, i) < StageSecond(p, short, i + 1)
  /\ \A i \in 1..7 : LightAt(p, short, StageSecond(p, short, i)) = 1000 * p.light[i]
  /\ \A s \in (p.start * 60)..(p.end * 60 - 1) :
       /\ \E i \in 1..7 : InSegment(p, short, i, s)
       /\ s + 1 < p.end * 60 =>
            LET i == CurrentStage(p, short, s)
                moved == LightAt(p, short, s + 1) - LightAt(p, short, s)
            IN  moved \in -Steepest(p, short, i)..Steepest(p, short, i)
Seamless ==
  \A p \in ScheduleProfiles : \A short \in SUBSET WholeStages(p) :
    Cardinality(short) <= 1 => SeamlessOver(p, short)

\* A reading is a jump exactly when clock and uptime disagree by three seconds and a half, at any
\* time of the day, over midnight, and after any number of days (less than half a day is judged).
JumpsSeen ==
  \A previous \in Readings : \A elapsed \in {0, 499, 500, 1499, 1500, 30000, 86399500, 172800000} :
    \A off \in (-8..8) \cup {-43000, 43000} :
      LET moved == elapsed \div 1000 + off
      IN  TimeJump(previous, (previous + SecondsPerDay + moved) % SecondsPerDay, elapsed)
            <=> 1000 * moved - elapsed > 3500 \/ elapsed - 1000 * moved >= 3500
===============================================================================
