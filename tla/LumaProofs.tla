------------------------------ MODULE LumaProofs ------------------------------
(***************************************************************************)
(* The Luma lamp, proved for every number of channels, profiles and levels, *)
(* every length and timeout, and every set of driver calls that fail.       *)
(* The day's schedule and the judgement of jumps are arithmetic; the rest   *)
(* is one invariant of types, modes and lamp, LampInv, the stack of         *)
(* sessions over it, and a second invariant, SmoothInv, of what a pass      *)
(* remembers of the light.                                                  *)
(***************************************************************************)
EXTENDS LumaFirmware, WellFoundedInduction, SequenceTheorems, TLAPS

(***************************************************************************)
(* The schedule (DayEngine).  A photoperiod of a minute or more keeps the   *)
(* eight stages at least two seconds apart, so a product that falls short   *)
(* by one does not swap two of them.                                        *)
(***************************************************************************)
LEMMA OffsetsApart ==
  ASSUME NEW P \in Int, P >= 60
  PROVE  /\ (P * 0) \div 100 = 0
         /\ (P * 7) \div 100 >= 4
         /\ (P * 20) \div 100 - (P * 7) \div 100 >= 2
         /\ (P * 41) \div 100 - (P * 20) \div 100 >= 2
         /\ (P * 68) \div 100 - (P * 41) \div 100 >= 2
         /\ (P * 84) \div 100 - (P * 68) \div 100 >= 2
         /\ (P * 93) \div 100 - (P * 84) \div 100 >= 2
         /\ (P * 100) \div 100 - (P * 93) \div 100 >= 2
         /\ (P * 100) \div 100 = P
  BY SMTT(10)

LEMMA StagesInOrder ==
  ASSUME NEW p, ValidProfile(p), NEW short \in SUBSET WholeStages(p)
  PROVE  /\ p.start \in Int /\ p.end \in Int /\ p.start < p.end
         /\ \A i \in DayStages : StageSecond(p, short, i) \in Int
         /\ \A i \in 1..7 : StageSecond(p, short, i) < StageSecond(p, short, i + 1)
         /\ StageSecond(p, short, 1) = p.start * 60
         /\ StageSecond(p, short, 8) = p.end * 60
<1> DEFINE P == Photoperiod(p)  S(i) == StageSecond(p, short, i)
<1>1. p.start \in Int /\ p.end \in Int /\ p.start < p.end
  <2> DEFINE a == p.start  b == p.end
  <2>1. a \in 0..1439 /\ b \in 0..1439 /\ a < b
    BY ONLY ValidProfile(p), SMTT(10) DEF ValidProfile
  <2> HIDE DEF a, b
  <2>2. a \in Int /\ b \in Int /\ a < b
    BY ONLY <2>1, SMTT(10)
  <2> QED BY ONLY <2>2 DEF a, b
<1>2. P \in Int /\ P >= 60 /\ p.end * 60 = p.start * 60 + P
  BY <1>1, SMTT(10) DEF Photoperiod
<1>3. 1 \notin short /\ 8 \notin short
  BY SMTT(10) DEF WholeStages
<1> HIDE DEF P
<1> DEFINE At(x) == (P * x) \div 100
           less(i) == IF i \in short THEN 1 ELSE 0
<1>4. /\ S(1) = p.start * 60 + (At(0) - less(1)) /\ S(2) = p.start * 60 + (At(7) - less(2)) /\ S(3) = p.start * 60 + (At(20) - less(3))
      /\ S(4) = p.start * 60 + (At(41) - less(4)) /\ S(5) = p.start * 60 + (At(68) - less(5)) /\ S(6) = p.start * 60 + (At(84) - less(6))
      /\ S(7) = p.start * 60 + (At(93) - less(7)) /\ S(8) = p.start * 60 + (At(100) - less(8))
  <2>1. \A i \in DayStages : S(i) = p.start * 60 + (At(DayStagePosition[i]) - less(i))
    BY ONLY DEF StageSecond, P, S, At, less
  <2>2. /\ DayStagePosition[1] = 0 /\ DayStagePosition[2] = 7 /\ DayStagePosition[3] = 20
        /\ DayStagePosition[4] = 41 /\ DayStagePosition[5] = 68 /\ DayStagePosition[6] = 84
        /\ DayStagePosition[7] = 93 /\ DayStagePosition[8] = 100
    BY ONLY SMTT(10) DEF DayStagePosition
  <2>3. 1 \in DayStages /\ 2 \in DayStages /\ 3 \in DayStages /\ 4 \in DayStages
        /\ 5 \in DayStages /\ 6 \in DayStages /\ 7 \in DayStages /\ 8 \in DayStages
    BY ONLY SMTT(10) DEF DayStages
  <2> HIDE DEF S, less, At
  <2> QED BY ONLY <2>1, <2>2, <2>3, SMTT(10)
<1>8. /\ less(1) = 0 /\ less(8) = 0
      /\ \A i \in 2..7 : less(i) = 0 \/ less(i) = 1
  BY ONLY <1>3, SMTT(10)
<1> HIDE DEF S, less
<1>5. /\ S(1) \in Int /\ S(2) \in Int /\ S(3) \in Int /\ S(4) \in Int
      /\ S(5) \in Int /\ S(6) \in Int /\ S(7) \in Int /\ S(8) \in Int
      /\ S(1) < S(2) /\ S(2) < S(3) /\ S(3) < S(4) /\ S(4) < S(5)
      /\ S(5) < S(6) /\ S(6) < S(7) /\ S(7) < S(8)
      /\ S(1) = p.start * 60 /\ S(8) = p.end * 60
  BY ONLY <1>1, <1>2, <1>4, <1>8, OffsetsApart, SMTT(20)
<1>6. \A i \in DayStages : S(i) \in Int
  BY ONLY <1>5, SMTT(10) DEF DayStages
<1>7. \A i \in 1..7 : S(i) < S(i + 1)
  BY ONLY <1>5, SMTT(10)
<1> QED BY ONLY <1>1, <1>5, <1>6, <1>7 DEF S

\* Any two stages are in order, not only neighbours.
LEMMA StagesApart ==
  ASSUME NEW p, ValidProfile(p), NEW short \in SUBSET WholeStages(p),
         NEW i \in DayStages, NEW j \in DayStages, i < j
  PROVE  StageSecond(p, short, i) < StageSecond(p, short, j)
<1> DEFINE S(k) == StageSecond(p, short, k)
<1>1. /\ \A k \in 1..8 : S(k) \in Int
      /\ \A k \in 1..7 : S(k) < S(k + 1)
  BY StagesInOrder, Zenon DEF DayStages
<1> HIDE DEF S
<1>2. /\ S(1) \in Int /\ S(2) \in Int /\ S(3) \in Int /\ S(4) \in Int
      /\ S(5) \in Int /\ S(6) \in Int /\ S(7) \in Int /\ S(8) \in Int
      /\ S(1) < S(2) /\ S(2) < S(3) /\ S(3) < S(4) /\ S(4) < S(5)
      /\ S(5) < S(6) /\ S(6) < S(7) /\ S(7) < S(8)
  BY ONLY <1>1, SMTT(10)
<1>3. i \in 1..8 /\ j \in 1..8 /\ i < j
  BY Zenon DEF DayStages
<1> QED BY ONLY <1>2, <1>3, SMTT(20) DEF S

\* The stage that is looked for is the one segment that holds the second.
LEMMA StageIs ==
  ASSUME NEW p, ValidProfile(p), NEW short \in SUBSET WholeStages(p),
         NEW i \in 1..7, NEW s \in Int, InSegment(p, short, i, s)
  PROVE  CurrentStage(p, short, s) = i
<1> DEFINE found == {j \in 1..7 : InSegment(p, short, j, s)}
<1>1. \A j \in 1..7 : InSegment(p, short, j, s) => j = i
  <2> SUFFICES ASSUME NEW j \in 1..7, InSegment(p, short, j, s) PROVE j = i
    OBVIOUS
  <2> DEFINE S(k) == StageSecond(p, short, k)
  <2>1. S(i) <= s /\ s < S(i + 1) /\ S(j) <= s /\ s < S(j + 1)
    BY DEF InSegment
  <2>2. \A a, b \in 1..8 : S(a) \in Int /\ (a < b => S(a) < S(b))
    BY StagesInOrder, StagesApart, Zenon DEF DayStages
  <2> HIDE DEF S
  <2>3. i + 1 \in 1..8 /\ j + 1 \in 1..8 /\ i \in 1..8 /\ j \in 1..8
    BY ONLY i \in 1..7, j \in 1..7, SMTT(10)
  <2>4. S(i) \in Int /\ S(j) \in Int /\ S(i + 1) \in Int /\ S(j + 1) \in Int
    BY ONLY <2>2, <2>3
  <2>5. (i + 1 < j => S(i + 1) < S(j)) /\ (j + 1 < i => S(j + 1) < S(i))
    BY ONLY <2>2, <2>3
  <2>6. CASE i < j
    BY ONLY <2>1, <2>4, <2>5, <2>6, i \in 1..7, j \in 1..7, s \in Int, SMTT(10)
  <2>7. CASE j < i
    BY ONLY <2>1, <2>4, <2>5, <2>7, i \in 1..7, j \in 1..7, s \in Int, SMTT(10)
  <2> QED BY <2>6, <2>7, SMTT(10)
<1>2. found = {i}
  BY <1>1, Zenon
<1>3. Min({i}) = i
  BY SMTT(10) DEF Min
<1> QED BY <1>2, <1>3, Zenon DEF CurrentStage

\* What the divisions and the clamp of the progress return.
LEMMA Clamps == ASSUME NEW x \in Int, 0 <= x, x <= 1000 PROVE Clamped(x) = x
<1>1. Min({x, 1000}) = x
  BY SMTT(10) DEF Min
<1>2. Max({0, x}) = x
  BY SMTT(10) DEF Max
<1> QED BY ONLY <1>1, <1>2, SMTT(10) DEF Clamped

LEMMA Quotient ==
  ASSUME NEW a \in Int, a >= 0, NEW n \in Int, n > 0
  PROVE  a \div n \in Int /\ n * (a \div n) <= a /\ a < n * (a \div n) + n /\ a \div n >= 0
  BY SMTT(10)

LEMMA Cancels ==
  ASSUME NEW n \in Int, n > 0, NEW a \in Int, NEW b \in Int, n * a < n * b
  PROVE  a < b
  BY SMTT(10)

\* The cubic of the smooth step rises everywhere, and at no point steeper than half as much
\* again as the line from its start to its end.
LEMMA CurveSlope ==
  ASSUME NEW x \in Int, NEW y \in Int, 0 <= x, x <= y, y <= 1000
  PROVE  LET f == x * x * (3000 - 2 * x)  g == y * y * (3000 - 2 * y) IN
         0 <= f /\ f <= g /\ g - f <= 1500000 * (y - x)
<1> DEFINE u == x - 500  v == y - 500  w == u * u + u * v + v * v
           f == x * x * (3000 - 2 * x)  g == y * y * (3000 - 2 * y)
<1>1. w \in Int /\ w >= 0
  BY SMTT(10)
<1>2. w <= 750000
  BY SMTT(10)
<1>3. g - f = (y - x) * (1500000 - 2 * w)
  BY SMTT(10)
<1>4. f >= 0 /\ f \in Int /\ g \in Int
  BY SMTT(10)
<1> HIDE DEF w, f, g
<1>5. 0 <= g - f /\ g - f <= 1500000 * (y - x)
  BY <1>1, <1>2, <1>3, SMTT(10)
<1> QED BY ONLY <1>4, <1>5, SMTT(10) DEF f, g

LEMMA CurveEnds == Smoothstep(0) = 0 /\ Smoothstep(1000) = 1000
  BY SMTT(10) DEF Smoothstep

\* One second of a segment of n seconds: how far the curve rises, the divisions included.
LEMMA CurveStep ==
  ASSUME NEW n \in Int, n > 0, NEW k \in Int, 0 <= k, k < n
  PROVE  LET x == (1000 * k) \div n  y == (1000 * (k + 1)) \div n
             rise == Smoothstep(y) - Smoothstep(x)
         IN  /\ x \in Int /\ 0 <= x /\ x <= 1000
             /\ Smoothstep(x) \in Int /\ Smoothstep(y) \in Int
             /\ 0 <= rise /\ rise <= (1500 \div n) + 3
             /\ k + 1 = n => y = 1000
<1> DEFINE x == (1000 * k) \div n  y == (1000 * (k + 1)) \div n  q == 1500 \div n
           f == x * x * (3000 - 2 * x)  g == y * y * (3000 - 2 * y)
<1>1. x \in Int /\ n * x <= 1000 * k /\ 1000 * k < n * x + n /\ x >= 0
  BY Quotient, SMTT(10)
<1>2. y \in Int /\ n * y <= 1000 * (k + 1) /\ 1000 * (k + 1) < n * y + n /\ y >= 0
  BY Quotient, SMTT(10)
<1>3. q \in Int /\ n * q <= 1500 /\ 1500 < n * q + n /\ q >= 0
  BY Quotient, SMTT(10)
<1>4. x <= y /\ y <= 1000
  <2> HIDE DEF x, y, q
  <2>1. n * x < n * (y + 1)
    BY ONLY <1>1, <1>2, n \in Int, k \in Int, SMTT(10)
  <2>2. n * y < n * 1001
    BY ONLY <1>2, k < n, n > 0, n \in Int, k \in Int, SMTT(10)
  <2> QED BY ONLY <2>1, <2>2, <1>1, <1>2, n > 0, n \in Int, Cancels, SMTT(10)
<1>5. 3 * (y - x - 1) < 2 * (q + 1)
  <2> HIDE DEF x, y, q
  <2>1. n * (3 * (y - x - 1)) < n * (2 * (q + 1))
    BY ONLY <1>1, <1>2, <1>3, n > 0, n \in Int, k \in Int, SMTT(10)
  <2> QED BY ONLY <2>1, <1>1, <1>2, <1>3, n > 0, n \in Int, Cancels, SMTT(10)
<1>6. k + 1 = n => y = 1000
  <2> HIDE DEF x, y, q
  <2>1. k + 1 = n => n * 1000 < n * (y + 1)
    BY ONLY <1>2, n \in Int, k \in Int, SMTT(10)
  <2> QED BY ONLY <2>1, <1>2, <1>4, n > 0, n \in Int, Cancels, SMTT(10)
<1> HIDE DEF x, y, q
<1>7. f \in Int /\ g \in Int /\ 0 <= f /\ f <= g /\ g - f <= 1500000 * (y - x)
  BY ONLY <1>1, <1>2, <1>4, CurveSlope, SMTT(10)
<1>8. Smoothstep(x) = f \div 1000000 /\ Smoothstep(y) = g \div 1000000
  BY ONLY DEF Smoothstep, f, g
<1> HIDE DEF f, g
<1>9. /\ Smoothstep(x) \in Int /\ Smoothstep(y) \in Int
      /\ 0 <= Smoothstep(y) - Smoothstep(x) /\ Smoothstep(y) - Smoothstep(x) <= q + 3
  BY ONLY <1>1, <1>2, <1>3, <1>5, <1>7, <1>8, SMTT(10)
<1> QED BY ONLY <1>1, <1>4, <1>6, <1>9, SMTT(10) DEF x, y, q

\* Every second of the photoperiod is in a segment.
LEMMA SegmentFound ==
  ASSUME NEW p, ValidProfile(p), NEW short \in SUBSET WholeStages(p), NEW s \in Int,
         p.start * 60 <= s, s < p.end * 60
  PROVE  \E i \in 1..7 : InSegment(p, short, i, s)
<1> DEFINE S(k) == StageSecond(p, short, k)
<1>1. \A k \in 1..8 : S(k) \in Int
  BY StagesInOrder, Zenon DEF DayStages
<1>2. S(1) <= s /\ s < S(8)
  BY StagesInOrder
<1> HIDE DEF S
<1>3. \E i \in 1..7 : S(i) <= s /\ s < S(i + 1)
  <2>1. /\ S(1) \in Int /\ S(2) \in Int /\ S(3) \in Int /\ S(4) \in Int
        /\ S(5) \in Int /\ S(6) \in Int /\ S(7) \in Int /\ S(8) \in Int
    BY ONLY <1>1, SMTT(10)
  <2>2. \/ S(1) <= s /\ s < S(2)
        \/ S(2) <= s /\ s < S(3)
        \/ S(3) <= s /\ s < S(4)
        \/ S(4) <= s /\ s < S(5)
        \/ S(5) <= s /\ s < S(6)
        \/ S(6) <= s /\ s < S(7)
        \/ S(7) <= s /\ s < S(8)
    BY ONLY <1>2, <2>1, s \in Int, SMTT(15)
  <2> QED BY ONLY <2>2, SMTT(15)
<1> QED BY ONLY <1>3, Zenon DEF InSegment, S

\* The progress of a segment, the clamp left out.
Way(p, short, i, s) ==
  (1000 * (s - StageSecond(p, short, i)))
    \div (StageSecond(p, short, i + 1) - StageSecond(p, short, i))
Rise(p, i) == p.light[i + 1] - p.light[i]

LEMMA RiseIs ==
  ASSUME NEW p, ValidProfile(p), NEW i \in 1..7
  PROVE  p.light[i] \in Int /\ p.light[i + 1] \in Int /\ Rise(p, i) \in Int
<1>1. p.light \in [DayStages -> 0..100]
  BY DEF ValidProfile
<1>2. i \in DayStages /\ i + 1 \in DayStages
  BY SMTT(10) DEF DayStages
<1>3. p.light[i] \in 0..100 /\ p.light[i + 1] \in 0..100
  BY ONLY <1>1, <1>2
<1>4. p.light[i] \in Int /\ p.light[i + 1] \in Int
  BY ONLY <1>3, SMTT(10)
<1> QED BY ONLY <1>4, SMTT(10) DEF Rise

\* The light inside a segment.
LEMMA LightIn ==
  ASSUME NEW p, ValidProfile(p), NEW short \in SUBSET WholeStages(p), NEW i \in 1..7,
         NEW s \in Int, InSegment(p, short, i, s)
  PROVE  LightAt(p, short, s) = 1000 * p.light[i] + Rise(p, i) * Smoothstep(Way(p, short, i, s))
<1> DEFINE a == StageSecond(p, short, i)  b == StageSecond(p, short, i + 1)
<1>1. a \in Int /\ b \in Int /\ a < b /\ a <= s /\ s < b
  <2>1. i \in DayStages /\ i + 1 \in DayStages
    BY SMTT(10) DEF DayStages
  <2> QED BY <2>1, StagesInOrder, Zenon DEF InSegment
<1>2. p.start * 60 <= a /\ b <= p.end * 60
  <2>1. /\ i \in DayStages /\ i + 1 \in DayStages /\ 1 \in DayStages /\ 8 \in DayStages
        /\ (i = 1 \/ 1 < i) /\ (i + 1 = 8 \/ i + 1 < 8)
    BY SMTT(10) DEF DayStages
  <2>2. /\ StageSecond(p, short, 1) = p.start * 60
        /\ StageSecond(p, short, 8) = p.end * 60
        /\ \A k \in DayStages : StageSecond(p, short, k) \in Int
    BY StagesInOrder, Zenon
  <2>3. 1 < i => StageSecond(p, short, 1) < a
    BY ONLY <2>1, StagesApart, ValidProfile(p), short \in SUBSET WholeStages(p) DEF a
  <2>4. i + 1 < 8 => b < StageSecond(p, short, 8)
    BY ONLY <2>1, StagesApart, ValidProfile(p), short \in SUBSET WholeStages(p) DEF b
  <2>5. StageSecond(p, short, 1) \in Int /\ StageSecond(p, short, 8) \in Int
    BY ONLY <2>1, <2>2
  <2>6. StageSecond(p, short, 1) <= a
    <3>1. CASE i = 1
      BY ONLY <3>1, <2>5, SMTT(10) DEF a
    <3> HIDE DEF a
    <3>2. CASE 1 < i
      BY ONLY <3>2, <2>3, <2>5, <1>1, SMTT(10)
    <3> QED BY ONLY <2>1, <3>1, <3>2
  <2>7. b <= StageSecond(p, short, 8)
    <3>1. CASE i + 1 = 8
      BY ONLY <3>1, <2>5, SMTT(10) DEF b
    <3> HIDE DEF b
    <3>2. CASE i + 1 < 8
      BY ONLY <3>2, <2>4, <2>5, <1>1, SMTT(10)
    <3> QED BY ONLY <2>1, <3>1, <3>2
  <2> QED BY ONLY <2>2, <2>6, <2>7
<1>3. ~IsNight(p, s)
  <2>1. p.start \in Int /\ p.end \in Int
    BY StagesInOrder
  <2> HIDE DEF a, b
  <2> QED BY ONLY <1>1, <1>2, <2>1, s \in Int, SMTT(10) DEF IsNight
<1>4. CurrentStage(p, short, s) = i
  BY StageIs
<1>5. Way(p, short, i, s) \in Int /\ 0 <= Way(p, short, i, s) /\ Way(p, short, i, s) <= 1000
  <2> DEFINE n == b - a  k == s - a
  <2>1. n \in Int /\ n > 0 /\ k \in Int /\ 0 <= k /\ k < n
    BY ONLY <1>1, s \in Int, SMTT(10)
  <2>2. Way(p, short, i, s) = (1000 * k) \div n
    BY ONLY DEF Way, n, k, a, b
  <2> HIDE DEF n, k
  <2> QED BY ONLY <2>1, <2>2, CurveStep, SMTT(10)
<1>6. SegmentProgress(p, short, s) = Way(p, short, i, s)
  <2>1. SegmentProgress(p, short, s) = IF b - a > 0 THEN Clamped(Way(p, short, i, s)) ELSE 0
    BY ONLY <1>4 DEF SegmentProgress, Way, a, b
  <2> HIDE DEF a, b
  <2>2. b - a > 0
    BY ONLY <1>1, SMTT(10)
  <2> QED BY ONLY <2>1, <2>2, <1>5, Clamps, SMTT(10)
<1> QED BY ONLY <1>3, <1>4, <1>6 DEF LightAt, Rise

\* From one second of a segment to the next, the last second included.
LEMMA LightMoves ==
  ASSUME NEW p, ValidProfile(p), NEW short \in SUBSET WholeStages(p), NEW i \in 1..7,
         NEW s \in Int, InSegment(p, short, i, s), s + 1 < p.end * 60
  PROVE  LightAt(p, short, s + 1)
           = 1000 * p.light[i] + Rise(p, i) * Smoothstep(Way(p, short, i, s + 1))
<1> DEFINE a == StageSecond(p, short, i)  b == StageSecond(p, short, i + 1)
<1>0. i \in DayStages /\ i + 1 \in DayStages
  BY SMTT(10) DEF DayStages
<1>1. a \in Int /\ b \in Int /\ a < b /\ a <= s /\ s < b
  BY <1>0, StagesInOrder, Zenon DEF InSegment
<1>2. CASE s + 1 < b
  <2>1. InSegment(p, short, i, s + 1)
    <3>1. a <= s + 1 /\ s + 1 < b
      BY <1>1, <1>2, SMTT(10)
    <3> QED BY ONLY <3>1 DEF InSegment, a, b
  <2>2. s + 1 \in Int
    OBVIOUS
  <2> QED BY ONLY <2>1, <2>2, LightIn, ValidProfile(p), short \in SUBSET WholeStages(p), i \in 1..7
<1>3. CASE s + 1 = b
  <2>1. i < 7
    <3>1. i = 7 => b = p.end * 60
      <4>1. StageSecond(p, short, 8) = p.end * 60
        BY StagesInOrder
      <4>2. i = 7 => i + 1 = 8
        BY SMTT(10)
      <4> QED BY ONLY <4>1, <4>2 DEF b
    <3>2. p.end \in Int
      BY StagesInOrder
    <3> HIDE DEF b
    <3> QED BY <1>1, <1>3, <3>1, <3>2, SMTT(10)
  <2> DEFINE j == i + 1
  <2>2. j \in 1..7
    BY <2>1, SMTT(10)
  <2>3. InSegment(p, short, j, b)
    <3>1. b < StageSecond(p, short, j + 1) /\ b = StageSecond(p, short, j) /\ b <= b
      <4>1. StageSecond(p, short, j) < StageSecond(p, short, j + 1)
        BY <2>2, StagesInOrder
      <4>2. b <= b
        BY ONLY <1>1, SMTT(10)
      <4> QED BY ONLY <4>1, <4>2 DEF b, j
    <3> QED BY ONLY <3>1 DEF InSegment
  <2>4. LightAt(p, short, b) = 1000 * p.light[j] + Rise(p, j) * Smoothstep(Way(p, short, j, b))
    BY ONLY <1>1, <2>2, <2>3, LightIn, ValidProfile(p), short \in SUBSET WholeStages(p)
  <2>5. Way(p, short, j, b) = 0
    <3> DEFINE c == StageSecond(p, short, j + 1)
    <3>1. c \in Int /\ b < c
      <4>1. j + 1 \in DayStages
        BY ONLY <2>2, SMTT(10) DEF DayStages
      <4> QED BY <2>2, <4>1, StagesInOrder, Zenon DEF b, c, j
    <3>2. Way(p, short, j, b) = (1000 * (b - b)) \div (c - b)
      BY ONLY DEF Way, b, c, j
    <3> HIDE DEF b, c
    <3> QED BY ONLY <1>1, <3>1, <3>2, SMTT(10)
  <2>6. Way(p, short, i, s + 1) = 1000
    <3>1. Way(p, short, i, s + 1) = (1000 * (b - a)) \div (b - a)
      BY ONLY <1>3 DEF Way, a, b
    <3> HIDE DEF a, b
    <3> DEFINE n == b - a
    <3>2. n \in Int /\ n > 0
      BY ONLY <1>1, SMTT(10)
    <3> HIDE DEF n
    <3>3. (1000 * n) \div n = 1000
      <4> DEFINE q == (1000 * n) \div n
      <4>1. q \in Int /\ n * q <= 1000 * n /\ 1000 * n < n * q + n
        BY ONLY <3>2, Quotient, SMTT(10)
      <4> HIDE DEF q
      <4>2. n * q < n * 1001 /\ n * 1000 < n * (q + 1)
        BY ONLY <3>2, <4>1, SMTT(10)
      <4>3. q < 1001 /\ 1000 < q + 1
        BY ONLY <3>2, <4>1, <4>2, Cancels, SMTT(10)
      <4>4. q = 1000
        BY ONLY <4>1, <4>3, SMTT(10)
      <4> QED BY ONLY <4>4 DEF q
    <3> QED BY ONLY <3>1, <3>3 DEF n
  <2>7. p.light[i] \in Int /\ p.light[j] \in Int /\ Rise(p, j) \in Int
    BY <2>2, RiseIs
  <2>8. Rise(p, i) = p.light[j] - p.light[i]
    BY ONLY DEF Rise, j
  <2>9. LightAt(p, short, b) = 1000 * p.light[j]
    BY ONLY <2>4, <2>5, <2>7, CurveEnds, SMTT(10)
  <2> HIDE DEF j, b
  <2>10. LightAt(p, short, b) = 1000 * p.light[i] + Rise(p, i) * 1000
    BY ONLY <2>7, <2>8, <2>9, SMTT(10)
  <2> QED BY ONLY <1>3, <2>6, <2>10, CurveEnds
<1> QED BY <1>1, <1>2, <1>3, SMTT(10)

\* The product of the segment's rise and the curve's.
LEMMA Bounded ==
  ASSUME NEW r \in Int, NEW d \in Int, 0 <= d, NEW e \in Int, d <= e
  PROVE  r * d \in -((IF r < 0 THEN -r ELSE r) * e)..((IF r < 0 THEN -r ELSE r) * e)
<1>1. CASE r < 0
  <2>1. r * e <= r * d /\ r * d <= 0 /\ -r * e = -(r * e)
    BY <1>1, SMTT(10)
  <2> QED BY <1>1, <2>1, SMTT(10)
<1>2. CASE r >= 0
  <2>1. 0 <= r * d /\ r * d <= r * e
    BY <1>2, SMTT(10)
  <2> QED BY <1>2, <2>1, SMTT(10)
<1> QED BY <1>1, <1>2, SMTT(10)

LEMMA MovesNoFurther ==
  ASSUME NEW p, ValidProfile(p), NEW short \in SUBSET WholeStages(p), NEW i \in 1..7,
         NEW s \in Int, InSegment(p, short, i, s), s + 1 < p.end * 60
  PROVE  LightAt(p, short, s + 1) - LightAt(p, short, s)
           \in -Steepest(p, short, i)..Steepest(p, short, i)
<1> DEFINE a == StageSecond(p, short, i)  b == StageSecond(p, short, i + 1)
           n == b - a  k == s - a  r == Rise(p, i)
           x == Smoothstep(Way(p, short, i, s))  y == Smoothstep(Way(p, short, i, s + 1))
           steep == 1500 \div n + 3
<1>1. i \in DayStages /\ i + 1 \in DayStages
  BY SMTT(10) DEF DayStages
<1>2. a \in Int /\ b \in Int /\ a < b /\ a <= s /\ s < b
  BY <1>1, StagesInOrder, Zenon DEF InSegment
<1>3. n \in Int /\ n > 0 /\ k \in Int /\ 0 <= k /\ k < n /\ (s + 1) - a = k + 1
  BY ONLY <1>2, s \in Int, SMTT(10)
<1>4. Way(p, short, i, s) = (1000 * k) \div n /\ Way(p, short, i, s + 1) = (1000 * (k + 1)) \div n
  <2>1. /\ Way(p, short, i, s) = (1000 * (s - a)) \div (b - a)
        /\ Way(p, short, i, s + 1) = (1000 * ((s + 1) - a)) \div (b - a)
    BY ONLY DEF Way, a, b
  <2> HIDE DEF a, b
  <2> QED BY ONLY <1>3, <2>1 DEF k, n
<1> HIDE DEF a, b, n, k
<1>5. x \in Int /\ y \in Int /\ 0 <= y - x /\ y - x <= steep /\ steep \in Int
  <2>1. 1500 \div n \in Int
    BY ONLY <1>3, Quotient, SMTT(10)
  <2> QED BY ONLY <1>3, <1>4, <2>1, CurveStep, SMTT(10)
<1>6. p.light[i] \in Int /\ r \in Int
  BY RiseIs
<1>7. /\ LightAt(p, short, s) = 1000 * p.light[i] + r * x
      /\ LightAt(p, short, s + 1) = 1000 * p.light[i] + r * y
  BY ONLY LightIn, LightMoves, ValidProfile(p), short \in SUBSET WholeStages(p), i \in 1..7,
          s \in Int, InSegment(p, short, i, s), s + 1 < p.end * 60 DEF r, x, y
<1>8. Steepest(p, short, i) = (IF r < 0 THEN -r ELSE r) * steep
  BY ONLY DEF Steepest, Rise, a, b, n
<1> HIDE DEF x, y, r, steep
<1>9. LightAt(p, short, s + 1) - LightAt(p, short, s) = r * (y - x)
  BY ONLY <1>5, <1>6, <1>7, SMTT(10)
<1>10. y - x \in Int
  BY ONLY <1>5
<1> QED BY ONLY <1>5, <1>6, <1>8, <1>9, <1>10, Bounded, Zenon

\* A stage begins with its own light.
LEMMA StageLight ==
  ASSUME NEW p, ValidProfile(p), NEW short \in SUBSET WholeStages(p), NEW i \in 1..7
  PROVE  LightAt(p, short, StageSecond(p, short, i)) = 1000 * p.light[i]
<1> DEFINE a == StageSecond(p, short, i)  b == StageSecond(p, short, i + 1)
<1>1. i \in DayStages /\ i + 1 \in DayStages
  BY SMTT(10) DEF DayStages
<1>2. a \in Int /\ b \in Int /\ a < b /\ a <= a
  <2>1. a \in Int /\ b \in Int /\ a < b
    BY <1>1, StagesInOrder, Zenon
  <2> QED BY ONLY <2>1, SMTT(10)
<1>3. InSegment(p, short, i, a)
  BY ONLY <1>2 DEF InSegment, a, b
<1>4. LightAt(p, short, a) = 1000 * p.light[i] + Rise(p, i) * Smoothstep(Way(p, short, i, a))
  BY ONLY <1>2, <1>3, LightIn, ValidProfile(p), short \in SUBSET WholeStages(p), i \in 1..7
<1>5. Way(p, short, i, a) = 0
  <2>1. Way(p, short, i, a) = (1000 * (a - a)) \div (b - a)
    BY ONLY DEF Way, a, b
  <2> HIDE DEF a, b
  <2> QED BY ONLY <1>2, <2>1, SMTT(10)
<1>6. p.light[i] \in Int /\ Rise(p, i) \in Int
  BY RiseIs
<1> HIDE DEF a
<1>7. LightAt(p, short, a) = 1000 * p.light[i]
  BY ONLY <1>4, <1>5, <1>6, CurveEnds, SMTT(10)
<1> QED BY <1>7 DEF a

\* The day has no seam, for every valid profile and whichever products fall short: see Seamless
\* (DayEngine::calculateSeconds and its smooth step).
THEOREM AlwaysSeamless == Seamless
<1> SUFFICES ASSUME NEW p \in ScheduleProfiles, NEW short \in SUBSET WholeStages(p)
             PROVE  SeamlessOver(p, short)
  BY Zenon DEF Seamless
<1>1. ValidProfile(p)
  BY ScheduleAssumption
<1>2. ASSUME NEW s \in (p.start * 60)..(p.end * 60 - 1)
      PROVE  /\ \E i \in 1..7 : InSegment(p, short, i, s)
             /\ s + 1 < p.end * 60 =>
                  LightAt(p, short, s + 1) - LightAt(p, short, s)
                    \in -Steepest(p, short, CurrentStage(p, short, s))
                         ..Steepest(p, short, CurrentStage(p, short, s))
  <2>1. s \in Int /\ p.start * 60 <= s /\ s < p.end * 60
    <3>1. p.start \in Int /\ p.end \in Int
      BY ONLY <1>1, StagesInOrder, short \in SUBSET WholeStages(p)
    <3> QED BY ONLY <3>1, s \in (p.start * 60)..(p.end * 60 - 1), SMTT(10)
  <2>2. PICK i \in 1..7 : InSegment(p, short, i, s)
    BY <1>1, <2>1, SegmentFound
  <2>3. CurrentStage(p, short, s) = i
    BY <1>1, <2>1, <2>2, StageIs
  <2>4. s + 1 < p.end * 60 =>
          LightAt(p, short, s + 1) - LightAt(p, short, s)
            \in -Steepest(p, short, i)..Steepest(p, short, i)
    BY <1>1, <2>1, <2>2, MovesNoFurther
  <2> QED BY ONLY <2>2, <2>3, <2>4
<1>3. /\ \A i \in 1..7 : StageSecond(p, short, i) < StageSecond(p, short, i + 1)
      /\ \A i \in 1..7 : LightAt(p, short, StageSecond(p, short, i)) = 1000 * p.light[i]
  BY ONLY <1>1, StagesInOrder, StageLight, short \in SUBSET WholeStages(p)
<1> QED BY ONLY <1>2, <1>3, Zenon DEF SeamlessOver

(***************************************************************************)
(* Jumps of the clock (LumaCore::isSignificantTimeJump).  Folding the       *)
(* difference of two times of day undoes both remainders as long as clock   *)
(* and uptime are less than half a day apart.                               *)
(***************************************************************************)
LEMMA DiffersIs ==
  ASSUME NEW previous \in Int, 0 <= previous, previous < SecondsPerDay,
         NEW moved \in Int, -43000 <= moved, NEW elapsed \in Int, 0 <= elapsed,
         -43200 < moved - WholeSeconds(elapsed), moved - WholeSeconds(elapsed) < 43200
  PROVE  Differs(previous, (previous + SecondsPerDay + moved) % SecondsPerDay, elapsed)
           = moved - WholeSeconds(elapsed)
<1> DEFINE w == WholeSeconds(elapsed)  current == (previous + SecondsPerDay + moved) % SecondsPerDay
           expected == w % SecondsPerDay
           actual == (current + SecondsPerDay - previous) % SecondsPerDay
           q1 == (previous + 86400 + moved) \div 86400
           q2 == (current + 86400 - previous) \div 86400  q3 == w \div 86400
           t == 2 - q1 - q2 + q3
<1>1. w \in Int /\ 0 <= w
  BY SMTT(10) DEF WholeSeconds
<1>2. Differs(previous, current, elapsed) = Folded(actual - expected)
  BY ONLY SMTT(10) DEF Differs, actual, expected, w
<1>3. current = previous + 86400 + moved - 86400 * q1 /\ q1 \in Int
  BY SMTT(10) DEF SecondsPerDay
<1>4. current \in Int /\ 0 <= current /\ current < 86400
  BY SMTT(10) DEF SecondsPerDay
<1> HIDE DEF current, w
<1>5. actual = current + 86400 - previous - 86400 * q2 /\ q2 \in Int
  BY <1>4, SMTT(10) DEF SecondsPerDay
<1>6. actual \in Int /\ 0 <= actual /\ actual < 86400
  BY <1>4, SMTT(10) DEF SecondsPerDay
<1>7. expected = w - 86400 * q3 /\ q3 \in Int
  BY <1>1, SMTT(10) DEF SecondsPerDay
<1>8. expected \in Int /\ 0 <= expected /\ expected < 86400
  BY <1>1, SMTT(10) DEF SecondsPerDay
<1> HIDE DEF actual, expected, q1, q2, q3
<1>10. t \in Int /\ actual - expected = moved - w + 86400 * t
  BY ONLY <1>1, <1>3, <1>4, <1>5, <1>7, previous \in Int, moved \in Int, SMTT(10)
<1> HIDE DEF t
<1>11. -43200 < moved - w /\ moved - w < 43200
  BY DEF w
<1>12. t = 0 \/ t = 1 \/ t = -1
  BY ONLY <1>1, <1>6, <1>8, <1>10, <1>11, moved \in Int, SMTT(10)
<1>13. Folded(actual - expected) = moved - w
  BY ONLY <1>1, <1>6, <1>8, <1>10, <1>11, <1>12, moved \in Int, SMTT(10) DEF Folded, SecondsPerDay
<1> QED BY ONLY <1>2, <1>13, SMTT(10) DEF current, w

\* A reading `off' seconds ahead of the uptime is judged as JumpsSeen says.
Judged(previous, elapsed, off) ==
  LET moved == elapsed \div 1000 + off IN
  TimeJump(previous, (previous + SecondsPerDay + moved) % SecondsPerDay, elapsed)
    <=> 1000 * moved - elapsed > 3500 \/ elapsed - 1000 * moved >= 3500

\* A reading that is less than half a day off is a jump exactly when clock and uptime disagree by
\* three seconds and a half, at any time of the day and after any time of running
\* (isSignificantTimeJump).
THEOREM EveryJumpSeen ==
  ASSUME NEW previous \in Int, 0 <= previous, previous < SecondsPerDay,
         NEW elapsed \in Int, 0 <= elapsed, NEW off \in Int, -43000 <= off, off <= 43000
  PROVE  Judged(previous, elapsed, off)
<1> DEFINE moved == elapsed \div 1000 + off
           current == (previous + SecondsPerDay + moved) % SecondsPerDay
           d == moved - WholeSeconds(elapsed)
<1>1. moved \in Int /\ -43000 <= moved
  BY SMTT(10)
<1>2. d \in Int /\ -43200 < d /\ d < 43200
  BY SMTT(10) DEF WholeSeconds
<1>3. d \notin -3..3 <=> 1000 * moved - elapsed > 3500 \/ elapsed - 1000 * moved >= 3500
  BY SMTT(10) DEF WholeSeconds
<1> HIDE DEF moved
<1>4. Differs(previous, current, elapsed) = d
  BY <1>1, <1>2, DiffersIs, SMTT(10)
<1>5. TimeJump(previous, current, elapsed) <=> d \notin -3..3
  BY ONLY <1>4, SMTT(10) DEF TimeJump
<1> QED BY ONLY <1>3, <1>5, SMTT(10) DEF Judged, moved, current

\* The cases that the run checks, over every reading of the constant: see JumpsSeen.
THEOREM JumpsAlwaysSeen == JumpsSeen
<1> SUFFICES ASSUME NEW previous \in Readings,
                    NEW elapsed \in {0, 499, 500, 1499, 1500, 30000, 86399500, 172800000},
                    NEW off \in (-8..8) \cup {-43000, 43000}
             PROVE  Judged(previous, elapsed, off)
  BY SMTT(15) DEF JumpsSeen, Judged
<1>1. previous \in Int /\ 0 <= previous /\ previous < SecondsPerDay
  <2>1. previous \in 0..(SecondsPerDay - 1)
    BY ONLY previous \in Readings, ScheduleAssumption, SMTT(15)
  <2> QED BY ONLY <2>1, SMTT(60) DEF SecondsPerDay
<1>2. elapsed \in Int /\ 0 <= elapsed
  BY ONLY elapsed \in {0, 499, 500, 1499, 1500, 30000, 86399500, 172800000}, SMTT(10)
<1>3. off \in Int /\ -43000 <= off /\ off <= 43000
  BY ONLY off \in (-8..8) \cup {-43000, 43000}, SMTT(10)
<1> QED BY ONLY <1>1, <1>2, <1>3, EveryJumpSeen, SMTT(10)

\* In every reachable state, whatever the profiles: see ClockRunsSmoothly (DayEngine,
\* isSignificantTimeJump).
THEOREM ClockAlwaysSmooth == Spec => []ClockRunsSmoothly
<1>1. ClockRunsSmoothly
  BY AlwaysSeamless, JumpsAlwaysSeen, Zenon DEF ClockRunsSmoothly
<1> QED BY <1>1, PTL

-----------------------------------------------------------------------------
(***************************************************************************)
(* The modes (ModeManager): which session is in charge and which one it     *)
(* returns to.                                                              *)
(***************************************************************************)
LEMMA Order ==
  /\ Priority["Off"] = 7 /\ Priority["ChannelTest"] = 6 /\ Priority["Manual"] = 5
  /\ Priority["Preview"] = 4 /\ Priority["Simulation"] = 3 /\ Priority["Service"] = 2
  /\ Priority["Normal"] = 1
  BY SMTT(10) DEF Priority

LEMMA TopIs ==
  ASSUME NEW open \in SUBSET Overrides, open # {}, NEW base
  PROVE  /\ Top(open, base) \in open
         /\ \A p \in open : Priority[p] <= Priority[Top(open, base)]
<1>1. \E o \in open : \A p \in open : Priority[p] <= Priority[o]
  <2>1. \A p \in open : p = "ChannelTest" \/ p = "Manual" \/ p = "Preview" \/ p = "Simulation"
    BY DEF Overrides
  <2>2. CASE "ChannelTest" \in open
    BY <2>1, <2>2, Order, SMTT(10)
  <2>3. CASE "ChannelTest" \notin open /\ "Manual" \in open
    BY <2>1, <2>3, Order, SMTT(10)
  <2>4. CASE "ChannelTest" \notin open /\ "Manual" \notin open /\ "Preview" \in open
    BY <2>1, <2>4, Order, SMTT(10)
  <2>5. CASE open = {"Simulation"}
    BY <2>5, Order, SMTT(10)
  <2> QED BY <2>1, <2>2, <2>3, <2>4, <2>5, SMTT(10)
<1> QED BY <1>1, Zenon DEF Top

LEMMA TopOfNone == ASSUME NEW base PROVE Top({}, base) = base
  BY DEF Top

\* The mode in charge and the mode it returns to are the two highest.
ModesOK(m) ==
  /\ m \in ModeManager
  /\ m.mode = "Off" => m.open = {} /\ m.base = "Normal" /\ m.back = "Normal"
  /\ m.mode # "Off" => /\ m.mode = Top(m.open, m.base)
                       /\ m.back = Top(m.open \ {m.mode}, m.base)

\* The mode found by refreshModes, with and without open sessions.
LEMMA TopType ==
  ASSUME NEW open \in SUBSET Overrides, NEW base \in Bases
  PROVE  /\ Top(open, base) \in Modes /\ Top(open, base) # "Off"
         /\ Top(open, base) \in Overrides <=> open # {}
         /\ Top(open, base) \in Bases <=> open = {}
<1>1. CASE open = {}
  BY <1>1, TopOfNone, SMTT(10) DEF Modes, Bases, Overrides
<1>2. CASE open # {}
  <2> DEFINE t == Top(open, base)
  <2>1. t \in Overrides
    BY <1>2, TopIs
  <2> HIDE DEF t
  <2>2. t \in Modes /\ t # "Off" /\ t \notin Bases
    BY ONLY <2>1, SMTT(10) DEF Modes, Bases, Overrides
  <2> QED BY <1>2, <2>1, <2>2 DEF t
<1> QED BY <1>1, <1>2

LEMMA RefreshedIs ==
  ASSUME NEW m \in ModeManager, m.mode # "Off"
  PROVE  /\ ModesOK(Refreshed(m))
         /\ Refreshed(m).mode = Top(m.open, m.base) /\ Refreshed(m).mode # "Off"
         /\ Refreshed(m).open = m.open /\ Refreshed(m).base = m.base
<1> DEFINE top == Top(m.open, m.base)  back == Top(m.open \ {top}, m.base)
<1>1. m.open \in SUBSET Overrides /\ m.base \in Bases
  BY DEF ModeManager
<1>2. top \in Modes /\ top # "Off" /\ back \in Modes
  <2>1. m.open \ {top} \in SUBSET Overrides
    BY <1>1
  <2> QED BY <1>1, <2>1, TopType
<1>3. Refreshed(m) = [m EXCEPT !.mode = top, !.back = back]
  BY DEF Refreshed
<1> HIDE DEF top, back
<1>4. Refreshed(m) \in ModeManager
  BY ONLY <1>2, <1>3, m \in ModeManager DEF ModeManager
<1>5. /\ Refreshed(m).mode = top /\ Refreshed(m).back = back
      /\ Refreshed(m).open = m.open /\ Refreshed(m).base = m.base
  BY ONLY <1>3, m \in ModeManager DEF ModeManager
<1> QED BY <1>2, <1>4, <1>5, SMTT(10) DEF ModesOK, top, back

\* What the rest needs to know of modes that agree with their sessions.
LEMMA ModesAre ==
  ASSUME NEW m, ModesOK(m)
  PROVE  /\ m \in ModeManager /\ m.open \in SUBSET Overrides /\ m.base \in Bases /\ m.mode \in Modes
         /\ m.mode \in Overrides => m.mode \in m.open /\ \A p \in m.open : Priority[p] <= Priority[m.mode]
         /\ m.mode \in Bases => m.open = {} /\ m.base = m.mode
         /\ m.mode = "Off" => m.open = {}
<1>1. m \in ModeManager /\ m.open \in SUBSET Overrides /\ m.base \in Bases /\ m.mode \in Modes
  BY DEF ModesOK, ModeManager
<1>2. m.mode \in Overrides => m.mode \in m.open /\ \A p \in m.open : Priority[p] <= Priority[m.mode]
  <2>1. m.mode \in Overrides => m.mode # "Off"
    BY DEF Overrides
  <2> QED BY <1>1, <2>1, TopIs, TopType DEF ModesOK
<1>3. m.mode \in Bases => m.open = {} /\ m.base = m.mode
  <2>1. m.mode \in Bases => m.mode # "Off"
    BY DEF Bases
  <2> QED BY <1>1, <2>1, TopOfNone, TopType DEF ModesOK
<1> QED BY <1>1, <1>2, <1>3 DEF ModesOK

-----------------------------------------------------------------------------
(***************************************************************************)
(* The core's types, and what its record updates return.                    *)
(***************************************************************************)
Values == Levels \cup {"none", "frame"}
DayStates == {"day", "night"}
Shades == {<<"zero">>, <<"mid">>} \cup ({"frame"} \X Profiles) \cup (Overrides \X Values)
          \cup ({"schedule"} \X Profiles \X Points)
SessionType == [value : Values, last : Values, age : Nat, limit : Nat]
SessionsType == [Overrides -> SessionType]
TransitionType == [active : BOOLEAN, from : Shades, age : Nat, length : Nat]
LightType == [started : BOOLEAN, seen : BOOLEAN, valid : BOOLEAN, requested : Shades, actual : Shades,
              tr : TransitionType, lastMode : Modes, lastProfile : Profiles,
              day : DayStates, lastDay : DayStates]
CoreType == [modes : ModeManager, session : SessionsType, over : BOOLEAN, light : LightType]

\* Nothing of the light but its start and whether the clock was seen.
SameLight(l, n) ==
  /\ n.requested = l.requested /\ n.actual = l.actual /\ n.tr = l.tr /\ n.valid = l.valid
  /\ n.lastMode = l.lastMode /\ n.lastProfile = l.lastProfile /\ n.day = l.day /\ n.lastDay = l.lastDay

\* Parts of the records.
LEMMA CoreIs ==
  ASSUME NEW c \in CoreType
  PROVE  c.modes \in ModeManager /\ c.session \in SessionsType /\ c.over \in BOOLEAN /\ c.light \in LightType
  BY DEF CoreType

LEMMA LightIs ==
  ASSUME NEW l \in LightType
  PROVE  /\ l.started \in BOOLEAN /\ l.seen \in BOOLEAN /\ l.valid \in BOOLEAN
         /\ l.requested \in Shades /\ l.actual \in Shades /\ l.tr \in TransitionType
         /\ l.lastMode \in Modes /\ l.lastProfile \in Profiles
         /\ l.day \in DayStates /\ l.lastDay \in DayStates
  BY DEF LightType

LEMMA SessionIs ==
  ASSUME NEW session \in SessionsType, NEW o \in Overrides
  PROVE  /\ session[o] \in SessionType
         /\ session[o].value \in Values /\ session[o].last \in Values
         /\ session[o].age \in Nat /\ session[o].limit \in Nat
  BY DEF SessionsType, SessionType

LEMMA OpeningIs ==
  ASSUME NEW v \in Values, NEW limit \in Nat
  PROVE  /\ Opening(v, limit) \in SessionType
         /\ Opening(v, limit).value = v /\ Opening(v, limit).last = v
         /\ Opening(v, limit).age = 0 /\ Opening(v, limit).limit = limit
  BY DEF Opening, SessionType

LEMMA NoSessionIs == NoSession \in SessionType
  BY DEF NoSession, SessionType, Values

LEMMA TransitionIs ==
  ASSUME NEW from \in Shades, NEW length \in Nat
  PROVE  /\ Still \in TransitionType /\ ~Still.active
         /\ Moving(from, length) \in TransitionType
         /\ Moving(from, length).active /\ Moving(from, length).from = from
         /\ Moving(from, length).age = 0 /\ Moving(from, length).length = length
<1>1. <<"zero">> \in Shades
  BY DEF Shades
<1> QED BY <1>1 DEF Still, Moving, TransitionType

\* One part of the core replaced.
LEMMA Replaced ==
  ASSUME NEW c \in CoreType
  PROVE  /\ \A m \in ModeManager :
              /\ [c EXCEPT !.modes = m] \in CoreType /\ [c EXCEPT !.modes = m].modes = m
              /\ [c EXCEPT !.modes = m].session = c.session /\ [c EXCEPT !.modes = m].over = c.over
              /\ [c EXCEPT !.modes = m].light = c.light
         /\ \A s \in SessionsType :
              /\ [c EXCEPT !.session = s] \in CoreType /\ [c EXCEPT !.session = s].session = s
              /\ [c EXCEPT !.session = s].modes = c.modes /\ [c EXCEPT !.session = s].over = c.over
              /\ [c EXCEPT !.session = s].light = c.light
         /\ \A b \in BOOLEAN :
              /\ [c EXCEPT !.over = b] \in CoreType /\ [c EXCEPT !.over = b].over = b
              /\ [c EXCEPT !.over = b].modes = c.modes /\ [c EXCEPT !.over = b].session = c.session
              /\ [c EXCEPT !.over = b].light = c.light
         /\ \A l \in LightType :
              /\ [c EXCEPT !.light = l] \in CoreType /\ [c EXCEPT !.light = l].light = l
              /\ [c EXCEPT !.light = l].modes = c.modes /\ [c EXCEPT !.light = l].session = c.session
              /\ [c EXCEPT !.light = l].over = c.over
  BY DEF CoreType

LEMMA SyncedIs ==
  ASSUME NEW c \in CoreType
  PROVE  /\ Synced(c) \in CoreType /\ Synced(c).modes = c.modes /\ Synced(c).session = c.session
         /\ Synced(c).over = c.over /\ SameLight(c.light, Synced(c).light)
         /\ Synced(c).light.started = c.light.started
         /\ Synced(c).light.seen = (c.light.seen /\ c.modes.mode \in Bases)
<1> DEFINE seen == c.light.seen /\ c.modes.mode \in Bases
           l == [c.light EXCEPT !.seen = seen]
<1>1. Synced(c) = [c EXCEPT !.light = l]
  BY DEF Synced
<1>2. seen \in BOOLEAN /\ c.light \in LightType
  BY CoreIs
<1> HIDE DEF seen
<1>3. l \in LightType
  BY ONLY <1>2 DEF LightType
<1>4. l.seen = seen /\ l.started = c.light.started /\ SameLight(c.light, l)
  BY ONLY <1>2 DEF LightType, SameLight
<1> HIDE DEF l
<1> QED BY <1>1, <1>3, <1>4, Replaced DEF seen

\* A whole session replaced, or one of its parts.
LEMMA SessionReplaced ==
  ASSUME NEW session \in SessionsType, NEW o \in Overrides
  PROVE  /\ \A s \in SessionType :
              /\ [session EXCEPT ![o] = s] \in SessionsType /\ [session EXCEPT ![o] = s][o] = s
              /\ \A p \in Overrides \ {o} : [session EXCEPT ![o] = s][p] = session[p]
         /\ \A v \in Values :
              LET n == [session EXCEPT ![o].value = v] IN
              /\ n \in SessionsType /\ n[o].value = v /\ n[o].last = session[o].last
              /\ n[o].age = session[o].age /\ n[o].limit = session[o].limit
              /\ \A p \in Overrides \ {o} : n[p] = session[p]
         /\ \A v \in Values :
              LET n == [session EXCEPT ![o].last = v] IN
              /\ n \in SessionsType /\ n[o].last = v /\ n[o].value = session[o].value
              /\ n[o].age = session[o].age /\ n[o].limit = session[o].limit
              /\ \A p \in Overrides \ {o} : n[p] = session[p]
         /\ \A k \in Nat :
              LET n == [session EXCEPT ![o].limit = k] IN
              /\ n \in SessionsType /\ n[o].limit = k /\ n[o].value = session[o].value
              /\ n[o].age = session[o].age /\ n[o].last = session[o].last
              /\ \A p \in Overrides \ {o} : n[p] = session[p]
  BY DEF SessionsType, SessionType

\* What the core's calls change, one lemma for each.
LEMMA EnteredIs ==
  ASSUME NEW c \in CoreType, NEW o \in Overrides, NEW s \in SessionType, CanOpen(c.modes, o),
         ModesOK(c.modes)
  PROVE  LET d == Entered(c, o, s) IN
         /\ d \in CoreType /\ d.modes = Opened(c.modes, o) /\ ModesOK(d.modes)
         /\ d.session[o] = s /\ \A p \in Overrides \ {o} : d.session[p] = c.session[p]
         /\ d.over = c.over /\ SameLight(c.light, d.light) /\ d.light.started = c.light.started
         /\ d.light.seen = (c.light.seen /\ d.modes.mode \in Bases)
         /\ d.modes.open = c.modes.open \cup {o} /\ d.modes.base = c.modes.base
         /\ d.modes.mode = o
<1> DEFINE m == [c.modes EXCEPT !.open = @ \cup {o}]
           session == [c.session EXCEPT ![o] = s]
           n == [c EXCEPT !.modes = Opened(c.modes, o)]
           e == [n EXCEPT !.session = session]
<1>1. c.modes \in ModeManager /\ c.session \in SessionsType /\ c.modes.mode # "Off"
  BY CoreIs DEF CanOpen
<1>2. m \in ModeManager /\ m.mode = c.modes.mode /\ m.open = c.modes.open \cup {o}
      /\ m.base = c.modes.base
  BY <1>1 DEF ModeManager
<1>3. Opened(c.modes, o) = Refreshed(m)
  BY DEF Opened
<1> HIDE DEF m
<1>4. /\ Opened(c.modes, o) \in ModeManager /\ ModesOK(Opened(c.modes, o))
      /\ Opened(c.modes, o).open = c.modes.open \cup {o} /\ Opened(c.modes, o).base = c.modes.base
      /\ Opened(c.modes, o).mode = Top(c.modes.open \cup {o}, c.modes.base)
  BY <1>1, <1>2, <1>3, RefreshedIs, ModesAre
<1>5. session \in SessionsType /\ session[o] = s /\ \A p \in Overrides \ {o} : session[p] = c.session[p]
  BY <1>1, SessionReplaced
<1>6. Entered(c, o, s) = Synced(e)
  BY DEF Entered, CoreType
<1> HIDE DEF session
<1>7. /\ n \in CoreType /\ n.modes = Opened(c.modes, o) /\ n.session = c.session
      /\ n.over = c.over /\ n.light = c.light
  BY <1>4, Replaced
<1> HIDE DEF n
<1>8. /\ e \in CoreType /\ e.modes = Opened(c.modes, o) /\ e.session = session
      /\ e.over = c.over /\ e.light = c.light
  BY <1>5, <1>7, Replaced
<1>9. Top(c.modes.open \cup {o}, c.modes.base) = o
  <2>1. c.modes.open \in SUBSET Overrides /\ c.modes.open \cup {o} \in SUBSET Overrides
    BY <1>1 DEF ModeManager
  <2>2. \A p \in c.modes.open : Priority[p] < Priority[o]
    <3>1. \A p \in Overrides : Priority[p] \in Nat
      BY Order, SMTT(10) DEF Overrides
    <3>2. Priority[c.modes.mode] < Priority[o]
      BY DEF CanOpen
    <3>3. CASE c.modes.open = {}
      BY <3>3
    <3>4. CASE c.modes.open # {}
      <4>1. c.modes.mode \in c.modes.open /\ \A p \in c.modes.open : Priority[p] <= Priority[c.modes.mode]
        BY <1>1, <2>1, <3>4, TopIs DEF ModesOK
      <4>2. \A a, b, g \in Overrides :
              Priority[a] <= Priority[b] /\ Priority[b] < Priority[g] => Priority[a] < Priority[g]
        BY ONLY <3>1, SMTT(10)
      <4> QED BY <2>1, <3>2, <4>1, <4>2, Zenon
    <3> QED BY <3>3, <3>4
  <2>3. /\ Top(c.modes.open \cup {o}, c.modes.base) \in c.modes.open \cup {o}
        /\ Priority[o] <= Priority[Top(c.modes.open \cup {o}, c.modes.base)]
    BY <2>1, TopIs
  <2>4. \A p \in Overrides : Priority[p] \in Nat
    BY Order, SMTT(10) DEF Overrides
  <2> QED BY <2>1, <2>2, <2>3, <2>4, SMTT(10)
<1> HIDE DEF e
<1> QED BY <1>4, <1>5, <1>6, <1>8, <1>9, SyncedIs

LEMMA LeftIs ==
  ASSUME NEW c \in CoreType, NEW o \in Overrides, CanClose(c.modes, o)
  PROVE  LET d == Left(c, o) IN
         /\ d \in CoreType /\ d.modes = Closed(c.modes, o) /\ ModesOK(d.modes)
         /\ d.session[o] = NoSession /\ \A p \in Overrides \ {o} : d.session[p] = c.session[p]
         /\ d.over = c.over /\ SameLight(c.light, d.light) /\ d.light.started = c.light.started
         /\ d.light.seen = (c.light.seen /\ d.modes.mode \in Bases)
         /\ d.modes.open = c.modes.open \ {o} /\ d.modes.base = c.modes.base
         /\ d.modes.mode # "Off"
<1> DEFINE m == [c.modes EXCEPT !.open = @ \ {o}]
           session == [c.session EXCEPT ![o] = NoSession]
           n == [c EXCEPT !.modes = Closed(c.modes, o)]
           e == [n EXCEPT !.session = session]
<1>1. c.modes \in ModeManager /\ c.session \in SessionsType /\ c.modes.mode # "Off"
  BY CoreIs DEF CanClose, Overrides
<1>2. m \in ModeManager /\ m.mode = c.modes.mode /\ m.open = c.modes.open \ {o}
      /\ m.base = c.modes.base
  BY <1>1 DEF ModeManager
<1>3. Closed(c.modes, o) = Refreshed(m)
  BY DEF Closed
<1> HIDE DEF m
<1>4. /\ Closed(c.modes, o) \in ModeManager /\ ModesOK(Closed(c.modes, o))
      /\ Closed(c.modes, o).open = c.modes.open \ {o} /\ Closed(c.modes, o).base = c.modes.base
      /\ Closed(c.modes, o).mode # "Off"
  BY <1>1, <1>2, <1>3, RefreshedIs, ModesAre
<1>5. session \in SessionsType /\ session[o] = NoSession /\ \A p \in Overrides \ {o} : session[p] = c.session[p]
  BY <1>1, SessionReplaced, NoSessionIs
<1>6. Left(c, o) = Synced(e)
  BY DEF Left, CoreType
<1> HIDE DEF session
<1>7. /\ n \in CoreType /\ n.modes = Closed(c.modes, o) /\ n.session = c.session
      /\ n.over = c.over /\ n.light = c.light
  BY <1>4, Replaced
<1> HIDE DEF n
<1>8. /\ e \in CoreType /\ e.modes = Closed(c.modes, o) /\ e.session = session
      /\ e.over = c.over /\ e.light = c.light
  BY <1>5, <1>7, Replaced
<1> HIDE DEF e
<1> QED BY <1>4, <1>5, <1>6, <1>8, SyncedIs

LEMMA RebasedIs ==
  ASSUME NEW m \in ModeManager, NEW b \in Bases, CanRebase(m, b)
  PROVE  /\ Rebased(m, b) \in ModeManager /\ ModesOK(Rebased(m, b))
         /\ Rebased(m, b).open = m.open /\ Rebased(m, b).base = b
         /\ Rebased(m, b).mode = Top(m.open, b) /\ Rebased(m, b).mode # "Off"
<1> DEFINE n == [m EXCEPT !.base = b]
<1>1. n \in ModeManager /\ n.mode = m.mode /\ n.open = m.open /\ n.base = b
  BY DEF ModeManager
<1>2. Rebased(m, b) = Refreshed(n) /\ m.mode # "Off"
  BY DEF Rebased, CanRebase
<1> HIDE DEF n
<1> QED BY <1>1, <1>2, RefreshedIs, ModesAre

LEMMA SwitchedOffIs ==
  ASSUME NEW m \in ModeManager, m.mode # "Off"
  PROVE  /\ SwitchedOff(m) \in ModeManager /\ ModesOK(SwitchedOff(m))
         /\ SwitchedOff(m).open = {} /\ SwitchedOff(m).base = "Normal" /\ SwitchedOff(m).mode = "Off"
<1>1. SwitchedOff(m) = [m EXCEPT !.open = {}, !.base = "Normal", !.mode = "Off", !.back = "Normal"]
  BY DEF SwitchedOff
<1>2. {} \in SUBSET Overrides /\ "Normal" \in Bases /\ "Off" \in Modes /\ "Normal" \in Modes
  BY DEF Bases, Modes
<1> QED BY ONLY <1>1, <1>2, m \in ModeManager DEF ModeManager, ModesOK

LEMMA SwitchedOnIs ==
  ASSUME NEW m, ModesOK(m), m.mode = "Off"
  PROVE  /\ SwitchedOn(m) \in ModeManager /\ ModesOK(SwitchedOn(m))
         /\ SwitchedOn(m).open = {} /\ SwitchedOn(m).base = "Normal" /\ SwitchedOn(m).mode = "Normal"
<1> DEFINE n == [m EXCEPT !.mode = "Normal", !.base = "Normal"]
<1>1. SwitchedOn(m) = Refreshed(n)
  BY DEF SwitchedOn
<1>2. m \in ModeManager /\ m.open = {}
  BY DEF ModesOK
<1>3. "Normal" \in Bases /\ "Normal" \in Modes
  BY DEF Bases, Modes
<1>4. n \in ModeManager /\ n.mode = "Normal" /\ n.open = {} /\ n.base = "Normal"
  BY ONLY <1>2, <1>3 DEF ModeManager
<1> HIDE DEF n
<1> QED BY <1>1, <1>4, RefreshedIs, TopOfNone, ModesAre

LEMMA ToBaseIs ==
  ASSUME NEW c \in CoreType, NEW b \in Bases, CanRebase(c.modes, b)
  PROVE  LET d == ToBase(c, b) IN
         /\ d \in CoreType /\ d.modes = Rebased(c.modes, b)
         /\ d.session = c.session /\ d.over = c.over
         /\ SameLight(c.light, d.light) /\ d.light.started = c.light.started
         /\ d.light.seen = (c.light.seen /\ d.modes.mode \in Bases)
<1> DEFINE n == [c EXCEPT !.modes = Rebased(c.modes, b)]
<1>1. ToBase(c, b) = Synced(n)
  BY DEF ToBase, CoreType
<1>2. Rebased(c.modes, b) \in ModeManager
  BY CoreIs, RebasedIs
<1>3. /\ n \in CoreType /\ n.modes = Rebased(c.modes, b) /\ n.session = c.session
      /\ n.over = c.over /\ n.light = c.light
  BY <1>2, Replaced
<1> HIDE DEF n
<1> QED BY <1>1, <1>3, SyncedIs

LEMMA EnterOffIs ==
  ASSUME NEW c \in CoreType, c.modes.mode # "Off"
  PROVE  LET d == EnterOff(c) IN
         /\ d \in CoreType /\ d.modes = SwitchedOff(c.modes)
         /\ \A o \in Overrides : d.session[o] = NoSession
         /\ ~d.over
         /\ SameLight(c.light, d.light) /\ d.light.started = c.light.started
<1> DEFINE none == [o \in Overrides |-> NoSession]
           n == [c EXCEPT !.modes = SwitchedOff(c.modes)]
           e == [n EXCEPT !.over = FALSE]
           f == [e EXCEPT !.session = none]
<1>1. EnterOff(c) = Synced(f)
  BY DEF EnterOff, CoreType
<1>2. SwitchedOff(c.modes) \in ModeManager
  BY CoreIs, SwitchedOffIs
<1>3. none \in SessionsType /\ \A o \in Overrides : none[o] = NoSession
  BY NoSessionIs DEF SessionsType
<1> HIDE DEF none
<1>4. n \in CoreType /\ n.modes = SwitchedOff(c.modes) /\ n.light = c.light
  BY <1>2, Replaced
<1> HIDE DEF n
<1>5. e \in CoreType /\ e.modes = SwitchedOff(c.modes) /\ e.light = c.light /\ ~e.over
  BY <1>4, Replaced
<1> HIDE DEF e
<1>6. f \in CoreType /\ f.modes = SwitchedOff(c.modes) /\ f.light = c.light /\ ~f.over /\ f.session = none
  BY <1>3, <1>5, Replaced
<1> HIDE DEF f
<1> QED BY <1>1, <1>3, <1>6, SyncedIs

LEMMA ExitOffIs ==
  ASSUME NEW c \in CoreType, ModesOK(c.modes), c.modes.mode = "Off"
  PROVE  LET d == ExitOff(c) IN
         /\ d \in CoreType /\ d.modes = SwitchedOn(c.modes)
         /\ d.session = c.session /\ d.over = c.over
         /\ SameLight(c.light, d.light) /\ ~d.light.started
<1> DEFINE l == [c.light EXCEPT !.started = FALSE]
           n == [c EXCEPT !.modes = SwitchedOn(c.modes)]
           e == [n EXCEPT !.light = l]
<1>1. ExitOff(c) = Synced(e)
  BY DEF ExitOff, CoreType
<1>2. SwitchedOn(c.modes) \in ModeManager
  BY SwitchedOnIs
<1>3. c.light \in LightType
  BY CoreIs
<1>4. l \in LightType /\ ~l.started /\ SameLight(c.light, l)
  BY ONLY <1>3 DEF LightType, SameLight
<1> HIDE DEF l
<1>5. /\ n \in CoreType /\ n.modes = SwitchedOn(c.modes) /\ n.light = c.light
      /\ n.session = c.session /\ n.over = c.over
  BY <1>2, Replaced
<1> HIDE DEF n
<1>6. /\ e \in CoreType /\ e.modes = SwitchedOn(c.modes) /\ e.light = l
      /\ e.session = c.session /\ e.over = c.over
  BY <1>4, <1>5, Replaced
<1> HIDE DEF e
<1>7. /\ Synced(e) \in CoreType /\ Synced(e).modes = e.modes /\ Synced(e).session = e.session
      /\ Synced(e).over = e.over /\ SameLight(e.light, Synced(e).light)
      /\ Synced(e).light.started = e.light.started
  BY <1>6, SyncedIs
<1> QED BY ONLY <1>1, <1>4, <1>6, <1>7, SMTT(10) DEF SameLight

\* New levels for the session in charge.
LEMMA ChangedIs ==
  ASSUME NEW c \in CoreType, NEW o \in Overrides, NEW v \in Values
  PROVE  LET d == [c EXCEPT !.session[o].value = v] IN
         /\ d \in CoreType /\ d.modes = c.modes /\ d.over = c.over /\ d.light = c.light
         /\ d.session[o].last = c.session[o].last
         /\ d.session[o].age = c.session[o].age /\ d.session[o].limit = c.session[o].limit
         /\ \A p \in Overrides \ {o} : d.session[p] = c.session[p]
<1> DEFINE session == [c.session EXCEPT ![o].value = v]
           d == [c EXCEPT !.session = session]
<1>1. c.session \in SessionsType
  BY CoreIs
<1>2. /\ session \in SessionsType /\ session[o].last = c.session[o].last
      /\ session[o].age = c.session[o].age /\ session[o].limit = c.session[o].limit
      /\ \A p \in Overrides \ {o} : session[p] = c.session[p]
  BY <1>1, SessionReplaced
<1>3. [c EXCEPT !.session[o].value = v] = d
  OBVIOUS
<1> HIDE DEF session
<1>4. /\ d \in CoreType /\ d.session = session /\ d.modes = c.modes
      /\ d.over = c.over /\ d.light = c.light
  BY <1>2, Replaced
<1> HIDE DEF d
<1> QED BY <1>2, <1>3, <1>4

-----------------------------------------------------------------------------
(***************************************************************************)
(* The requests: whatever a page or core() asks for does one of six things  *)
(* to the core, or nothing.                                                 *)
(***************************************************************************)
CoreOK(c) == c \in CoreType /\ ModesOK(c.modes)

\* What a session is opened with.
Openings == {<<"Preview", v, 0>> : v \in Levels} \cup {<<"ChannelTest", v, 0>> : v \in Levels}
            \cup {<<"Manual", v, k>> : v \in Levels, k \in ManualLimits} \cup {<<"Simulation", "frame", 0>>}

Opens(c, d) ==
  \E s \in Openings : CanOpen(c.modes, s[1]) /\ d = Entered(c, s[1], Opening(s[2], s[3]))
Ends(c, d) ==
  \E o \in Overrides :
     /\ CanClose(c.modes, o)
     /\ d = IF o = "Simulation" THEN [Left(c, o) EXCEPT !.over = FALSE] ELSE Left(c, o)
Changes(c, d) ==
  \E o \in Overrides, v \in Values : c.modes.mode = o /\ d = [c EXCEPT !.session[o].value = v]
Rebases(c, d) == \E b \in Bases : CanRebase(c.modes, b) /\ d = ToBase(c, b)
GoesOff(c, d) == c.modes.mode # "Off" /\ d = EnterOff(c)
GoesOn(c, d) == c.modes.mode = "Off" /\ d = ExitOff(c)

\* What a request does to the core.
Asked(c, d) ==
  d = c \/ Opens(c, d) \/ Ends(c, d) \/ Changes(c, d) \/ Rebases(c, d) \/ GoesOff(c, d) \/ GoesOn(c, d)

\* Each of the core's calls is one of them.
LEMMA EnterAsks ==
  ASSUME NEW c, NEW s \in Openings
  PROVE  Asked(c, Entered(c, s[1], Opening(s[2], s[3])))
<1>1. CASE CanOpen(c.modes, s[1])
  BY <1>1 DEF Asked, Opens
<1>2. CASE ~CanOpen(c.modes, s[1])
  <2>1. Entered(c, s[1], Opening(s[2], s[3])) = c
    BY <1>2 DEF Entered
  <2> QED BY <2>1 DEF Asked
<1> QED BY <1>1, <1>2

LEMMA LeaveAsks ==
  ASSUME NEW c, NEW o \in Overrides \ {"Simulation"}
  PROVE  Asked(c, Left(c, o))
<1>1. CASE CanClose(c.modes, o)
  BY <1>1 DEF Asked, Ends
<1>2. CASE ~CanClose(c.modes, o)
  <2>1. Left(c, o) = c
    BY <1>2 DEF Left
  <2> QED BY <2>1 DEF Asked
<1> QED BY <1>1, <1>2

LEMMA SimulationAsks ==
  ASSUME NEW c \in CoreType
  PROVE  Asked(c, ExitSimulation(c))
<1>1. CASE CanClose(c.modes, "Simulation")
  <2>1. ExitSimulation(c) = [Left(c, "Simulation") EXCEPT !.over = FALSE]
    <3> DEFINE d == Left(c, "Simulation")
    <3>1. (d.over /\ ~CanClose(c.modes, "Simulation")) = FALSE
      BY <1>1
    <3>2. ExitSimulation(c) = [d EXCEPT !.over = d.over /\ ~CanClose(c.modes, "Simulation")]
      BY DEF ExitSimulation
    <3> HIDE DEF d
    <3> QED BY <3>1, <3>2 DEF d
  <2>2. "Simulation" \in Overrides
    BY DEF Overrides
  <2> QED BY <1>1, <2>1, <2>2 DEF Asked, Ends
<1>2. CASE ~CanClose(c.modes, "Simulation")
  <2>1. Left(c, "Simulation") = c
    BY <1>2 DEF Left
  <2>2. ExitSimulation(c) = [c EXCEPT !.over = c.over]
    <3>1. (c.over /\ ~CanClose(c.modes, "Simulation")) = c.over
      BY <1>2, CoreIs
    <3>2. ExitSimulation(c) = [c EXCEPT !.over = c.over /\ ~CanClose(c.modes, "Simulation")]
      BY <2>1 DEF ExitSimulation
    <3> QED BY <3>1, <3>2
  <2>3. [c EXCEPT !.over = c.over] = c
    BY DEF CoreType
  <2> QED BY <2>2, <2>3 DEF Asked
<1> QED BY <1>1, <1>2

LEMMA ChangeAsks ==
  ASSUME NEW c, NEW o \in Overrides, NEW v \in Values
  PROVE  /\ Asked(c, Changed(c, o, v))
         /\ c.modes.mode = o => Asked(c, [c EXCEPT !.session[o].value = v])
  BY DEF Asked, Changes, Changed

Commands ==
  \/ \E mode \in OnOffer : CommandMode(mode)
  \/ \E v \in Levels, limit \in ManualLimits : CommandManual(v, limit)
  \/ CommandExitManual
  \/ Sessions

LEMMA CommandsAsk ==
  ASSUME core \in CoreType, Commands
  PROVE  Asked(core, core') /\ Request /\ UNCHANGED <<profile, running, lamp, at>>
<1>0. Levels \subseteq Values /\ {"ChannelTest", "Manual", "Preview", "Simulation"} = Overrides
  BY DEF Values, Overrides
<1>1. ASSUME NEW mode \in OnOffer, CommandMode(mode)
      PROVE  Asked(core, core') /\ Request /\ UNCHANGED <<profile, running, lamp, at>>
  <2>1. Request /\ UNCHANGED <<profile, running, lamp, at>>
    BY <1>1 DEF CommandMode, OnCore
  <2>2. CASE mode = "Off"
    <3>1. core' = EnterOff(core)
      BY <1>1, <2>2 DEF CommandMode, OnCore
    <3> QED BY <2>1, <3>1 DEF Asked, GoesOff, EnterOff
  <2>3. CASE mode # "Off" /\ core.modes.mode = "Off" /\ mode = "Normal"
    <3>1. core' = ExitOff(core)
      BY <1>1, <2>3 DEF CommandMode, OnCore
    <3> QED BY <2>1, <2>3, <3>1 DEF Asked, GoesOn
  <2>4. CASE mode # "Off" /\ ~(core.modes.mode = "Off" /\ mode = "Normal")
    <3>1. core' = ToBase(core, mode)
      BY <1>1, <2>4 DEF CommandMode, OnCore
    <3>2. mode \in Bases
      BY <2>4 DEF OnOffer, Bases
    <3> QED BY <2>1, <3>1, <3>2 DEF Asked, Rebases, ToBase
  <2> QED BY <2>2, <2>3, <2>4
<1>2. ASSUME NEW v \in Levels, NEW limit \in ManualLimits, CommandManual(v, limit)
      PROVE  Asked(core, core') /\ Request /\ UNCHANGED <<profile, running, lamp, at>>
  <2>1. Request /\ UNCHANGED <<profile, running, lamp, at>>
    BY <1>2 DEF CommandManual, OnCore
  <2>2. CASE core.modes.mode = "Manual"
    <3>1. core' = [core EXCEPT !.session["Manual"].value = v]
      BY <1>2, <2>2 DEF CommandManual, OnCore, SetManualLevels
    <3> QED BY <1>0, <2>1, <2>2, <3>1, ChangeAsks
  <2>3. CASE core.modes.mode # "Manual"
    <3>1. core' = Entered(core, "Manual", Opening(v, limit))
      BY <1>2, <2>3 DEF CommandManual, OnCore, EnterManual
    <3>2. <<"Manual", v, limit>> \in Openings
      BY DEF Openings
    <3> QED BY <2>1, <3>1, <3>2, EnterAsks
  <2> QED BY <2>2, <2>3
<1>3. ASSUME CommandExitManual
      PROVE  Asked(core, core') /\ Request /\ UNCHANGED <<profile, running, lamp, at>>
  <2>1. core' = Left(core, "Manual") /\ Request /\ UNCHANGED <<profile, running, lamp, at>>
    BY <1>3 DEF CommandExitManual, OnCore, ExitManual
  <2> QED BY <1>0, <2>1, LeaveAsks
<1>4. ASSUME Sessions
      PROVE  Asked(core, core') /\ Request /\ UNCHANGED <<profile, running, lamp, at>>
  <2>1. Request /\ UNCHANGED <<profile, running, lamp, at>>
    BY <1>4 DEF Sessions, OnCore
  <2>2. ASSUME NEW v \in Levels, core' = EnterChannelTest(core, v)
        PROVE  Asked(core, core')
    <3>1. <<"ChannelTest", v, 0>> \in Openings
      BY DEF Openings
    <3> QED BY <2>2, <3>1, EnterAsks DEF EnterChannelTest
  <2>3. ASSUME NEW v \in Levels, core' = EnterPreview(core, v)
        PROVE  Asked(core, core')
    <3>1. <<"Preview", v, 0>> \in Openings
      BY DEF Openings
    <3> QED BY <2>3, <3>1, EnterAsks DEF EnterPreview
  <2>4. ASSUME core' = EnterSimulation(core)
        PROVE  Asked(core, core')
    <3>1. <<"Simulation", "frame", 0>> \in Openings
      BY DEF Openings
    <3> QED BY <2>4, <3>1, EnterAsks DEF EnterSimulation
  <2>5. ASSUME NEW v \in Levels, core' = SetChannelTestLevel(core, v) \/ core' = SetPreviewStage(core, v)
        PROVE  Asked(core, core')
    BY <1>0, <2>5, ChangeAsks DEF SetChannelTestLevel, SetPreviewStage
  <2>6. ASSUME core' = ExitChannelTest(core) \/ core' = ExitPreview(core)
        PROVE  Asked(core, core')
    BY <1>0, <2>6, LeaveAsks DEF ExitChannelTest, ExitPreview
  <2>7. ASSUME core' = ExitSimulation(core)
        PROVE  Asked(core, core')
    BY <2>7, SimulationAsks
  <2> QED BY <1>4, <2>1, <2>2, <2>3, <2>4, <2>5, <2>6, <2>7 DEF Sessions, OnCore
<1> QED BY <1>1, <1>2, <1>3, <1>4 DEF Commands

\* And each of them in the terms of the core's parts.
LEMMA OpeningsAre ==
  ASSUME NEW s \in Openings
  PROVE  /\ s[1] \in Overrides /\ s[2] \in Values /\ s[3] \in Nat
         /\ s[1] = "ChannelTest" => s[3] = 0
         /\ s[1] = "Manual" => s[3] # 1
         /\ Opening(s[2], s[3]) \in SessionType
<1>1. /\ s[1] \in Overrides /\ s[2] \in Values /\ s[3] \in Nat
      /\ s[1] = "ChannelTest" => s[3] = 0
      /\ s[1] = "Manual" => s[3] # 1
  <2>1. ManualLimits \subseteq Nat \ {1}
    BY FirmwareAssumption
  <2> QED BY <2>1 DEF Openings, Overrides, Values
<1> QED BY <1>1, OpeningIs

LEMMA OpensIs ==
  ASSUME NEW c, NEW d, CoreOK(c), Opens(c, d)
  PROVE  \E o \in Overrides :
           /\ o \notin c.modes.open /\ CanOpen(c.modes, o)
           /\ CoreOK(d) /\ d.modes = Opened(c.modes, o)
           /\ d.modes.open = c.modes.open \cup {o} /\ d.modes.base = c.modes.base /\ d.modes.mode = o
           /\ d.session[o].age = 0 /\ d.session[o].last = d.session[o].value
           /\ o = "ChannelTest" => d.session[o].limit = 0
           /\ o = "Manual" => d.session[o].limit # 1
           /\ \A p \in Overrides \ {o} : d.session[p] = c.session[p]
           /\ d.over = c.over /\ SameLight(c.light, d.light) /\ d.light.started = c.light.started
           /\ d.light.seen = (c.light.seen /\ d.modes.mode \in Bases)
<1>1. PICK s \in Openings : CanOpen(c.modes, s[1]) /\ d = Entered(c, s[1], Opening(s[2], s[3]))
  BY DEF Opens
<1> DEFINE o == s[1]  e == Opening(s[2], s[3])
<1>2. /\ o \in Overrides /\ e \in SessionType /\ e.age = 0 /\ e.last = e.value
      /\ o = "ChannelTest" => e.limit = 0
      /\ o = "Manual" => e.limit # 1
  BY OpeningsAre, OpeningIs
<1>3. c \in CoreType /\ ModesOK(c.modes) /\ CanOpen(c.modes, o) /\ d = Entered(c, o, e)
  BY <1>1 DEF CoreOK
<1>4. o \notin c.modes.open
  BY <1>3 DEF CanOpen
<1> HIDE DEF o, e
<1>5. /\ d \in CoreType /\ d.modes = Opened(c.modes, o) /\ ModesOK(d.modes)
      /\ d.session[o] = e /\ \A p \in Overrides \ {o} : d.session[p] = c.session[p]
      /\ d.over = c.over /\ SameLight(c.light, d.light) /\ d.light.started = c.light.started
      /\ d.light.seen = (c.light.seen /\ d.modes.mode \in Bases)
      /\ d.modes.open = c.modes.open \cup {o} /\ d.modes.base = c.modes.base
      /\ d.modes.mode = o
  BY <1>2, <1>3, EnteredIs
<1> QED BY <1>2, <1>3, <1>4, <1>5 DEF CoreOK

LEMMA EndsIs ==
  ASSUME NEW c, NEW d, CoreOK(c), Ends(c, d)
  PROVE  \E o \in Overrides :
           /\ CanClose(c.modes, o)
           /\ CoreOK(d) /\ d.modes = Closed(c.modes, o)
           /\ d.session[o] = NoSession /\ \A p \in Overrides \ {o} : d.session[p] = c.session[p]
           /\ d.over = (c.over /\ o # "Simulation")
           /\ SameLight(c.light, d.light) /\ d.light.started = c.light.started
           /\ d.light.seen = (c.light.seen /\ d.modes.mode \in Bases)
           /\ d.modes.open = c.modes.open \ {o} /\ d.modes.base = c.modes.base
           /\ d.modes.mode # "Off"
<1>1. PICK o \in Overrides :
        /\ CanClose(c.modes, o)
        /\ d = IF o = "Simulation" THEN [Left(c, o) EXCEPT !.over = FALSE] ELSE Left(c, o)
  BY DEF Ends
<1> DEFINE e == Left(c, o)
<1>2. /\ e \in CoreType /\ e.modes = Closed(c.modes, o) /\ ModesOK(e.modes)
      /\ e.session[o] = NoSession /\ \A p \in Overrides \ {o} : e.session[p] = c.session[p]
      /\ e.over = c.over /\ SameLight(c.light, e.light) /\ e.light.started = c.light.started
      /\ e.light.seen = (c.light.seen /\ e.modes.mode \in Bases)
      /\ e.modes.open = c.modes.open \ {o} /\ e.modes.base = c.modes.base
      /\ e.modes.mode # "Off"
  BY <1>1, LeftIs DEF CoreOK
<1>3. d = IF o = "Simulation" THEN [e EXCEPT !.over = FALSE] ELSE e
  BY <1>1
<1>4. c.over \in BOOLEAN
  BY CoreIs DEF CoreOK
<1> HIDE DEF e
<1>5. /\ d \in CoreType /\ d.modes = e.modes /\ d.session = e.session /\ d.light = e.light
      /\ d.over = (c.over /\ o # "Simulation")
  <2>1. CASE o = "Simulation"
    <3>1. d = [e EXCEPT !.over = FALSE] /\ e \in CoreType
      BY <1>2, <1>3, <2>1, Zenon
    <3>2. /\ d \in CoreType /\ d.modes = e.modes /\ d.session = e.session /\ d.light = e.light
          /\ d.over = FALSE
      BY ONLY <3>1 DEF CoreType
    <3>3. (c.over /\ o # "Simulation") = FALSE
      BY <2>1
    <3> QED BY <3>2, <3>3, Zenon
  <2>2. CASE o # "Simulation"
    <3>1. d = e
      BY <1>3, <2>2, Zenon
    <3>2. d.over = c.over
      BY <1>2, <3>1, Zenon
    <3>3. d.over = (c.over /\ o # "Simulation")
      BY ONLY <1>4, <2>2, <3>2
    <3>4. d \in CoreType /\ d.modes = e.modes /\ d.session = e.session /\ d.light = e.light
      BY <1>2, <3>1, Zenon
    <3> QED BY <3>3, <3>4, Zenon
  <2> QED BY <2>1, <2>2
<1>6. /\ CanClose(c.modes, o)
      /\ CoreOK(d) /\ d.modes = Closed(c.modes, o)
      /\ d.session[o] = NoSession /\ \A p \in Overrides \ {o} : d.session[p] = c.session[p]
      /\ SameLight(c.light, d.light) /\ d.light.started = c.light.started
      /\ d.light.seen = (c.light.seen /\ d.modes.mode \in Bases)
      /\ d.modes.open = c.modes.open \ {o} /\ d.modes.base = c.modes.base
      /\ d.modes.mode # "Off"
  BY <1>1, <1>2, <1>5 DEF CoreOK
<1>7. d.over = (c.over /\ o # "Simulation")
  BY <1>5
<1> QED BY <1>6, <1>7, Zenon

LEMMA AskedIs ==
  ASSUME NEW c, NEW d, CoreOK(c), Asked(c, d)
  PROVE  CoreOK(d) /\ SameLight(c.light, d.light) /\ (d.light.started => c.light.started)
<1>0. c \in CoreType /\ ModesOK(c.modes) /\ c.modes \in ModeManager
  BY CoreIs DEF CoreOK
<1>1. CASE d = c
  BY <1>1 DEF SameLight
<1>2. CASE Opens(c, d)
  BY <1>2, OpensIs
<1>3. CASE Ends(c, d)
  BY <1>3, EndsIs
<1>4. CASE Changes(c, d)
  BY <1>0, <1>4, ChangedIs DEF Changes, CoreOK, SameLight
<1>5. CASE Rebases(c, d)
  BY <1>0, <1>5, ToBaseIs, RebasedIs DEF Rebases, CoreOK
<1>6. CASE GoesOff(c, d)
  BY <1>0, <1>6, EnterOffIs, SwitchedOffIs DEF GoesOff, CoreOK
<1>7. CASE GoesOn(c, d)
  BY <1>0, <1>7, ExitOffIs, SwitchedOnIs DEF GoesOn, CoreOK
<1> QED BY <1>1, <1>2, <1>3, <1>4, <1>5, <1>6, <1>7 DEF Asked

-----------------------------------------------------------------------------
(***************************************************************************)
(* A pass, first part: timers, and the sessions that end by themselves.     *)
(***************************************************************************)
LEMMA LeastIs ==
  ASSUME NEW a \in Nat, NEW b \in Nat
  PROVE  Least(a, b) \in Nat /\ Least(a, b) <= a /\ Least(a, b) <= b /\ Least(a, b) \in {a, b}
  BY SMTT(10) DEF Least

LEMMA OneOlder ==
  ASSUME NEW age \in Nat, NEW limit \in Nat
  PROVE  Least(age + 1, limit) \in Nat
  BY SMTT(10) DEF Least

LEMMA AgedIs ==
  ASSUME NEW c \in CoreType
  PROVE  LET d == Aged(c) IN
         /\ d \in CoreType /\ d.modes = c.modes /\ d.over = c.over
         /\ \A o \in Overrides :
              /\ d.session[o].value = c.session[o].value /\ d.session[o].last = c.session[o].last
              /\ d.session[o].limit = c.session[o].limit
              /\ d.session[o].age = Least(c.session[o].age + 1, c.session[o].limit)
         /\ d.light \in LightType
         /\ d.light = [c.light EXCEPT !.tr = [c.light.tr EXCEPT
                        !.age = IF c.light.tr.active THEN Least(c.light.tr.age + 1, c.light.tr.length)
                                ELSE c.light.tr.age]]
<1> DEFINE age == IF c.light.tr.active THEN Least(c.light.tr.age + 1, c.light.tr.length)
                  ELSE c.light.tr.age
           tr == [c.light.tr EXCEPT !.age = age]
           l == [c.light EXCEPT !.tr = tr]
           Later(o) == Older(c.session[o])
           session == [o \in Overrides |-> Later(o)]
           n == [c EXCEPT !.session = session]
           d == [n EXCEPT !.light = l]
<1>1. c.light \in LightType /\ c.light.tr \in TransitionType /\ c.session \in SessionsType
  BY CoreIs, LightIs
<1>2. age \in Nat
  <2>1. c.light.tr.age \in Nat /\ c.light.tr.length \in Nat
    BY <1>1 DEF TransitionType
  <2> QED BY <2>1, OneOlder
<1>3. tr \in TransitionType
  <2> HIDE DEF age
  <2> QED BY <1>1, <1>2 DEF TransitionType
<1>4. l \in LightType
  <2> HIDE DEF tr
  <2> QED BY ONLY <1>1, <1>3 DEF LightType
<1>5. ASSUME NEW o \in Overrides
      PROVE  /\ Later(o) \in SessionType
             /\ Later(o).value = c.session[o].value /\ Later(o).last = c.session[o].last
             /\ Later(o).limit = c.session[o].limit
             /\ Later(o).age = Least(c.session[o].age + 1, c.session[o].limit)
  <2>1. c.session[o] \in SessionType /\ c.session[o].age \in Nat /\ c.session[o].limit \in Nat
    BY <1>1, SessionIs
  <2>2. Least(c.session[o].age + 1, c.session[o].limit) \in Nat
    BY <2>1, OneOlder
  <2> QED BY <2>1, <2>2 DEF SessionType, Older
<1>6. session \in SessionsType /\ \A o \in Overrides : session[o] = Later(o)
  <2> HIDE DEF Later
  <2> QED BY <1>5 DEF SessionsType
<1>7. Aged(c) = d
  <2>1. Aged(c) = [c EXCEPT !.session = session, !.light.tr.age = age]
    BY DEF Aged
  <2>2. n.light = c.light
    BY DEF CoreType
  <2> HIDE DEF session, age, Later
  <2>3. Aged(c) = [n EXCEPT !.light.tr.age = age]
    BY ONLY <2>1 DEF n
  <2> HIDE DEF n
  <2>4. Aged(c) = [n EXCEPT !.light = [n.light EXCEPT !.tr = [n.light.tr EXCEPT !.age = age]]]
    BY ONLY <2>3
  <2> QED BY ONLY <2>2, <2>4 DEF d, l, tr
<1> HIDE DEF session, l, Later
<1>8. n \in CoreType /\ n.session = session /\ n.modes = c.modes /\ n.over = c.over
  BY <1>6, Replaced
<1> HIDE DEF n
<1>9. d \in CoreType /\ d.session = session /\ d.modes = c.modes /\ d.over = c.over /\ d.light = l
  BY <1>4, <1>8, Replaced
<1> HIDE DEF d
<1> QED BY <1>4, <1>5, <1>6, <1>7, <1>9 DEF l

\* Sessions ended from the top.
Unwound(m, n) ==
  /\ n.base = m.base /\ n.open \subseteq m.open
  /\ \A p \in n.open, q \in m.open \ n.open : Priority[p] < Priority[q]
  /\ n.mode = "Off" <=> m.mode = "Off"

\* d is c after some sessions have ended.
Outlives(c, d) ==
  /\ CoreOK(d) /\ Unwound(c.modes, d.modes)
  /\ SameLight(c.light, d.light) /\ d.light.started = c.light.started
  /\ \A o \in d.modes.open : /\ d.session[o].value = c.session[o].value
                             /\ d.session[o].last = c.session[o].last
  /\ d.over => c.over /\ ("Simulation" \in c.modes.open => "Simulation" \in d.modes.open)

LEMMA PrioritiesDiffer ==
  /\ \A p \in Overrides : Priority[p] \in Nat
  /\ \A p, q \in Overrides : p # q /\ Priority[p] <= Priority[q] => Priority[p] < Priority[q]
<1> DEFINE S == {"ChannelTest", "Manual", "Preview", "Simulation"}
<1>1. \A p \in S : Priority[p] \in Nat
  BY Order, SMTT(10)
<1>2. \A p, q \in S : p # q /\ Priority[p] <= Priority[q] => Priority[p] < Priority[q]
  BY Order, SMTT(10)
<1> QED BY <1>1, <1>2 DEF Overrides

LEMMA OutlivesItself ==
  ASSUME NEW c, CoreOK(c)
  PROVE  Outlives(c, c)
  BY DEF Outlives, Unwound, SameLight

LEMMA OutlivesOn ==
  ASSUME NEW c, NEW d, NEW e, CoreOK(c), Outlives(c, d), Outlives(d, e)
  PROVE  Outlives(c, e)
<1>1. Unwound(c.modes, e.modes)
  BY DEF Outlives, Unwound
<1>2. SameLight(c.light, e.light) /\ e.light.started = c.light.started
  BY DEF Outlives, SameLight
<1> QED BY <1>1, <1>2 DEF Outlives, Unwound

LEMMA EndUnwinds ==
  ASSUME NEW m, ModesOK(m), NEW n, NEW o \in Overrides, CanClose(m, o), n.base = m.base,
         n.open = m.open \ {o}, n.mode # "Off"
  PROVE  Unwound(m, n)
<1>1. m.mode = o /\ o \in m.open /\ m.mode # "Off"
  BY DEF CanClose, Overrides
<1>2. m.open \in SUBSET Overrides /\ \A p \in m.open : Priority[p] <= Priority[o]
  BY <1>1, ModesAre
<1>3. \A p \in n.open, q \in m.open \ n.open : Priority[p] < Priority[q]
  BY <1>1, <1>2, PrioritiesDiffer
<1> QED BY <1>1, <1>3 DEF Unwound

LEMMA EndOutlives ==
  ASSUME NEW c, NEW d, CoreOK(c), Ends(c, d)
  PROVE  Outlives(c, d)
<1>1. PICK o \in Overrides :
           /\ CanClose(c.modes, o)
           /\ CoreOK(d)
           /\ d.session[o] = NoSession /\ \A p \in Overrides \ {o} : d.session[p] = c.session[p]
           /\ d.over = (c.over /\ o # "Simulation")
           /\ SameLight(c.light, d.light) /\ d.light.started = c.light.started
           /\ d.modes.open = c.modes.open \ {o} /\ d.modes.base = c.modes.base
           /\ d.modes.mode # "Off"
  BY EndsIs
<1>2. Unwound(c.modes, d.modes)
  BY <1>1, EndUnwinds DEF CoreOK
<1>3. d.modes.open \in SUBSET Overrides
  BY <1>1, ModesAre DEF CoreOK
<1>4. \A p \in d.modes.open : p \in Overrides \ {o}
  BY <1>1, <1>3
<1> QED BY <1>1, <1>2, <1>4 DEF Outlives

\* The timer of a session that is armed.
LEMMA ArmedOutlives ==
  ASSUME NEW c, CoreOK(c), NEW o \in Overrides, NEW k \in Nat
  PROVE  LET d == [c EXCEPT !.session[o].limit = k] IN
         /\ Outlives(c, d) /\ d.modes = c.modes /\ d.over = c.over /\ d.light = c.light
         /\ \A p \in Overrides \ {o} : d.session[p] = c.session[p]
         /\ \A p \in Overrides : d.session[p].value = c.session[p].value /\ d.session[p].last = c.session[p].last
<1> DEFINE session == [c.session EXCEPT ![o].limit = k]
           d == [c EXCEPT !.session = session]
<1>1. c \in CoreType /\ c.session \in SessionsType
  BY CoreIs DEF CoreOK
<1>2. /\ session \in SessionsType /\ session[o].last = c.session[o].last
      /\ session[o].value = c.session[o].value
      /\ \A p \in Overrides \ {o} : session[p] = c.session[p]
  BY <1>1, SessionReplaced
<1>3. [c EXCEPT !.session[o].limit = k] = d
  OBVIOUS
<1> HIDE DEF session
<1>4. /\ d \in CoreType /\ d.session = session /\ d.modes = c.modes
      /\ d.over = c.over /\ d.light = c.light
  BY <1>1, <1>2, Replaced
<1> HIDE DEF d
<1>5. \A p \in Overrides : d.session[p].value = c.session[p].value /\ d.session[p].last = c.session[p].last
  BY <1>2, <1>4
<1>6. c.modes.open \in SUBSET Overrides
  BY ModesAre DEF CoreOK
<1>7. Outlives(c, d)
  BY <1>4, <1>5, <1>6 DEF Outlives, CoreOK, Unwound, SameLight
<1> QED BY <1>2, <1>3, <1>4, <1>5, <1>7

LEMMA InChargeEnds ==
  ASSUME NEW c, CoreOK(c), NEW o \in Overrides, c.modes.mode = o
  PROVE  /\ CanClose(c.modes, o)
         /\ o # "Simulation" => Outlives(c, Left(c, o))
         /\ o = "Simulation" => Outlives(c, ExitSimulation(c))
<1>1. CanClose(c.modes, o)
  BY ModesAre DEF CanClose, CoreOK
<1>2. ASSUME o # "Simulation" PROVE Outlives(c, Left(c, o))
  <2>1. Ends(c, Left(c, o))
    BY <1>1, <1>2 DEF Ends
  <2> QED BY <2>1, EndOutlives
<1>3. ASSUME o = "Simulation" PROVE Outlives(c, ExitSimulation(c))
  <2> DEFINE d == Left(c, "Simulation")
  <2>1. (d.over /\ ~CanClose(c.modes, "Simulation")) = FALSE
    BY <1>1, <1>3
  <2>2. ExitSimulation(c) = [d EXCEPT !.over = d.over /\ ~CanClose(c.modes, "Simulation")]
    BY DEF ExitSimulation
  <2>3. ExitSimulation(c) = [d EXCEPT !.over = FALSE]
    <3> HIDE DEF d
    <3> QED BY <2>1, <2>2
  <2>4. Ends(c, ExitSimulation(c))
    BY <1>1, <1>3, <2>3 DEF Ends
  <2> QED BY <2>4, EndOutlives
<1> QED BY <1>1, <1>2, <1>3

LEMMA TimeoutsIs ==
  ASSUME NEW c, CoreOK(c)
  PROVE  Outlives(Aged(c), Timeouts(c))
<1> DEFINE a == Aged(c)  t == TestTimeout(a)  m == ManualTimeout(t)  s == SimulationOver(m)
<1>1. CoreOK(a)
  BY AgedIs DEF CoreOK
<1>2. "ChannelTest" \in Overrides /\ "Manual" \in Overrides /\ "Simulation" \in Overrides
  BY DEF Overrides
<1> HIDE DEF a
<1>3. Outlives(a, t)
  <2>1. TestLimit \in Nat
    BY CoreAssumption
  <2>2. CASE a.modes.mode # "ChannelTest"
    <3>1. t = a
      BY <2>2 DEF TestTimeout
    <3> QED BY <1>1, <3>1, OutlivesItself
  <2>3. CASE a.modes.mode = "ChannelTest" /\ t = [a EXCEPT !.session["ChannelTest"].limit = TestLimit]
    BY <1>1, <1>2, <2>1, <2>3, ArmedOutlives
  <2>4. CASE a.modes.mode = "ChannelTest" /\ t = Left(a, "ChannelTest")
    BY <1>1, <1>2, <2>4, InChargeEnds
  <2>5. CASE t = a
    BY <1>1, <2>5, OutlivesItself
  <2>6. a.modes.mode = "ChannelTest" => \/ t = [a EXCEPT !.session["ChannelTest"].limit = TestLimit]
                                        \/ t = Left(a, "ChannelTest")
                                        \/ t = a
    BY DEF TestTimeout, ExitChannelTest
  <2> HIDE DEF t
  <2> QED BY <2>2, <2>3, <2>4, <2>5, <2>6
<1>4. CoreOK(t)
  BY <1>3 DEF Outlives
<1> HIDE DEF t
<1>5. Outlives(t, m)
  <2>1. CASE m = t
    BY <1>4, <2>1, OutlivesItself
  <2>2. CASE t.modes.mode = "Manual" /\ m = Left(t, "Manual")
    BY <1>2, <1>4, <2>2, InChargeEnds
  <2> QED BY <2>1, <2>2 DEF ManualTimeout, ExitManual
<1>6. CoreOK(m)
  BY <1>5 DEF Outlives
<1> HIDE DEF m
<1>7. Outlives(m, s)
  <2>1. CASE s = m
    BY <1>6, <2>1, OutlivesItself
  <2>2. CASE m.modes.mode = "Simulation" /\ s = ExitSimulation(m)
    BY <1>2, <1>6, <2>2, InChargeEnds
  <2> QED BY <2>1, <2>2 DEF SimulationOver
<1>8. Timeouts(c) = s
  BY DEF Timeouts, s, m, t, a
<1> HIDE DEF s
<1>9. Outlives(a, m)
  BY <1>1, <1>3, <1>5, OutlivesOn
<1> QED BY <1>1, <1>7, <1>8, <1>9, OutlivesOn DEF a

-----------------------------------------------------------------------------
(***************************************************************************)
(* Second part: the levels, the comparisons recorded for the next pass, and *)
(* the transition, in the order of LumaCore::update.                        *)
(***************************************************************************)
LEMMA DarkenedIs ==
  ASSUME NEW c, CoreOK(c)
  PROVE  LET d == Darkened(c) IN
         /\ CoreOK(d) /\ d.modes = c.modes /\ d.session = c.session /\ d.over = c.over
         /\ d.light = [c.light EXCEPT !.started = FALSE, !.seen = FALSE, !.tr = Still,
                                      !.requested = <<"zero">>, !.actual = <<"zero">>,
                                      !.lastMode = c.modes.mode]
         /\ ~d.light.started /\ ~d.light.seen /\ d.light.tr = Still
         /\ d.light.requested = <<"zero">> /\ d.light.actual = <<"zero">>
         /\ d.light.lastMode = c.modes.mode /\ d.light.valid = c.light.valid
<1> DEFINE l == [c.light EXCEPT !.started = FALSE, !.seen = FALSE, !.tr = Still,
                                !.requested = <<"zero">>, !.actual = <<"zero">>,
                                !.lastMode = c.modes.mode]
           d == [c EXCEPT !.light = l]
<1>1. Darkened(c) = d
  BY DEF Darkened
<1>2. c.light \in LightType /\ c.modes.mode \in Modes /\ <<"zero">> \in Shades /\ Still \in TransitionType
  <2>1. <<"zero">> \in Shades
    BY DEF Shades
  <2>2. 0 \in Nat
    OBVIOUS
  <2>3. Still \in TransitionType
    BY <2>1, <2>2, TransitionIs
  <2> QED BY <2>1, <2>3, CoreIs, ModesAre DEF CoreOK
<1>3. /\ l \in LightType
      /\ ~l.started /\ ~l.seen /\ l.tr = Still /\ l.requested = <<"zero">> /\ l.actual = <<"zero">>
      /\ l.lastMode = c.modes.mode /\ l.valid = c.light.valid
  <2> DEFINE z == <<"zero">>  s == Still  m == c.modes.mode
  <2>1. z \in Shades /\ s \in TransitionType /\ m \in Modes
    BY <1>2
  <2>2. l = [c.light EXCEPT !.started = FALSE, !.seen = FALSE, !.tr = s, !.requested = z, !.actual = z,
                            !.lastMode = m]
    OBVIOUS
  <2>3. z = <<"zero">> /\ s = Still /\ m = c.modes.mode
    OBVIOUS
  <2> HIDE DEF z, s, m, l
  <2> QED BY ONLY <1>2, <2>1, <2>2, <2>3 DEF LightType
<1>4. l = [c.light EXCEPT !.started = FALSE, !.seen = FALSE, !.tr = Still,
                          !.requested = <<"zero">>, !.actual = <<"zero">>,
                          !.lastMode = c.modes.mode]
  OBVIOUS
<1> HIDE DEF l
<1>5. /\ d \in CoreType /\ d.light = l /\ d.modes = c.modes /\ d.session = c.session /\ d.over = c.over
  BY <1>3, Replaced DEF CoreOK
<1> HIDE DEF d
<1> QED BY <1>1, <1>3, <1>4, <1>5 DEF CoreOK

LEMMA WantedType ==
  ASSUME NEW c, CoreOK(c), c.modes.mode # "Off", NEW p \in Profiles, NEW now \in Points
  PROVE  Wanted(c, p, now) \in Shades
<1>1. CASE c.modes.mode = "Simulation"
  <2>1. <<"frame", p>> \in {"frame"} \X Profiles
    OBVIOUS
  <2> QED BY <1>1, <2>1 DEF Wanted, Shades
<1>2. CASE c.modes.mode # "Simulation" /\ c.modes.mode \in Overrides
  <2>1. c.session[c.modes.mode].value \in Values
    BY <1>2, CoreIs, SessionIs DEF CoreOK
  <2>2. <<c.modes.mode, c.session[c.modes.mode].value>> \in Overrides \X Values
    BY <1>2, <2>1
  <2> QED BY <1>2, <2>2 DEF Wanted, Shades
<1>3. CASE c.modes.mode # "Simulation" /\ c.modes.mode \notin Overrides
  <2>1. <<"schedule", p, now>> \in {"schedule"} \X Profiles \X Points
    OBVIOUS
  <2> QED BY <1>3, <2>1 DEF Wanted, Shades
<1> QED BY <1>1, <1>2, <1>3

LEMMA DayOfType ==
  ASSUME NEW c, CoreOK(c), NEW now
  PROVE  DayOf(c, now) \in DayStates
  BY CoreIs, LightIs DEF CoreOK, DayOf, DayState, DayStates

LEMMA LevelsType ==
  /\ \A tr \in TransitionType, to \in Shades : Position(tr, to) \in Shades
  /\ \A l \in LightType : CurrentLevels(l) \in Shades /\ StartFrom(l) \in Shades
<1>1. <<"mid">> \in Shades /\ <<"zero">> \in Shades
  BY DEF Shades
<1>2. ASSUME NEW tr \in TransitionType, NEW to \in Shades PROVE Position(tr, to) \in Shades
  <2>1. tr.from \in Shades
    BY DEF TransitionType
  <2> QED BY <1>1, <2>1 DEF Position
<1>3. ASSUME NEW l \in LightType PROVE CurrentLevels(l) \in Shades /\ StartFrom(l) \in Shades
  BY <1>1, <1>2, <1>3, LightIs DEF CurrentLevels, StartFrom
<1> QED BY <1>2, <1>3

LEMMA BranchIs ==
  ASSUME NEW c, Touched(c) # {}
  PROVE  Branch(c) \in Touched(c) /\ \A p \in Touched(c) : BranchOrder[Branch(c)] <= BranchOrder[p]
<1> DEFINE T == Touched(c)
<1>0. T \in SUBSET {"ChannelTest", "Manual", "Preview", "Simulation"} /\ T # {}
  BY DEF Touched, Overrides
<1>1. \E o \in T : \A p \in T : BranchOrder[o] <= BranchOrder[p]
  <2> HIDE DEF T
  <2>1. /\ BranchOrder["Simulation"] = 1 /\ BranchOrder["Preview"] = 2 /\ BranchOrder["ChannelTest"] = 3
        /\ BranchOrder["Manual"] = 4
    BY SMTT(10) DEF BranchOrder
  <2>2. \A p \in T : p = "ChannelTest" \/ p = "Manual" \/ p = "Preview" \/ p = "Simulation"
    BY <1>0
  <2>3. CASE "Simulation" \in T
    BY <2>1, <2>2, <2>3, SMTT(10)
  <2>4. CASE "Simulation" \notin T /\ "Preview" \in T
    BY <2>1, <2>2, <2>4, SMTT(10)
  <2>5. CASE "Simulation" \notin T /\ "Preview" \notin T /\ "ChannelTest" \in T
    BY <2>1, <2>2, <2>5, SMTT(10)
  <2>6. CASE T = {"Manual"}
    BY <2>1, <2>6, SMTT(10)
  <2> QED BY <1>0, <2>2, <2>3, <2>4, <2>5, <2>6
<1> QED BY <1>1, Zenon DEF Branch

LEMMA LengthIs ==
  ASSUME NEW c, NEW p, NEW now, NEW jump
  PROVE  /\ TransitionLength(c, p, now, jump) \in {0, Standard, Night, Brief, Entry}
         /\ TransitionLength(c, p, now, jump) \in Nat
<1>1. Touched(c) # {} => LengthOf[Branch(c)] \in {Standard, Night, Brief, Entry}
  <2>1. Touched(c) # {} => Branch(c) \in {"ChannelTest", "Manual", "Preview", "Simulation"}
    BY BranchIs DEF Touched, Overrides
  <2> QED BY <2>1 DEF LengthOf
<1>2. TransitionLength(c, p, now, jump) \in {0, Standard, Night, Brief, Entry}
  BY <1>1, SMTT(10) DEF TransitionLength
<1> QED BY <1>2, CoreAssumption

\* What a pass compares the next one with.
Afresh(c, p) ==
  ~c.light.started \/ Touched(c) # {} \/ (~Selection(c) /\ p # c.light.lastProfile)
\* The levels of the session in charge are shown by the pass.
ShowsLevels(c) == Selection(c) /\ (c.light.started /\ Touched(c) # {} => Branch(c) = c.modes.mode)

LEMMA RecordedIs ==
  ASSUME NEW c, CoreOK(c), NEW p \in Profiles, NEW now
  PROVE  LET d == Recorded(c, p, now) IN
         /\ CoreOK(d) /\ d.modes = c.modes /\ d.over = c.over
         /\ ShowsLevels(c) => /\ d.session[c.modes.mode].last = c.session[c.modes.mode].value
                              /\ d.session[c.modes.mode].value = c.session[c.modes.mode].value
                              /\ d.session[c.modes.mode].age = c.session[c.modes.mode].age
                              /\ d.session[c.modes.mode].limit = c.session[c.modes.mode].limit
                              /\ \A o \in Overrides \ {c.modes.mode} : d.session[o] = c.session[o]
         /\ ~ShowsLevels(c) => d.session = c.session
         /\ d.light.lastMode = c.modes.mode
         /\ d.light.lastProfile = IF Afresh(c, p) THEN p ELSE c.light.lastProfile
         /\ d.light.lastDay = IF Afresh(c, p) \/ ~Selection(c) THEN DayOf(c, now) ELSE c.light.lastDay
         /\ d.light.started = c.light.started /\ d.light.seen = c.light.seen
         /\ d.light.valid = c.light.valid /\ d.light.requested = c.light.requested
         /\ d.light.actual = c.light.actual /\ d.light.tr = c.light.tr /\ d.light.day = c.light.day
<1> DEFINE mode == c.modes.mode
           value == c.session[mode].value
           lastProfile == IF Afresh(c, p) THEN p ELSE c.light.lastProfile
           lastDay == IF Afresh(c, p) \/ ~Selection(c) THEN DayOf(c, now) ELSE c.light.lastDay
           l1 == [c.light EXCEPT !.lastMode = mode]
           l2 == [l1 EXCEPT !.lastProfile = lastProfile]
           l == [l2 EXCEPT !.lastDay = lastDay]
           session == IF ShowsLevels(c) THEN [c.session EXCEPT ![mode].last = value] ELSE c.session
           n == [c EXCEPT !.light = l]
           d == [n EXCEPT !.session = session]
<1>0. /\ c \in CoreType /\ c.light \in LightType /\ c.session \in SessionsType /\ mode \in Modes
      /\ c.light.lastProfile \in Profiles /\ c.light.lastDay \in DayStates /\ DayOf(c, now) \in DayStates
  BY CoreIs, LightIs, ModesAre, DayOfType DEF CoreOK
<1>1. Recorded(c, p, now) = d
  <2>1. Recorded(c, p, now) =
          [c EXCEPT !.light.lastMode = mode,
                    !.light.lastProfile = IF Afresh(c, p) THEN p ELSE @,
                    !.light.lastDay = IF Afresh(c, p) \/ ~Selection(c) THEN DayOf(c, now) ELSE @,
                    !.session = IF ShowsLevels(c) THEN [@ EXCEPT ![mode].last = value] ELSE @]
    BY DEF Recorded, Afresh, ShowsLevels
  <2> QED BY <1>0, <2>1 DEF CoreType, LightType
<1>2. lastProfile \in Profiles /\ lastDay \in DayStates
  BY <1>0
<1>3. /\ l \in LightType /\ l.lastMode = mode /\ l.lastProfile = lastProfile /\ l.lastDay = lastDay
      /\ l.started = c.light.started /\ l.seen = c.light.seen
      /\ l.valid = c.light.valid /\ l.requested = c.light.requested
      /\ l.actual = c.light.actual /\ l.tr = c.light.tr /\ l.day = c.light.day
  <2> HIDE DEF mode, lastProfile, lastDay
  <2> QED BY ONLY <1>0, <1>2 DEF LightType, l, l1, l2
<1>4. /\ session \in SessionsType
      /\ ShowsLevels(c) => /\ session[mode].last = value
                           /\ session[mode].value = value
                           /\ session[mode].age = c.session[mode].age
                           /\ session[mode].limit = c.session[mode].limit
                           /\ \A o \in Overrides \ {mode} : session[o] = c.session[o]
      /\ ~ShowsLevels(c) => session = c.session
  <2>1. CASE ShowsLevels(c)
    <3>1. mode \in Overrides
      BY <2>1 DEF ShowsLevels, Selection
    <3>2. value \in Values
      BY <1>0, <3>1, SessionIs
    <3> HIDE DEF mode
    <3>3. LET n1 == [c.session EXCEPT ![mode].last = value] IN
          /\ n1 \in SessionsType /\ n1[mode].last = value /\ n1[mode].value = c.session[mode].value
          /\ n1[mode].age = c.session[mode].age /\ n1[mode].limit = c.session[mode].limit
          /\ \A o \in Overrides \ {mode} : n1[o] = c.session[o]
      <4> HIDE DEF value
      <4> QED BY <1>0, <3>1, <3>2, SessionReplaced
    <3> QED BY <2>1, <3>3
  <2>2. CASE ~ShowsLevels(c)
    BY <1>0, <2>2
  <2> QED BY <2>1, <2>2
<1> HIDE DEF l, session
<1>5. n \in CoreType /\ n.light = l /\ n.modes = c.modes /\ n.over = c.over
  BY <1>0, <1>3, Replaced
<1> HIDE DEF n
<1>6. d \in CoreType /\ d.light = l /\ d.modes = c.modes /\ d.over = c.over /\ d.session = session
  BY <1>4, <1>5, Replaced
<1> HIDE DEF d
<1> QED BY <1>1, <1>3, <1>4, <1>6 DEF CoreOK

\* The transition that a pass goes on with.
Under(c, p, now, jump) ==
  LET length == TransitionLength(c, p, now, jump) IN
  IF length > 0 THEN Moving(StartFrom(c.light), length) ELSE c.light.tr

LEMMA UnderType ==
  ASSUME NEW c, CoreOK(c), NEW p, NEW now, NEW jump
  PROVE  Under(c, p, now, jump) \in TransitionType
<1>1. c.light \in LightType /\ c.light.tr \in TransitionType
  BY CoreIs, LightIs DEF CoreOK
<1>2. TransitionLength(c, p, now, jump) \in Nat /\ StartFrom(c.light) \in Shades
  BY <1>1, LengthIs, LevelsType
<1> QED BY <1>1, <1>2, TransitionIs DEF Under

LEMMA OutputIs ==
  ASSUME NEW l \in LightType, NEW tr \in TransitionType, NEW to \in Shades
  PROVE  LET n == Output(l, tr, to) IN
         /\ n \in LightType
         /\ n.requested = to
         /\ n.actual = IF tr.active THEN Position(tr, to) ELSE to
         /\ n.tr = IF tr.active /\ tr.age < tr.length THEN tr ELSE Still
         /\ n.lastMode = l.lastMode /\ n.lastProfile = l.lastProfile /\ n.lastDay = l.lastDay
<1> DEFINE actual == IF tr.active THEN Position(tr, to) ELSE to
           next == IF tr.active /\ tr.age < tr.length THEN tr ELSE Still
           n == [l EXCEPT !.requested = to, !.actual = actual, !.tr = next]
<1>1. Output(l, tr, to) = n
  BY DEF Output
<1>2. actual \in Shades /\ next \in TransitionType
  <2>1. Still \in TransitionType
    <3>1. <<"zero">> \in Shades /\ 0 \in Nat
      BY DEF Shades
    <3> QED BY <3>1, TransitionIs
  <2> QED BY <2>1, LevelsType
<1> HIDE DEF actual, next
<1>3. /\ n \in LightType
      /\ n.requested = to /\ n.actual = actual /\ n.tr = next
      /\ n.lastMode = l.lastMode /\ n.lastProfile = l.lastProfile /\ n.lastDay = l.lastDay
  BY ONLY <1>2, l \in LightType, to \in Shades DEF LightType
<1> HIDE DEF n
<1> QED BY <1>1, <1>3 DEF actual, next

LEMMA ShownIs ==
  ASSUME NEW c, CoreOK(c), c.modes.mode # "Off", NEW p \in Profiles, NEW now \in Points, NEW jump
  PROVE  LET d == Shown(c, p, now, jump)
             tr == Under(c, p, now, jump)
             to == Wanted(c, p, now)
         IN
         /\ CoreOK(d) /\ d.modes = c.modes /\ d.over = c.over
         /\ d.session = Recorded(c, p, now).session
         /\ d.light.started /\ d.light.valid /\ d.light.seen = (c.modes.mode \in Bases)
         /\ d.light.requested = to
         /\ d.light.actual = IF tr.active THEN Position(tr, to) ELSE to
         /\ d.light.tr = IF tr.active /\ tr.age < tr.length THEN tr ELSE Still
         /\ d.light.lastMode = c.modes.mode
         /\ d.light.lastProfile = IF Afresh(c, p) THEN p ELSE c.light.lastProfile
         /\ d.light.lastDay = IF Afresh(c, p) \/ ~Selection(c) THEN DayOf(c, now) ELSE c.light.lastDay
<1> DEFINE tr == Under(c, p, now, jump)
           to == Wanted(c, p, now)
           noted == Recorded(c, p, now)
           out == Output(noted.light, tr, to)
           seen == c.modes.mode \in Bases
           day == DayOf(c, now)
           l == [out EXCEPT !.started = TRUE, !.valid = TRUE, !.seen = seen, !.day = day]
           d == [noted EXCEPT !.light = l]
<1>1. Shown(c, p, now, jump) = d
  BY DEF Shown, Under
<1>2. /\ CoreOK(noted) /\ noted.modes = c.modes /\ noted.over = c.over
      /\ noted.light.lastMode = c.modes.mode
      /\ noted.light.lastProfile = IF Afresh(c, p) THEN p ELSE c.light.lastProfile
      /\ noted.light.lastDay = IF Afresh(c, p) \/ ~Selection(c) THEN DayOf(c, now) ELSE c.light.lastDay
  BY RecordedIs
<1>3. noted.light \in LightType
  BY <1>2, CoreIs DEF CoreOK
<1>4. tr \in TransitionType /\ to \in Shades /\ seen \in BOOLEAN /\ day \in DayStates
  BY UnderType, WantedType, DayOfType
<1> HIDE DEF noted, tr, to
<1>5. /\ out \in LightType
      /\ out.requested = to
      /\ out.actual = IF tr.active THEN Position(tr, to) ELSE to
      /\ out.tr = IF tr.active /\ tr.age < tr.length THEN tr ELSE Still
      /\ out.lastMode = noted.light.lastMode /\ out.lastProfile = noted.light.lastProfile
      /\ out.lastDay = noted.light.lastDay
  BY <1>3, <1>4, OutputIs
<1>6. seen = (c.modes.mode \in Bases)
  OBVIOUS
<1> HIDE DEF out, seen, day
<1>7. /\ l \in LightType
      /\ l.started /\ l.valid /\ l.seen = seen /\ l.requested = out.requested /\ l.actual = out.actual
      /\ l.tr = out.tr /\ l.lastMode = out.lastMode /\ l.lastProfile = out.lastProfile
      /\ l.lastDay = out.lastDay
  BY ONLY <1>4, <1>5 DEF LightType
<1> HIDE DEF l
<1>8. /\ d \in CoreType /\ d.light = l /\ d.modes = noted.modes /\ d.session = noted.session
      /\ d.over = noted.over
  BY <1>2, <1>7, Replaced DEF CoreOK
<1>9. d.modes = c.modes /\ CoreOK(d)
  BY <1>2, <1>8 DEF CoreOK
<1> HIDE DEF d
<1> QED BY <1>1, <1>2, <1>5, <1>6, <1>7, <1>8, <1>9 DEF noted, tr, to

LEMMA SimulationNextIs ==
  ASSUME NEW c, CoreOK(c)
  PROVE  LET d == SimulationNext(c) IN
         /\ CoreOK(d) /\ d.modes = c.modes /\ d.light = c.light
         /\ \A o \in Overrides : /\ d.session[o].value = c.session[o].value
                                 /\ d.session[o].last = c.session[o].last
         /\ d.over => c.over \/ c.modes.mode = "Simulation"
<1> DEFINE settled == c.modes.mode = "Simulation" /\ ~c.light.tr.active
           over == c.over \/ (settled /\ Expired(c.session["Simulation"]))
           limit == IF settled THEN SimulationLength ELSE c.session["Simulation"].limit
           n == [c EXCEPT !.session["Simulation"].limit = limit]
           d == [n EXCEPT !.over = over]
<1>0. "Simulation" \in Overrides /\ c.over \in BOOLEAN /\ c.session \in SessionsType /\ c \in CoreType
  BY CoreIs DEF Overrides, CoreOK
<1>1. SimulationNext(c) = d
  <2>1. SimulationNext(c) =
          [c EXCEPT !.session["Simulation"].limit = IF settled THEN SimulationLength ELSE @,
                    !.over = @ \/ (settled /\ Expired(c.session["Simulation"]))]
    BY DEF SimulationNext
  <2>2. n.over = c.over
    BY <1>0 DEF CoreType
  <2> HIDE DEF settled
  <2> QED BY <2>1, <2>2
<1>2. limit \in Nat
  BY <1>0, SessionIs, CoreAssumption
<1>3. over \in BOOLEAN /\ (over => c.over \/ c.modes.mode = "Simulation")
  BY <1>0
<1> HIDE DEF limit, over
<1>4. /\ Outlives(c, n) /\ n.modes = c.modes /\ n.over = c.over /\ n.light = c.light
      /\ \A p \in Overrides : n.session[p].value = c.session[p].value /\ n.session[p].last = c.session[p].last
  BY <1>0, <1>2, ArmedOutlives
<1>5. CoreOK(n) /\ n \in CoreType
  BY <1>4 DEF Outlives, CoreOK
<1> HIDE DEF n
<1>6. /\ d \in CoreType /\ d.modes = n.modes /\ d.light = n.light /\ d.session = n.session /\ d.over = over
  BY <1>3, <1>5, Replaced
<1> HIDE DEF d
<1> QED BY <1>1, <1>3, <1>4, <1>5, <1>6 DEF CoreOK

\* The profile that a pass shows, and whether it takes its reading for a jump of the clock.
ShownProfile(c, p) == IF Timeouts(c).modes.mode = "Service" THEN ServiceProfile ELSE p
SeenJump(c, jump) == jump /\ Timeouts(c).light.seen /\ Timeouts(c).modes.mode \in Bases

LEMMA UpdateIs ==
  ASSUME NEW c, CoreOK(c), NEW valid, NEW p \in Profiles, NEW now \in Points, NEW jump
  PROVE  LET t == Timeouts(c)
             d == Update(c, valid, p, now, jump)
             s == Shown(t, ShownProfile(c, p), now, SeenJump(c, jump))
         IN
         /\ CoreOK(t) /\ CoreOK(d) /\ d.modes = t.modes /\ Unwound(c.modes, d.modes)
         /\ ShownProfile(c, p) \in Profiles
         /\ t.modes.mode = "Off" \/ ~valid =>
              /\ ~d.light.started /\ d.light.actual = <<"zero">> /\ d.light.tr = Still
              /\ d.light.lastMode = d.modes.mode
              /\ d.over = t.over
         /\ t.modes.mode # "Off" /\ valid => d = SimulationNext(s) /\ CoreOK(s)
<1> DEFINE t == Timeouts(c)
           d == Update(c, valid, p, now, jump)
           dark == Darkened(t)
           s == Shown(t, ShownProfile(c, p), now, SeenJump(c, jump))
<1>1. CoreOK(t) /\ Unwound(c.modes, t.modes)
  <2>1. Aged(c).modes = c.modes
    BY AgedIs DEF CoreOK
  <2> QED BY <2>1, TimeoutsIs DEF Outlives
<1>2. ShownProfile(c, p) \in Profiles
  BY CoreAssumption DEF ShownProfile
<1>3. d = IF t.modes.mode = "Off" THEN dark
          ELSE IF ~valid THEN [dark EXCEPT !.light.valid = FALSE]
          ELSE SimulationNext(s)
  BY DEF Update, ShownProfile, SeenJump
<1>4. CASE t.modes.mode = "Off" \/ ~valid
  <2>1. /\ CoreOK(dark) /\ dark.modes = t.modes
        /\ ~dark.light.started /\ dark.light.actual = <<"zero">> /\ dark.light.tr = Still
        /\ dark.light.lastMode = t.modes.mode /\ dark.over = t.over
    BY <1>1, DarkenedIs
  <2>2. CASE d = dark
    BY <1>1, <1>2, <1>4, <2>1, <2>2
  <2>3. CASE d = [dark EXCEPT !.light.valid = FALSE]
    <3> DEFINE l == [dark.light EXCEPT !.valid = FALSE]
               e == [dark EXCEPT !.light = l]
    <3> HIDE DEF dark
    <3>1. dark \in CoreType /\ dark.light \in LightType
      BY <2>1, CoreIs DEF CoreOK
    <3>2. /\ l \in LightType /\ l.started = dark.light.started /\ l.actual = dark.light.actual
          /\ l.tr = dark.light.tr /\ l.lastMode = dark.light.lastMode
      BY <3>1 DEF LightType
    <3>3. d = e
      BY <2>3
    <3> HIDE DEF l
    <3>4. e \in CoreType /\ e.light = l /\ e.modes = dark.modes /\ e.over = dark.over
      BY <3>1, <3>2, Replaced
    <3> HIDE DEF e, d, t
    <3>5. CoreOK(e)
      BY <2>1, <3>4 DEF CoreOK
    <3> QED BY <1>1, <1>2, <1>4, <2>1, <3>2, <3>3, <3>4, <3>5 DEF d, t
  <2> QED BY <1>3, <1>4, <2>2, <2>3
<1>5. CASE t.modes.mode # "Off" /\ valid
  <2>1. CoreOK(s) /\ s.modes = t.modes
    BY <1>1, <1>2, <1>5, ShownIs
  <2>2. d = SimulationNext(s)
    BY <1>3, <1>5
  <2> HIDE DEF s, t, d
  <2>3. CoreOK(d) /\ d.modes = t.modes
    BY <2>1, <2>2, SimulationNextIs
  <2> QED BY <1>1, <1>2, <1>5, <2>1, <2>2, <2>3 DEF s, t, d
<1> QED BY <1>4, <1>5

LEMMA BeginIs ==
  /\ CoreOK(Begin) /\ Begin.modes = Reset /\ ~Begin.light.started /\ ~Begin.over
  /\ Begin.light = Dark /\ \A o \in Overrides : Begin.session[o] = NoSession
<1>1. Reset \in ModeManager /\ ModesOK(Reset) /\ Reset.mode = "Normal" /\ Reset.open = {}
  <2>1. Reset \in ModeManager
    BY DEF Reset, ModeManager, Modes, Bases
  <2>2. Top(Reset.open, Reset.base) = "Normal" /\ Top(Reset.open \ {Reset.mode}, Reset.base) = "Normal"
    BY TopOfNone DEF Reset
  <2> QED BY <2>1, <2>2 DEF ModesOK, Reset
<1>2. Dark \in LightType /\ ~Dark.started
  <2> DEFINE z == <<"zero">>  s == Still
  <2>1. z \in Shades
    BY DEF Shades
  <2>2. s \in TransitionType
    <3>1. 0 \in Nat
      OBVIOUS
    <3> QED BY <2>1, <3>1, TransitionIs
  <2>3. DefaultProfile \in Profiles /\ "Normal" \in Modes /\ "day" \in DayStates
    BY CoreAssumption DEF Modes, Bases, DayStates
  <2>4. Dark = [started |-> FALSE, seen |-> FALSE, valid |-> FALSE,
                requested |-> z, actual |-> z, tr |-> s,
                lastMode |-> "Normal", lastProfile |-> DefaultProfile, day |-> "day", lastDay |-> "day"]
    BY DEF Dark
  <2> HIDE DEF z, s
  <2> QED BY ONLY <2>1, <2>2, <2>3, <2>4 DEF LightType
<1>3. [o \in Overrides |-> NoSession] \in SessionsType
  BY NoSessionIs DEF SessionsType
<1>4. Begin \in CoreType
  BY <1>1, <1>2, <1>3 DEF Begin, CoreType
<1> QED BY <1>1, <1>2, <1>4 DEF CoreOK, Begin

-----------------------------------------------------------------------------
(***************************************************************************)
(* The lamp (AqmaHardware): what its calls leave lit when some of them      *)
(* fail.                                                                    *)
(***************************************************************************)
LEMMA FirstOf ==
  ASSUME NEW S \in SUBSET Nat, S # {}
  PROVE  \E c \in S : \A e \in S : c <= e
<1>1. \E x \in S : \A y \in S : ~(<<y, x>> \in OpToRel(<, Nat))
  BY WFMin, NatLessThanWellFounded, Zenon
<1>2. \A x, y \in Nat : y < x => <<y, x>> \in OpToRel(<, Nat)
  BY Zenon DEF OpToRel
<1>3. \A x, y \in Nat : ~(y < x) => x <= y
  BY SMTT(10)
<1> QED BY <1>1, <1>2, <1>3, Zenon

\* The lamp between two calls: only an attached channel shines, and a lamp that is ready has them all.
LampOK(l) == l \in LampType /\ l.lit \subseteq l.attached /\ (l.ready => l.attached = Channels)

LEMMA AllOffIs ==
  ASSUME NEW l, LampOK(l), NEW fail \in Faults
  PROVE  /\ LampOK(AllOff(l, fail)) /\ AllOff(l, fail).lit = {}
         /\ AllOffOk(l, fail) => AllOff(l, fail).ready = l.ready
<1> DEFINE ready == l.ready /\ AllOffOk(l, fail)
           attached == l.attached \ {c \in l.attached : Detaches(l, c, fail)}
           lit == l.lit \ {c \in l.lit : GoesDark(l, c, fail)}
           n == [l EXCEPT !.ready = ready, !.attached = attached, !.lit = lit]
<1>0. /\ l \in LampType /\ l.ready \in BOOLEAN /\ l.attached \in SUBSET Channels
      /\ l.lit \in SUBSET Channels /\ l.lit \subseteq l.attached /\ (l.ready => l.attached = Channels)
  BY DEF LampOK, LampType
<1>1. AllOff(l, fail) = n
  BY DEF AllOff
<1>2. lit = {}
  <2>1. ASSUME NEW c \in l.lit PROVE GoesDark(l, c, fail)
    <3>1. c \in l.attached /\ c \in Channels
      BY <1>0
    <3>2. \/ <<c, "write">> \notin fail \/ <<c, "stop">> \notin fail
          \/ <<c, "detach">> \notin fail /\ <<c, "level">> \notin fail
      BY <3>1, FaultAssumption
    <3> QED BY <3>1, <3>2 DEF GoesDark, CanWriteOff, LatchesOff, Detaches, Works
  <2> QED BY <2>1
<1>3. ready \in BOOLEAN /\ attached \in SUBSET Channels /\ (AllOffOk(l, fail) => ready = l.ready)
  BY <1>0 DEF AllOffOk
<1>4. ready => attached = Channels
  <2>1. SUFFICES ASSUME l.ready, AllOffOk(l, fail) PROVE attached = Channels
    OBVIOUS
  <2>2. \A c \in Channels : Works(c, "write", fail)
    BY <1>0, <2>1 DEF AllOffOk, OffSucceeds
  <2> QED BY <1>0, <2>1, <2>2 DEF Detaches
<1> HIDE DEF ready, attached, lit
<1>5. n \in LampType /\ n.ready = ready /\ n.attached = attached /\ n.lit = {}
  BY <1>0, <1>2, <1>3 DEF LampType
<1> HIDE DEF n
<1> QED BY <1>1, <1>3, <1>4, <1>5 DEF LampOK

LEMMA BegunIs ==
  ASSUME NEW l, LampOK(l), NEW fail \in Faults
  PROVE  /\ LampOK(Begun(l, fail)) /\ Begun(l, fail).lit = {}
<1> DEFINE safe == [l EXCEPT !.ready = FALSE, !.attached = {}, !.lit = {}]
           bad == CHOOSE c \in FirstBad(fail) : \A e \in FirstBad(fail) : c <= e
           failed == CHOOSE i \in 1..4 :
                       <<bad, Stages[i]>> \in fail /\ \A j \in 1..(i - 1) : <<bad, Stages[j]>> \notin fail
           reached == {c \in Channels : c < bad \/ (c = bad /\ failed > 2)}
           held == IF failed \in {3, 4} THEN {bad} ELSE {}
           upTo == [safe EXCEPT !.attached = reached, !.held = held]
           all == [safe EXCEPT !.ready = TRUE, !.attached = Channels]
<1>0. l \in LampType
  BY DEF LampOK
<1>1. Begun(l, fail) = IF \E c \in Channels : <<c, "level">> \in fail THEN AllOff(safe, fail)
                       ELSE IF FirstBad(fail) # {} THEN AllOff(upTo, fail)
                       ELSE all
  BY DEF Begun
<1>2. safe \in LampType /\ ~safe.ready /\ safe.attached = {} /\ safe.lit = {}
  BY <1>0 DEF LampType
<1>3. FirstBad(fail) # {} => bad \in Channels
  <2>1. FirstBad(fail) \in SUBSET Channels /\ Channels \in SUBSET Nat
    BY ChannelAssumption DEF FirstBad, Channels
  <2>2. FirstBad(fail) # {} => \E c \in FirstBad(fail) : \A e \in FirstBad(fail) : c <= e
    BY <2>1, FirstOf
  <2>3. FirstBad(fail) # {} => bad \in FirstBad(fail)
    BY <2>2, Zenon
  <2> QED BY <2>1, <2>3
<1>4. reached \in SUBSET Channels
  OBVIOUS
<1>5. FirstBad(fail) # {} => held \in SUBSET Channels
  BY <1>3
<1> HIDE DEF safe, bad, failed, reached, held
<1>6. FirstBad(fail) # {} => upTo \in LampType /\ ~upTo.ready /\ upTo.lit = {}
  BY <1>2, <1>4, <1>5 DEF LampType
<1>7. all \in LampType /\ all.ready /\ all.lit = {} /\ all.attached = Channels
  BY <1>2 DEF LampType
<1> HIDE DEF upTo, all
<1>8. LampOK(safe) /\ LampOK(all) /\ (FirstBad(fail) # {} => LampOK(upTo))
  BY <1>2, <1>6, <1>7 DEF LampOK
<1> QED BY <1>1, <1>7, <1>8, AllOffIs

LEMMA WrittenIs ==
  ASSUME NEW l, LampOK(l), NEW bright \in SUBSET Channels, NEW fail \in Faults
  PROVE  /\ LampOK(Written(l, bright, fail))
         /\ WriteOk(l, fail) => Written(l, bright, fail).lit = bright
<1> DEFINE done == {c \in Channels : \A e \in BadWrites(fail) : c < e}
           lit == (l.lit \ done) \cup (bright \cap done)
           n == [l EXCEPT !.lit = lit]
           m == [n EXCEPT !.ready = FALSE]
<1>0. l \in LampType /\ l.lit \in SUBSET Channels /\ l.ready \in BOOLEAN /\ (l.ready => l.attached = Channels)
  BY DEF LampOK, LampType
<1>1. Written(l, bright, fail) = IF ~l.ready THEN l
                                 ELSE IF WriteOk(l, fail) THEN n
                                 ELSE AllOff([l EXCEPT !.lit = lit, !.ready = FALSE], fail)
  BY DEF Written
<1>2. [l EXCEPT !.lit = lit, !.ready = FALSE] = m
  <2> HIDE DEF lit
  <2> QED BY <1>0 DEF LampType
<1>3. lit \in SUBSET Channels
  BY <1>0
<1>4. WriteOk(l, fail) => lit = bright /\ l.ready
  BY <1>0 DEF WriteOk
<1> HIDE DEF lit
<1>5. /\ n \in LampType /\ n.lit = lit /\ n.ready = l.ready /\ n.attached = l.attached
      /\ m \in LampType /\ m.lit = lit /\ ~m.ready /\ m.attached = l.attached
  BY <1>0, <1>3 DEF LampType
<1> HIDE DEF n, m
<1>6. l.ready => LampOK(n) /\ LampOK(m)
  BY <1>0, <1>3, <1>5 DEF LampOK
<1> QED BY <1>1, <1>2, <1>4, <1>5, <1>6, AllOffIs

-----------------------------------------------------------------------------
(***************************************************************************)
(* Types, modes and lamp in one inductive invariant.                        *)
(***************************************************************************)
TypeOK ==
  /\ core \in CoreType /\ profile \in Profiles /\ running \in BOOLEAN
  /\ lamp \in LampType /\ at \in Points /\ phase \in {"pass", "web"}

LampInv ==
  /\ CoreOK(core) /\ profile \in Profiles /\ running \in BOOLEAN
  /\ LampOK(lamp) /\ at \in Points /\ phase \in {"pass", "web"}
  /\ LitByCore

LEMMA InitLampInv == Init => LampInv
<1> SUFFICES ASSUME Init PROVE LampInv
  OBVIOUS
<1>1. CoreOK(core)
  BY BeginIs DEF Init
<1>2. LampOK(lamp) /\ lamp.lit = {}
  BY DEF Init, ColdLamp, LampOK, LampType
<1> QED BY <1>1, <1>2, CoreAssumption DEF Init, LampInv, LitByCore, Points

LEMMA FaultsAreFaults == FaultsNow \subseteq Faults
  BY FirmwareAssumption DEF FaultsNow

LEMMA BrightIs == \A l : Bright(l) \in SUBSET Channels
  BY DEF Bright

LEMMA RebootLampInv == LampInv /\ Reboot => LampInv'
<1> SUFFICES ASSUME LampInv, Reboot PROVE LampInv'
  OBVIOUS
<1>1. PICK fail \in Faults : Starts(fail)
  BY FaultsAreFaults DEF Reboot
<1>2. LampOK(Begun(lamp, fail)) /\ Begun(lamp, fail).lit = {}
  BY BegunIs DEF LampInv
<1>3. LampOK(AllOff(Begun(lamp, fail), fail)) /\ AllOff(Begun(lamp, fail), fail).lit = {}
  BY <1>2, AllOffIs
<1>4. LampOK(lamp') /\ lamp'.lit = {} /\ running' \in BOOLEAN
  BY <1>1, <1>2, <1>3 DEF Starts, LampOK, LampType
<1>5. core' = Begin /\ phase' = "pass" /\ profile' \in Profiles /\ UNCHANGED at
  BY <1>1 DEF Starts
<1> QED BY <1>4, <1>5, BeginIs DEF LampInv, LitByCore

LEMMA PassLampInv ==
  ASSUME LampInv, NEW valid \in BOOLEAN, NEW next \in Points, Pass(valid, next)
  PROVE  LampInv'
<1> DEFINE after == Update(core, valid, profile, next, <<at, next>> \notin Drifts)
<1>1. CoreOK(after)
  BY UpdateIs DEF LampInv
<1>2. PICK fail \in Faults :
        IF OutputsOk(after, fail)
        THEN core' = after /\ lamp' = Outputs(after, fail) /\ UNCHANGED running
        ELSE FailSafe(Outputs(after, fail), fail)
  BY FaultsAreFaults DEF Pass
<1>3. phase' = "web" /\ at' = next /\ profile' = profile /\ running
  BY DEF Pass
<1> HIDE DEF after
<1>4. /\ LampOK(Outputs(after, fail))
      /\ OutputsOk(after, fail) /\ Outputs(after, fail).lit # {} => Bright(after.light) # {} /\ ~Blank(after)
  <2>1. CASE Blank(after)
    BY <2>1, AllOffIs DEF Outputs, LampInv
  <2>2. CASE ~Blank(after)
    BY <2>2, WrittenIs, BrightIs DEF Outputs, OutputsOk, LampInv
  <2> QED BY <2>1, <2>2
<1>5. CASE OutputsOk(after, fail)
  BY <1>1, <1>2, <1>3, <1>4, <1>5 DEF LampInv, LitByCore
<1>6. CASE ~OutputsOk(after, fail)
  <2>1. running' = FALSE /\ lamp' = AllOff(Outputs(after, fail), fail) /\ core' = Begin
    BY <1>2, <1>6 DEF FailSafe
  <2>2. LampOK(lamp') /\ lamp'.lit = {}
    BY <1>4, <2>1, AllOffIs
  <2> QED BY <1>3, <2>1, <2>2, BeginIs DEF LampInv, LitByCore
<1> QED BY <1>5, <1>6

LEMMA CommandsLampInv == LampInv /\ Commands => LampInv'
<1> SUFFICES ASSUME LampInv, Commands PROVE LampInv'
  OBVIOUS
<1>1. CoreOK(core) /\ core \in CoreType
  BY DEF LampInv, CoreOK
<1>2. Asked(core, core') /\ Request /\ UNCHANGED <<profile, running, lamp, at>>
  BY <1>1, CommandsAsk
<1>3. CoreOK(core') /\ core'.light.actual = core.light.actual
  BY <1>1, <1>2, AskedIs DEF SameLight
<1>4. phase' = "pass"
  BY <1>2 DEF Request, Web
<1> QED BY <1>2, <1>3, <1>4 DEF LampInv, LitByCore, Bright

LEMMA NextLampInv == LampInv /\ [Next]_vars => LampInv'
<1> SUFFICES ASSUME LampInv, [Next]_vars PROVE LampInv'
  OBVIOUS
<1>1. CASE Reboot
  BY <1>1, RebootLampInv
<1>2. CASE Tick
  <2>1. at \in Points
    BY DEF LampInv
  <2> QED BY <1>2, <2>1, PassLampInv DEF Tick
<1>3. CASE NoRequest
  BY <1>3 DEF NoRequest, Web, LampInv, LitByCore
<1>4. CASE Commands
  BY <1>4, CommandsLampInv
<1>5. CASE Select
  BY <1>5 DEF Select, SetActiveProfileIndex, Request, Web, LampInv, LitByCore
<1>6. CASE UNCHANGED vars
  BY <1>6 DEF vars, LampInv, LitByCore, Blank
<1> QED BY <1>1, <1>2, <1>3, <1>4, <1>5, <1>6 DEF Next, Commands

\* The invariant that the other theorems start from: every step of loop() keeps it.
THEOREM AlwaysLampInv == Spec => []LampInv
  BY InitLampInv, NextLampInv, PTL DEF Spec

\* Every reachable state of the firmware is well typed: no session, level or timer is read that
\* the core has not written (LumaCore, FirmwareApp).
THEOREM CoreIsTyped == Spec => []TypeOK
<1>1. LampInv => TypeOK
  BY DEF LampInv, TypeOK, CoreOK, LampOK
<1> QED BY <1>1, AlwaysLampInv, PTL

\* Nothing shines that the core does not ask for, whichever calls of the driver fail, as long as
\* one of the three ways of turning a channel off works (writeOutputs, enterHardwareFailSafe).
THEOREM LightComesFromCore == Spec => []LitByCore
<1>1. LampInv => LitByCore
  BY DEF LampInv
<1> QED BY <1>1, AlwaysLampInv, PTL

-----------------------------------------------------------------------------
(***************************************************************************)
(* The open sessions as a stack.  Joined hides concatenation from the       *)
(* provers, who need no more of it than JoinedIs.                           *)
(***************************************************************************)
Joined(s, t) == s \o t
IsFirst(s, w) == \E n \in 0..Len(w) : s = SubSeq(w, 1, n)
One(o, open) == IF o \in open THEN <<o>> ELSE <<>>
StackOf(open) ==
  Joined(Joined(Joined(One("Simulation", open), One("Preview", open)), One("Manual", open)),
         One("ChannelTest", open))

LEMMA JoinedIs ==
  /\ <<>> \in Seq(Overrides)
  /\ \A s, t \in Seq(Overrides) : Joined(s, t) \in Seq(Overrides)
  /\ \A s \in Seq(Overrides) : Joined(s, <<>>) = s /\ Joined(<<>>, s) = s
  /\ \A s, t, u \in Seq(Overrides) : Joined(Joined(s, t), u) = Joined(s, Joined(t, u))
  /\ \A s \in Seq(Overrides), o \in Overrides : <<o>> \in Seq(Overrides) /\ Joined(s, <<o>>) = Append(s, o)
<1>1. <<>> \in Seq(Overrides)
  OBVIOUS
<1>2. \A s, t \in Seq(Overrides) : Joined(s, t) \in Seq(Overrides)
  BY ConcatProperties, SMTT(15) DEF Joined
<1>3. \A s \in Seq(Overrides) : Joined(s, <<>>) = s /\ Joined(<<>>, s) = s
  BY ConcatEmptySeq, SMTT(15) DEF Joined
<1>4. \A s, t, u \in Seq(Overrides) : Joined(Joined(s, t), u) = Joined(s, Joined(t, u))
  BY ConcatAssociative DEF Joined
<1>5. \A s \in Seq(Overrides), o \in Overrides : <<o>> \in Seq(Overrides) /\ Joined(s, <<o>>) = Append(s, o)
  BY AppendIsConcat DEF Joined
<1> QED BY <1>1, <1>2, <1>3, <1>4, <1>5

LEMMA FirstIs ==
  /\ \A w \in Seq(Overrides) : IsFirst(w, w) /\ IsFirst(<<>>, w)
  /\ \A s, t \in Seq(Overrides) : IsFirst(s, Joined(s, t))
<1>1. ASSUME NEW w \in Seq(Overrides) PROVE IsFirst(w, w) /\ IsFirst(<<>>, w)
  <2>1. Len(w) \in Nat /\ SubSeq(w, 1, Len(w)) = w /\ SubSeq(w, 1, 0) = <<>>
    BY LenProperties, SubSeqFull, SubSeqEmpty
  <2>2. Len(w) \in 0..Len(w) /\ 0 \in 0..Len(w)
    BY <2>1
  <2> QED BY <2>1, <2>2, Zenon DEF IsFirst
<1>2. ASSUME NEW s \in Seq(Overrides), NEW t \in Seq(Overrides) PROVE IsFirst(s, Joined(s, t))
  <2>1. Len(s) \in Nat /\ Len(t) \in Nat /\ Len(s \o t) = Len(s) + Len(t)
    BY ConcatProperties, LenProperties
  <2>2. CASE Len(s) = 0
    <3>1. s = <<>>
      BY <2>2, EmptySeq
    <3>2. Joined(s, t) \in Seq(Overrides)
      BY JoinedIs
    <3> QED BY <1>1, <3>1, <3>2, Zenon
  <2>3. CASE Len(s) > 0
    <3>1. 1 \in 1..Len(s) /\ Len(s) \in 1..Len(s)
      BY <2>1, <2>3
    <3>2. SubSeq(s \o t, 1, Len(s)) = SubSeq(s, 1, Len(s))
      BY <3>1, SubSeqOfConcat1
    <3>3. SubSeq(s, 1, Len(s)) = s /\ Len(s) \in 0..Len(s \o t)
      BY <2>1, SubSeqFull
    <3> QED BY <3>2, <3>3 DEF IsFirst, Joined
  <2> QED BY <2>1, <2>2, <2>3
<1> QED BY <1>1, <1>2

LEMMA Parts ==
  ASSUME NEW open \in SUBSET Overrides
  PROVE  /\ \A o \in Overrides : One(o, open) \in Seq(Overrides)
         /\ StackOf(open) \in Seq(Overrides)
<1>1. \A o \in Overrides : One(o, open) \in Seq(Overrides)
  BY JoinedIs DEF One
<1>2. "Simulation" \in Overrides /\ "Preview" \in Overrides /\ "Manual" \in Overrides
      /\ "ChannelTest" \in Overrides
  BY DEF Overrides
<1> QED BY <1>1, <1>2, JoinedIs DEF StackOf

LEMMA StackOfNone == StackOf({}) = <<>>
  BY JoinedIs DEF StackOf, One

\* A session of a higher priority than all open ones goes on top.
LEMMA StackOpened ==
  ASSUME NEW open \in SUBSET Overrides, NEW o \in Overrides,
         \A p \in open : Priority[p] < Priority[o]
  PROVE  StackOf(open \cup {o}) = Append(StackOf(open), o)
<1> DEFINE S == One("Simulation", open)  P == One("Preview", open)
           M == One("Manual", open)  T == One("ChannelTest", open)
           U == Joined(Joined(Joined(S, P), M), T)  V == StackOf(open \cup {o})
           e == <<o>>  n == <<>>
<1>0. o \in {"ChannelTest", "Manual", "Preview", "Simulation"} /\ o \notin open
  <2>1. Priority[o] \in Nat
    BY PrioritiesDiffer
  <2> QED BY <2>1, SMTT(10) DEF Overrides
<1>1. S \in Seq(Overrides) /\ P \in Seq(Overrides) /\ M \in Seq(Overrides) /\ T \in Seq(Overrides)
  BY Parts, Zenon DEF Overrides
<1>2. StackOf(open) = U
  BY Zenon DEF StackOf
<1>3. /\ e \in Seq(Overrides) /\ n \in Seq(Overrides)
      /\ \A s \in Seq(Overrides) : Joined(s, n) = s /\ Joined(n, s) = s
      /\ \A s \in Seq(Overrides), t \in Seq(Overrides) : Joined(s, t) \in Seq(Overrides)
  BY JoinedIs
<1>4. Joined(U, e) = Append(U, o)
  <2>1. U \in Seq(Overrides)
    BY <1>2, Parts
  <2> HIDE DEF U
  <2> QED BY <2>1, JoinedIs
<1>5. CASE o = "Simulation"
  <2>1. S = n /\ P = n /\ M = n /\ T = n
    BY <1>5, Order, SMTT(10) DEF One
  <2>2. V = Joined(Joined(Joined(e, P), M), T)
    BY <1>5, Zenon DEF StackOf, One
  <2> HIDE DEF S, P, M, T, V, e, n
  <2>3. V = Joined(U, e)
    BY ONLY <1>3, <2>1, <2>2 DEF U
  <2> QED BY <1>2, <1>4, <2>3 DEF V
<1>6. CASE o = "Preview"
  <2>1. P = n /\ M = n /\ T = n
    BY <1>6, Order, SMTT(10) DEF One
  <2>2. V = Joined(Joined(Joined(S, e), M), T)
    BY <1>6, Zenon DEF StackOf, One
  <2> HIDE DEF S, P, M, T, V, e, n
  <2>3. V = Joined(U, e)
    BY ONLY <1>1, <1>3, <2>1, <2>2 DEF U
  <2> QED BY <1>2, <1>4, <2>3 DEF V
<1>7. CASE o = "Manual"
  <2>1. M = n /\ T = n
    BY <1>7, Order, SMTT(10) DEF One
  <2>2. V = Joined(Joined(Joined(S, P), e), T)
    BY <1>7, Zenon DEF StackOf, One
  <2> HIDE DEF S, P, M, T, V, e, n
  <2>3. V = Joined(U, e)
    BY ONLY <1>1, <1>3, <2>1, <2>2 DEF U
  <2> QED BY <1>2, <1>4, <2>3 DEF V
<1>8. CASE o = "ChannelTest"
  <2>1. T = n
    BY <1>0, <1>8 DEF One
  <2>2. V = Joined(Joined(Joined(S, P), M), e)
    BY <1>8, Zenon DEF StackOf, One
  <2> HIDE DEF S, P, M, T, V, e, n
  <2>3. V = Joined(U, e)
    BY ONLY <1>1, <1>3, <2>1, <2>2 DEF U
  <2> QED BY <1>2, <1>4, <2>3 DEF V
<1> QED BY <1>0, <1>5, <1>6, <1>7, <1>8

LEMMA StackHolds ==
  ASSUME NEW open \in SUBSET Overrides, NEW i \in 1..Len(StackOf(open))
  PROVE  StackOf(open)[i] \in open
<1> DEFINE S == One("Simulation", open)  P == One("Preview", open)
           M == One("Manual", open)  T == One("ChannelTest", open)
<1>1. S \in Seq(open) /\ P \in Seq(open) /\ M \in Seq(open) /\ T \in Seq(open)
  BY DEF One
<1>2. StackOf(open) = S \o P \o M \o T
  BY DEF StackOf, Joined
<1> HIDE DEF S, P, M, T
<1>3. S \o P \in Seq(open)
  BY <1>1, ConcatProperties
<1>4. S \o P \o M \in Seq(open)
  BY <1>1, <1>3, ConcatProperties
<1>5. S \o P \o M \o T \in Seq(open)
  BY <1>1, <1>4, ConcatProperties
<1> QED BY <1>2, <1>5, ElementOfSeq

\* Sessions that end while only less important ones stay leave the bottom of the stack.
LEMMA StackUnwound ==
  ASSUME NEW open \in SUBSET Overrides, NEW left \in SUBSET open,
         \A p \in left, q \in open \ left : Priority[p] < Priority[q]
  PROVE  IsFirst(StackOf(left), StackOf(open))
<1> DEFINE S == One("Simulation", open)  P == One("Preview", open)
           M == One("Manual", open)  T == One("ChannelTest", open)
           SP == Joined(S, P)  SPM == Joined(SP, M)  MT == Joined(M, T)
           w == Joined(SPM, T)
<1>0. /\ \A o \in open : o \in {"ChannelTest", "Manual", "Preview", "Simulation"}
      /\ \A o \in left : o \in {"ChannelTest", "Manual", "Preview", "Simulation"}
  BY DEF Overrides
<1>1. S \in Seq(Overrides) /\ P \in Seq(Overrides) /\ M \in Seq(Overrides) /\ T \in Seq(Overrides)
  <2>1. "Simulation" \in Overrides /\ "Preview" \in Overrides /\ "Manual" \in Overrides
        /\ "ChannelTest" \in Overrides
    BY DEF Overrides
  <2> QED BY <2>1, Parts, Zenon
<1>2. StackOf(open) = w /\ w \in Seq(Overrides)
  BY Parts, Zenon DEF StackOf
<1>3. /\ SP \in Seq(Overrides) /\ SPM \in Seq(Overrides) /\ MT \in Seq(Overrides)
      /\ Joined(P, MT) \in Seq(Overrides)
      /\ w = Joined(SP, MT) /\ Joined(SP, MT) = Joined(S, Joined(P, MT))
  <2> HIDE DEF S, P, M, T
  <2> QED BY <1>1, JoinedIs
<1>4. IsFirst(S, w) /\ IsFirst(SP, w) /\ IsFirst(SPM, w) /\ IsFirst(w, w) /\ IsFirst(<<>>, w)
  <2> HIDE DEF S, P, M, T, SP, SPM, MT
  <2>1. IsFirst(SPM, w) /\ IsFirst(w, w) /\ IsFirst(<<>>, w)
    BY <1>1, <1>2, <1>3, FirstIs
  <2>2. IsFirst(SP, Joined(SP, MT)) /\ IsFirst(S, Joined(S, Joined(P, MT)))
    BY <1>1, <1>2, <1>3, FirstIs
  <2> QED BY <1>3, <2>1, <2>2
<1>5. CASE left = open
  BY <1>2, <1>4, <1>5
<1>6. CASE "Simulation" \in open \ left
  <2>1. left = {}
    BY <1>0, <1>6, Order, SMTT(10)
  <2> QED BY <1>2, <1>4, <2>1, StackOfNone
<1>7. CASE "Preview" \in open \ left /\ "Simulation" \notin open \ left
  <2>1. /\ "Preview" \notin left /\ "Manual" \notin left /\ "ChannelTest" \notin left
        /\ "Simulation" \in left <=> "Simulation" \in open
    BY <1>0, <1>7, Order, SMTT(10)
  <2>2. StackOf(left) = Joined(Joined(Joined(S, <<>>), <<>>), <<>>)
    BY <2>1, Zenon DEF StackOf, One
  <2> HIDE DEF S
  <2>3. StackOf(left) = S
    BY <1>1, <2>2, JoinedIs
  <2> QED BY <1>2, <1>4, <2>3
<1>8. CASE "Manual" \in open \ left /\ "Simulation" \notin open \ left /\ "Preview" \notin open \ left
  <2>1. /\ "Manual" \notin left /\ "ChannelTest" \notin left
        /\ "Simulation" \in left <=> "Simulation" \in open
        /\ "Preview" \in left <=> "Preview" \in open
    BY <1>0, <1>8, Order, SMTT(10)
  <2>2. StackOf(left) = Joined(Joined(SP, <<>>), <<>>)
    BY <2>1, Zenon DEF StackOf, One
  <2> HIDE DEF SP
  <2>3. StackOf(left) = SP
    BY <1>3, <2>2, JoinedIs
  <2> QED BY <1>2, <1>4, <2>3
<1>9. CASE /\ "ChannelTest" \in open \ left /\ "Simulation" \notin open \ left
           /\ "Preview" \notin open \ left /\ "Manual" \notin open \ left
  <2>1. /\ "ChannelTest" \notin left
        /\ "Simulation" \in left <=> "Simulation" \in open
        /\ "Preview" \in left <=> "Preview" \in open
        /\ "Manual" \in left <=> "Manual" \in open
    BY <1>9
  <2>2. StackOf(left) = Joined(SPM, <<>>)
    BY <2>1, Zenon DEF StackOf, One
  <2> HIDE DEF SPM
  <2>3. StackOf(left) = SPM
    BY <1>3, <2>2, JoinedIs
  <2> QED BY <1>2, <1>4, <2>3
<1>10. \/ left = open \/ "Simulation" \in open \ left \/ "Preview" \in open \ left
       \/ "Manual" \in open \ left \/ "ChannelTest" \in open \ left
  BY <1>0
<1> QED BY <1>5, <1>6, <1>7, <1>8, <1>9, <1>10

\* The session in charge is the top of the stack.
LEMMA TopOfStack ==
  ASSUME NEW open \in SUBSET Overrides, open # {}, NEW base
  PROVE  LET top == Top(open, base)  under == StackOf(open \ {top}) IN
         /\ StackOf(open) = Append(under, top) /\ under \in Seq(Overrides) /\ top \in Overrides
         /\ Len(StackOf(open)) = Len(under) + 1 /\ Len(under) \in Nat
         /\ StackOf(open)[Len(under) + 1] = top
         /\ \A i \in 1..Len(under) : StackOf(open)[i] = under[i]
<1> DEFINE top == Top(open, base)  rest == open \ {top}  under == StackOf(rest)
<1>1. top \in open /\ \A p \in open : Priority[p] <= Priority[top]
  BY TopIs
<1>2. top \in Overrides /\ rest \in SUBSET Overrides /\ rest \cup {top} = open
  BY <1>1
<1>3. \A p \in rest : Priority[p] < Priority[top]
  BY <1>1, PrioritiesDiffer
<1> HIDE DEF top
<1>4. StackOf(open) = Append(under, top)
  <2> HIDE DEF rest
  <2>1. StackOf(rest \cup {top}) = Append(StackOf(rest), top)
    BY <1>2, <1>3, StackOpened
  <2> QED BY <1>2, <2>1
<1>5. under \in Seq(Overrides)
  BY <1>2, Parts
<1> HIDE DEF under
<1> QED BY <1>2, <1>4, <1>5, AppendProperties, LenProperties DEF top, under

\* What ModeStack shows of it.
NthFromTop(s, base, n) == IF n <= Len(s) THEN s[Len(s) + 1 - n] ELSE base

LEMMA StackShows ==
  ASSUME NEW m, ModesOK(m), m.mode # "Off"
  PROVE  /\ m.mode = NthFromTop(StackOf(m.open), m.base, 1)
         /\ m.back = NthFromTop(StackOf(m.open), m.base, 2)
<1> DEFINE s == StackOf(m.open)  rest == m.open \ {m.mode}  u == StackOf(rest)
<1>0. /\ m.open \in SUBSET Overrides /\ m.mode = Top(m.open, m.base)
      /\ m.back = Top(rest, m.base)
  BY ModesAre DEF ModesOK
<1>1. CASE m.open = {}
  <2>1. rest = {} /\ Len(s) = 0
    BY <1>1, StackOfNone, EmptySeq
  <2>2. m.mode = m.base /\ m.back = m.base
    BY <1>0, <1>1, <2>1, TopOfNone
  <2> HIDE DEF s
  <2> QED BY <2>1, <2>2, SMTT(10) DEF NthFromTop, s
<1>2. CASE m.open # {}
  <2>1. /\ Len(s) = Len(u) + 1 /\ Len(u) \in Nat
        /\ s[Len(u) + 1] = m.mode /\ \A i \in 1..Len(u) : s[i] = u[i]
    BY <1>0, <1>2, TopOfStack
  <2>2. rest \in SUBSET Overrides
    BY <1>0
  <2>3. CASE rest = {}
    <3>1. Len(u) = 0
      BY <2>3, StackOfNone, EmptySeq
    <3>2. m.back = m.base
      BY <1>0, <2>3, TopOfNone
    <3> HIDE DEF s, u
    <3> QED BY <2>1, <3>1, <3>2, SMTT(10) DEF NthFromTop, s
  <2>4. CASE rest # {}
    <3> DEFINE k == Len(StackOf(rest \ {m.back}))
    <3> HIDE DEF rest
    <3>1. Len(u) = k + 1 /\ k \in Nat /\ u[k + 1] = m.back
      BY <1>0, <2>2, <2>4, TopOfStack
    <3> HIDE DEF s, u, k
    <3>2. Len(u) \in 1..Len(u) /\ Len(s) + 1 - 1 = Len(u) + 1 /\ Len(s) + 1 - 2 = Len(u)
          /\ 1 <= Len(s) /\ 2 <= Len(s)
      BY <2>1, <3>1
    <3>3. s[Len(s) + 1 - 2] = m.back /\ s[Len(s) + 1 - 1] = m.mode
      BY <2>1, <3>1, <3>2
    <3> QED BY <3>2, <3>3 DEF NthFromTop, s
  <2> QED BY <2>3, <2>4
<1> QED BY <1>1, <1>2

\* What a step does to the modes, in the words of ModeStack.
Step(m, n) ==
  \/ /\ n.base = m.base /\ (n.mode = "Off" <=> m.mode = "Off")
     /\ IsFirst(StackOf(n.open), StackOf(m.open))
  \/ /\ m.mode # "Off" /\ n.mode # "Off" /\ n.base = m.base
     /\ \E o \in Overrides : /\ StackOf(n.open) = Append(StackOf(m.open), o)
                             /\ \A p \in m.open : Priority[p] < Priority[o]
  \/ m.mode # "Off" /\ n.mode # "Off" /\ n.base \in Bases /\ n.open = m.open
  \/ n.open = {} /\ n.base = "Normal"

LEMMA UnwoundSteps ==
  ASSUME NEW m, ModesOK(m), NEW n, Unwound(m, n)
  PROVE  Step(m, n)
<1>1. m.open \in SUBSET Overrides
  BY ModesAre
<1>2. IsFirst(StackOf(n.open), StackOf(m.open))
  BY <1>1, StackUnwound DEF Unwound
<1> QED BY <1>2 DEF Step, Unwound

LEMMA AskedSteps ==
  ASSUME NEW c, NEW d, CoreOK(c), Asked(c, d)
  PROVE  Step(c.modes, d.modes)
<1>0. c \in CoreType /\ ModesOK(c.modes) /\ c.modes \in ModeManager
  BY CoreIs DEF CoreOK
<1>1. ASSUME d.modes = c.modes PROVE Step(c.modes, d.modes)
  BY <1>0, <1>1, UnwoundSteps DEF Unwound
<1>2. CASE Opens(c, d)
  <2>1. PICK o \in Overrides :
           /\ CanOpen(c.modes, o) /\ d.modes.open = c.modes.open \cup {o}
           /\ d.modes.base = c.modes.base /\ d.modes.mode = o
    BY <1>2, OpensIs
  <2>2. c.modes.open \in SUBSET Overrides /\ c.modes.mode \in Modes /\ c.modes.mode # "Off" /\ o # "Off"
    BY <1>0, <2>1, ModesAre DEF CanOpen, Overrides
  <2>3. \A p \in c.modes.open : Priority[p] < Priority[o]
    <3>1. ASSUME NEW p \in c.modes.open PROVE Priority[p] < Priority[o]
      <4>1. p \in Overrides /\ c.modes.mode \in Overrides /\ Priority[p] <= Priority[c.modes.mode]
        BY <1>0, <2>2, <3>1, ModesAre, TopType DEF ModesOK
      <4>2. Priority[c.modes.mode] < Priority[o]
        BY <2>1 DEF CanOpen
      <4>3. \A a, b, g \in Overrides :
              Priority[a] <= Priority[b] /\ Priority[b] < Priority[g] => Priority[a] < Priority[g]
        <5>1. \A a \in Overrides : Priority[a] \in Nat
          BY PrioritiesDiffer
        <5> QED BY ONLY <5>1, SMTT(10)
      <4> QED BY <4>1, <4>2, <4>3, Zenon
    <3> QED BY <3>1
  <2>4. StackOf(d.modes.open) = Append(StackOf(c.modes.open), o)
    BY <2>1, <2>2, <2>3, StackOpened
  <2> QED BY <2>1, <2>2, <2>3, <2>4 DEF Step
<1>3. CASE Ends(c, d)
  <2>1. Unwound(c.modes, d.modes)
    BY <1>3, EndOutlives DEF Outlives
  <2> QED BY <1>0, <2>1, UnwoundSteps
<1>4. CASE Changes(c, d)
  BY <1>0, <1>1, <1>4, ChangedIs DEF Changes
<1>5. CASE Rebases(c, d)
  <2>1. PICK b \in Bases : CanRebase(c.modes, b) /\ d = ToBase(c, b)
    BY <1>5 DEF Rebases
  <2>2. d.modes = Rebased(c.modes, b) /\ c.modes.mode # "Off"
    BY <1>0, <2>1, ToBaseIs DEF CanRebase
  <2>3. d.modes.open = c.modes.open /\ d.modes.base = b /\ d.modes.mode # "Off"
    BY <1>0, <2>1, <2>2, RebasedIs
  <2> QED BY <2>2, <2>3 DEF Step
<1>6. CASE GoesOff(c, d)
  BY <1>0, <1>6, EnterOffIs, SwitchedOffIs DEF GoesOff, Step
<1>7. CASE GoesOn(c, d)
  BY <1>0, <1>7, ExitOffIs, SwitchedOnIs DEF GoesOn, Step
<1> QED BY <1>1, <1>2, <1>3, <1>4, <1>5, <1>6, <1>7 DEF Asked

LEMMA StackIsStack == Stack = StackOf(core.modes.open)
  BY Zenon DEF Stack, Only, StackOf, One, Joined

LEMMA FromTopIs ==
  /\ Promise!FromTop(1) = NthFromTop(Stack, core.modes.base, 1)
  /\ Promise!FromTop(2) = NthFromTop(Stack, core.modes.base, 2)
  BY Zenon DEF Promise!FromTop, NthFromTop

LEMMA ModesAreShown == ModesOK(core.modes) => Promise!Shown
<1> SUFFICES ASSUME ModesOK(core.modes) PROVE Promise!Shown
  OBVIOUS
<1>1. CASE core.modes.mode = "Off"
  BY <1>1 DEF Promise!Shown, ModesOK
<1>2. CASE core.modes.mode # "Off"
  BY <1>2, StackShows, StackIsStack, FromTopIs DEF Promise!Shown
<1> QED BY <1>1, <1>2

LEMMA StepsKeepPromise ==
  ASSUME ModesOK(core.modes), ModesOK(core'.modes), Step(core.modes, core'.modes), Promise!Shown'
  PROVE  Promise!Next
<1> DEFINE m == core.modes  n == core'.modes
<1>1. Stack = StackOf(m.open) /\ Stack' = StackOf(n.open)
  BY StackIsStack, Zenon DEF Stack, Only, StackOf, One, Joined
<1>2. Overrides = Promise!Overrides /\ Bases = Promise!Bases /\ Priority = Promise!Priority
  BY DEF Overrides, Promise!Overrides, Bases, Promise!Bases, Priority, Promise!Priority
<1>3. m.open \in SUBSET Overrides /\ StackOf(m.open) \in Seq(Overrides)
  BY ModesAre, Parts
<1>4. CASE /\ n.base = m.base /\ (n.mode = "Off" <=> m.mode = "Off")
           /\ IsFirst(StackOf(n.open), StackOf(m.open))
  <2>1. Promise!Unwind
    BY <1>1, <1>4 DEF Promise!Unwind, IsFirst
  <2> QED BY <2>1 DEF Promise!Next
<1>5. CASE /\ m.mode # "Off" /\ n.mode # "Off" /\ n.base = m.base
           /\ \E o \in Overrides : /\ StackOf(n.open) = Append(StackOf(m.open), o)
                                   /\ \A p \in m.open : Priority[p] < Priority[o]
  <2>1. PICK o \in Overrides : /\ StackOf(n.open) = Append(StackOf(m.open), o)
                               /\ \A p \in m.open : Priority[p] < Priority[o]
    BY <1>5
  <2>2. \A i \in 1..Len(Stack) : Stack[i] \in m.open
    BY <1>1, <1>3, StackHolds
  <2>3. Stack'[Len(Stack')] = o
    BY <1>1, <1>3, <2>1, AppendProperties
  <2>4. Promise!Open
    BY <1>1, <1>2, <1>5, <2>1, <2>2, <2>3 DEF Promise!Open
  <2> QED BY <2>4 DEF Promise!Next
<1>6. CASE m.mode # "Off" /\ n.mode # "Off" /\ n.base \in Bases /\ n.open = m.open
  <2>1. Promise!Rebase
    BY <1>1, <1>2, <1>6 DEF Promise!Rebase
  <2> QED BY <2>1 DEF Promise!Next
<1>7. CASE n.open = {} /\ n.base = "Normal"
  <2>1. Promise!Forget
    BY <1>1, <1>7, StackOfNone DEF Promise!Forget
  <2> QED BY <2>1 DEF Promise!Next
<1> QED BY <1>4, <1>5, <1>6, <1>7 DEF Step

LEMMA LumaSteps ==
  ASSUME LampInv, [Next]_vars
  PROVE  Step(core.modes, core'.modes) \/ UNCHANGED core
<1>0. CoreOK(core) /\ profile \in Profiles /\ at \in Points
  BY DEF LampInv
<1>1. Step(core.modes, Begin.modes)
  BY BeginIs DEF Step, Reset
<1>2. CASE Reboot
  BY <1>1, <1>2 DEF Reboot, Starts
<1>3. CASE Tick
  <2>1. ASSUME NEW valid \in BOOLEAN, NEW next \in Points, Pass(valid, next)
        PROVE  Step(core.modes, core'.modes)
    <3> DEFINE after == Update(core, valid, profile, next, <<at, next>> \notin Drifts)
    <3>1. Unwound(core.modes, after.modes)
      BY <1>0, UpdateIs
    <3>2. core' = after \/ core' = Begin
      BY <2>1 DEF Pass, FailSafe
    <3> HIDE DEF after
    <3> QED BY <1>0, <1>1, <3>1, <3>2, UnwoundSteps DEF CoreOK
  <2> QED BY <1>0, <1>3, <2>1 DEF Tick
<1>4. CASE Commands
  BY <1>0, <1>4, CommandsAsk, AskedSteps DEF CoreOK
<1>5. CASE NoRequest \/ Select \/ UNCHANGED vars
  BY <1>5 DEF NoRequest, Select, SetActiveProfileIndex, vars
<1> QED BY <1>2, <1>3, <1>4, <1>5 DEF Next, Commands

\* The sessions of the lamp are nested, as ModeStack promises: the open ones are a stack that ends
\* from the top, and the mode shown and the mode to return to are its two topmost entries
\* (ModeManager::refreshCurrentAndReturn).
THEOREM SessionsNest == Spec => ModeSpec
<1>1. Init => Promise!Init
  <2> SUFFICES ASSUME Init PROVE Promise!Init
    OBVIOUS
  <2>1. core.modes = Reset /\ ModesOK(core.modes)
    BY BeginIs DEF Init, CoreOK
  <2>2. Stack = <<>> /\ core.modes.base = "Normal" /\ core.modes.mode # "Off"
    BY <2>1, StackIsStack, StackOfNone DEF Reset
  <2> QED BY <2>1, <2>2, ModesAreShown DEF Promise!Init
<1>2. LampInv /\ LampInv' /\ Promise!Shown' /\ [Next]_vars => [Promise!Next]_(Promise!vars)
  <2> SUFFICES ASSUME LampInv, LampInv', Promise!Shown', [Next]_vars
               PROVE  [Promise!Next]_(Promise!vars)
    OBVIOUS
  <2>1. ModesOK(core.modes) /\ ModesOK(core'.modes)
    BY DEF LampInv, CoreOK
  <2>2. CASE Step(core.modes, core'.modes)
    BY <2>1, <2>2, StepsKeepPromise
  <2>3. CASE UNCHANGED core
    BY <2>3 DEF Promise!vars, Stack, Only
  <2> QED BY <2>2, <2>3, LumaSteps
<1>3. LampInv => Promise!Shown
  BY ModesAreShown DEF LampInv, CoreOK
<1> QED BY <1>1, <1>2, <1>3, AlwaysLampInv, PTL DEF Spec, ModeSpec, Promise!Spec

-----------------------------------------------------------------------------
(***************************************************************************)
(* The light never jumps.  A pass that starts no transition shows what the  *)
(* last one asked for: the recorded mode, profile, day state and levels     *)
(* tell so.  Between two passes comes one request, which opens a session    *)
(* that the next pass still finds.                                          *)
(***************************************************************************)
\* A session that was opened since the last pass, and that the next pass does not end.
Fresh(c) ==
  /\ c.modes.mode = "ChannelTest" => c.session["ChannelTest"].limit = 0
  /\ c.modes.mode = "Manual" => c.session["Manual"].age = 0 /\ c.session["Manual"].limit # 1
  /\ c.modes.mode = "Simulation" => ~c.over

\* What the light says of the last pass.
LightInv(c, now) ==
  LET l == c.light IN
  /\ ~l.started => l.actual = <<"zero">>
  /\ l.started => l.lastMode # "Off"
  /\ l.started /\ ~l.tr.active => l.actual = l.requested
  /\ l.tr.active => l.tr.age < l.tr.length /\ l.tr.length > 1
  /\ l.started /\ l.lastMode \in Bases =>
       l.requested = <<"schedule", l.lastProfile, now>> /\ l.lastDay = DayState(now)
  /\ l.started /\ l.lastMode = "Simulation" => l.requested = <<"frame", l.lastProfile>>
  /\ l.started /\ l.lastMode \in Overrides \ {"Simulation"} /\ l.lastMode \in c.modes.open =>
       \/ l.requested = <<l.lastMode, c.session[l.lastMode].last>>
       \/ l.tr.active /\ l.tr.age = 0
  /\ c.over => "Simulation" \in c.modes.open

\* After a pass: it has shown the mode in charge.
ShownInv(c) ==
  c.light.started => /\ c.light.lastMode = c.modes.mode /\ c.modes.mode # "Off"
                     /\ c.modes.mode \in Bases => c.light.seen

\* Before a pass: at most one request came since the last.
AskedInv(c) ==
  c.light.started /\ c.light.lastMode \in Bases =>
    /\ c.modes.mode \in Bases => c.light.seen
    /\ c.modes.mode \in Overrides => Fresh(c)

SmoothInv ==
  /\ LightInv(core, at)
  /\ phase = "web" => ShownInv(core)
  /\ phase = "pass" => AskedInv(core)

\* The first pass after a request ends no session that the last one did not show.
LEMMA BasesStay ==
  ASSUME NEW c, CoreOK(c), c.modes.mode \in Bases
  PROVE  Timeouts(c).modes = c.modes /\ Timeouts(c).light.seen = c.light.seen
<1> DEFINE a == Aged(c)
<1>1. a.modes = c.modes /\ a.light.seen = c.light.seen
  <2>1. c \in CoreType /\ c.light \in LightType
    BY CoreIs DEF CoreOK
  <2> DEFINE tr == [c.light.tr EXCEPT !.age = IF c.light.tr.active THEN Least(c.light.tr.age + 1, c.light.tr.length)
                                            ELSE c.light.tr.age]
  <2>2. a.modes = c.modes /\ a.light = [c.light EXCEPT !.tr = tr]
    BY <2>1, AgedIs
  <2> HIDE DEF a, tr
  <2> QED BY <2>1, <2>2 DEF LightType
<1>2. a.modes.mode # "ChannelTest" /\ a.modes.mode # "Manual" /\ a.modes.mode # "Simulation"
  BY <1>1 DEF Bases
<1>3. TestTimeout(a) = a
  BY <1>2 DEF TestTimeout
<1>4. ManualTimeout(a) = a
  BY <1>2 DEF ManualTimeout
<1>5. SimulationOver(a) = a
  BY <1>2 DEF SimulationOver
<1> QED BY <1>1, <1>3, <1>4, <1>5, Zenon DEF Timeouts

LEMMA FreshStays ==
  ASSUME NEW c, CoreOK(c), c.modes.mode \in Overrides, Fresh(c)
  PROVE  Timeouts(c).modes = c.modes
<1> DEFINE a == Aged(c)  t == TestTimeout(a)
<1>0. c \in CoreType /\ c.session \in SessionsType
  BY CoreIs DEF CoreOK
<1>1. /\ a \in CoreType /\ a.modes = c.modes /\ a.over = c.over
      /\ \A o \in Overrides :
           /\ a.session[o].limit = c.session[o].limit
           /\ a.session[o].age = Least(c.session[o].age + 1, c.session[o].limit)
  BY <1>0, AgedIs
<1>2. "ChannelTest" \in Overrides /\ "Manual" \in Overrides
  BY DEF Overrides
<1>3. c.modes.mode = "Manual" => ~Expired(a.session["Manual"])
  <2>1. c.session["Manual"].limit \in Nat
    BY <1>0, <1>2, SessionIs
  <2>2. \A k \in Nat : k # 1 => ~(k > 0 /\ Least(0 + 1, k) = k)
    BY SMTT(10) DEF Least
  <2> QED BY <1>1, <1>2, <2>1, <2>2 DEF Expired, Fresh
<1>4. CASE c.modes.mode = "ChannelTest"
  <2>1. t = [a EXCEPT !.session["ChannelTest"].limit = TestLimit]
    BY <1>1, <1>2, <1>4 DEF TestTimeout, Fresh
  <2>2. t.modes = a.modes
    BY <1>1, <2>1 DEF CoreType
  <2>3. ManualTimeout(t) = t /\ SimulationOver(t) = t
    BY <1>1, <1>4, <2>2 DEF ManualTimeout, SimulationOver
  <2> QED BY <1>1, <2>2, <2>3, Zenon DEF Timeouts
<1>5. CASE c.modes.mode # "ChannelTest"
  <2>1. t = a
    BY <1>1, <1>5 DEF TestTimeout
  <2>2. ManualTimeout(a) = a
    BY <1>1, <1>3 DEF ManualTimeout
  <2>3. SimulationOver(a) = a
    BY <1>1 DEF SimulationOver, Fresh
  <2> QED BY <1>1, <2>1, <2>2, <2>3, Zenon DEF Timeouts
<1> QED BY <1>4, <1>5

\* The first part of a pass leaves the light alone, but for the age of its transition.
LEMMA EndedIs ==
  ASSUME NEW c, CoreOK(c)
  PROVE  LET l == c.light  n == Timeouts(c).light IN
         /\ n \in LightType /\ l \in LightType
         /\ n.started = l.started /\ n.requested = l.requested /\ n.actual = l.actual
         /\ n.lastMode = l.lastMode /\ n.lastProfile = l.lastProfile /\ n.lastDay = l.lastDay
         /\ n.tr.active = l.tr.active /\ n.tr.length = l.tr.length
         /\ l.tr.active => n.tr.age = Least(l.tr.age + 1, l.tr.length)
         /\ \A o \in Timeouts(c).modes.open : Timeouts(c).session[o].last = c.session[o].last
<1> DEFINE a == Aged(c)
           tr == [c.light.tr EXCEPT !.age = IF c.light.tr.active THEN Least(c.light.tr.age + 1, c.light.tr.length)
                                            ELSE c.light.tr.age]
<1>1. c \in CoreType /\ c.light \in LightType /\ c.light.tr \in TransitionType
  BY CoreIs, LightIs DEF CoreOK
<1>2. a.light = [c.light EXCEPT !.tr = tr] /\ \A o \in Overrides : a.session[o].last = c.session[o].last
  BY <1>1, AgedIs
<1>3. /\ tr.active = c.light.tr.active /\ tr.length = c.light.tr.length
      /\ c.light.tr.active => tr.age = Least(c.light.tr.age + 1, c.light.tr.length)
  BY <1>1 DEF TransitionType
<1> HIDE DEF a, tr
<1>4. /\ a.light.started = c.light.started /\ a.light.requested = c.light.requested
      /\ a.light.actual = c.light.actual /\ a.light.lastMode = c.light.lastMode
      /\ a.light.lastProfile = c.light.lastProfile /\ a.light.lastDay = c.light.lastDay
      /\ a.light.tr = tr
  BY ONLY <1>1, <1>2 DEF LightType
<1>5. Outlives(a, Timeouts(c))
  BY TimeoutsIs DEF a
<1>6. Timeouts(c).modes.open \in SUBSET Overrides /\ Timeouts(c).light \in LightType
  BY <1>5, ModesAre, CoreIs DEF Outlives, CoreOK
<1> QED BY <1>1, <1>2, <1>3, <1>4, <1>5, <1>6 DEF Outlives, SameLight

\* A reading that is not taken for a jump is at the same point of the day.
LEMMA DriftsStay ==
  ASSUME NEW x \in Points, NEW y \in Points, <<x, y>> \in Drifts, DayState(x) = DayState(y)
  PROVE  x = y
<1>1. CASE <<x, y>> \in {<<p, p>> : p \in Points}
  BY <1>1
<1>2. CASE <<x, y>> \in {<<"evening", "night">>, <<"night", "morning">>}
  BY <1>2 DEF DayState
<1> QED BY <1>1, <1>2 DEF Drifts

LEMMA LengthsAre ==
  /\ 0 \notin {Standard, Night, Brief, Entry} /\ {Standard, Night, Brief, Entry} \subseteq Nat
  /\ \A k \in {Standard, Night, Brief, Entry} : k > 1
<1>1. {Standard, Night, Brief, Entry} \subseteq Nat \ {0}
  BY CoreAssumption
<1> QED BY <1>1, LengthAssumption

\* The reasons for a transition, as far as the light needs them.
LEMMA NoTransition ==
  ASSUME NEW c, NEW p, NEW now, NEW jump, TransitionLength(c, p, now, jump) = 0
  PROVE  /\ c.light.started /\ Touched(c) = {}
         /\ Selection(c) => ~Reselected(c)
         /\ ~Selection(c) => /\ p = c.light.lastProfile /\ DayOf(c, now) = c.light.lastDay
                             /\ jump => Wanted(c, p, now) = c.light.requested
<1>1. Standard # 0 /\ Night # 0 /\ Brief # 0
  BY LengthsAre
<1>2. Touched(c) # {} => LengthOf[Branch(c)] # 0
  <2>1. Touched(c) # {} => Branch(c) \in {"ChannelTest", "Manual", "Preview", "Simulation"}
    BY BranchIs DEF Touched, Overrides
  <2> QED BY <2>1, LengthsAre DEF LengthOf
<1> QED BY <1>1, <1>2, Zenon DEF TransitionLength

\* A pass that starts no transition asks for what the last one asked for, or goes on with a
\* transition that the last one started.
LEMMA NothingChanges ==
  ASSUME NEW c, CoreOK(c), NEW was \in Points, LightInv(c, was), AskedInv(c),
         NEW p \in Profiles, NEW now \in Points,
         Timeouts(c).modes.mode # "Off",
         TransitionLength(Timeouts(c), ShownProfile(c, p), now, SeenJump(c, <<was, now>> \notin Drifts)) = 0
  PROVE  /\ c.light.started
         /\ \/ Wanted(Timeouts(c), ShownProfile(c, p), now) = c.light.requested
            \/ c.light.tr.active /\ c.light.tr.age = 0
<1> DEFINE t == Timeouts(c)  l == c.light  sp == ShownProfile(c, p)
           jump == SeenJump(c, <<was, now>> \notin Drifts)  mode == t.modes.mode
<1>1. /\ t.light.started /\ Touched(t) = {}
      /\ Selection(t) => ~Reselected(t)
      /\ ~Selection(t) => /\ sp = t.light.lastProfile /\ DayOf(t, now) = t.light.lastDay
                          /\ jump => Wanted(t, sp, now) = t.light.requested
  BY NoTransition
<1>2. /\ t.light.started = l.started /\ t.light.requested = l.requested
      /\ t.light.lastMode = l.lastMode /\ t.light.lastProfile = l.lastProfile
      /\ t.light.lastDay = l.lastDay
      /\ \A o \in t.modes.open : t.session[o].last = c.session[o].last
  BY EndedIs
<1>3. CoreOK(t) /\ ModesOK(t.modes) /\ t.modes.open \subseteq c.modes.open /\ Unwound(c.modes, t.modes)
  <2>1. Aged(c).modes = c.modes
    BY AgedIs DEF CoreOK
  <2> QED BY <2>1, TimeoutsIs DEF Outlives, CoreOK, Unwound
<1>4. l.started /\ mode \in Modes /\ mode # "Off" /\ l.lastMode # "Off"
  BY <1>1, <1>2, <1>3, ModesAre DEF LightInv
<1>5. mode \in Overrides => mode = l.lastMode /\ mode \in t.modes.open
  BY <1>1, <1>2, <1>3, ModesAre DEF Touched
<1>6. CASE Selection(t)
  <2>1. mode \in Overrides \ {"Simulation"} /\ mode = l.lastMode /\ mode \in c.modes.open
    BY <1>3, <1>5, <1>6 DEF Selection
  <2>2. t.session[mode].value = c.session[mode].last
    BY <1>1, <1>2, <1>5, <1>6, <2>1 DEF Reselected
  <2>3. Wanted(t, sp, now) = <<mode, t.session[mode].value>>
    BY <2>1 DEF Wanted
  <2>4. l.requested = <<l.lastMode, c.session[l.lastMode].last>> \/ (l.tr.active /\ l.tr.age = 0)
    BY <1>4, <2>1 DEF LightInv
  <2> QED BY <1>4, <2>1, <2>2, <2>3, <2>4
<1>7. CASE mode = "Simulation"
  <2>1. l.lastMode = "Simulation" /\ ~Selection(t)
    BY <1>5, <1>7 DEF Overrides, Selection
  <2>2. Wanted(t, sp, now) = <<"frame", sp>>
    BY <1>7 DEF Wanted
  <2>3. l.requested = <<"frame", l.lastProfile>>
    BY <1>4, <2>1 DEF LightInv
  <2> QED BY <1>1, <1>2, <1>4, <2>1, <2>2, <2>3
<1>8. CASE mode \in Bases
  <2>1. mode \notin Overrides /\ ~Selection(t) /\ mode # "Simulation"
    BY <1>8 DEF Bases, Overrides, Selection
  <2>2. l.lastMode \in Bases
    <3>1. l.lastMode \notin Overrides
      BY <1>1, <1>2, <1>8, <2>1 DEF Touched
    <3>2. l.lastMode \in Modes
      BY EndedIs, LightIs
    <3> QED BY <1>4, <3>1, <3>2 DEF Modes
  <2>3. l.requested = <<"schedule", l.lastProfile, was>> /\ l.lastDay = DayState(was)
    BY <1>4, <2>2 DEF LightInv
  <2>4. Wanted(t, sp, now) = <<"schedule", sp, now>> /\ DayOf(t, now) = DayState(now)
    BY <1>8, <2>1 DEF Wanted, DayOf
  <2>5. sp = l.lastProfile /\ DayState(now) = DayState(was)
    BY <1>1, <1>2, <2>1, <2>3, <2>4
  <2>6. t.light.seen
    <3>1. CASE c.modes.mode \in Bases
      BY <1>4, <2>2, <3>1, BasesStay DEF AskedInv
    <3>2. CASE c.modes.mode \in Overrides
      <4>1. t.modes = c.modes
        BY <1>4, <2>2, <3>2, FreshStays DEF AskedInv
      <4> QED BY <2>1, <3>2, <4>1
    <3>3. CASE c.modes.mode = "Off"
      BY <1>3, <1>4, <3>3 DEF Unwound
    <3>4. c.modes.mode \in Modes
      BY ModesAre DEF CoreOK
    <3> QED BY <3>1, <3>2, <3>3, <3>4 DEF Modes
  <2>7. CASE <<was, now>> \in Drifts
    <3>1. was = now
      BY <2>5, <2>7, DriftsStay
    <3> QED BY <1>4, <2>3, <2>4, <2>5, <3>1
  <2>8. CASE <<was, now>> \notin Drifts
    <3>1. jump
      BY <1>8, <2>6, <2>8 DEF SeenJump
    <3> QED BY <1>1, <1>2, <1>4, <2>1, <3>1
  <2> QED BY <2>7, <2>8
<1>9. mode \in Overrides \ {"Simulation"} => Selection(t)
  BY DEF Selection
<1> HIDE DEF t, mode
<1> QED BY <1>4, <1>6, <1>7, <1>8, <1>9 DEF Modes

-----------------------------------------------------------------------------
\* A transition starts from the levels that are shown, or those reached since.
LEMMA StartsWhereItIs ==
  ASSUME NEW c, CoreOK(c), NEW was, LightInv(c, was)
  PROVE  LET from == StartFrom(Timeouts(c).light)  l == c.light IN
         \/ from = l.actual
         \/ /\ l.tr.active
            /\ from = IF l.tr.age + 1 < l.tr.length THEN <<"mid">> ELSE l.requested
<1> DEFINE l == c.light  n == Timeouts(c).light
<1>1. /\ n.started = l.started /\ n.requested = l.requested /\ n.tr.active = l.tr.active
      /\ n.tr.length = l.tr.length
      /\ l.tr.active => n.tr.age = Least(l.tr.age + 1, l.tr.length)
      /\ l \in LightType
  BY EndedIs
<1>2. l.started \in BOOLEAN /\ l.tr.active \in BOOLEAN /\ l.tr.age \in Nat /\ l.tr.length \in Nat
  BY <1>1, LightIs DEF TransitionType
<1> HIDE DEF l, n
<1>3. CASE ~l.started
  <2>1. l.actual = <<"zero">>
    BY <1>3 DEF LightInv, l
  <2> QED BY <1>1, <1>3, <2>1 DEF StartFrom, l, n
<1>4. CASE l.started /\ ~l.tr.active
  <2>1. l.actual = l.requested
    BY <1>4 DEF LightInv, l
  <2> QED BY <1>1, <1>4, <2>1 DEF StartFrom, CurrentLevels, l, n
<1>5. CASE l.started /\ l.tr.active
  <2>1. l.tr.age < l.tr.length
    BY <1>5 DEF LightInv, l
  <2>2. StartFrom(n) = Position(n.tr, l.requested)
    BY <1>1, <1>5 DEF StartFrom, CurrentLevels
  <2>3. Position(n.tr, l.requested) = IF l.tr.age + 1 < l.tr.length THEN <<"mid">> ELSE l.requested
    BY <1>1, <1>2, <1>5, <2>1 DEF Position, Least
  <2> QED BY <1>5, <2>2, <2>3 DEF l, n
<1> QED BY <1>2, <1>3, <1>4, <1>5

\* And so does every pass that shows anything.
LEMMA ShownSmooth ==
  ASSUME NEW c, CoreOK(c), NEW was \in Points, LightInv(c, was), AskedInv(c),
         NEW p \in Profiles, NEW now \in Points, Timeouts(c).modes.mode # "Off"
  PROVE  Shown(Timeouts(c), ShownProfile(c, p), now, SeenJump(c, <<was, now>> \notin Drifts)).light.actual
           = StartFrom(Timeouts(c).light)
<1> DEFINE t == Timeouts(c)  l == c.light  sp == ShownProfile(c, p)
           jump == SeenJump(c, <<was, now>> \notin Drifts)
           length == TransitionLength(t, sp, now, jump)
           tr == Under(t, sp, now, jump)  to == Wanted(t, sp, now)
           s == Shown(t, sp, now, jump)
<1>1. /\ t.light.started = l.started /\ t.light.requested = l.requested /\ t.light.tr.active = l.tr.active
      /\ t.light.tr.length = l.tr.length
      /\ l.tr.active => t.light.tr.age = Least(l.tr.age + 1, l.tr.length)
      /\ l \in LightType /\ t.light \in LightType
  BY EndedIs
<1>2. l.started \in BOOLEAN /\ l.tr.active \in BOOLEAN /\ l.tr.age \in Nat /\ l.tr.length \in Nat
  BY <1>1, LightIs DEF TransitionType
<1>3. CoreOK(t) /\ sp \in Profiles
  BY UpdateIs
<1>4. s.light.actual = IF tr.active THEN Position(tr, to) ELSE to
  BY <1>3, ShownIs
<1>5. length \in Nat
  BY LengthIs
<1>6. CASE length > 0
  <2>1. tr = Moving(StartFrom(t.light), length)
    BY <1>6 DEF Under
  <2>2. tr.active /\ tr.age = 0 /\ tr.from = StartFrom(t.light)
    BY <2>1, <1>1, <1>5, LevelsType, TransitionIs
  <2>3. s.light.actual = StartFrom(t.light)
    <3> HIDE DEF tr, s, to, t
    <3> QED BY <1>4, <2>2 DEF Position
  <2> QED BY <2>3
<1>7. CASE length = 0
  <2>1. tr = t.light.tr
    BY <1>7 DEF Under
  <2>2. l.started /\ (to = l.requested \/ (l.tr.active /\ l.tr.age = 0))
    BY <1>7, NothingChanges
  <2>3. StartFrom(t.light) = IF t.light.tr.active THEN Position(t.light.tr, l.requested) ELSE l.requested
    BY <1>1, <2>2 DEF StartFrom, CurrentLevels
  <2>4. l.tr.active => l.tr.length > 1
    BY DEF LightInv
  <2>5. CASE to = l.requested
    <3> HIDE DEF tr, s, to, t, l
    <3>1. s.light.actual = StartFrom(t.light)
      BY <1>4, <2>1, <2>3, <2>5
    <3> QED BY <3>1 DEF s, t
  <2>6. CASE l.tr.active /\ l.tr.age = 0
    <3> HIDE DEF tr, s, to, t, l
    <3>1. t.light.tr.age = 1 /\ 1 < t.light.tr.length
      BY <1>1, <1>2, <2>4, <2>6 DEF Least
    <3>2. s.light.actual = StartFrom(t.light)
      BY <1>1, <1>4, <2>1, <2>3, <2>6, <3>1 DEF Position
    <3> QED BY <3>2 DEF s, t
  <2> QED BY <2>2, <2>5, <2>6
<1> QED BY <1>5, <1>6, <1>7

\* The transition that a pass goes on with is longer than a tick.
LEMMA UnderIs ==
  ASSUME NEW c, CoreOK(c), NEW was, LightInv(c, was), NEW p, NEW now, NEW jump
  PROVE  LET t == Timeouts(c)  tr == Under(t, p, now, jump) IN
         /\ tr.active \in BOOLEAN /\ tr.age \in Nat /\ tr.length \in Nat
         /\ tr.active => tr.length > 1
         /\ t.light.started /\ Touched(t) # {} => tr.active /\ tr.age = 0
<1> DEFINE t == Timeouts(c)  length == TransitionLength(t, p, now, jump)  tr == Under(t, p, now, jump)
<1>1. CoreOK(t)
  BY TimeoutsIs DEF Outlives
<1>2. tr \in TransitionType
  BY <1>1, UnderType
<1>3. tr.active \in BOOLEAN /\ tr.age \in Nat /\ tr.length \in Nat
  <2> HIDE DEF tr
  <2> QED BY <1>2 DEF TransitionType
<1>4. length \in {0, Standard, Night, Brief, Entry} /\ length \in Nat
  BY LengthIs
<1>5. t.light \in LightType /\ t.light.tr.active = c.light.tr.active /\ t.light.tr.length = c.light.tr.length
  BY EndedIs
<1>6. tr.active => tr.length > 1
  <2>1. CASE length > 0
    <3>1. tr = Moving(StartFrom(t.light), length)
      BY <2>1 DEF Under
    <3>2. tr.length = length
      BY <3>1, <1>4, <1>5, LevelsType, TransitionIs
    <3> HIDE DEF length, tr
    <3> QED BY <1>4, <2>1, <3>2, LengthsAre
  <2>2. CASE length = 0
    <3>1. tr = t.light.tr
      BY <2>2 DEF Under
    <3>2. c.light.tr.active => c.light.tr.length > 1
      BY DEF LightInv
    <3> HIDE DEF tr, t
    <3> QED BY <1>5, <3>1, <3>2
  <2> HIDE DEF length
  <2> QED BY <1>4, <2>1, <2>2
<1>7. t.light.started /\ Touched(t) # {} => tr.active /\ tr.age = 0
  <2> SUFFICES ASSUME t.light.started, Touched(t) # {} PROVE tr.active /\ tr.age = 0
    OBVIOUS
  <2>1. length # 0
    BY NoTransition
  <2>2. length > 0
    <3> HIDE DEF length
    <3> QED BY <1>4, <2>1
  <2>3. tr = Moving(StartFrom(t.light), length)
    BY <2>2 DEF Under
  <2> QED BY <2>3, <1>4, <1>5, LevelsType, TransitionIs
<1> QED BY <1>3, <1>6, <1>7

\* A simulation that is over is open until a pass ends it.
LEMMA OverIsOpen ==
  ASSUME NEW c, CoreOK(c), NEW was, LightInv(c, was)
  PROVE  Timeouts(c).over => "Simulation" \in Timeouts(c).modes.open
<1>1. Aged(c).modes = c.modes /\ Aged(c).over = c.over
  BY AgedIs DEF CoreOK
<1>2. Outlives(Aged(c), Timeouts(c))
  BY TimeoutsIs
<1> QED BY <1>1, <1>2 DEF Outlives, LightInv

\* A pass keeps what the light says of the last one.
LEMMA PassKeepsLight ==
  ASSUME NEW c, CoreOK(c), NEW was \in Points, LightInv(c, was), NEW valid \in BOOLEAN,
         NEW p \in Profiles, NEW now \in Points, NEW jump
  PROVE  LET d == Update(c, valid, p, now, jump) IN LightInv(d, now) /\ ShownInv(d)
<1> DEFINE t == Timeouts(c)  d == Update(c, valid, p, now, jump)  sp == ShownProfile(c, p)
           seen == SeenJump(c, jump)  s == Shown(t, sp, now, seen)  tr == Under(t, sp, now, seen)
           to == Wanted(t, sp, now)  mode == t.modes.mode
<1>1. /\ CoreOK(t) /\ CoreOK(d) /\ d.modes = t.modes /\ sp \in Profiles
      /\ mode = "Off" \/ ~valid => /\ ~d.light.started /\ d.light.actual = <<"zero">>
                                   /\ d.light.tr = Still /\ d.over = t.over
      /\ mode # "Off" /\ valid => d = SimulationNext(s) /\ CoreOK(s)
  BY UpdateIs
<1>2. t.over => "Simulation" \in t.modes.open
  BY OverIsOpen
<1>3. CASE mode = "Off" \/ ~valid
  <2>1. ~d.light.started /\ d.light.actual = <<"zero">> /\ ~d.light.tr.active
    BY <1>1, <1>3 DEF Still
  <2>2. d.over => "Simulation" \in d.modes.open
    BY <1>1, <1>2, <1>3
  <2> HIDE DEF d
  <2>3. LightInv(d, now)
    BY <2>1, <2>2 DEF LightInv
  <2>4. ShownInv(d)
    BY <2>1 DEF ShownInv
  <2> QED BY <2>3, <2>4 DEF d
<1>4. CASE mode # "Off" /\ valid
  <2>1. /\ s.modes = t.modes /\ s.over = t.over /\ s.session = Recorded(t, sp, now).session
        /\ s.light.started /\ s.light.seen = (mode \in Bases) /\ s.light.requested = to
        /\ s.light.actual = IF tr.active THEN Position(tr, to) ELSE to
        /\ s.light.tr = IF tr.active /\ tr.age < tr.length THEN tr ELSE Still
        /\ s.light.lastMode = mode
        /\ s.light.lastProfile = IF Afresh(t, sp) THEN sp ELSE t.light.lastProfile
        /\ s.light.lastDay = IF Afresh(t, sp) \/ ~Selection(t) THEN DayOf(t, now) ELSE t.light.lastDay
    BY <1>1, <1>4, ShownIs
  <2>2. /\ d.light = s.light
        /\ \A o \in Overrides : d.session[o].last = s.session[o].last
        /\ d.over => s.over \/ s.modes.mode = "Simulation"
    <3>1. CoreOK(s) /\ d = SimulationNext(s)
      BY <1>1, <1>4
    <3> HIDE DEF s, d
    <3> QED BY <3>1, SimulationNextIs
  <2>3. /\ tr.active \in BOOLEAN /\ tr.age \in Nat /\ tr.length \in Nat
        /\ tr.active => tr.length > 1
        /\ t.light.started /\ Touched(t) # {} => tr.active /\ tr.age = 0
    BY UnderIs
  <2>4. /\ ~s.light.tr.active => s.light.actual = s.light.requested
        /\ s.light.tr.active => s.light.tr = tr /\ tr.active /\ tr.age < tr.length
    <3>1. ~Still.active
      BY DEF Still
    <3> HIDE DEF s, tr, to
    <3>2. CASE tr.active /\ tr.age < tr.length
      BY <2>1, <3>2
    <3>3. CASE tr.active /\ ~(tr.age < tr.length)
      <4>1. tr.age # 0
        BY <2>3, <3>3
      <4>2. Position(tr, to) = to
        BY <3>3, <4>1 DEF Position
      <4> QED BY <2>1, <3>1, <3>3, <4>2
    <3>4. CASE ~tr.active
      BY <2>1, <3>1, <3>4
    <3> QED BY <2>3, <3>2, <3>3, <3>4
  <2>5. ~Selection(t) => s.light.lastProfile = sp /\ s.light.lastDay = DayOf(t, now)
    <3> HIDE DEF s
    <3> QED BY <2>1 DEF Afresh
  <2>6. mode \in Bases =>
          s.light.requested = <<"schedule", s.light.lastProfile, now>> /\ s.light.lastDay = DayState(now)
    <3> SUFFICES ASSUME mode \in Bases
                 PROVE  s.light.requested = <<"schedule", s.light.lastProfile, now>> /\ s.light.lastDay = DayState(now)
      OBVIOUS
    <3>1. mode \notin Overrides /\ mode # "Simulation" /\ ~Selection(t)
      BY DEF Bases, Overrides, Selection
    <3>2. to = <<"schedule", sp, now>> /\ DayOf(t, now) = DayState(now)
      BY <3>1 DEF Wanted, DayOf
    <3> QED BY <2>1, <2>5, <3>1, <3>2
  <2>7. mode = "Simulation" => s.light.requested = <<"frame", s.light.lastProfile>>
    <3> SUFFICES ASSUME mode = "Simulation" PROVE s.light.requested = <<"frame", s.light.lastProfile>>
      OBVIOUS
    <3>1. ~Selection(t)
      BY DEF Selection
    <3>2. to = <<"frame", sp>>
      BY DEF Wanted
    <3> QED BY <2>1, <2>5, <3>1, <3>2
  <2>8. mode \in Overrides \ {"Simulation"} =>
          s.light.requested = <<mode, s.session[mode].last>> \/ (s.light.tr.active /\ s.light.tr.age = 0)
    <3> SUFFICES ASSUME mode \in Overrides \ {"Simulation"}
                 PROVE  \/ s.light.requested = <<mode, s.session[mode].last>>
                        \/ s.light.tr.active /\ s.light.tr.age = 0
      OBVIOUS
    <3>1. Selection(t) /\ to = <<mode, t.session[mode].value>>
      BY DEF Wanted, Selection
    <3>2. CASE ShowsLevels(t)
      <4>1. Recorded(t, sp, now).session[mode].last = t.session[mode].value
        BY <1>1, <3>2, RecordedIs
      <4> QED BY <2>1, <3>1, <4>1
    <3>3. CASE ~ShowsLevels(t)
      <4>1. tr.active /\ tr.age = 0
        BY <2>3, <3>1, <3>3 DEF ShowsLevels
      <4>2. s.light.tr = tr
        <5> HIDE DEF s, tr
        <5> QED BY <2>1, <2>3, <4>1
      <4> QED BY <4>1, <4>2
    <3> QED BY <3>2, <3>3
  <2>9. d.over => "Simulation" \in d.modes.open
    <3>1. mode = "Simulation" => mode \in t.modes.open
      BY <1>1, ModesAre DEF CoreOK, Overrides
    <3> QED BY <1>1, <1>2, <2>1, <2>2, <3>1
  <2>10. /\ d.modes.mode = mode /\ d.light.started /\ d.light.seen = (mode \in Bases)
         /\ d.light.lastMode = mode
    BY <1>1, <2>1, <2>2
  <2>11. mode \in Overrides => d.session[mode].last = s.session[mode].last
    BY <2>2
  <2> HIDE DEF d, s, t, tr, to, mode
  <2>12. LightInv(d, now)
    <3>1. /\ d.light.actual = <<"zero">> \/ d.light.started
          /\ d.light.lastMode # "Off"
          /\ ~d.light.tr.active => d.light.actual = d.light.requested
          /\ d.light.tr.active => d.light.tr.age < d.light.tr.length /\ d.light.tr.length > 1
      BY <1>4, <2>2, <2>3, <2>4, <2>10
    <3>2. d.light.lastMode \in Bases =>
            d.light.requested = <<"schedule", d.light.lastProfile, now>> /\ d.light.lastDay = DayState(now)
      BY <2>2, <2>6, <2>10
    <3>3. d.light.lastMode = "Simulation" => d.light.requested = <<"frame", d.light.lastProfile>>
      BY <2>2, <2>7, <2>10
    <3>4. d.light.lastMode \in Overrides \ {"Simulation"} =>
            \/ d.light.requested = <<d.light.lastMode, d.session[d.light.lastMode].last>>
            \/ d.light.tr.active /\ d.light.tr.age = 0
      BY <2>2, <2>8, <2>10, <2>11
    <3> QED BY <2>9, <2>10, <3>1, <3>2, <3>3, <3>4 DEF LightInv
  <2>13. ShownInv(d)
    BY <1>4, <2>10 DEF ShownInv
  <2> QED BY <2>12, <2>13 DEF d
<1> QED BY <1>3, <1>4

\* A light that stays as it is, with the sessions it depends on.
LEMMA SameKeepsLight ==
  ASSUME NEW c, NEW d, NEW now, LightInv(c, now), SameLight(c.light, d.light),
         d.light.started => c.light.started, ~d.light.started => d.light.actual = <<"zero">>,
         d.light.started /\ c.light.lastMode \in Overrides /\ c.light.lastMode \in d.modes.open =>
           /\ c.light.lastMode \in c.modes.open
           /\ d.session[c.light.lastMode].last = c.session[c.light.lastMode].last,
         d.over => "Simulation" \in d.modes.open
  PROVE  LightInv(d, now)
<1>1. /\ d.light.requested = c.light.requested /\ d.light.actual = c.light.actual /\ d.light.tr = c.light.tr
      /\ d.light.lastMode = c.light.lastMode /\ d.light.lastProfile = c.light.lastProfile
      /\ d.light.lastDay = c.light.lastDay
  BY DEF SameLight
<1>2. d.light.started /\ ~d.light.tr.active => d.light.actual = d.light.requested
  BY <1>1 DEF LightInv
<1>3. d.light.tr.active => d.light.tr.age < d.light.tr.length /\ d.light.tr.length > 1
  BY <1>1 DEF LightInv
<1>4. /\ d.light.started => d.light.lastMode # "Off"
      /\ d.light.started /\ d.light.lastMode \in Bases =>
           d.light.requested = <<"schedule", d.light.lastProfile, now>> /\ d.light.lastDay = DayState(now)
      /\ d.light.started /\ d.light.lastMode = "Simulation" =>
           d.light.requested = <<"frame", d.light.lastProfile>>
  BY <1>1 DEF LightInv
<1>5. d.light.started /\ d.light.lastMode \in Overrides \ {"Simulation"} /\ d.light.lastMode \in d.modes.open =>
        \/ d.light.requested = <<d.light.lastMode, d.session[d.light.lastMode].last>>
        \/ d.light.tr.active /\ d.light.tr.age = 0
  BY <1>1 DEF LightInv
<1> QED BY <1>2, <1>3, <1>4, <1>5 DEF LightInv

\* A request keeps it too, and opens nothing but a fresh session.
LEMMA AskedKeepsLight ==
  ASSUME NEW c, CoreOK(c), NEW now, LightInv(c, now), ShownInv(c), NEW d, Asked(c, d)
  PROVE  LightInv(d, now) /\ AskedInv(d)
<1>1. /\ c \in CoreType /\ ModesOK(c.modes) /\ c.modes.open \in SUBSET Overrides
      /\ c.modes.mode \in Overrides => c.modes.mode \in c.modes.open
      /\ c.modes.mode \in Bases => c.modes.open = {}
      /\ c.over \in BOOLEAN
  BY ModesAre, CoreIs DEF CoreOK
<1>2. c.light.started => c.light.lastMode = c.modes.mode /\ (c.modes.mode \in Bases => c.light.seen)
  BY DEF ShownInv
<1>3. ~c.light.started => c.light.actual = <<"zero">>
  BY DEF LightInv
<1>4. c.over => "Simulation" \in c.modes.open
  BY DEF LightInv
<1>5. Bases \cap Overrides = {}
  BY DEF Bases, Overrides
<1>6. CASE d = c
  BY <1>2, <1>5, <1>6 DEF AskedInv
<1>7. CASE Opens(c, d)
  <2>1. PICK o \in Overrides :
          /\ o \notin c.modes.open /\ d.modes.open = c.modes.open \cup {o} /\ d.modes.mode = o
          /\ d.session[o].age = 0
          /\ o = "ChannelTest" => d.session[o].limit = 0
          /\ o = "Manual" => d.session[o].limit # 1
          /\ \A p \in Overrides \ {o} : d.session[p] = c.session[p]
          /\ d.over = c.over /\ SameLight(c.light, d.light) /\ d.light.started = c.light.started
    BY <1>7, OpensIs
  <2>2. ~d.light.started => d.light.actual = <<"zero">>
    BY <1>3, <2>1 DEF SameLight
  <2>3. d.light.started /\ c.light.lastMode \in Overrides /\ c.light.lastMode \in d.modes.open =>
          /\ c.light.lastMode \in c.modes.open
          /\ d.session[c.light.lastMode].last = c.session[c.light.lastMode].last
    BY <1>1, <1>2, <2>1
  <2>4. LightInv(d, now)
    BY <1>4, <2>1, <2>2, <2>3, SameKeepsLight
  <2>5. ASSUME d.light.started, d.light.lastMode \in Bases PROVE Fresh(d)
    <3>1. c.modes.open = {} /\ ~c.over
      BY <1>1, <1>2, <1>4, <2>1, <2>5 DEF SameLight
    <3> QED BY <2>1, <3>1 DEF Fresh
  <2> QED BY <1>5, <2>1, <2>4, <2>5 DEF AskedInv
<1>8. CASE Ends(c, d)
  <2>1. PICK o \in Overrides :
          /\ CanClose(c.modes, o) /\ d.modes.open = c.modes.open \ {o}
          /\ \A p \in Overrides \ {o} : d.session[p] = c.session[p]
          /\ d.over = (c.over /\ o # "Simulation")
          /\ SameLight(c.light, d.light) /\ d.light.started = c.light.started
    BY <1>8, EndsIs
  <2>2. ~d.light.started => d.light.actual = <<"zero">>
    BY <1>3, <2>1 DEF SameLight
  <2>3. d.light.started /\ c.light.lastMode \in Overrides /\ c.light.lastMode \in d.modes.open =>
          /\ c.light.lastMode \in c.modes.open
          /\ d.session[c.light.lastMode].last = c.session[c.light.lastMode].last
    BY <1>1, <1>2, <2>1
  <2>4. d.over => "Simulation" \in d.modes.open
    BY <1>1, <1>4, <2>1
  <2>5. LightInv(d, now)
    BY <2>1, <2>2, <2>3, <2>4, SameKeepsLight
  <2>6. o \in c.modes.open
    BY <2>1 DEF CanClose
  <2>7. ~(d.light.started /\ d.light.lastMode \in Bases)
    BY <1>1, <1>2, <2>1, <2>6 DEF SameLight
  <2> QED BY <2>5, <2>7 DEF AskedInv
<1>9. CASE Changes(c, d)
  <2>1. PICK o \in Overrides, v \in Values : c.modes.mode = o /\ d = [c EXCEPT !.session[o].value = v]
    BY <1>9 DEF Changes
  <2>2. /\ d.modes = c.modes /\ d.over = c.over /\ d.light = c.light
        /\ \A p \in Overrides : d.session[p].last = c.session[p].last
    BY <1>1, <2>1, ChangedIs
  <2>3. SameLight(c.light, d.light)
    BY <2>2 DEF SameLight
  <2>4. LightInv(d, now)
    BY <1>1, <1>2, <1>3, <1>4, <2>2, <2>3, SameKeepsLight
  <2>5. ~(d.light.started /\ d.light.lastMode \in Bases)
    BY <1>2, <1>5, <2>1, <2>2
  <2> QED BY <2>4, <2>5 DEF AskedInv
<1>10. CASE Rebases(c, d)
  <2>1. PICK b \in Bases : CanRebase(c.modes, b) /\ d = ToBase(c, b)
    BY <1>10 DEF Rebases
  <2>2. /\ d.modes = Rebased(c.modes, b) /\ d.session = c.session /\ d.over = c.over
        /\ SameLight(c.light, d.light) /\ d.light.started = c.light.started
        /\ d.light.seen = (c.light.seen /\ d.modes.mode \in Bases)
    BY <1>1, <2>1, ToBaseIs
  <2>3. d.modes.open = c.modes.open /\ d.modes.mode = Top(c.modes.open, b)
    BY <1>1, <2>1, <2>2, RebasedIs, CoreIs
  <2>4. ~d.light.started => d.light.actual = <<"zero">>
    BY <1>3, <2>2 DEF SameLight
  <2>5. LightInv(d, now)
    BY <1>1, <1>2, <1>4, <2>2, <2>3, <2>4, SameKeepsLight
  <2>6. ASSUME d.light.started, d.light.lastMode \in Bases
        PROVE  d.modes.mode \in Bases /\ d.light.seen
    <3>1. c.modes.open = {} /\ c.light.seen
      BY <1>1, <1>2, <2>2, <2>6 DEF SameLight
    <3>2. d.modes.mode \in Bases
      BY <2>3, <3>1, TopOfNone
    <3> QED BY <2>2, <3>1, <3>2
  <2> QED BY <1>5, <2>5, <2>6 DEF AskedInv
<1>11. CASE GoesOff(c, d)
  <2>1. /\ d.modes = SwitchedOff(c.modes) /\ ~d.over
        /\ SameLight(c.light, d.light) /\ d.light.started = c.light.started
    BY <1>1, <1>11, EnterOffIs DEF GoesOff
  <2>2. d.modes.open = {} /\ d.modes.mode = "Off"
    BY <1>1, <1>11, <2>1, SwitchedOffIs, CoreIs DEF GoesOff
  <2>3. ~d.light.started => d.light.actual = <<"zero">>
    BY <1>3, <2>1 DEF SameLight
  <2>4. LightInv(d, now)
    BY <2>1, <2>2, <2>3, SameKeepsLight
  <2>5. d.modes.mode \notin Bases /\ d.modes.mode \notin Overrides
    BY <2>2 DEF Bases, Overrides
  <2> QED BY <2>4, <2>5 DEF AskedInv
<1>12. CASE GoesOn(c, d)
  <2>1. /\ d.modes = SwitchedOn(c.modes) /\ d.over = c.over
        /\ SameLight(c.light, d.light) /\ ~d.light.started
    BY <1>1, <1>12, ExitOffIs DEF GoesOn
  <2>2. d.modes.open = {} /\ c.modes.open = {} /\ c.modes.mode = "Off"
    BY <1>1, <1>12, <2>1, SwitchedOnIs, ModesAre DEF GoesOn
  <2>3. ~c.light.started
    BY <2>2 DEF ShownInv
  <2>4. d.light.actual = <<"zero">>
    BY <1>3, <2>1, <2>3 DEF SameLight
  <2>5. LightInv(d, now)
    BY <1>4, <2>1, <2>2, <2>4, SameKeepsLight
  <2> QED BY <2>1, <2>5 DEF AskedInv
<1> QED BY <1>6, <1>7, <1>8, <1>9, <1>10, <1>11, <1>12 DEF Asked

\* A core that has begun shows nothing.
LEMMA BeginIsDark ==
  ASSUME NEW now
  PROVE  LightInv(Begin, now) /\ ShownInv(Begin) /\ AskedInv(Begin)
<1>1. /\ ~Begin.light.started /\ Begin.light.actual = <<"zero">> /\ ~Begin.light.tr.active /\ ~Begin.over
  BY BeginIs DEF Dark, Still
<1> QED BY <1>1 DEF LightInv, ShownInv, AskedInv

LEMMA ShownIsAsked ==
  ASSUME NEW c, ShownInv(c)
  PROVE  AskedInv(c)
<1>1. Bases \cap Overrides = {}
  BY DEF Bases, Overrides
<1> QED BY <1>1 DEF ShownInv, AskedInv

\* Every step of loop() keeps it.
LEMMA NextSmoothInv == LampInv /\ SmoothInv /\ [Next]_vars => SmoothInv'
<1> SUFFICES ASSUME LampInv, SmoothInv, [Next]_vars PROVE SmoothInv'
  OBVIOUS
<1>0. /\ CoreOK(core) /\ profile \in Profiles /\ at \in Points /\ phase \in {"pass", "web"}
      /\ LightInv(core, at)
  BY DEF LampInv, SmoothInv
<1>1. ASSUME LightInv(core', at'), phase' = "web" => ShownInv(core'), phase' = "pass" => AskedInv(core')
      PROVE  SmoothInv'
  BY <1>1 DEF SmoothInv, LightInv, ShownInv, AskedInv, Fresh
<1>2. CASE Reboot
  BY <1>1, <1>2, BeginIsDark DEF Reboot, Starts
<1>3. CASE Tick
  <2>1. ASSUME NEW valid \in BOOLEAN, NEW next \in Points, Pass(valid, next)
        PROVE  SmoothInv'
    <3> DEFINE after == Update(core, valid, profile, next, <<at, next>> \notin Drifts)
    <3>1. LightInv(after, next) /\ ShownInv(after)
      BY <1>0, PassKeepsLight
    <3>2. core' = after \/ core' = Begin
      BY <2>1 DEF Pass, FailSafe
    <3>3. phase' = "web" /\ at' = next
      BY <2>1 DEF Pass
    <3> HIDE DEF after
    <3>4. LightInv(core', at') /\ ShownInv(core')
      BY <3>1, <3>2, <3>3, BeginIsDark
    <3> QED BY <1>1, <3>3, <3>4
  <2> QED BY <1>0, <1>3, <2>1 DEF Tick
<1>4. CASE NoRequest
  <2>1. phase = "web" /\ phase' = "pass" /\ core' = core /\ at' = at
    BY <1>4 DEF NoRequest, Web
  <2> QED BY <1>0, <1>1, <2>1, ShownIsAsked DEF SmoothInv
<1>5. CASE Commands
  <2>1. Asked(core, core') /\ Request /\ at' = at
    BY <1>0, <1>5, CommandsAsk DEF CoreOK
  <2>2. phase = "web" /\ phase' = "pass"
    BY <2>1 DEF Request, Web
  <2>3. LightInv(core', at') /\ AskedInv(core')
    BY <1>0, <2>1, <2>2, AskedKeepsLight DEF SmoothInv
  <2> QED BY <1>1, <2>2, <2>3
<1>6. CASE Select
  <2>1. phase = "web" /\ phase' = "pass" /\ core' = core /\ at' = at
    BY <1>6 DEF Select, SetActiveProfileIndex, Request, Web
  <2> QED BY <1>0, <1>1, <2>1, ShownIsAsked DEF SmoothInv
<1>7. CASE UNCHANGED vars
  <2>1. core' = core /\ at' = at /\ phase' = phase
    BY <1>7 DEF vars
  <2> QED BY <1>1, <2>1 DEF SmoothInv
<1> QED BY <1>2, <1>3, <1>4, <1>5, <1>6, <1>7 DEF Next, Commands

\* What a pass compares with is what the last pass has shown, in every reachable state.
THEOREM AlwaysSmoothInv == Spec => []SmoothInv
<1>1. Init => SmoothInv
  BY BeginIsDark DEF Init, SmoothInv
<1> QED BY <1>1, AlwaysLampInv, NextSmoothInv, PTL DEF Spec

\* What a step does to the light, in the words of Smooth.
Follows(l, n) ==
  n.started => \/ n.actual = l.actual
               \/ /\ l.tr.active
                  /\ n.actual = IF l.tr.age + 1 < l.tr.length THEN <<"mid">> ELSE l.requested

LEMMA PassFollows ==
  ASSUME NEW c, CoreOK(c), NEW was \in Points, LightInv(c, was), AskedInv(c), NEW valid \in BOOLEAN,
         NEW p \in Profiles, NEW now \in Points
  PROVE  Follows(c.light, Update(c, valid, p, now, <<was, now>> \notin Drifts).light)
<1> DEFINE jump == <<was, now>> \notin Drifts  t == Timeouts(c)
           d == Update(c, valid, p, now, jump)
           s == Shown(t, ShownProfile(c, p), now, SeenJump(c, jump))
<1>1. /\ t.modes.mode = "Off" \/ ~valid => ~d.light.started
      /\ t.modes.mode # "Off" /\ valid => d = SimulationNext(s) /\ CoreOK(s)
  BY UpdateIs
<1>2. CASE t.modes.mode = "Off" \/ ~valid
  BY <1>1, <1>2 DEF Follows
<1>3. CASE t.modes.mode # "Off" /\ valid
  <2>1. d.light = s.light
    BY <1>1, <1>3, SimulationNextIs
  <2>2. s.light.actual = StartFrom(t.light)
    BY <1>3, ShownSmooth
  <2>3. \/ StartFrom(t.light) = c.light.actual
        \/ /\ c.light.tr.active
           /\ StartFrom(t.light) = IF c.light.tr.age + 1 < c.light.tr.length THEN <<"mid">> ELSE c.light.requested
    BY StartsWhereItIs
  <2> HIDE DEF d, s, t
  <2>4. Follows(c.light, d.light)
    BY <2>1, <2>2, <2>3 DEF Follows
  <2> QED BY <2>4 DEF d
<1> QED BY <1>2, <1>3

\* The light never jumps, for every length of the transitions of more than a tick and every
\* profile, level and timeout: see Smooth (LumaCore::update, TransitionEngine).
THEOREM LightNeverJumps == Spec => Smooth
<1>1. LampInv /\ SmoothInv /\ [Next]_vars => Follows(core.light, core'.light) \/ UNCHANGED core
  <2> SUFFICES ASSUME LampInv, SmoothInv, [Next]_vars
               PROVE  Follows(core.light, core'.light) \/ UNCHANGED core
    OBVIOUS
  <2>0. /\ CoreOK(core) /\ profile \in Profiles /\ at \in Points
        /\ LightInv(core, at)
    BY DEF LampInv, SmoothInv
  <2>1. Follows(core.light, Begin.light)
    BY BeginIs DEF Follows
  <2>2. CASE Reboot
    BY <2>1, <2>2 DEF Reboot, Starts
  <2>3. CASE Tick
    <3>1. ASSUME NEW valid \in BOOLEAN, NEW next \in Points, Pass(valid, next)
          PROVE  Follows(core.light, core'.light)
      <4> DEFINE after == Update(core, valid, profile, next, <<at, next>> \notin Drifts)
      <4>1. AskedInv(core)
        BY <3>1 DEF Pass, SmoothInv
      <4>2. Follows(core.light, after.light)
        BY <2>0, <4>1, PassFollows
      <4>3. core' = after \/ core' = Begin
        BY <3>1 DEF Pass, FailSafe
      <4> HIDE DEF after
      <4> QED BY <2>1, <4>2, <4>3
    <3> QED BY <2>0, <2>3, <3>1 DEF Tick
  <2>4. CASE Commands
    <3>1. core'.light.actual = core.light.actual
      BY <2>0, <2>4, CommandsAsk, AskedIs DEF CoreOK, SameLight
    <3> QED BY <3>1 DEF Follows
  <2>5. CASE NoRequest \/ Select \/ UNCHANGED vars
    BY <2>5 DEF NoRequest, Select, SetActiveProfileIndex, vars
  <2> QED BY <2>2, <2>3, <2>4, <2>5 DEF Next, Commands
<1>2. LampInv /\ SmoothInv /\ [Next]_vars =>
        [LET l == core.light  n == core'.light IN
         n.started => \/ n.actual = l.actual
                      \/ /\ l.tr.active
                         /\ n.actual = IF l.tr.age + 1 < l.tr.length THEN <<"mid">> ELSE l.requested]_core
  BY <1>1 DEF Follows
<1> QED BY <1>2, AlwaysLampInv, AlwaysSmoothInv, PTL DEF Spec, Smooth
===============================================================================
