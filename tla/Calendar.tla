-------------------------------- MODULE Calendar --------------------------------
(***************************************************************************)
(* The calendar arithmetic behind the time of a device: the registers of    *)
(* the battery clock, days since 1970, seconds added to a date, the local   *)
(* time of Warsaw, and the time stamps of the doser.  A time is a record of *)
(* year, month, day, hour, minute and second; NoTime is one not `valid'.    *)
(* A time stamp is a pair of days and seconds since 1970, because TLC's     *)
(* numbers end at 2^31.                                                     *)
(***************************************************************************)
EXTENDS Integers, FiniteSetsExt

CONSTANT Years    \* bound: the years whose days are examined
ASSUME YearsAssumption == Years \subseteq 2000..2199

NoTime == [year |-> 0, month |-> 0, day |-> 0, hour |-> 0, minute |-> 0, second |-> 0]

-----------------------------------------------------------------------------
(* Dates *)

EveryFourth(y) == y % 4 = 0        \* mutant
IsLeapYear(y) == (y % 4 = 0 /\ y % 100 # 0) \/ y % 400 = 0
DaysInMonth(y, m) ==
  CASE m \in {4, 6, 9, 11} -> 30
    [] m = 2 -> IF IsLeapYear(y) THEN 29 ELSE 28
    [] m \in {1, 3, 5, 7, 8, 10, 12} -> 31
    [] OTHER -> 0

\* Days since 1970, and back, over eras of 400 years that begin in March.
DaysFromCivil(y, m, d) ==
  LET y1 == IF m <= 2 THEN y - 1 ELSE y
      yearOfEra == y1 % 400
      dayOfYear == (153 * (IF m > 2 THEN m - 3 ELSE m + 9) + 2) \div 5 + d - 1
  IN  (y1 \div 400) * 146097 + yearOfEra * 365 + yearOfEra \div 4 - yearOfEra \div 100
        + dayOfYear - 719468
CivilFromDays(days) ==
  LET z == days + 719468
      doe == z % 146097
      yoe == (doe - doe \div 1460 + doe \div 36524 - doe \div 146096) \div 365
      doy == doe - (365 * yoe + yoe \div 4 - yoe \div 100)
      mp == (5 * doy + 2) \div 153
      m == IF mp < 10 THEN mp + 3 ELSE mp - 9
  IN  [year |-> yoe + (z \div 146097) * 400 + (IF m <= 2 THEN 1 ELSE 0), month |-> m,
       day |-> doy - (153 * mp + 2) \div 5 + 1]

\* Zeller's congruence: 0 is Sunday.
DayOfWeek(y, m, d) ==
  LET m1 == IF m < 3 THEN m + 12 ELSE m
      y1 == IF m < 3 THEN y - 1 ELSE y
      k == y1 % 100
      j == y1 \div 100
  IN  (d + (13 * (m1 + 1)) \div 5 + k + k \div 4 + j \div 4 + 5 * j + 6) % 7
LastSunday(y, m) == DaysInMonth(y, m) - DayOfWeek(y, m, DaysInMonth(y, m))

-----------------------------------------------------------------------------
(* Times *)

Tomorrow(t) ==
  IF t.day < DaysInMonth(t.year, t.month) THEN [t EXCEPT !.day = @ + 1]
  ELSE IF t.month < 12 THEN [t EXCEPT !.day = 1, !.month = @ + 1]
  ELSE [t EXCEPT !.day = 1, !.month = 1, !.year = @ + 1]
SecondOfDay(t) == t.hour * 3600 + t.minute * 60 + t.second

\* n is at most a day
AddMinutes(t, n) ==
  LET total == t.hour * 60 + t.minute + n
      date == IF total >= 1440 THEN Tomorrow(t) ELSE t
  IN  [date EXCEPT !.hour = (total % 1440) \div 60, !.minute = total % 60]
AddSeconds(t, n) ==
  LET total == SecondOfDay(t) + n
      date == CivilFromDays(DaysFromCivil(t.year, t.month, t.day) + total \div 86400)
      s == total % 86400
  IN  [year |-> date.year, month |-> date.month, day |-> date.day,
       hour |-> s \div 3600, minute |-> (s % 3600) \div 60, second |-> s % 60]
AddOneSecond(t) ==
  IF t.second < 59 THEN [t EXCEPT !.second = @ + 1]
  ELSE IF t.minute < 59 THEN [t EXCEPT !.second = 0, !.minute = @ + 1]
  ELSE IF t.hour < 23 THEN [t EXCEPT !.second = 0, !.minute = 0, !.hour = @ + 1]
  ELSE Tomorrow([t EXCEPT !.second = 0, !.minute = 0, !.hour = 0])

IsValidUtc(t) ==
  /\ t.year \in 2000..2199 /\ t.month \in 1..12 /\ t.day \in 1..DaysInMonth(t.year, t.month)
  /\ t.hour \in 0..23 /\ t.minute \in 0..59 /\ t.second \in 0..59

\* isDstEuropeWarsaw and convertUtcToWarsaw
IsDst(t) ==
  \/ t.month \in 4..9
  \/ /\ t.month = 3
     /\ \/ t.day > LastSunday(t.year, 3)
        \/ t.day = LastSunday(t.year, 3) /\ t.hour >= 1
  \/ /\ t.month = 10
     /\ \/ t.day < LastSunday(t.year, 10)
        \/ t.day = LastSunday(t.year, 10) /\ t.hour < 1
ToWarsaw(t) == AddMinutes(t, IF IsDst(t) THEN 120 ELSE 60)

-----------------------------------------------------------------------------
(* The registers of the battery clock: seven bytes *)

DecToBcd(v) == ((v \div 10) * 16) + (v % 10)
Bcd(b) == ((b \div 16) * 10) + (b % 16)
IsBcd(b, maximum) == b % 16 <= 9 /\ b \div 16 <= 9 /\ Bcd(b) <= maximum
Bit(b, mask) == (b \div mask) % 2 = 1

Registers(t) ==
  <<DecToBcd(t.second), DecToBcd(t.minute), DecToBcd(t.hour), DecToBcd(1), DecToBcd(t.day),
    DecToBcd(t.month) + (IF t.year >= 2100 THEN 128 ELSE 0), DecToBcd(t.year % 100)>>

\* A clock may count twelve hours twice.
HourOf(b) ==
  IF Bit(b, 64) THEN (Bcd(b % 32) % 12) + (IF Bit(b, 32) THEN 12 ELSE 0) ELSE Bcd(b % 64)
IsHour(b) ==
  /\ ~Bit(b, 128)
  /\ IF Bit(b, 64) THEN IsBcd(b % 32, 12) /\ Bcd(b % 32) >= 1 ELSE IsBcd(b % 64, 23)

Decoded(r) ==
  LET t == [second |-> Bcd(r[1]), minute |-> Bcd(r[2]), hour |-> HourOf(r[3]), day |-> Bcd(r[5]),
            month |-> Bcd(r[6] % 32),
            year |-> 2000 + (IF Bit(r[6], 128) THEN 100 ELSE 0) + Bcd(r[7])]
  IN  IF /\ IsBcd(r[1], 59) /\ IsBcd(r[2], 59) /\ IsHour(r[3]) /\ IsBcd(r[5], 31)
         /\ ~Bit(r[6], 64) /\ ~Bit(r[6], 32) /\ IsBcd(r[6] % 32, 12) /\ IsBcd(r[7], 99)
         /\ IsValidUtc(t)
      THEN t ELSE NoTime

\* setUtc() reads back what it wrote, up to a second later.
MatchesWritten(read, t) == read = t \/ read = AddOneSecond(t)

-----------------------------------------------------------------------------
(* Time stamps *)

Epoch == <<0, 0>>
Stamp(t) == <<DaysFromCivil(t.year, t.month, t.day), SecondOfDay(t)>>
NotAfter(a, b) == a[1] < b[1] \/ (a[1] = b[1] /\ a[2] <= b[2])

\* RtcWallClock: 64 bits are enough.  "none" when the time is not valid.
UtcTimestamp(t) == IF IsValidUtc(t) THEN Stamp(t) ELSE <<>>

\* The doser's localTimeToEpoch has 32 bits, which end on 7 February 2106, and
\* getUtcTimestamp gives 0 for all before MIN_VALID_TIMESTAMP, 14 November 2023.
LastStamp == <<49710, 23295>>
MinValid == <<19675, 80000>>
LocalTimeToEpoch(t) == IF NotAfter(Stamp(t), LastStamp) THEN Stamp(t) ELSE Epoch
GetUtcTimestamp(t) ==
  IF NotAfter(MinValid, LocalTimeToEpoch(t)) THEN LocalTimeToEpoch(t) ELSE Epoch

-----------------------------------------------------------------------------
(* Properties                                                               *)

\* The examined instants: the hours about every change, at their first and last second.
Days == {x \in Years \X (1..12) \X (1..31) : x[3] <= DaysInMonth(x[1], x[2])}
Instants ==
  {[year |-> x[1], month |-> x[2], day |-> x[3], hour |-> h, minute |-> s, second |-> s] :
     x \in Days, h \in {0, 1, 12, 22, 23}, s \in {0, 59}}

\* The month tables, the eras and Zeller's congruence count the same days.
DaysAgree ==
  \A x \in Days :
    LET n == DaysFromCivil(x[1], x[2], x[3])
        t == [NoTime EXCEPT !.year = x[1], !.month = x[2], !.day = x[3]]
        u == Tomorrow(t)
    IN  /\ CivilFromDays(n) = [year |-> x[1], month |-> x[2], day |-> x[3]]
        /\ DaysFromCivil(u.year, u.month, u.day) = n + 1
        /\ DayOfWeek(x[1], x[2], x[3]) = (n + 4) % 7
\* A time written to the registers is read back, and the three ways to add agree.
TimesAgree ==
  \A t \in Instants :
    /\ Decoded(Registers(t)) = t
    /\ AddOneSecond(t) = AddSeconds(t, 1)
    /\ \A n \in {1, 60, 120} : AddMinutes(t, n) = AddSeconds(t, 60 * n)
\* Warsaw's clocks go forward and back an hour at 01:00 UTC of the last Sundays of March and
\* October, and never otherwise.
ChangeOf(y, m) == <<Max({n \in DaysFromCivil(y, m, 25)..DaysFromCivil(y, m, 31) : (n + 4) % 7 = 0}),
                    3600>>
WarsawChanges ==
  \A t \in Instants :
    LET summer == /\ NotAfter(ChangeOf(t.year, 3), Stamp(t))
                  /\ ~NotAfter(ChangeOf(t.year, 10), Stamp(t))
    IN  ToWarsaw(t) = AddSeconds(t, IF summer THEN 7200 ELSE 3600)
\* The doser's stamps are those of the wall clock, or 0: they never begin again.
StampsAgree ==
  \A t \in Instants : GetUtcTimestamp(t) \in {UtcTimestamp(t), Epoch}
=============================================================================
