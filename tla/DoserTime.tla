-------------------------------- MODULE DoserTime --------------------------------
(***************************************************************************)
(* The time of the doser: ResilientTimeService, which remembers the last     *)
(* time it was told and counts on from it, and the part of TimeManager::loop *)
(* that decides when to read the battery clock and when to ask for the time. *)
(* Both live in one record.                                                 *)
(***************************************************************************)
EXTENDS Naturals

CONSTANTS
  Failures, Recoveries,  \* failureThreshold, recoveryThreshold
  ProbeInterval,         \* unhealthyProbeIntervalMs; a healthy clock is read every tick
  Retry,                 \* the ten seconds between attempts until one has succeeded
  Wrap                   \* 2^32 ms, at which millis() begins again
ASSUME DoserTimeAssumption ==
  /\ {Failures, Recoveries, ProbeInterval, Retry, Wrap} \subseteq Nat \ {0} /\ Retry < Wrap

\* begin(), with the first reading of the clock, "none" where it has none.
Remembers(reading) ==
  [healthy |-> reading # "none", failures |-> IF reading = "none" THEN 1 ELSE 0,
   successes |-> IF reading = "none" THEN 0 ELSE Recoveries, polled |-> 0,
   cache |-> reading, age |-> 0, was |-> FALSE, synced |-> FALSE, last |-> 0]
NoClock == [Remembers("none") EXCEPT !.failures = 0]

\* A tick passes.  What is compared in 32 bits wraps; the age of the cache is not counted
\* past the wrap, after which the time made of it is wrong in any case.
MemoryOlder(m) ==
  [m EXCEPT !.polled = IF @ < ProbeInterval THEN @ + 1 ELSE @,
            !.age = IF @ < Wrap THEN @ + 1 ELSE @, !.last = IF @ + 1 < Wrap THEN @ + 1 ELSE 0]

\* poll()
Polled(m, reading) ==
  IF reading # "none"
  THEN LET successes == IF m.healthy THEN Recoveries ELSE m.successes + 1 IN
       [m EXCEPT !.polled = 0, !.cache = reading, !.age = 0, !.failures = 0,
                 !.successes = successes, !.healthy = @ \/ successes >= Recoveries]
  ELSE LET failures == IF m.failures < Failures THEN m.failures + 1 ELSE m.failures IN
       [m EXCEPT !.polled = 0, !.successes = 0, !.failures = failures,
                 !.healthy = @ /\ failures < Failures]
PollDue(m) == m.healthy \/ m.polled >= ProbeInterval

\* syncUtc(), of a valid time
Told(m) == [m EXCEPT !.cache = "right", !.age = 0, !.synced = TRUE]

\* now()
Now(m) == IF m.cache = "right" /\ m.age >= Wrap THEN "wrong" ELSE m.cache

\* Which of its three requests loop() makes, if any.
Asks(m, wifi, going) ==
  IF wifi /\ ~m.was THEN "session"
  ELSE IF wifi /\ (~m.synced \/ m.cache = "none")
       THEN IF ~going /\ m.last >= Retry THEN "retry" ELSE "nothing"
  ELSE IF wifi THEN "periodic"
  ELSE "nothing"
\* mutant: only a repeated attempt is remembered
RetryRemembered(m, asks, started) == [m EXCEPT !.last = IF asks = "retry" THEN 0 ELSE @]
Attempted(m, asks, started) ==
  [m EXCEPT !.last = IF asks = "retry" \/ (asks = "session" /\ started) THEN 0 ELSE @]
=============================================================================
