------------------------------- MODULE NtpService -------------------------------
(***************************************************************************)
(* NtpService of aquaOneCore: one attempt at a time to ask a server for the *)
(* time and to set the battery clock by the answer.  Times are ticks since  *)
(* a moment, not counted past the limit they are compared with.             *)
(***************************************************************************)
EXTENDS Naturals

CONSTANTS NtpTimeout, NtpInterval   \* timeoutMs, syncIntervalMs
ASSUME NtpAssumption == NtpTimeout \in Nat \ {0} /\ NtpInterval \in Nat \ {0}

\* begin(): without a server or a limit it fails, and nothing is ever asked.
NtpBegun(works) == [up |-> works, going |-> FALSE, attempt |-> 0, period |-> 0,
                    result |-> FALSE, started |-> FALSE]

\* A tick passes.
NtpOlder(s) == [s EXCEPT !.attempt = IF @ < NtpTimeout THEN @ + 1 ELSE @,
                         !.period = IF @ < NtpInterval THEN @ + 1 ELSE @, !.started = FALSE]

\* finishAttempt()
Finished(s) == [s EXCEPT !.going = FALSE, !.result = TRUE, !.period = 0]

\* requestSync(); "starts" says whether the backend starts.
RequestSync(s, wifi, starts) ==
  IF ~s.up \/ s.going THEN s
  ELSE IF wifi /\ starts THEN [s EXCEPT !.going = TRUE, !.attempt = 0, !.started = TRUE]
  ELSE [Finished(s) EXCEPT !.attempt = 0]

\* requestPeriodicSync()
\* mutant: after one result nothing is ever asked again
OnlyOnce(s) == s.up /\ ~s.going /\ ~s.result /\ s.period >= NtpInterval
PeriodicSyncDue(s) == s.up /\ ~s.going /\ s.period >= NtpInterval
RequestPeriodicSync(s, wifi, starts) == IF PeriodicSyncDue(s) THEN RequestSync(s, wifi, starts) ELSE s

\* update(): an answer counts only while an attempt goes on, in time and with Wi-Fi.
Gone(s, wifi) == s.going /\ (~wifi \/ s.attempt >= NtpTimeout)
Hears(s, wifi) == s.going /\ ~Gone(s, wifi)
NtpUpdated(s, wifi, answer) ==
  IF Gone(s, wifi) \/ (s.going /\ answer # "Pending") THEN Finished(s) ELSE s
=============================================================================
