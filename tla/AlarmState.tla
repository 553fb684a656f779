------------------------------ MODULE AlarmState ------------------------------
(***************************************************************************)
(* AlarmState of aquaOneCore: one alarm, as a record, and its operations,   *)
(* with the transition each reports and the event that is made of it.       *)
(* Whether the alarm latches is the alarm's, and is passed in.              *)
(***************************************************************************)

NewAlarm == [cond |-> FALSE, active |-> FALSE, ack |-> FALSE,
             known |-> FALSE, tried |-> FALSE, live |-> FALSE]

\* persistentState(): the one fact that outlives a restart.
Pending(a, latched) == latched /\ a.active

\* restore(): the first attempt uses up the right to restore, whether or not it succeeds.
Restored(a, latched, pending) ==
  IF a.tried THEN a
  ELSE IF a.live \/ (pending /\ ~latched) THEN [a EXCEPT !.tried = TRUE]
  ELSE [a EXCEPT !.tried = TRUE, !.active = pending, !.ack = FALSE]

\* setCondition()
Conditioned(a, latched, c) ==
  LET seen == [a EXCEPT !.live = TRUE, !.known = TRUE, !.cond = c] IN
  IF c = a.cond THEN seen
  ELSE IF c THEN [seen EXCEPT !.active = TRUE, !.ack = FALSE]
  ELSE IF latched THEN seen
  ELSE [seen EXCEPT !.active = FALSE, !.ack = FALSE]
ConditionTransition(a, latched, c) ==
  IF c = a.cond THEN "NoChange"
  ELSE IF ~c THEN IF latched THEN "ConditionRecovered" ELSE "Cleared"
  ELSE IF ~a.active THEN "Activated"
  ELSE IF a.known THEN "Reoccurred" ELSE "ConditionConfirmed"

\* acknowledge()
CanAcknowledge(a) == a.active /\ ~a.ack
Acknowledged(a) == [a EXCEPT !.live = TRUE, !.ack = @ \/ a.active]

\* clearLatched()
\* mutant: an alarm restored after a restart is cleared before its condition was looked at
ClearsUnseen(a, latched) == latched /\ ~a.cond /\ a.active
CanClear(a, latched) == latched /\ a.known /\ ~a.cond /\ a.active
Cleared(a, latched) ==
  IF CanClear(a, latched) THEN [a EXCEPT !.live = TRUE, !.active = FALSE, !.ack = FALSE]
  ELSE [a EXCEPT !.live = TRUE]

\* emitTransition(): which transitions are told, with the alarm as it then is.
\* mutant: only an alarm that clears by itself is told to be clear
TellsSome(t) == t \in {"Activated", "Acknowledged", "ConditionRecovered", "Cleared", "Reoccurred"}
Tells(t) == t \in {"Activated", "Acknowledged", "ConditionRecovered", "Cleared", "LatchCleared",
                   "Reoccurred"}
=============================================================================
