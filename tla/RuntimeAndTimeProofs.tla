------------------------- MODULE RuntimeAndTimeProofs -------------------------
(***************************************************************************)
(* Theorems about the Core's application runtime with its alarms and its    *)
(* command gate, and about the time and the network of a device.            *)
(***************************************************************************)
EXTENDS CoreRuntime, DeviceTime, TLAPS

(***************************************************************************)
(* Alarms and the command gate of the runtime, for every plan, set of       *)
(* alarms, provider and restart.  What an alarm's events tell rests on one  *)
(* fact more: an alarm that was heard of can no longer be restored.  The    *)
(* gate rests on the time at which the status was last written: between two *)
(* refreshes it may be stale, never wrong about what it was written from.   *)
(***************************************************************************)

AlarmType == [cond : BOOLEAN, active : BOOLEAN, ack : BOOLEAN,
              known : BOOLEAN, tried : BOOLEAN, live : BOOLEAN]
EventType == [cond : BOOLEAN, active : BOOLEAN, ack : BOOLEAN, heard : BOOLEAN]

\* What one alarm and its last event have to do with each other.
EventOK(t, a) ==
  /\ IF t.heard THEN t.active = a.active /\ (a.ack => t.ack)
     ELSE a.active => a.tried
  /\ t.heard => a.live

AlarmTypes ==
  /\ alarms \in [Alarms -> AlarmType] /\ told \in [Alarms -> EventType]
  /\ stored \in [Alarms -> BOOLEAN]
AlarmInv == AlarmTypes /\ \A a \in Alarms : EventOK(told[a], alarms[a])

\* One step of one alarm: t is its last event, a the alarm, u and b those after the step.
Moves(t, a, latched, u, b, what) ==
  /\ b \in AlarmType /\ u \in EventType /\ EventOK(u, b)
  /\ latched /\ a.active /\ ~b.active => what = "clear" /\ a.known /\ ~a.cond

\* The event that Becomes leaves of a transition.
Event(b, t, transition) ==
  IF Tells(transition)
  THEN [cond |-> b.cond, active |-> b.active, ack |-> b.ack, heard |-> TRUE] ELSE t

-----------------------------------------------------------------------------
(* One alarm *)

\* setCondition() keeps the event true to the alarm: what it does not tell has not changed.
LEMMA ConditionMoves ==
  ASSUME NEW t \in EventType, NEW a \in AlarmType, NEW latched \in BOOLEAN, NEW c \in BOOLEAN,
         EventOK(t, a)
  PROVE  LET b == Conditioned(a, latched, c)
         IN  Moves(t, a, latched, Event(b, t, ConditionTransition(a, latched, c)), b, "none")
<1> DEFINE b == Conditioned(a, latched, c)
           tr == ConditionTransition(a, latched, c)
<1>1. CASE c = a.cond
  <2>1. b = [a EXCEPT !.live = TRUE, !.known = TRUE, !.cond = c] /\ tr = "NoChange"
    BY <1>1 DEF Conditioned, ConditionTransition
  <2>2. Event(b, t, tr) = t
    BY <2>1 DEF Event, Tells
  <2> QED
    BY <2>1, <2>2 DEF Moves, EventOK, AlarmType, EventType
<1>2. CASE c /\ ~a.cond
  <2>1. b = [a EXCEPT !.live = TRUE, !.known = TRUE, !.cond = c, !.active = TRUE, !.ack = FALSE]
    BY <1>2 DEF Conditioned, AlarmType
  <2>2. tr \in {"Activated", "Reoccurred", "ConditionConfirmed"} /\ (~a.active => tr = "Activated")
    BY <1>2 DEF ConditionTransition
  <2> QED
    BY <1>2, <2>1, <2>2 DEF Moves, EventOK, AlarmType, EventType, Event, Tells
<1>3. CASE ~c /\ a.cond
  <2>1. b = IF latched THEN [a EXCEPT !.live = TRUE, !.known = TRUE, !.cond = c]
            ELSE [a EXCEPT !.live = TRUE, !.known = TRUE, !.cond = c, !.active = FALSE, !.ack = FALSE]
    BY <1>3 DEF Conditioned, AlarmType
  <2>2. tr \in {"ConditionRecovered", "Cleared"}
    BY <1>3 DEF ConditionTransition
  <2> QED
    BY <1>3, <2>1, <2>2, ZenonT(60) DEF Moves, EventOK, AlarmType, EventType, Event, Tells
<1> QED
  BY <1>1, <1>2, <1>3 DEF AlarmType

\* acknowledge()
LEMMA AcknowledgeMoves ==
  ASSUME NEW t \in EventType, NEW a \in AlarmType, NEW latched \in BOOLEAN, EventOK(t, a)
  PROVE  LET b == Acknowledged(a)
             tr == IF CanAcknowledge(a) THEN "Acknowledged" ELSE "NoChange"
         IN  Moves(t, a, latched, Event(b, t, tr), b, "none")
BY DEF Acknowledged, CanAcknowledge, Moves, EventOK, AlarmType, EventType, Event, Tells

\* clearLatched()
LEMMA ClearMoves ==
  ASSUME NEW t \in EventType, NEW a \in AlarmType, NEW latched \in BOOLEAN, EventOK(t, a)
  PROVE  LET b == Cleared(a, latched)
             tr == IF CanClear(a, latched) THEN "LatchCleared" ELSE "NoChange"
         IN  Moves(t, a, latched, Event(b, t, tr), b, "clear")
BY DEF Cleared, CanClear, Moves, EventOK, AlarmType, EventType, Event, Tells

\* restore(): it cannot undo what was seen since the start, because that used up its right.
LEMMA RestoreMoves ==
  ASSUME NEW t \in EventType, NEW a \in AlarmType, NEW latched \in BOOLEAN,
         NEW pending \in BOOLEAN, EventOK(t, a)
  PROVE  LET b == Restored(a, latched, pending)
         IN  Moves(t, a, latched, Event(b, t, "NoChange"), b, "none")
BY DEF Restored, Moves, EventOK, AlarmType, EventType, Event, Tells

-----------------------------------------------------------------------------
(* All alarms *)

LEMMA BecomesMoves ==
  ASSUME AlarmInv, NEW a \in Alarms, NEW b, NEW tr, NEW what,
         Moves(told[a], alarms[a], a \in Latching, Event(b, told[a], tr), b, what),
         Becomes(a, b, tr)
  PROVE  /\ AlarmInv'
         /\ \A x \in Alarms : x \in Latching /\ alarms[x].active /\ ~alarms'[x].active
              => x = a /\ what = "clear" /\ alarms[x].known /\ ~alarms[x].cond
<1>1. alarms' = [alarms EXCEPT ![a] = b]
  BY DEF Becomes
<1>2. told' = [told EXCEPT ![a] = Event(b, told[a], tr)]
  <2>1. CASE Tells(tr)
    BY <2>1 DEF Becomes, Event
  <2>2. CASE ~Tells(tr)
    BY <2>2 DEF Becomes, Event, AlarmInv, AlarmTypes
  <2> QED
    BY <2>1, <2>2
<1>3. stored' = stored
  BY DEF Becomes
<1> QED
  BY <1>1, <1>2, <1>3 DEF AlarmInv, AlarmTypes, Moves

\* A step leaves the invariant, and a latched alarm stays active unless it is cleared on request.
AlarmStep ==
  /\ AlarmInv'
  /\ \A a \in Latching : alarms[a].active /\ ~alarms'[a].active /\ done' # "reboot"
       => done' = "clear" /\ alarms[a].known /\ ~alarms[a].cond

LEMMA AlarmActionStep ==
  ASSUME AlarmInv, Alarm
  PROVE  AlarmStep
<1>0. Latching \subseteq Alarms
  BY RuntimeAssumption
<1>1. PICK a \in Alarms :
        \/ \E c \in BOOLEAN : SetCondition(a, c)
        \/ Acknowledge(a) \/ ClearLatched(a) \/ RestoreAlarm(a, stored[a])
        \/ a \notin Latching /\ RestoreAlarm(a, TRUE)
  BY DEF Alarm
<1>2. told[a] \in EventType /\ alarms[a] \in AlarmType /\ EventOK(told[a], alarms[a])
      /\ stored[a] \in BOOLEAN /\ (a \in Latching) \in BOOLEAN
  BY DEF AlarmInv, AlarmTypes
<1>3. ASSUME NEW c \in BOOLEAN, SetCondition(a, c)
      PROVE  AlarmStep
  BY <1>0, <1>2, <1>3, ConditionMoves, BecomesMoves DEF SetCondition, AlarmStep, Does
<1>4. CASE Acknowledge(a)
  BY <1>0, <1>2, <1>4, AcknowledgeMoves, BecomesMoves DEF Acknowledge, AlarmStep, Does
<1>5. CASE ClearLatched(a)
  BY <1>0, <1>2, <1>5, ClearMoves, BecomesMoves DEF ClearLatched, AlarmStep, Does
<1>6. ASSUME NEW p \in BOOLEAN, RestoreAlarm(a, p)
      PROVE  AlarmStep
  BY <1>0, <1>2, <1>6, RestoreMoves, BecomesMoves DEF RestoreAlarm, AlarmStep, Does
<1> QED
  BY <1>1, <1>2, <1>3, <1>4, <1>5, <1>6

\* What is neither an alarm's operation nor a restart leaves the alarms and their events alone.
LEMMA OtherStep ==
  ASSUME AlarmInv,
         StartStep \/ HandoffRuntimeState \/ Refresh \/ Maintain \/ Command \/ Fact
  PROVE  AlarmStep
<1>0. Latching \subseteq Alarms
  BY RuntimeAssumption
<1>1. UNCHANGED <<alarms, told>> /\ stored' \in [Alarms -> BOOLEAN]
  <2>0. stored \in [Alarms -> BOOLEAN] /\ alarms \in [Alarms -> AlarmType]
    BY DEF AlarmInv, AlarmTypes
  <2>1. CASE StartStep
    BY <2>0, <2>1 DEF StartStep, facts
  <2>2. CASE HandoffRuntimeState
    BY <2>0, <2>2 DEF HandoffRuntimeState, facts
  <2>3. CASE Refresh
    BY <2>0, <2>3 DEF Refresh, facts
  <2>4. CASE Maintain
    BY <2>0, <2>4 DEF Maintain, RequestMaintenanceTransition, facts, history
  <2>5. CASE Command
    BY <2>0, <2>5 DEF Command, Execute, Process, facts, history
  <2>6. CASE Fact
    <3>1. CASE \E says \in OtherSays : Provide(says)
      BY <2>0, <3>1 DEF Provide
    <3>2. CASE \E l \in Lockings : Lock(l)
      BY <2>0, <3>2 DEF Lock, history
    <3>3. ASSUME NEW a \in Alarms, Save(a)
          PROVE  UNCHANGED <<alarms, told>> /\ stored' \in [Alarms -> BOOLEAN]
      <4>1. Pending(alarms[a], a \in Latching) \in BOOLEAN
        BY DEF Pending
      <4>2. stored' = [stored EXCEPT ![a] = Pending(alarms[a], a \in Latching)]
            /\ UNCHANGED <<alarms, told>>
        BY <3>3 DEF Save, history
      <4> QED
        BY <2>0, <4>1, <4>2
    <3> QED
      BY <2>6, <3>1, <3>2, <3>3 DEF Fact
  <2> QED
    BY <2>1, <2>2, <2>3, <2>4, <2>5, <2>6
<1> QED
  BY <1>0, <1>1 DEF AlarmStep, AlarmInv, AlarmTypes

\* After a restart every alarm is new and nothing was told of it.
LEMMA NewAlarmsInv ==
  ASSUME alarms = NewAlarms, told = AllSilent, stored \in [Alarms -> BOOLEAN]
  PROVE  AlarmInv
<1>1. NewAlarm \in AlarmType /\ Silent \in EventType /\ EventOK(Silent, NewAlarm)
  BY DEF NewAlarm, Silent, AlarmType, EventType, EventOK
<1> QED
  BY <1>1 DEF NewAlarms, AllSilent, AlarmInv, AlarmTypes

LEMMA RebootAlarms ==
  ASSUME AlarmInv, Reboot
  PROVE  AlarmStep
<1>1. alarms' = NewAlarms /\ told' = AllSilent /\ stored' = stored /\ done' = "reboot"
  BY DEF Reboot, Does
<1>2. NewAlarm \in AlarmType /\ Silent \in EventType /\ EventOK(Silent, NewAlarm)
  BY DEF NewAlarm, Silent, AlarmType, EventType, EventOK
<1>3. AlarmInv'
  BY <1>1, <1>2 DEF NewAlarms, AllSilent, AlarmInv, AlarmTypes
<1> QED
  BY <1>1, <1>3 DEF AlarmStep

LEMMA AlarmNext ==
  ASSUME AlarmInv, [Next]_vars
  PROVE  AlarmStep
<1>0. Latching \subseteq Alarms
  BY RuntimeAssumption
<1>1. CASE UNCHANGED vars
  BY <1>0, <1>1 DEF vars, facts, history, AlarmStep, AlarmInv, AlarmTypes
<1>2. CASE Next
  BY <1>2, AlarmActionStep, OtherStep, RebootAlarms DEF Next
<1> QED
  BY <1>1, <1>2

LEMMA AlarmsAlwaysInv == Spec => []AlarmInv
<1>1. Init => AlarmInv
  BY NewAlarmsInv DEF Init
<1>2. AlarmInv /\ [Next]_vars => AlarmInv'
  BY AlarmNext DEF AlarmStep
<1> QED
  BY <1>1, <1>2, PTL DEF Spec

\* Who follows an alarm's events knows its state, for every set of alarms and every
\* order of conditions, acknowledgements, clears, restores and restarts.
THEOREM EventsAlwaysTell == Spec => []EventsTell
<1>1. AlarmInv => EventsTell
  BY DEF AlarmInv, EventOK, EventsTell
<1> QED
  BY <1>1, AlarmsAlwaysInv, PTL

\* A latched alarm is never lost to anything but a clear after its condition was seen gone.
THEOREM AlarmsAlwaysHeld == Spec => AlarmHeld
<1>1. AlarmInv /\ [Next]_vars =>
        [\A a \in Latching :
           alarms[a].active /\ ~alarms'[a].active /\ done' # "reboot"
             => done' = "clear" /\ alarms[a].known /\ ~alarms[a].cond]_vars
  BY AlarmNext DEF AlarmStep
<1> QED
  BY <1>1, AlarmsAlwaysInv, PTL DEF Spec, AlarmHeld

-----------------------------------------------------------------------------
(* The runtime *)

Ops == {"BOOTING", "RUNNING", "MAINTENANCE", "ERROR"}
StatusOK == /\ DOMAIN status = {"op", "health", "locked", "phase"}
            /\ status.op \in Ops /\ status.locked \in BOOLEAN
ReportOK == /\ DOMAIN report = {"complete", "fatal", "optional", "kept", "final"}
            /\ report.complete \in BOOLEAN
RuntimeTypes ==
  /\ StatusOK /\ ReportOK
  /\ starting \in BOOLEAN /\ handed \in BOOLEAN /\ fresh \in BOOLEAN
  /\ coordinator \in [valid : BOOLEAN, active : BOOLEAN, latched : BOOLEAN]
  /\ other \in Contributions
  /\ alarms \in [Alarms -> AlarmType]

\* The start and the coordinator never both write the status, and a failure is remembered.
Stages ==
  /\ starting => ~report.complete
  /\ ~report.complete => status.op = "BOOTING"
  /\ (handed = coordinator.active) /\ (handed => report.complete)
  /\ status.op = "MAINTENANCE" => handed
  /\ handed => status.op # "BOOTING"
  /\ status.op = "ERROR" => status.locked /\ (handed => coordinator.latched)
  /\ status.op = "BOOTING" /\ ~starting => status.locked

\* A status that is fresh and not locked was written when nothing asked for a lock.
Quiet == ProvidersValid /\ other.safety = "CLEAR" /\ ~AlarmLocked
Truthful == fresh => report.complete /\ (~status.locked => Quiet)

RuntimeInv == RuntimeTypes /\ Stages /\ Truthful

\* What one step owes: the invariant again, and a step of DeviceLife.
RuntimeStep == RuntimeInv' /\ (Life!Next \/ UNCHANGED Life!vars)

LEMMA RuntimeInit ==
  ASSUME Init
  PROVE  RuntimeInv /\ Life!Init
<1>1. NewAlarm \in AlarmType
  BY DEF NewAlarm, AlarmType
<1>2. StatusOK /\ ReportOK
  BY DEF Init, StatusOK, ReportOK, Ops, PreStart, NoReport
<1>3. RuntimeTypes
  <2>1. Trusted \in Contributions
    BY DEF Trusted, Contributions, Healths, OK, FAULT
  <2> QED
    BY <1>1, <1>2, <2>1, RuntimeAssumption DEF RuntimeTypes, Init, Coordinators, NewAlarms
<1>4. Stages /\ Truthful
  BY RuntimeAssumption DEF Stages, Truthful, Init, PreStart, NoReport, Coordinators
<1> QED
  BY <1>3, <1>4 DEF RuntimeInv, Life!Init, Init, PreStart

\* A start that fails, wherever it does.
LEMMA FailsStep ==
  ASSUME RuntimeInv, NEW phase, Fails(phase), starting \/ ~report.complete,
         UNCHANGED <<handed, coordinator, facts, fresh>>, done' = "none"
  PROVE  RuntimeStep
<1>1. status' = Failed(phase) /\ starting' = FALSE /\ report'.complete = TRUE /\ ReportOK'
  BY DEF Fails, RuntimeInv, RuntimeTypes, ReportOK
<1>2. StatusOK'
  BY <1>1 DEF StatusOK, Failed, Ops
<1>3. RuntimeInv'
  BY <1>1, <1>2 DEF RuntimeInv, RuntimeTypes, Stages, Truthful, facts, Failed
<1>4. Life!Fail \/ Life!FailAtOnce
  BY <1>1 DEF RuntimeInv, RuntimeTypes, Stages, Failed, Life!Fail, Life!FailAtOnce, Life!Quiet
<1> QED
  BY <1>3, <1>4 DEF RuntimeStep, Life!Next

LEMMA StartsStep ==
  ASSUME RuntimeInv, Start, UNCHANGED <<coordinator, facts, fresh>>, done' = "none"
  PROVE  RuntimeStep
<1>1. CASE ~EarlyIsCallable
  BY <1>1, FailsStep DEF Start, MayStart
<1>2. CASE EarlyIsCallable
  <2>1. starting' = TRUE /\ status' = PreStart /\ UNCHANGED <<report, handed>>
        /\ ~report.complete /\ ~starting
    BY <1>2 DEF Start, MayStart
  <2>2. StatusOK'
    BY <2>1 DEF StatusOK, PreStart, Ops
  <2>3. RuntimeInv'
    BY <2>1, <2>2 DEF RuntimeInv, RuntimeTypes, ReportOK, Stages, Truthful, facts, PreStart
  <2>4. Life!Start
    BY <2>1 DEF RuntimeInv, RuntimeTypes, Stages, PreStart, Life!Start, Life!Quiet
  <2> QED
    BY <2>3, <2>4 DEF RuntimeStep, Life!Next
<1> QED
  BY <1>1, <1>2

LEMMA ReturnsStep ==
  ASSUME RuntimeInv, CallbackReturns, UNCHANGED <<coordinator, facts, fresh>>, done' = "none"
  PROVE  RuntimeStep
<1>1. PICK result : Returns(result)
  BY DEF CallbackReturns
<1> DEFINE q == calls[1]
           early == q.need = "SPECIAL" /\ q.phase = BOOT
           st == After(q, result)
<1>2. CASE ~Tolerated(q, result) \/ (early /\ ~ValidPlan(plan))
  BY <1>1, <1>2, FailsStep DEF Returns
<1>3. CASE ~(~Tolerated(q, result) \/ (early /\ ~ValidPlan(plan)))
  <2>0. starting = TRUE /\ UNCHANGED handed /\ ~report.complete /\ status.op = "BOOTING"
        /\ ~handed /\ ~coordinator.active /\ ~fresh
    BY <1>1 DEF Returns, RuntimeInv, RuntimeTypes, Stages, Truthful
  <2>1. PICK next \in IF early THEN Schedules(plan) ELSE {Tail(calls)} :
          /\ GoesOn(next, st)
          /\ report' = [Reported(q, result) EXCEPT
                          !.complete = (next = <<>>),
                          !.final = IF next = <<>> THEN status' ELSE @]
    BY <1>1, <1>3 DEF Returns
  <2>2. ReportOK' /\ report'.complete = (next = <<>>)
    BY <2>1 DEF RuntimeInv, RuntimeTypes, ReportOK, Reported
  <2>3. /\ DOMAIN st = {"op", "health", "locked", "phase"} /\ st.op = "BOOTING"
        /\ st.locked \in BOOLEAN /\ (st.locked => status.locked)
    BY <2>0 DEF After, RuntimeInv, RuntimeTypes, StatusOK
  <2> HIDE DEF st
  <2>4. CASE next # <<>>
    <3>1. status' = [st EXCEPT !.phase = next[1].phase] /\ starting' = TRUE
      BY <2>0, <2>1, <2>4 DEF GoesOn
    <3>2. StatusOK' /\ status'.op = "BOOTING" /\ status'.locked = st.locked
      BY <2>3, <3>1 DEF StatusOK, Ops
    <3>3. RuntimeInv'
      BY <2>0, <2>2, <2>4, <3>1, <3>2 DEF RuntimeInv, RuntimeTypes, Stages, Truthful, facts
    <3>4. Life!Clear \/ Life!Rest
      BY <2>0, <2>3, <3>1, <3>2
      DEF RuntimeInv, RuntimeTypes, StatusOK, Life!Clear, Life!Rest, Life!Quiet
    <3> QED
      BY <3>3, <3>4 DEF RuntimeStep, Life!Next
  <2>5. CASE next = <<>>
    <3>1. /\ status' = [st EXCEPT !.phase = RUNNING, !.op = "RUNNING", !.locked = FALSE]
          /\ starting' = FALSE
      BY <2>1, <2>5 DEF GoesOn
    <3>2. StatusOK' /\ status'.op = "RUNNING" /\ status'.locked = FALSE
      BY <2>3, <3>1 DEF StatusOK, Ops
    <3>3. RuntimeInv'
      BY <2>0, <2>2, <2>5, <3>1, <3>2 DEF RuntimeInv, RuntimeTypes, Stages, Truthful, facts
    <3>4. Life!ComeUp \/ Life!ClearUp
      BY <2>0, <3>1, <3>2 DEF RuntimeInv, RuntimeTypes, StatusOK, Life!ComeUp, Life!ClearUp, Life!Quiet
    <3> QED
      BY <3>3, <3>4 DEF RuntimeStep, Life!Next
  <2> QED
    BY <2>4, <2>5
<1> QED
  BY <1>2, <1>3

\* aggregate() lets the device go only when nothing asks for a lock.
LEMMA AggregateTruthful ==
  ASSUME RuntimeTypes
  PROVE  Aggregate.locked \in BOOLEAN /\ (~Aggregate.locked => Quiet)
<1>1. Aggregate.locked = (~ProvidersValid \/ other.safety = "LOCKED" \/ AlarmLocked)
  BY DEF Aggregate
<1>2. other.safety \in {"CLEAR", "LOCKED", "bogus"}
  BY DEF RuntimeTypes, Contributions
<1> QED
  BY <1>1, <1>2 DEF Quiet, ProvidersValid, AlarmLocked

LEMMA HandoffStep ==
  ASSUME RuntimeInv, HandoffRuntimeState
  PROVE  RuntimeStep
<1>0. /\ ~handed /\ report.complete /\ status.op = "RUNNING" /\ done' = "none"
      /\ ~coordinator.active /\ starting = FALSE
      /\ UNCHANGED <<report, starting, alarms, other>>
  BY DEF HandoffRuntimeState, Does, facts, RuntimeInv, RuntimeTypes, Stages
<1>1. CASE Activates
  <2>1. /\ handed' = TRUE /\ coordinator' = [coordinator EXCEPT !.active = TRUE] /\ fresh' = TRUE
        /\ status' = [status EXCEPT !.health = Aggregate.health, !.locked = Aggregate.locked]
    BY <1>1 DEF HandoffRuntimeState
  <2>2. StatusOK' /\ status'.op = "RUNNING" /\ status'.locked = Aggregate.locked
    BY <1>0, <2>1, AggregateTruthful DEF RuntimeInv, RuntimeTypes, StatusOK
  <2>3. /\ coordinator' \in [valid : BOOLEAN, active : BOOLEAN, latched : BOOLEAN]
        /\ coordinator'.active = TRUE /\ coordinator'.valid = coordinator.valid
    BY <2>1 DEF RuntimeInv, RuntimeTypes
  <2>4. ~status'.locked => Quiet'
    BY <1>0, <2>2, <2>3, AggregateTruthful DEF RuntimeInv, Quiet, ProvidersValid, AlarmLocked
  <2>5. RuntimeInv'
    BY <1>0, <2>1, <2>2, <2>3, <2>4 DEF RuntimeInv, RuntimeTypes, ReportOK, Stages, Truthful
  <2>6. Life!Watched
    BY <1>0, <2>1, <2>2, AggregateTruthful DEF RuntimeInv, Life!Watched, Life!Quiet
  <2> QED
    BY <2>5, <2>6 DEF RuntimeStep, Life!Next
<1>2. CASE ~Activates
  <2>1. status' = Failed(status.phase) /\ UNCHANGED <<handed, coordinator, fresh>>
    BY <1>2 DEF HandoffRuntimeState
  <2>2. StatusOK' /\ status'.op = "ERROR" /\ status'.locked = TRUE
    BY <2>1 DEF StatusOK, Failed, Ops
  <2>3. RuntimeInv'
    BY <1>0, <2>1, <2>2 DEF RuntimeInv, RuntimeTypes, ReportOK, Stages, Truthful
  <2>4. Life!Fail
    BY <1>0, <2>1, <2>2 DEF Life!Fail, Life!Quiet
  <2> QED
    BY <2>3, <2>4 DEF RuntimeStep, Life!Next
<1> QED
  BY <1>1, <1>2

LEMMA RefreshStep ==
  ASSUME RuntimeInv, Refresh
  PROVE  RuntimeStep
<1>0. /\ coordinator.active /\ handed /\ report.complete /\ status.op # "BOOTING"
      /\ starting = FALSE /\ done' = "none" /\ fresh' = TRUE
      /\ UNCHANGED <<report, starting, handed, coordinator, alarms, other>>
  BY DEF Refresh, Does, facts, RuntimeInv, RuntimeTypes, Stages
<1>1. status' = [status EXCEPT
                   !.health = IF coordinator.latched THEN FAULT ELSE Aggregate.health,
                   !.locked = coordinator.latched \/ Aggregate.locked]
  BY DEF Refresh
<1>2. (coordinator.latched \/ Aggregate.locked) \in BOOLEAN
  OBVIOUS
<1>3. /\ StatusOK' /\ status'.op = status.op
      /\ status'.locked = (coordinator.latched \/ Aggregate.locked)
  BY <1>1, <1>2 DEF RuntimeInv, RuntimeTypes, StatusOK
<1>4. ~status'.locked => Quiet'
  BY <1>0, <1>3, AggregateTruthful DEF RuntimeInv, Quiet, ProvidersValid, AlarmLocked
<1>5. RuntimeInv'
  BY <1>0, <1>3, <1>4 DEF RuntimeInv, RuntimeTypes, ReportOK, Stages, Truthful
<1>6. CASE status.op = "ERROR"
  <2>1. status.locked /\ status'.locked
    BY <1>0, <1>3, <1>6 DEF RuntimeInv, Stages
  <2>2. status.locked = TRUE /\ status'.locked = TRUE
    BY <1>5, <2>1 DEF RuntimeInv, RuntimeTypes, StatusOK
  <2>3. Life!Rest
    BY <1>0, <1>3, <1>6, <2>2 DEF Life!Rest, Life!Quiet
  <2> QED
    BY <1>5, <2>3 DEF RuntimeStep, Life!Next
<1>7. CASE status.op # "ERROR"
  <2>1. Life!Watch
    BY <1>0, <1>3, <1>7 DEF RuntimeInv, RuntimeTypes, StatusOK, Ops, Life!Watch, Life!Quiet
  <2> QED
    BY <1>5, <2>1 DEF RuntimeStep, Life!Next
<1> QED
  BY <1>6, <1>7

LEMMA MaintainStep ==
  ASSUME RuntimeInv, Maintain
  PROVE  RuntimeStep
<1>1. PICK request \in {"Enter", "Exit"}, answer \in {"Prepared", "Rejected", "Failed", "invalid"} :
        RequestMaintenanceTransition(request, answer)
  BY DEF Maintain
<1>0. /\ handed /\ coordinator.active /\ report.complete /\ starting = FALSE /\ done' = "none"
      /\ status.op = From(request) /\ status.op \in {"RUNNING", "MAINTENANCE"}
      /\ UNCHANGED <<report, starting, handed, alarms, other, fresh>>
  BY <1>1 DEF RequestMaintenanceTransition, Does, facts, history, From,
       RuntimeInv, RuntimeTypes, Stages
<1>2. CASE status' = [status EXCEPT !.op = To(request)] /\ UNCHANGED coordinator
  <2>1. /\ StatusOK' /\ status'.op = To(request) /\ status'.locked = status.locked
        /\ To(request) \in {"RUNNING", "MAINTENANCE"}
    BY <1>2 DEF RuntimeInv, RuntimeTypes, StatusOK, To, Ops
  <2>2. RuntimeInv'
    BY <1>0, <1>2, <2>1
    DEF RuntimeInv, RuntimeTypes, ReportOK, Stages, Truthful, Quiet, ProvidersValid, AlarmLocked
  <2>3. Life!Enter \/ Life!Leave
    BY <1>0, <2>1 DEF From, To, Life!Enter, Life!Leave, Life!Quiet
  <2> QED
    BY <2>2, <2>3 DEF RuntimeStep, Life!Next
<1>3. CASE UNCHANGED <<status, coordinator>>
  <2>1. RuntimeInv'
    BY <1>0, <1>3 DEF RuntimeInv, RuntimeTypes, StatusOK, ReportOK, Stages, Truthful,
         Quiet, ProvidersValid, AlarmLocked
  <2>2. Life!Rest
    BY <1>0, <1>3 DEF Life!Rest, Life!Quiet
  <2> QED
    BY <2>1, <2>2 DEF RuntimeStep, Life!Next
<1>4. CASE coordinator' = LatchRuntimeFailure /\ status' = Failed(status.phase)
  <2>1. StatusOK' /\ status'.op = "ERROR" /\ status'.locked = TRUE
    BY <1>4 DEF StatusOK, Failed, Ops
  <2>2. /\ coordinator' \in [valid : BOOLEAN, active : BOOLEAN, latched : BOOLEAN]
        /\ coordinator'.active = coordinator.active /\ coordinator'.latched = TRUE
    BY <1>4 DEF RuntimeInv, RuntimeTypes, LatchRuntimeFailure
  <2>3. RuntimeInv'
    BY <1>0, <2>1, <2>2 DEF RuntimeInv, RuntimeTypes, ReportOK, Stages, Truthful
  <2>4. Life!Fail
    BY <1>0, <2>1 DEF Life!Fail, Life!Quiet
  <2> QED
    BY <2>3, <2>4 DEF RuntimeStep, Life!Next
<1> QED
  BY <1>1, <1>2, <1>3, <1>4 DEF RequestMaintenanceTransition

\* What is carried out fits the state of the device.
LEMMA CommandStep ==
  ASSUME RuntimeInv, Command
  PROVE  RuntimeStep
<1>0. UNCHANGED <<status, report, starting, handed, coordinator, alarms, other, fresh>>
  BY DEF Command, Execute, Process, runtime, facts, history
<1>1. RuntimeInv'
  BY <1>0 DEF RuntimeInv, RuntimeTypes, StatusOK, ReportOK, Stages, Truthful,
       Quiet, ProvidersValid, AlarmLocked
<1>2. Life!Act
  <2>1. CASE Process
    <3>1. done' = "processing" /\ status.op = "RUNNING"
      BY <2>1 DEF Process, Does
    <3>2. Life!Obeys("processing")
      BY <3>1 DEF Life!Obeys
    <3> QED
      BY <1>0, <3>1, <3>2 DEF Life!Act
  <2>2. ASSUME NEW what \in {"normal", "recovery", "operation"}, Execute(what)
        PROVE  Life!Act
    <3>1. done' = what /\ (PolicyAllows(what) \/ MaintenanceAllows(what)) /\ SafetyAllows(what)
      BY <2>2 DEF Execute, Does
    <3>2. Life!Obeys(what)
      <4>1. CASE what = "normal"
        BY <3>1, <4>1 DEF PolicyAllows, MaintenanceAllows, SafetyAllows, Life!Obeys
      <4>2. CASE what = "recovery"
        BY <3>1, <4>2 DEF PolicyAllows, MaintenanceAllows, Life!Obeys
      <4>3. CASE what = "operation"
        <5>1. status.op = "MAINTENANCE" /\ handed
          BY <3>1, <4>3 DEF PolicyAllows, MaintenanceAllows, RuntimeInv, Stages
        <5> QED
          BY <4>3, <5>1 DEF Life!Obeys
      <4> QED
        BY <4>1, <4>2, <4>3
    <3> QED
      BY <1>0, <3>1, <3>2 DEF Life!Act
  <2> QED
    BY <2>1, <2>2 DEF Command
<1> QED
  BY <1>1, <1>2 DEF RuntimeStep, Life!Next

\* Alarms, providers and locks change under the runtime, which then no longer is fresh.
LEMMA FactsStep ==
  ASSUME RuntimeInv, Alarm \/ Fact, alarms' \in [Alarms -> AlarmType]
  PROVE  RuntimeStep
<1>1. /\ UNCHANGED <<status, report, starting, handed, coordinator>>
      /\ done' \in {"none", "clear"} /\ fresh' \in BOOLEAN /\ other' \in Contributions
      /\ fresh' => fresh /\ UNCHANGED <<alarms, other>>
  <2>0. fresh \in BOOLEAN /\ other \in Contributions /\ alarms \in [Alarms -> AlarmType]
    BY DEF RuntimeInv, RuntimeTypes
  <2>1. CASE Fact
    <3>1. CASE \E a \in Alarms : Save(a)
      BY <2>0, <3>1 DEF Save, Does, runtime, history
    <3>2. CASE \E says \in OtherSays : Provide(says)
      BY <2>0, <3>2, RuntimeAssumption DEF Provide, Does, runtime
    <3>3. CASE \E l \in Lockings : Lock(l)
      BY <2>0, <3>3 DEF Lock, Does, runtime, history
    <3> QED
      BY <2>1, <3>1, <3>2, <3>3 DEF Fact
  <2>2. CASE Alarm
    <3>1. PICK a \in Alarms : \E b, tr : Becomes(a, b, tr) /\ done' \in {"none", "clear"}
      <4>1. PICK a \in Alarms :
              \/ \E c \in BOOLEAN : SetCondition(a, c)
              \/ Acknowledge(a) \/ ClearLatched(a) \/ RestoreAlarm(a, stored[a])
              \/ a \notin Latching /\ RestoreAlarm(a, TRUE)
        BY <2>2 DEF Alarm
      <4>2. CASE \E c \in BOOLEAN : SetCondition(a, c)
        BY <4>2 DEF SetCondition, Does
      <4>3. CASE Acknowledge(a)
        BY <4>3 DEF Acknowledge, Does
      <4>4. CASE ClearLatched(a)
        BY <4>4 DEF ClearLatched, Does
      <4>5. CASE \E p : RestoreAlarm(a, p)
        BY <4>5 DEF RestoreAlarm, Does
      <4> QED
        BY <4>1, <4>2, <4>3, <4>4, <4>5
    <3>2. PICK b, tr : Becomes(a, b, tr)
      BY <3>1
    <3>3. /\ alarms' = [alarms EXCEPT ![a] = b] /\ fresh' = (fresh /\ b = alarms[a])
          /\ UNCHANGED <<runtime, coordinator, other>>
      BY <3>2 DEF Becomes
    <3>4. b = alarms[a] => alarms' = alarms
      BY <2>0, <3>3
    <3> QED
      BY <2>0, <3>1, <3>3, <3>4 DEF runtime
  <2> QED
    BY <2>1, <2>2
<1>2. RuntimeInv'
  BY <1>1 DEF RuntimeInv, RuntimeTypes, StatusOK, ReportOK, Stages, Truthful,
       Quiet, ProvidersValid, AlarmLocked
<1>3. Life!Rest
  BY <1>1 DEF Life!Rest, Life!Quiet
<1> QED
  BY <1>2, <1>3 DEF RuntimeStep, Life!Next

LEMMA RebootStep ==
  ASSUME RuntimeInv, Reboot
  PROVE  RuntimeStep
<1>0. /\ status' = PreStart /\ report' = NoReport /\ starting' = FALSE /\ handed' = FALSE
      /\ coordinator' \in Coordinators /\ alarms' = NewAlarms /\ fresh' = FALSE
      /\ done' = "reboot" /\ other' = other
  BY DEF Reboot, Does
<1>1. NewAlarm \in AlarmType
  BY DEF NewAlarm, AlarmType
<1>2. StatusOK' /\ ReportOK'
  BY <1>0 DEF StatusOK, ReportOK, Ops, PreStart, NoReport
<1>3. RuntimeTypes'
  BY <1>0, <1>1, <1>2, RuntimeAssumption DEF RuntimeInv, RuntimeTypes, Coordinators, NewAlarms
<1>4. Stages' /\ Truthful'
  BY <1>0, RuntimeAssumption DEF Stages, Truthful, PreStart, NoReport, Coordinators
<1>5. Life!Reboot
  BY <1>0 DEF Life!Reboot, Life!Quiet, PreStart
<1> QED
  BY <1>3, <1>4, <1>5 DEF RuntimeStep, RuntimeInv, Life!Next

LEMMA RuntimeNext ==
  ASSUME RuntimeInv, [Next]_vars, alarms' \in [Alarms -> AlarmType]
  PROVE  RuntimeStep
<1>1. CASE UNCHANGED vars
  <2>1. UNCHANGED <<status, report, starting, handed, coordinator, alarms, other, fresh, done>>
    BY <1>1 DEF vars, runtime, facts, history
  <2>2. RuntimeInv'
    BY <2>1 DEF RuntimeInv, RuntimeTypes, StatusOK, ReportOK, Stages, Truthful,
         Quiet, ProvidersValid, AlarmLocked
  <2>3. UNCHANGED Life!vars
    BY <2>1 DEF Life!vars
  <2> QED
    BY <2>2, <2>3 DEF RuntimeStep
<1>2. CASE StartStep
  BY <1>2, StartsStep, ReturnsStep DEF StartStep, Does
<1>3. CASE Next /\ ~StartStep
  BY <1>3, HandoffStep, RefreshStep, MaintainStep, CommandStep, FactsStep, RebootStep DEF Next
<1> QED
  BY <1>1, <1>2, <1>3

LEMMA RuntimeAlwaysInv == Spec => []RuntimeInv
<1>1. AlarmInv /\ RuntimeInv /\ [Next]_vars => RuntimeInv'
  BY AlarmNext, RuntimeNext DEF AlarmStep, AlarmInv, AlarmTypes, RuntimeStep
<1> QED
  BY <1>1, RuntimeInit, AlarmsAlwaysInv, PTL DEF Spec

\* The runtime lives as DeviceLife promises, for every plan, set of alarms and provider:
\* the start, the handoff, maintenance, failures, commands and restarts each are its steps.
THEOREM LivesAsPromised == Spec => LifeSpec
<1>1. Init => Life!Init
  BY RuntimeInit
<1>2. AlarmInv /\ RuntimeInv /\ [Next]_vars => [Life!Next]_(Life!vars)
  BY AlarmNext, RuntimeNext DEF AlarmStep, AlarmInv, AlarmTypes, RuntimeStep
<1> QED
  BY <1>1, <1>2, AlarmsAlwaysInv, RuntimeAlwaysInv, PTL DEF Spec, LifeSpec, Life!Spec

\* A normal command is carried out only while nothing that was asked locks the device.
THEOREM LocksAlwaysObeyed == Spec => []LocksObeyed
<1>1. Init => LocksObeyed
  BY DEF Init, LocksObeyed
<1>2. RuntimeInv /\ LocksObeyed /\ [Next]_vars => LocksObeyed'
  <2> SUFFICES ASSUME RuntimeInv, LocksObeyed, [Next]_vars, done' = "normal"
               PROVE  locks' = "free" /\ (fresh' => Quiet')
    BY DEF LocksObeyed, Quiet
  <2>1. CASE UNCHANGED vars
    BY <2>1 DEF vars, facts, history, LocksObeyed, Quiet, ProvidersValid, AlarmLocked
  <2>2. CASE Execute("normal")
    <3>1. ~status.locked /\ locks = "free" /\ UNCHANGED <<coordinator, alarms, other, locks, fresh>>
      BY <2>2 DEF Execute, SafetyAllows, LocksFree, facts, history
    <3> QED
      BY <3>1 DEF RuntimeInv, Truthful, Quiet, ProvidersValid, AlarmLocked
  <2>3. CASE Next /\ ~Execute("normal")
    BY <2>3 DEF Next, StartStep, HandoffRuntimeState, Refresh, Maintain,
         RequestMaintenanceTransition, Command, Execute, Process, Alarm, SetCondition,
         Acknowledge, ClearLatched, RestoreAlarm, Fact, Save, Provide, Lock, Reboot, Does
  <2> QED
    BY <2>1, <2>2, <2>3
<1> QED
  BY <1>1, <1>2, RuntimeAlwaysInv, PTL DEF Spec

-----------------------------------------------------------------------------
(* The order of the start *)

\* StartOrder, of any sequence of callbacks.
Ordered(r) ==
  \A i, j \in DOMAIN r :
    i < j => /\ r[i].id # r[j].id /\ r[i].phase <= r[j].phase
             /\ r[j].phase >= NETWORK_INIT => \E k \in 1..(j - 1) : r[k].phase = SAFETY_VALIDATION
EarlyCall(p) == Special(p.early, BOOT)
CallsOf(p) == Range(p.participants) \cup {EarlyCall(p), Special(p.gate, SAFETY_VALIDATION)}
IsEarly(q) == q.need = "SPECIAL" /\ q.phase = BOOT

\* What was called and what is still to be called are in order together.
StartInv ==
  /\ plan \in Plans /\ ran \in Seq(CallsOf(plan)) /\ calls \in Seq(CallsOf(plan))
  /\ Ordered(ran)
  /\ ~starting /\ ~report.complete => ran = <<>>
  /\ starting => \/ calls = <<EarlyCall(plan)>> /\ ran = <<EarlyCall(plan)>>
                 \/ /\ Ordered(ran \o Tail(calls))
                    /\ \A i \in DOMAIN calls : ~IsEarly(calls[i])

\* Two of the callbacks a valid plan has.
LEMMA CallbacksDiffer ==
  ASSUME NEW p \in Plans, ValidPlan(p),
         NEW j \in 0..Len(p.participants), NEW k \in 0..Len(p.participants)
  PROVE  /\ Callback(p, j) \in CallsOf(p) /\ Callback(p, j).phase \in 0..7
         /\ Callback(p, j).id # EarlyCall(p).id /\ ~IsEarly(Callback(p, j))
         /\ (Callback(p, j).phase = SAFETY_VALIDATION) = (j = 0)
         /\ j # k => Callback(p, j).id # Callback(p, k).id
<1> DEFINE ps == p.participants
<1>1. ps \in Seq(Range(ps)) /\ Len(ps) \in Nat /\ DOMAIN ps = 1..Len(ps)
  BY RuntimeAssumption
<1>2. ASSUME NEW i \in 1..Len(ps)
      PROVE  /\ Callback(p, i) = ps[i] /\ ps[i] \in Range(ps) /\ ps[i].phase \in Ordinary
             /\ ps[i].need \in {"REQUIRED", "OPTIONAL"} /\ ps[i].id \notin {p.early.id, p.gate.id}
             /\ \A h \in 1..(i - 1) : ps[h].id # ps[i].id
  BY <1>1, <1>2, SMTT(30) DEF Callback, ValidPlan, ValidParticipants, Range
<1>3. /\ Callback(p, 0) = Special(p.gate, SAFETY_VALIDATION)
      /\ Special(p.gate, SAFETY_VALIDATION).id = p.gate.id
      /\ Special(p.gate, SAFETY_VALIDATION).phase = 5
      /\ EarlyCall(p).id = p.early.id /\ p.gate.id # p.early.id
  BY DEF Callback, Special, EarlyCall, ValidPlan, SAFETY_VALIDATION
<1>4. CASE j = 0
  <2>1. k # 0 => Callback(p, k).id # p.gate.id
    BY <1>2
  <2> QED
    BY <1>3, <1>4, <2>1 DEF CallsOf, IsEarly, BOOT, SAFETY_VALIDATION
<1>5. CASE j # 0
  <2>1. j \in 1..Len(ps)
    BY <1>1, <1>5
  <2>2. j # k => Callback(p, j).id # Callback(p, k).id
    <3>1. CASE k = 0
      BY <1>2, <1>3, <2>1, <3>1
    <3>2. CASE k # 0
      <4>1. k \in 1..Len(ps)
        BY <1>1, <3>2
      <4>2. j < k => ps[j].id # ps[k].id
        BY <1>1, <1>2, <2>1, <4>1
      <4>3. k < j => ps[k].id # ps[j].id
        BY <1>1, <1>2, <2>1, <4>1
      <4> QED
        BY <1>1, <1>2, <2>1, <4>1, <4>2, <4>3
    <3> QED
      BY <3>1, <3>2
  <2> QED
    BY <1>2, <1>3, <1>5, <2>1, <2>2 DEF CallsOf, IsEarly, Ordinary, BOOT, SAFETY_VALIDATION
<1> QED
  BY <1>4, <1>5

\* A valid plan is called in order, after its early outputs and with its gate before the network.
LEMMA SchedulesOrdered ==
  ASSUME NEW p \in Plans, ValidPlan(p), NEW s \in Schedules(p)
  PROVE  /\ s \in Seq(CallsOf(p)) /\ s # <<>> /\ Ordered(<<EarlyCall(p)>> \o s)
         /\ \A i \in DOMAIN s : ~IsEarly(s[i])
<1> DEFINE n == Len(p.participants)
<1>1. n \in Nat
  BY RuntimeAssumption
<1>2. PICK order \in Orders(p) : s = [i \in 1..(n + 1) |-> Callback(p, order[i])]
  BY DEF Schedules
<1>3. /\ \A i \in 1..(n + 1) : order[i] \in 0..n
      /\ \E i \in 1..(n + 1) : order[i] = 0
      /\ \A i, j \in 1..(n + 1) : i < j => Earlier(p, order[i], order[j])
  BY <1>1 DEF Orders, Bijection, Surjection, Injection
<1>4. PICK g \in 1..(n + 1) : order[g] = 0
  BY <1>3
<1>5. DOMAIN s = 1..(n + 1) /\ Len(s) = n + 1 /\ \A i \in 1..(n + 1) : s[i] = Callback(p, order[i])
  BY <1>1, <1>2
<1>6. ASSUME NEW i \in 1..(n + 1)
      PROVE  /\ s[i] \in CallsOf(p) /\ s[i].phase \in 0..7 /\ s[i].id # EarlyCall(p).id
             /\ ~IsEarly(s[i])
  BY <1>3, <1>5, CallbacksDiffer
<1>7. s \in Seq(CallsOf(p)) /\ s # <<>>
  <2>1. n + 1 \in Nat /\ \A i \in 1..(n + 1) : Callback(p, order[i]) \in CallsOf(p)
    BY <1>1, <1>3, CallbacksDiffer
  <2>2. [i \in 1..(n + 1) |-> Callback(p, order[i])] \in Seq(CallsOf(p))
    BY <2>1
  <2> QED
    BY <1>1, <1>2, <1>5, <2>2
<1>8. ASSUME NEW i \in 1..(n + 1), NEW j \in 1..(n + 1), i < j
      PROVE  s[i].id # s[j].id /\ s[i].phase <= s[j].phase
  <2>1. Earlier(p, order[i], order[j])
    BY <1>3, <1>8
  <2>2. order[i] # order[j]
    BY <1>3, <1>5, <1>6, <2>1 DEF Earlier
  <2>3. s[i].id # s[j].id
    BY <1>3, <1>5, <2>2, CallbacksDiffer
  <2> QED
    BY <1>5, <1>6, <2>1, <2>3 DEF Earlier
<1>9. s[g].phase = SAFETY_VALIDATION
  BY <1>3, <1>4, <1>5, CallbacksDiffer
<1>10. ASSUME NEW j \in 1..(n + 1), s[j].phase >= NETWORK_INIT
       PROVE  g < j
  <2>1. s[j].phase # s[g].phase /\ ~(s[j].phase <= s[g].phase)
    BY <1>6, <1>9, <1>10 DEF NETWORK_INIT, SAFETY_VALIDATION
  <2> QED
    BY <1>1, <1>8, <2>1
<1> DEFINE t == <<EarlyCall(p)>> \o s
<1>11. /\ DOMAIN t = 1..(n + 2) /\ t[1] = EarlyCall(p)
       /\ \A i \in 2..(n + 2) : t[i] = s[i - 1]
  BY <1>1, <1>5, <1>7
<1>12. EarlyCall(p).phase = 0
  BY DEF EarlyCall, Special, BOOT
<1> HIDE DEF t
<1>13. ASSUME NEW i \in DOMAIN t, NEW j \in DOMAIN t, i < j
       PROVE  /\ t[i].id # t[j].id /\ t[i].phase <= t[j].phase
              /\ t[j].phase >= NETWORK_INIT => \E k \in 1..(j - 1) : t[k].phase = SAFETY_VALIDATION
  <2>1. j \in 2..(n + 2) /\ j - 1 \in 1..(n + 1) /\ t[j] = s[j - 1]
    BY <1>1, <1>11, <1>13
  <2>2. t[i].id # t[j].id /\ t[i].phase <= t[j].phase
    <3>1. CASE i = 1
      BY <1>6, <1>11, <1>12, <2>1, <3>1, SMTT(30)
    <3>2. CASE i # 1
      <4>1. i \in 2..(n + 2) /\ i - 1 \in 1..(n + 1) /\ i - 1 < j - 1 /\ t[i] = s[i - 1]
        BY <1>1, <1>11, <1>13, <3>2
      <4> QED
        BY <1>8, <2>1, <4>1
    <3> QED
      BY <3>1, <3>2
  <2>3. ASSUME t[j].phase >= NETWORK_INIT
        PROVE  \E k \in 1..(j - 1) : t[k].phase = SAFETY_VALIDATION
    <3>1. g < j - 1
      BY <1>10, <2>1, <2>3
    <3>2. g + 1 \in 1..(j - 1) /\ g + 1 \in 2..(n + 2) /\ (g + 1) - 1 = g
      BY <1>1, <2>1, <3>1
    <3>3. t[g + 1].phase = SAFETY_VALIDATION
      BY <1>9, <1>11, <3>2
    <3> QED
      BY <3>2, <3>3
  <2> QED
    BY <2>2, <2>3
<1>14. Ordered(t)
  BY <1>13 DEF Ordered
<1> QED
  BY <1>5, <1>6, <1>7, <1>14 DEF t

\* One callback goes from what is to be called to what was called.
LEMMA CallMoves ==
  ASSUME NEW S, NEW r \in Seq(S), NEW t \in Seq(S), t # <<>>, Ordered(r \o t)
  PROVE  /\ Append(r, t[1]) \in Seq(S) /\ Ordered(Append(r, t[1]))
         /\ Ordered(Append(r, t[1]) \o Tail(t))
<1>1. Append(r, t[1]) \in Seq(S) /\ Tail(t) \in Seq(S)
  OBVIOUS
<1>2. Append(r, t[1]) \o Tail(t) = r \o t
  OBVIOUS
<1>3. /\ DOMAIN Append(r, t[1]) = 1..(Len(r) + 1) /\ Len(r) \in Nat
      /\ DOMAIN (r \o t) = 1..(Len(r) + Len(t)) /\ Len(t) >= 1
      /\ \A i \in 1..(Len(r) + 1) : Append(r, t[1])[i] = (r \o t)[i]
  OBVIOUS
<1>4. Ordered(Append(r, t[1]))
  BY <1>3 DEF Ordered
<1> QED
  BY <1>1, <1>2, <1>4

LEMMA FailKeepsOrder ==
  ASSUME RuntimeInv, StartInv, plan' = plan, NEW phase, Fails(phase)
  PROVE  StartInv'
<1>1. starting' = FALSE /\ report'.complete = TRUE /\ calls' = <<>> /\ ran' = ran
  BY DEF Fails, RuntimeInv, RuntimeTypes, ReportOK
<1> QED
  BY <1>1 DEF StartInv, Ordered

LEMMA StartInit == Init => StartInv
BY DEF Init, StartInv, Ordered

\* The order is kept by each step of start() and by a restart; nothing else calls.
LEMMA StartNext ==
  ASSUME RuntimeInv, StartInv, [Next]_vars
  PROVE  StartInv'
<1>1. CASE UNCHANGED <<plan, ran, calls, starting, report>>
  BY <1>1 DEF StartInv
<1>2. CASE Start
  <2>1. CASE EarlyIsCallable
    <3>1. plan' = plan /\ starting' = TRUE /\ ran = <<>>
          /\ calls' = <<EarlyCall(plan)>> /\ ran' = Append(ran, EarlyCall(plan))
      BY <1>2, <2>1 DEF Start, MayStart, StartInv, EarlyCall
    <3>2. EarlyCall(plan) \in CallsOf(plan) /\ ran' = <<EarlyCall(plan)>>
      BY <3>1 DEF CallsOf
    <3>3. Ordered(ran')
      BY <3>2 DEF Ordered
    <3> QED
      BY <3>1, <3>2, <3>3 DEF StartInv
  <2> QED
    BY <1>2, <2>1, FailKeepsOrder DEF Start
<1>3. CASE CallbackReturns
  <2>1. PICK result : Returns(result)
    BY <1>3 DEF CallbackReturns
  <2> DEFINE q == calls[1]
             early == q.need = "SPECIAL" /\ q.phase = BOOT
  <2>2. starting /\ calls # <<>> /\ plan' = plan
    BY <2>1 DEF Returns
  <2>3. CASE ~Tolerated(q, result) \/ (early /\ ~ValidPlan(plan))
    BY <2>1, <2>2, <2>3, FailKeepsOrder DEF Returns
  <2>4. CASE ~(~Tolerated(q, result) \/ (early /\ ~ValidPlan(plan)))
    <3>1. PICK next \in IF early THEN Schedules(plan) ELSE {Tail(calls)} :
            /\ GoesOn(next, After(q, result))
            /\ report'.complete = (next = <<>>)
      <4>1. PICK next \in IF early THEN Schedules(plan) ELSE {Tail(calls)} :
              /\ GoesOn(next, After(q, result))
              /\ report' = [Reported(q, result) EXCEPT
                              !.complete = (next = <<>>),
                              !.final = IF next = <<>> THEN status' ELSE @]
        BY <2>1, <2>4 DEF Returns
      <4>2. report'.complete = (next = <<>>)
        BY <4>1 DEF RuntimeInv, RuntimeTypes, ReportOK, Reported
      <4> QED
        BY <4>1, <4>2
    <3>2. /\ next \in Seq(CallsOf(plan)) /\ Ordered(ran \o next)
          /\ \A i \in DOMAIN next : ~IsEarly(next[i])
      <4>1. CASE early
        <5>1. IsEarly(calls[1]) /\ 1 \in DOMAIN calls
          BY <2>2, <4>1 DEF IsEarly, StartInv
        <5>2. ran = <<EarlyCall(plan)>> /\ plan \in Plans
          BY <2>2, <5>1 DEF StartInv
        <5> QED
          BY <2>4, <3>1, <4>1, <5>2, SchedulesOrdered
      <4>2. CASE ~early
        <5>1. next = Tail(calls) /\ calls \in Seq(CallsOf(plan)) /\ ~IsEarly(calls[1])
          BY <3>1, <4>2 DEF StartInv, IsEarly
        <5>2. IsEarly(EarlyCall(plan))
          BY DEF IsEarly, EarlyCall, Special
        <5>3. calls # <<EarlyCall(plan)>>
          BY <5>1, <5>2
        <5>4. Ordered(ran \o Tail(calls)) /\ \A i \in DOMAIN calls : ~IsEarly(calls[i])
          BY <2>2, <5>3 DEF StartInv
        <5>5. /\ next \in Seq(CallsOf(plan))
              /\ \A i \in DOMAIN next : i + 1 \in DOMAIN calls /\ next[i] = calls[i + 1]
          BY <2>2, <5>1
        <5> QED
          BY <5>1, <5>4, <5>5
      <4> QED
        BY <4>1, <4>2
    <3>3. CASE next # <<>>
      <4>1. ran' = Append(ran, next[1]) /\ calls' = next /\ starting' = starting
        BY <3>1, <3>3 DEF GoesOn
      <4>2. ran \in Seq(CallsOf(plan)) /\ plan \in Plans
        BY DEF StartInv
      <4>3. /\ ran' \in Seq(CallsOf(plan)) /\ Ordered(ran')
            /\ Ordered(ran' \o Tail(calls'))
        BY <3>2, <3>3, <4>1, <4>2, CallMoves
      <4>4. StartInv'
        BY <2>2, <3>2, <4>1, <4>2, <4>3 DEF StartInv
      <4> QED
        BY <4>4
    <3>4. CASE next = <<>>
      <4>1. ran' = ran /\ calls' = <<>> /\ starting' = FALSE /\ report'.complete
        BY <3>1, <3>4 DEF GoesOn
      <4> QED
        BY <2>2, <4>1 DEF StartInv, Ordered
    <3> QED
      BY <3>3, <3>4
  <2> QED
    BY <2>3, <2>4
<1>4. CASE Reboot
  <2>1. plan' = plan /\ starting' = FALSE /\ calls' = <<>> /\ ran' = <<>>
    BY <1>4 DEF Reboot
  <2> QED
    BY <2>1 DEF StartInv, Ordered
<1>5. CASE HandoffRuntimeState \/ Refresh \/ Maintain \/ Command \/ Alarm \/ Fact
  <2>1. UNCHANGED <<plan, ran, calls, starting, report>>
    BY <1>5 DEF HandoffRuntimeState, Refresh, Maintain, RequestMaintenanceTransition, Command,
         Execute, Process, Alarm, SetCondition, Acknowledge, ClearLatched, RestoreAlarm, Becomes,
         Fact, Save, Provide, Lock, runtime, history
  <2> QED
    BY <1>1, <2>1
<1> QED
  BY <1>1, <1>2, <1>3, <1>4, <1>5 DEF Next, StartStep, vars, runtime, history

\* The device starts in order and then obeys its locks: each callback once, phase by phase, and
\* none of the network before the safety gate; every plan, also a wrong one.
THEOREM GatesAlwaysHold == Spec => []GatesHold
<1>1. StartInv => StartOrder
  BY DEF StartInv, StartOrder, Ordered
<1>2. Spec => []StartInv
  BY StartInit, StartNext, RuntimeAlwaysInv, PTL DEF Spec
<1> QED
  BY <1>1, <1>2, LocksAlwaysObeyed, PTL DEF GatesHold

-----------------------------------------------------------------------------
(***************************************************************************)
(* What the time of a device never does, for every configuration, wait,     *)
(* interval and number of retries: a stopped clock is not believed, and     *)
(* neither the Wi-Fi nor the time server is asked too soon.  And what its   *)
(* calendar computes, for every date from 2000 to 2199 and every time.      *)
(***************************************************************************)

-----------------------------------------------------------------------------
(* The battery clock *)

\* A clock that was set to the end.
LEMMA WholeClock ==
  ASSUME NEW r \in Clocks
  PROVE  [Set(r) EXCEPT !.osf = FALSE] \in Clocks /\ [Set(r) EXCEPT !.osf = FALSE].unset = FALSE
<1>1. Set(r) \in Clocks /\ Set(r).unset = FALSE
  BY DEF Set, Clocks, Contents
<1> QED
  BY <1>1 DEF Clocks

\* What a write of the clock leaves, however far it comes.
LEMMA SetUtcKeeps ==
  ASSUME NEW r \in Clocks, r.unset => r.osf, NEW s \in SetUtc(r)
  PROVE  s.clock \in Clocks /\ (s.clock.unset => s.clock.osf)
<1> DEFINE Half == {[r EXCEPT !.content = c] : c \in Contents \ {"right"}}
           Whole == [Set(r) EXCEPT !.osf = FALSE]
<1>1. s.clock \in {r} \cup Half \cup {Set(r), Whole}
  BY DEF SetUtc
<1>2. CASE s.clock = r
  BY <1>2
<1>3. CASE s.clock \in Half
  BY <1>3 DEF Clocks, Contents
<1>4. CASE s.clock = Set(r)
  BY <1>4 DEF Set, Clocks, Contents
<1>5. CASE s.clock = Whole
  BY <1>5, WholeClock
<1> QED
  BY <1>1, <1>2, <1>3, <1>4, <1>5

LEMMA SettingsKeep ==
  ASSUME clock \in Clocks, clock.unset => clock.osf, NEW answer, NEW s \in Settings(answer)
  PROVE  s.clock \in Clocks /\ (s.clock.unset => s.clock.osf)
<1>1. CASE s \in SetsNothing(clock)
  BY <1>1 DEF SetsNothing
<1>2. CASE s \in SetsWell(clock)
  <2>1. s = [done |-> TRUE, clock |-> [Set(clock) EXCEPT !.osf = FALSE]]
    BY <1>2 DEF SetsWell
  <2>2. s.clock = [Set(clock) EXCEPT !.osf = FALSE]
    BY <2>1
  <2>3. s.clock \in Clocks /\ s.clock.unset = FALSE
    BY <2>2, WholeClock
  <2> QED
    BY <2>3
<1>3. CASE s \in SetUtc(clock)
  BY <1>3, SetUtcKeeps
<1>4. s \in SetsNothing(clock) \/ s \in SetsWell(clock) \/ s \in SetUtc(clock)
  BY DEF Settings
<1> QED
  BY <1>1, <1>2, <1>3, <1>4

ClockInv == clock \in Clocks /\ StoppedClockUntrusted

LEMMA ClockNext ==
  ASSUME ClockInv, [TimeNext]_timeVars
  PROVE  ClockInv'
<1>1. CASE UNCHANGED clock
  BY <1>1 DEF ClockInv, StoppedClockUntrusted
<1>2. CASE ClockStops
  <2>1. PICK c \in {"wrong", "garbage"} : clock' = [content |-> c, osf |-> TRUE, unset |-> TRUE]
    BY <1>2 DEF ClockStops, Stopped
  <2> QED
    BY <2>1 DEF ClockInv, StoppedClockUntrusted, Clocks, Contents
<1>3. CASE Pass
  <2>1. UNCHANGED clock \/ \E answer : \E s \in Settings(answer) : clock' = s.clock
    <3>1. CASE CorePass
      BY <3>1 DEF CorePass
    <3>2. CASE LampPass
      BY <3>2 DEF LampPass
    <3>3. CASE \E wifi : DoserPass(wifi)
      BY <3>3 DEF DoserPass
    <3> QED
      BY <1>3, <3>1, <3>2, <3>3 DEF Pass
  <2> QED
    BY <1>1, <2>1, SettingsKeep DEF ClockInv, StoppedClockUntrusted
<1> QED
  BY <1>1, <1>2, <1>3 DEF TimeNext, Boot, ReasonComes, Settles, timeVars

\* However a write of the clock fails, a clock that stopped since it was last set says so.
THEOREM ClockNeverTrustedTooSoon == TimeSpec => []StoppedClockUntrusted
<1>1. TimeInit => ClockInv
  <2>1. Absent \in Clocks /\ Absent.osf
    BY DEF Absent, Clocks, Contents
  <2>2. clock \in NewClocks \/ clock = Absent => ClockInv
    BY <2>1 DEF NewClocks, ClockInv, StoppedClockUntrusted
  <2> QED
    BY <2>2 DEF TimeInit
<1>2. ClockInv => StoppedClockUntrusted
  BY DEF ClockInv
<1> QED
  BY <1>1, <1>2, ClockNext, PTL DEF TimeSpec

-----------------------------------------------------------------------------
(* The Wi-Fi *)

NetFields == {"c", "up", "failed", "state", "ap", "anchor", "active", "conn", "reason", "called"}
ConfigOK(c) == {c.interval, c.fast, c.timeout} \subseteq Nat

\* The wait of a station has lasted no longer than it has been quiet.
Waiting(n, q) ==
  /\ DOMAIN n = NetFields /\ ConfigOK(n.c) /\ n.active \in Nat /\ q \in Nat
  /\ n.anchor = None \/ (n.anchor \in Nat /\ n.anchor <= q)
  /\ n.state = "Connected" => n.anchor = None

\* How long it has been quiet after a pass that made u of the station.
QuietAfter(u, q) == IF u.state = "Connected" \/ u.called THEN 0 ELSE Older(q, Longest(u.c))

LEMMA OlderBounded ==
  ASSUME NEW t \in Nat, NEW bound \in Nat
  PROVE  Older(t, bound) \in Nat /\ Older(t, bound) <= t + 1
         /\ \A s \in Nat : s <= t => Older(s, bound) <= Older(t, bound)
BY DEF Older, None

LEMMA UpdatedWaits ==
  ASSUME NEW n, NEW q, Waiting(n, q), NEW b, NEW reason, NEW works
  PROVE  LET u == Updated(n, b, reason, works)
         IN  /\ Waiting(u, QuietAfter(u, q)) /\ u.c = n.c
             /\ u.called => q + 1 >= n.active
<1> DEFINE bound == Longest(n.c)
           n0 == [n EXCEPT !.called = FALSE, !.anchor = Older(@, bound), !.conn = Older(@, bound)]
           u == Updated(n, b, reason, works)
           q1 == Older(q, bound)
<1>1. bound \in Nat
  BY DEF Waiting, ConfigOK, Longest
<1>2. q1 \in Nat /\ q1 <= q + 1
  BY <1>1, OlderBounded DEF Waiting
<1>3. /\ DOMAIN n0 = NetFields /\ n0.c = n.c /\ n0.active = n.active /\ n0.state = n.state
      /\ n0.called = FALSE /\ n0.anchor = Older(n.anchor, bound)
  BY DEF Waiting, NetFields
<1>4. n0.anchor = None \/ (n0.anchor \in Nat /\ n0.anchor <= q1)
  BY <1>1, <1>3, OlderBounded DEF Waiting, Older, None
<1>5. n0.state = "Connected" => n0.anchor = None
  BY <1>3 DEF Waiting, Older
<1>6. ConfigOK(n0.c) /\ n0.active \in Nat /\ q \in Nat
  BY <1>3 DEF Waiting
<1> HIDE DEF n0, q1, bound
<1> DEFINE Good(v) == /\ Waiting(v, QuietAfter(v, q)) /\ v.c = n.c
                      /\ v.called => q + 1 >= n.active
<1>7. q1 = Older(q, Longest(n0.c))
  BY <1>3 DEF q1, bound
<1>8. Good(n0)
  BY <1>2, <1>3, <1>4, <1>5, <1>6, <1>7 DEF Waiting, QuietAfter
<1>9. Good(ObservesConnected(n0))
  BY <1>3, <1>6 DEF ObservesConnected, Waiting, QuietAfter, NetFields
<1>10. Good(ObservesConnecting(n0))
  <2> DEFINE v == ObservesConnecting(n0)
  <2>1. DOMAIN v = NetFields /\ v.c = n0.c /\ v.active = n0.active /\ v.anchor = n0.anchor
        /\ v.state = "Connecting" /\ v.called = FALSE
    BY <1>3 DEF ObservesConnecting, NetFields
  <2>2. Good(v)
    <3> HIDE DEF v
    <3> QED
      BY <1>2, <1>3, <1>4, <1>6, <1>7, <2>1 DEF Waiting, QuietAfter
  <2> QED
    BY <2>2
<1>11. ASSUME NEW s PROVE Good(Disconnected(n0, s, reason, works))
  <2> DEFINE st == IF s = "Error" THEN "Error" ELSE "Disconnected"
             lost == [n0 EXCEPT !.conn = None, !.state = st]
  <2>1. /\ DOMAIN lost = NetFields /\ lost.c = n0.c /\ lost.active = n0.active
        /\ lost.anchor = n0.anchor /\ lost.state \in {"Error", "Disconnected"} /\ lost.called = FALSE
    <3>1. st \in {"Error", "Disconnected"}
      OBVIOUS
    <3> HIDE DEF st
    <3> QED
      BY <1>3, <3>1 DEF NetFields
  <2>2. \/ n0.anchor = None /\ Disconnected(n0, s, reason, works) = Waits(lost, reason)
        \/ Disconnected(n0, s, reason, works) = lost
        \/ /\ n0.anchor # None /\ ~(n0.anchor < n0.active)
           /\ Disconnected(n0, s, reason, works) = Reconnects(lost, works)
    BY DEF Disconnected
  <2> HIDE DEF lost
  <2>3. Good(lost)
    BY <1>2, <1>3, <1>4, <1>6, <1>7, <2>1 DEF Waiting, QuietAfter
  <2>4. Good(Waits(lost, reason))
    <3> DEFINE v == Waits(lost, reason)
    <3>1. /\ DOMAIN v = NetFields /\ v.c = n0.c /\ v.active \in {n0.c.fast, n0.c.interval}
          /\ v.anchor = 0 /\ v.state = lost.state /\ v.called = FALSE
      <4> DEFINE w == IF reason = "fast" /\ lost.c.fast > 0 THEN lost.c.fast ELSE lost.c.interval
      <4>1. w \in {n0.c.fast, n0.c.interval}
        BY <2>1
      <4>2. v = [lost EXCEPT !.anchor = 0, !.active = w]
        BY DEF Waits
      <4> HIDE DEF v, w
      <4> QED
        BY <2>1, <4>1, <4>2 DEF NetFields
    <3>2. Good(v)
      <4> HIDE DEF v
      <4> QED
        BY <1>2, <1>3, <1>6, <1>7, <2>1, <3>1 DEF Waiting, QuietAfter, ConfigOK
    <3> QED
      BY <3>2
  <2>5. n0.anchor # None /\ ~(n0.anchor < n0.active) => Good(Reconnects(lost, works))
    <3> DEFINE v == Reconnects(lost, works)
    <3>1. /\ DOMAIN v = NetFields /\ v.c = n0.c /\ v.active = n0.active
          /\ v.anchor = None /\ v.called = TRUE
      <4> DEFINE sta == IF works THEN "Connecting" ELSE "Error"
                 con == IF works THEN 0 ELSE None
      <4>1. v = [lost EXCEPT !.anchor = None, !.called = TRUE, !.state = sta, !.conn = con]
        BY DEF Reconnects
      <4> HIDE DEF v, sta, con
      <4> QED
        BY <2>1, <4>1 DEF NetFields
    <3> SUFFICES ASSUME n0.anchor # None, ~(n0.anchor < n0.active)
                 PROVE  Good(v)
      OBVIOUS
    <3> HIDE DEF v
    <3> QED
      BY <1>2, <1>3, <1>4, <1>6, <3>1 DEF Waiting, QuietAfter
  <2> QED
    BY <2>2, <2>3, <2>4, <2>5
<1> HIDE DEF Good
<1>12. Good(u)
  <2>1. u \in {n0, ObservesConnected(n0), ObservesConnecting(n0),
               Disconnected(n0, "Disconnected", reason, works), Disconnected(n0, b, reason, works)}
    BY DEF Updated, n0, bound
  <2> QED
    BY <1>8, <1>9, <1>10, <1>11, <2>1
<1> QED
  BY <1>12 DEF Good

WaitInv == device \in Devices /\ Waiting(net, quiet)

LEMMA BegunWaits ==
  ASSUME NEW c, ConfigOK(c), NEW works
  PROVE  Waiting(Begun(c, works), 0) /\ Begun(c, works).called = FALSE
<1> DEFINE Fresh(n) == /\ DOMAIN n = NetFields /\ n.c = c /\ n.active = c.interval
                       /\ n.anchor = None /\ n.state # "Connected" /\ n.called = FALSE
           on == [Down(c) EXCEPT !.up = TRUE]
           lit == [on EXCEPT !.ap = IF c.ap THEN "Active" ELSE @]
           Bad(n) == [n EXCEPT !.state = "Error", !.failed = n.up]
<1>1. Fresh(Down(c))
  BY DEF Down, NetFields
<1>2. ASSUME NEW n, NEW x, Fresh(n)
      PROVE  /\ Fresh([n EXCEPT !.up = x]) /\ Fresh([n EXCEPT !.ap = x])
             /\ Fresh([n EXCEPT !.state = "Idle"]) /\ Fresh([n EXCEPT !.state = "Connecting"])
             /\ Fresh([n EXCEPT !.state = "Error", !.failed = x])
  BY <1>2 DEF NetFields
<1>3. Fresh(on)
  BY <1>1, <1>2
<1>4. Fresh(lit)
  BY <1>2, <1>3
<1>5. Fresh([on EXCEPT !.ap = "Error"])
  BY <1>2, <1>3
<1> HIDE DEF on, lit, Fresh
<1>6. Begun(c, works) \in {on, [lit EXCEPT !.state = "Idle"], [lit EXCEPT !.state = "Connecting"],
                           Bad(Down(c)), Bad([on EXCEPT !.ap = "Error"]), Bad(lit)}
  BY DEF Begun, on, lit
<1>7. Fresh(Bad(Down(c))) /\ Fresh(Bad([on EXCEPT !.ap = "Error"])) /\ Fresh(Bad(lit))
  BY <1>1, <1>2, <1>4, <1>5
<1>8. Fresh([lit EXCEPT !.state = "Idle"]) /\ Fresh([lit EXCEPT !.state = "Connecting"])
  BY <1>2, <1>4
<1> HIDE DEF Bad
<1>9. Fresh(Begun(c, works))
  BY <1>3, <1>6, <1>7, <1>8
<1> QED
  BY <1>9 DEF Fresh, Waiting, ConfigOK, None

LEMMA NoCallWaits ==
  ASSUME NEW n, Waiting(n, quiet), NoCall(n), UNCHANGED quiet
  PROVE  Waiting(net, quiet)' /\ net'.called = FALSE
BY DEF NoCall, Waiting, NetFields

LEMMA ConnectsWaits ==
  ASSUME Waiting(net, quiet), NEW s, Connects(s)
  PROVE  Waiting(net, quiet)' /\ (net'.called => quiet + 1 >= net.active)
<1>1. PICK reason, works, r :
        /\ net' = [Updated(net, s, reason, works) EXCEPT !.reason = r]
        /\ quiet' = IF net'.state = "Connected" \/ net'.called THEN 0
                    ELSE Older(quiet, Longest(net.c))
  <2>1. PICK works \in BOOLEAN, race \in Reasons :
          LET asked == Consumes(net, s)
              reason == IF race # "none" THEN race ELSE net.reason
              u == Updated(net, s, reason, works)
          IN  /\ net' = [u EXCEPT !.reason = IF asked THEN race ELSE @]
              /\ quiet' = IF net'.state = "Connected" \/ net'.called THEN 0
                          ELSE Older(quiet, Longest(net.c))
    BY DEF Connects
  <2> DEFINE reason == IF race # "none" THEN race ELSE net.reason
             u == Updated(net, s, reason, works)
             r == IF Consumes(net, s) THEN race ELSE u.reason
  <2>2. net' = [u EXCEPT !.reason = r]
    BY <2>1
  <2>3. quiet' = IF net'.state = "Connected" \/ net'.called THEN 0
                 ELSE Older(quiet, Longest(net.c))
    BY <2>1
  <2> HIDE DEF r, reason
  <2> QED
    BY <2>2, <2>3
<1> DEFINE u == Updated(net, s, reason, works)
<1>2. /\ Waiting(u, QuietAfter(u, quiet)) /\ u.c = net.c
      /\ u.called => quiet + 1 >= net.active
  BY UpdatedWaits
<1>3. net' = [u EXCEPT !.reason = r]
  BY <1>1
<1> HIDE DEF u
<1>4. /\ DOMAIN net' = NetFields /\ net'.c = u.c /\ net'.active = u.active
      /\ net'.anchor = u.anchor /\ net'.state = u.state /\ net'.called = u.called
  BY <1>2, <1>3 DEF Waiting, NetFields
<1>5. quiet' = QuietAfter(u, quiet)
  BY <1>1, <1>2, <1>4 DEF QuietAfter
<1> QED
  BY <1>2, <1>4, <1>5 DEF Waiting

-----------------------------------------------------------------------------
(* The time server *)

NtpFields == {"up", "going", "attempt", "period", "result", "started"}
NtpOK(s) ==
  /\ DOMAIN s = NtpFields /\ s.period \in 0..NtpInterval
  /\ {s.going, s.result, s.started} \subseteq BOOLEAN

\* An attempt that ended, with a result, now or in the former state s.
Ended(s, r) == ~r.going /\ r.period = 0 /\ r.result /\ r.started = s.started
\* An attempt that just started.
Started(r) == r.going /\ r.started

LEMMA FinishedEnds ==
  ASSUME NEW s, NtpOK(s)
  PROVE  NtpOK(Finished(s)) /\ Ended(s, Finished(s))
BY NtpAssumption DEF Finished, NtpOK, NtpFields, Ended

LEMMA OlderNtp ==
  ASSUME NEW s, NtpOK(s)
  PROVE  LET r == NtpOlder(s)
         IN  /\ NtpOK(r) /\ r.going = s.going /\ r.result = s.result /\ r.started = FALSE
             /\ r.period <= s.period + 1
<1> DEFINE a == IF s.attempt < NtpTimeout THEN s.attempt + 1 ELSE s.attempt
           p == IF s.period < NtpInterval THEN s.period + 1 ELSE s.period
           r == NtpOlder(s)
<1>1. r = [s EXCEPT !.attempt = a, !.period = p, !.started = FALSE]
  BY DEF NtpOlder
<1>2. p \in 0..NtpInterval /\ p <= s.period + 1
  BY NtpAssumption DEF NtpOK
<1> HIDE DEF a, p, r
<1>3. NtpOK(r) /\ r.going = s.going /\ r.result = s.result /\ r.started = FALSE /\ r.period = p
  BY <1>1, <1>2 DEF NtpOK, NtpFields
<1> QED
  BY <1>2, <1>3 DEF r

LEMMA RequestSyncAsks ==
  ASSUME NEW s, NtpOK(s), NEW wifi, NEW starts
  PROVE  LET r == RequestSync(s, wifi, starts)
         IN  NtpOK(r) /\ (r = s \/ (~s.going /\ (Started(r) \/ Ended(s, r))))
<1> DEFINE r == RequestSync(s, wifi, starts)
<1>1. r = s \/ (~s.going /\ r \in {[s EXCEPT !.going = TRUE, !.attempt = 0, !.started = TRUE],
                                   [Finished(s) EXCEPT !.attempt = 0]})
  BY DEF RequestSync
<1> HIDE DEF r
<1>2. CASE r = [s EXCEPT !.going = TRUE, !.attempt = 0, !.started = TRUE]
  <2>1. NtpOK(r) /\ Started(r)
    BY <1>2 DEF NtpOK, NtpFields, Started
  <2> QED
    BY <1>1, <1>2, <2>1 DEF r
<1>3. CASE r = [Finished(s) EXCEPT !.attempt = 0]
  <2>1. NtpOK(r) /\ Ended(s, r)
    BY <1>3, FinishedEnds DEF NtpOK, NtpFields, Ended
  <2> QED
    BY <1>1, <1>3, <2>1 DEF r
<1> QED
  BY <1>1, <1>2, <1>3 DEF r

LEMMA UpdatedEnds ==
  ASSUME NEW s, NtpOK(s), NEW wifi, NEW answer
  PROVE  LET r == NtpUpdated(s, wifi, answer)
         IN  NtpOK(r) /\ (r = s \/ (s.going /\ Ended(s, r)))
<1>1. NtpUpdated(s, wifi, answer) = s
      \/ (s.going /\ NtpUpdated(s, wifi, answer) = Finished(s))
  BY DEF NtpUpdated, Gone
<1> QED
  BY <1>1, FinishedEnds

\* The attempts of a session keep their distance: g ticks ago the last one started.
Calm(s, g) == NtpOK(s) /\ g \in 0..Far /\ (~s.going => s.period <= g)

LEMMA FarEnough ==
  Far \in Nat /\ NtpInterval <= Far /\ Retry <= Far /\ NtpInterval >= 1
<1>1. NtpInterval \in Nat /\ NtpInterval >= 1
  BY NtpAssumption
<1>2. Retry \in Nat
  BY DoserTimeAssumption
<1> QED
  BY <1>1, <1>2 DEF Far

\* A tick in which r was made of the attempts s as they were g ticks after the last start.
LEMMA GapCalm ==
  ASSUME NEW r, NtpOK(r), gap \in 0..Far, NEW wifi,
         ~r.going => r.period = 0 \/ (~r.started /\ r.period <= gap + 1)
  PROVE  Calm(r, Gap(r, wifi)) /\ (~r.started => Gap(r, wifi) \in {Far, gap + 1})
         /\ (~wifi \/ (gap = Far /\ ~r.started) => Gap(r, wifi) = Far)
<1> DEFINE g == Gap(r, wifi)
<1>1. g \in {0, Far, gap + 1} /\ g \in 0..Far /\ (g = 0 => r.started \/ g = Far)
      /\ (~r.started => g \in {Far, gap + 1}) /\ (~wifi \/ (gap = Far /\ ~r.started) => g = Far)
  BY FarEnough DEF Gap, NtpOK
<1> HIDE DEF g
<1>2. ~r.going => r.period <= g
  BY <1>1, FarEnough, NtpAssumption DEF NtpOK
<1> QED
  BY <1>1, <1>2 DEF g, Calm

\* What may become of the attempts s in a tick: nothing, an end, or a start.
Over(r) == ~r.going /\ r.period = 0 /\ r.result
Outcome(s, r) == NtpOK(r) /\ (r = s \/ Over(r) \/ Started(r))

LEMMA AskOutcome ==
  ASSUME NEW s, NEW q, Outcome(s, q), NEW wifi, NEW starts
  PROVE  LET r == RequestSync(q, wifi, starts)
         IN  Outcome(s, r) /\ (r.started => q.started \/ ~q.going)
BY RequestSyncAsks DEF Outcome, Over, Started, Ended

LEMMA HearOutcome ==
  ASSUME NEW s, NEW q, Outcome(s, q), NEW wifi, NEW answer
  PROVE  LET r == NtpUpdated(q, wifi, answer)
         IN  Outcome(s, r) /\ r.started = q.started /\ (r = q \/ Over(r))
BY UpdatedEnds DEF Outcome, Over, Started, Ended

\* An attempt asked for in time: the interval has passed since the last one.
LEMMA PeriodicOutcome ==
  ASSUME NEW s, NEW q, Outcome(s, q), NEW wifi, NEW starts
  PROVE  LET r == RequestPeriodicSync(q, wifi, starts)
         IN  /\ Outcome(s, r)
             /\ r.started => q.started \/ (q = s /\ ~s.going /\ s.period >= NtpInterval)
<1>1. CASE ~PeriodicSyncDue(q)
  BY <1>1 DEF RequestPeriodicSync
<1>2. CASE PeriodicSyncDue(q)
  <2>1. ~q.going /\ q.period >= NtpInterval /\ NtpInterval >= 1 /\ q.period \in Nat /\ NtpInterval \in Nat
    BY <1>2, NtpAssumption DEF PeriodicSyncDue, Outcome, NtpOK
  <2>2. q = s
    BY <2>1 DEF Outcome, Over, Started
  <2> QED
    BY <1>2, <2>1, <2>2, AskOutcome DEF RequestPeriodicSync
<1> QED
  BY <1>1, <1>2

\* Whatever came of it, the attempts have kept their distance.
LEMMA OutcomeCalm ==
  ASSUME Calm(ntp, gap), NEW r, Outcome(NtpOlder(ntp), r), NEW wifi
  PROVE  /\ Calm(r, Gap(r, wifi))
         /\ ~r.started => Gap(r, wifi) \in {Far, gap + 1}
         /\ ~wifi \/ (gap = Far /\ ~r.started) => Gap(r, wifi) = Far
<1> DEFINE s == NtpOlder(ntp)
<1>1. NtpOK(s) /\ s.going = ntp.going /\ s.started = FALSE /\ s.period <= ntp.period + 1
  BY OlderNtp DEF Calm
<1>2. NtpOK(r) /\ (r = s \/ Over(r) \/ Started(r))
  BY DEF Outcome
<1> HIDE DEF s
<1>3. gap \in 0..Far /\ (~ntp.going => ntp.period <= gap) /\ ntp.period \in Nat /\ s.period \in Nat
  BY <1>1, NtpAssumption DEF Calm, NtpOK
<1>4. ~r.going => r.period = 0 \/ (~r.started /\ r.period <= gap + 1)
  BY <1>1, <1>2, <1>3, FarEnough DEF Over, Started
<1> QED
  BY <1>2, <1>3, <1>4, GapCalm

MemoryFields == {"healthy", "failures", "successes", "polled", "cache", "age", "was", "synced", "last"}
MemoryOK == DOMAIN memory = MemoryFields /\ memory.last \in Nat
AskInv ==
  /\ device \in Devices /\ Calm(ntp, gap) /\ MemoryOK
  /\ device.driver = "core" /\ ~ntp.going /\ ~ntp.result => gap = Far
  /\ device.driver # "core" /\ ~memory.was => gap = Far
  /\ device.driver = "doser" =>
       gap = Far \/ memory.last <= gap \/ (memory.synced /\ memory.cache # "none")

LEMMA CoreAsks ==
  ASSUME AskInv, CorePass, device.driver = "core", UNCHANGED device
  PROVE  AskInv' /\ (ntp'.started => gap + 1 >= NtpInterval)
<1> DEFINE s == NtpOlder(ntp)
           wifi == net'.state = "Connected"
<1>1. PICK starts \in Starts, reads \in Reads, answer \in Answers(s, wifi) :
        LET heard == NtpUpdated(s, wifi, answer)
        IN  ntp' = IF ~wifi \/ ~heard.up THEN heard
                   ELSE IF ~heard.result /\ ~heard.going THEN RequestSync(heard, TRUE, starts)
                   ELSE RequestPeriodicSync(heard, TRUE, starts)
  BY DEF CorePass
<1> DEFINE heard == NtpUpdated(s, wifi, answer)
<1>a. \/ ntp' = heard
      \/ ~heard.result /\ ~heard.going /\ ntp' = RequestSync(heard, TRUE, starts)
      \/ ntp' = RequestPeriodicSync(heard, TRUE, starts)
  BY <1>1
<1>2. gap' = Gap(ntp', wifi) /\ UNCHANGED memory
  BY DEF CorePass
<1>3. /\ NtpOK(s) /\ s.going = ntp.going /\ s.result = ntp.result /\ s.started = FALSE
      /\ s.period <= ntp.period + 1 /\ Outcome(s, s)
  BY OlderNtp DEF AskInv, Calm, Outcome
<1>4. Outcome(s, heard) /\ heard.started = FALSE /\ (heard = s \/ Over(heard))
  BY <1>3, HearOutcome
<1> HIDE DEF s, heard, wifi
<1>5. /\ gap \in 0..Far /\ (~ntp.going => ntp.period <= gap) /\ ntp.period \in Nat
      /\ (~ntp.going /\ ~ntp.result => gap = Far) /\ Far \in Nat /\ Far >= NtpInterval
      /\ NtpInterval \in Nat /\ s.period \in Nat
  BY <1>3, NtpAssumption, FarEnough DEF AskInv, Calm, NtpOK
<1>6. Outcome(s, ntp') /\ (ntp'.started => gap + 1 >= NtpInterval)
  <2>1. CASE ntp' = heard
    BY <1>4, <2>1
  <2>2. CASE ~heard.result /\ ~heard.going /\ ntp' = RequestSync(heard, TRUE, starts)
    <3>1. heard = s /\ gap = Far
      BY <1>3, <1>4, <1>5, <2>2 DEF Over
    <3>2. Outcome(s, ntp')
      BY <1>4, <2>2, AskOutcome
    <3>3. gap + 1 >= NtpInterval
      BY <1>5, <3>1
    <3> QED
      BY <3>2, <3>3
  <2>3. CASE ntp' = RequestPeriodicSync(heard, TRUE, starts)
    <3>1. /\ Outcome(s, ntp')
          /\ ntp'.started => heard.started \/ (heard = s /\ ~s.going /\ s.period >= NtpInterval)
      BY <1>4, <2>3, PeriodicOutcome
    <3>2. ~s.going /\ s.period >= NtpInterval => gap + 1 >= NtpInterval
      BY <1>3, <1>5
    <3> QED
      BY <1>4, <3>1, <3>2
  <2> QED
    BY <1>a, <2>1, <2>2, <2>3
<1>7. /\ Calm(ntp', gap') /\ (gap = Far /\ ~ntp'.started => gap' = Far)
  BY <1>2, <1>6, OutcomeCalm DEF AskInv, s
<1>8. ~ntp'.going /\ ~ntp'.result => gap' = Far
  BY <1>3, <1>5, <1>6, <1>7 DEF Outcome, Over, Started
<1> QED
  BY <1>2, <1>6, <1>7, <1>8 DEF AskInv, MemoryOK

LEMMA LampAsks ==
  ASSUME AskInv, LampPass, device.driver = "lamp", UNCHANGED device
  PROVE  AskInv' /\ (ntp'.started => gap + 1 >= NtpInterval)
<1> DEFINE s == NtpOlder(ntp)
           wifi == net'.state = "Connected"
<1>1. PICK starts \in Starts, reads \in Reads :
        LET asked == IF wifi /\ ~memory.was THEN RequestSync(s, TRUE, starts) ELSE s IN
        \E answer \in Answers(asked, wifi) :
          LET heard == NtpUpdated(asked, wifi, answer)
          IN  ntp' = IF wifi THEN RequestPeriodicSync(heard, TRUE, starts) ELSE heard
  BY DEF LampPass
<1> DEFINE asked == IF wifi /\ ~memory.was THEN RequestSync(s, TRUE, starts) ELSE s
<1>2. PICK answer \in Answers(asked, wifi) :
        LET heard == NtpUpdated(asked, wifi, answer)
        IN  ntp' = IF wifi THEN RequestPeriodicSync(heard, TRUE, starts) ELSE heard
  BY <1>1
<1> DEFINE heard == NtpUpdated(asked, wifi, answer)
<1>3. gap' = Gap(ntp', wifi) /\ memory' = [memory EXCEPT !.was = wifi]
  BY DEF LampPass
<1>4. /\ NtpOK(s) /\ s.going = ntp.going /\ s.result = ntp.result /\ s.started = FALSE
      /\ s.period <= ntp.period + 1 /\ Outcome(s, s)
  BY OlderNtp DEF AskInv, Calm, Outcome
<1>5. /\ gap \in 0..Far /\ (~ntp.going => ntp.period <= gap) /\ ntp.period \in Nat
      /\ (~memory.was => gap = Far) /\ Far \in Nat /\ Far >= NtpInterval
      /\ NtpInterval \in Nat /\ s.period \in Nat
  BY <1>4, NtpAssumption, FarEnough DEF AskInv, Calm, NtpOK
<1>6. Outcome(s, asked) /\ (asked.started => gap = Far)
  <2>1. CASE asked = s
    BY <1>4, <2>1
  <2>2. CASE asked = RequestSync(s, TRUE, starts) /\ ~memory.was
    <3>1. Outcome(s, asked)
      BY <1>4, <2>2, AskOutcome
    <3> QED
      BY <1>5, <2>2, <3>1
  <2> QED
    BY <2>1, <2>2
<1>7. Outcome(s, heard) /\ heard.started = asked.started
  <2> HIDE DEF asked, s
  <2> QED
    BY <1>6, HearOutcome
<1>8. Outcome(s, ntp') /\ (ntp'.started => gap + 1 >= NtpInterval)
  <2> HIDE DEF s, asked, heard
  <2>1. gap = Far => gap + 1 >= NtpInterval
    BY <1>5
  <2>2. CASE ntp' = heard
    BY <1>6, <1>7, <2>1, <2>2
  <2>3. CASE ntp' = RequestPeriodicSync(heard, TRUE, starts)
    <3>1. /\ Outcome(s, ntp')
          /\ ntp'.started => heard.started \/ (heard = s /\ ~s.going /\ s.period >= NtpInterval)
      BY <1>7, <2>3, PeriodicOutcome
    <3>2. ~s.going /\ s.period >= NtpInterval => gap + 1 >= NtpInterval
      BY <1>4, <1>5
    <3> QED
      BY <1>6, <1>7, <2>1, <3>1, <3>2
  <2>4. ntp' = heard \/ ntp' = RequestPeriodicSync(heard, TRUE, starts)
    BY <1>2 DEF heard
  <2> QED
    BY <2>2, <2>3, <2>4
<1>9. Calm(ntp', gap') /\ (~wifi => gap' = Far)
  BY <1>3, <1>8, OutcomeCalm DEF AskInv
<1>10. MemoryOK' /\ memory'.was = wifi
  BY <1>3 DEF AskInv, MemoryOK, MemoryFields
<1> QED
  BY <1>8, <1>9, <1>10 DEF AskInv

\* The memory of the doser, a tick after m, before it asks for the time.
LEMMA PolledMemory ==
  ASSUME NEW m, DOMAIN m = MemoryFields, m.last \in Nat, NEW reading
  PROVE  LET a == MemoryOlder(m)
             p == IF device.rtc /\ PollDue(a) THEN Polled(a, reading) ELSE a
         IN  /\ DOMAIN p = MemoryFields /\ p.last \in Nat /\ p.last <= m.last + 1
             /\ p.was = m.was /\ p.synced = m.synced
             /\ m.cache # "none" => p.cache # "none"
<1> DEFINE a == MemoryOlder(m)
           l == IF m.last + 1 < Wrap THEN m.last + 1 ELSE 0
           x == IF m.polled < ProbeInterval THEN m.polled + 1 ELSE m.polled
           y == IF m.age < Wrap THEN m.age + 1 ELSE m.age
<1>1. a = [m EXCEPT !.polled = x, !.age = y, !.last = l]
  BY DEF MemoryOlder
<1>2. l \in Nat /\ l <= m.last + 1
  OBVIOUS
<1> HIDE DEF a, l, x, y
<1>3. /\ DOMAIN a = MemoryFields /\ a.last = l /\ a.was = m.was /\ a.synced = m.synced
      /\ a.cache = m.cache
  BY <1>1 DEF MemoryFields
<1>4. /\ DOMAIN Polled(a, reading) = MemoryFields /\ Polled(a, reading).last = l
      /\ Polled(a, reading).was = m.was /\ Polled(a, reading).synced = m.synced
      /\ m.cache # "none" => Polled(a, reading).cache # "none"
  <2>1. CASE reading # "none"
    <3> DEFINE successes == IF a.healthy THEN Recoveries ELSE a.successes + 1
               h == a.healthy \/ successes >= Recoveries
    <3>1. Polled(a, reading) = [a EXCEPT !.polled = 0, !.cache = reading, !.age = 0,
                                         !.failures = 0, !.successes = successes, !.healthy = h]
      BY <2>1 DEF Polled
    <3> HIDE DEF successes, h
    <3> QED
      BY <1>3, <2>1, <3>1 DEF MemoryFields
  <2>2. CASE reading = "none"
    <3> DEFINE failures == IF a.failures < Failures THEN a.failures + 1 ELSE a.failures
               h == a.healthy /\ failures < Failures
    <3>1. Polled(a, reading) = [a EXCEPT !.polled = 0, !.successes = 0, !.failures = failures,
                                         !.healthy = h]
      BY <2>2 DEF Polled
    <3> HIDE DEF failures, h
    <3> QED
      BY <1>3, <2>2, <3>1 DEF MemoryFields
  <2> QED
    BY <2>1, <2>2
<1>5. \A b \in BOOLEAN : LET p == IF b THEN Polled(a, reading) ELSE a
      IN  /\ DOMAIN p = MemoryFields /\ p.last \in Nat /\ p.last <= m.last + 1
          /\ p.was = m.was /\ p.synced = m.synced
          /\ m.cache # "none" => p.cache # "none"
  BY <1>2, <1>3, <1>4
<1> QED
  BY <1>5 DEF a

\* When the doser asks, and what it remembers of it.
LEMMA DoserAsks ==
  ASSUME AskInv, NEW wifi \in BOOLEAN, DoserPass(wifi), device.driver = "doser", UNCHANGED device
  PROVE  AskInv' /\ (ntp'.started => gap + 1 >= MinGap)
<1> DEFINE m == MemoryOlder(memory)
           s == NtpOlder(ntp)
<1>1. PICK starts \in Starts, reads \in Reads :
        LET polled == IF device.rtc /\ PollDue(m) THEN Polled(m, ReadsOf(clock, reads)) ELSE m
            asks == Asks(polled, wifi, s.going)
            asked == CASE asks \in {"session", "retry"} -> RequestSync(s, TRUE, starts)
                       [] asks = "periodic" -> RequestPeriodicSync(s, TRUE, starts)
                       [] OTHER -> s
            tried == Attempted(polled, asks, asked.started)
        IN \E answer \in Answers(asked, wifi) :
             LET heard == NtpUpdated(asked, wifi, answer)
                 given == IF answer = "Time" THEN Told(tried) ELSE tried
             IN /\ ntp' = heard /\ memory' = [given EXCEPT !.was = wifi] /\ gap' = Gap(asked, wifi)
  BY DEF DoserPass
<1> DEFINE polled == IF device.rtc /\ PollDue(m) THEN Polled(m, ReadsOf(clock, reads)) ELSE m
           asks == Asks(polled, wifi, s.going)
           asked == CASE asks \in {"session", "retry"} -> RequestSync(s, TRUE, starts)
                      [] asks = "periodic" -> RequestPeriodicSync(s, TRUE, starts)
                      [] OTHER -> s
           tried == Attempted(polled, asks, asked.started)
<1>2. PICK answer \in Answers(asked, wifi) :
        LET heard == NtpUpdated(asked, wifi, answer)
            given == IF answer = "Time" THEN Told(tried) ELSE tried
        IN /\ ntp' = heard /\ memory' = [given EXCEPT !.was = wifi] /\ gap' = Gap(asked, wifi)
  BY <1>1
<1> DEFINE given == IF answer = "Time" THEN Told(tried) ELSE tried
<1>3. /\ NtpOK(s) /\ s.going = ntp.going /\ s.started = FALSE
      /\ s.period <= ntp.period + 1 /\ Outcome(s, s)
  BY OlderNtp DEF AskInv, Calm, Outcome
<1>4. /\ DOMAIN polled = MemoryFields /\ polled.last \in Nat /\ polled.last <= memory.last + 1
      /\ polled.was = memory.was /\ polled.synced = memory.synced
      /\ memory.cache # "none" => polled.cache # "none"
  BY PolledMemory DEF AskInv, MemoryOK
<1>5. /\ gap \in 0..Far /\ (~ntp.going => ntp.period <= gap) /\ ntp.period \in Nat
      /\ (~memory.was => gap = Far) /\ Far \in Nat /\ Far >= Retry /\ memory.last \in Nat
      /\ (gap = Far \/ memory.last <= gap \/ (memory.synced /\ memory.cache # "none"))
      /\ NtpInterval \in Nat /\ s.period \in Nat /\ Retry \in Nat /\ Retry <= NtpInterval
  <2>1. Retry \in Nat /\ Retry <= NtpInterval
    BY DoserTimeAssumption, PacingAssumption
  <2> QED
    BY <1>3, <2>1, NtpAssumption, FarEnough DEF AskInv, Calm, NtpOK, MemoryOK
<1>6. /\ asks = "session" => ~memory.was
      /\ asks = "retry" => (~polled.synced \/ polled.cache = "none") /\ polled.last >= Retry
      /\ asks = "periodic" => polled.synced /\ polled.cache # "none"
  <2> HIDE DEF polled, s
  <2> QED
    BY <1>4 DEF Asks
<1> HIDE DEF polled, m
<1>7. /\ Outcome(s, asked)
      /\ asked.started => \/ asks \in {"session", "retry"}
                          \/ asks = "periodic" /\ ~s.going /\ s.period >= NtpInterval
  <2> HIDE DEF s, asks
  <2>1. CASE asks \in {"session", "retry"}
    <3>1. asked = RequestSync(s, TRUE, starts)
      BY <2>1
    <3> HIDE DEF asked
    <3> QED
      BY <1>3, <2>1, <3>1, AskOutcome
  <2>2. CASE asks = "periodic"
    <3>1. asked = RequestPeriodicSync(s, TRUE, starts)
      BY <2>2
    <3> HIDE DEF asked
    <3> QED
      BY <1>3, <2>2, <3>1, PeriodicOutcome
  <2>3. CASE asks \notin {"session", "retry", "periodic"}
    BY <1>3, <2>3
  <2> QED
    BY <2>1, <2>2, <2>3
<1> HIDE DEF asks, asked
<1>8. asked.started => gap + 1 >= MinGap
  <2>1. Retry <= NtpInterval /\ MinGap \in {Retry, NtpInterval}
    BY <1>5 DEF MinGap
  <2>2. CASE asks = "session"
    <3>1. gap = Far /\ Far >= NtpInterval
      BY <1>5, <1>6, <2>2, FarEnough
    <3> QED
      BY <1>5, <2>1, <3>1
  <2>3. CASE asks = "retry"
    <3>1. ~(memory.synced /\ memory.cache # "none") /\ polled.last >= Retry
      BY <1>4, <1>6, <2>3
    <3>2. Timeless
      BY <3>1 DEF Timeless
    <3>3. gap + 1 >= Retry
      BY <1>4, <1>5, <3>1
    <3> QED
      BY <3>2, <3>3 DEF MinGap
  <2>4. CASE ~s.going /\ s.period >= NtpInterval
    <3>1. gap + 1 >= NtpInterval
      BY <1>3, <1>5, <2>4
    <3> QED
      BY <1>5, <2>1, <3>1
  <2> QED
    BY <1>7, <2>2, <2>3, <2>4
<1> HIDE DEF s
<1>9. Outcome(s, ntp') /\ ntp'.started = asked.started
  BY <1>2, <1>7, HearOutcome
<1>10. Gap(ntp', wifi) = Gap(asked, wifi)
  BY <1>9 DEF Gap
<1>11. /\ Calm(ntp', gap') /\ (~wifi \/ (gap = Far /\ ~asked.started) => gap' = Far)
       /\ (~asked.started => gap' \in {Far, gap + 1})
  BY <1>2, <1>9, <1>10, OutcomeCalm DEF AskInv, s
<1>12. /\ MemoryOK' /\ memory'.was = wifi
       /\ memory'.last = tried.last /\ tried.last \in {0, polled.last}
       /\ asked.started /\ asks \in {"session", "retry"} => tried.last = 0
       /\ polled.synced /\ polled.cache # "none" => memory'.synced /\ memory'.cache # "none"
  <2> DEFINE l == IF asks = "retry" \/ (asks = "session" /\ asked.started) THEN 0 ELSE polled.last
  <2>1. tried = [polled EXCEPT !.last = l]
    BY DEF Attempted
  <2>2. l \in {0, polled.last} /\ (asked.started /\ asks \in {"session", "retry"} => l = 0)
    OBVIOUS
  <2> HIDE DEF l, tried
  <2>3. /\ DOMAIN tried = MemoryFields /\ tried.last = l
        /\ tried.synced = polled.synced /\ tried.cache = polled.cache
    BY <1>4, <2>1 DEF MemoryFields
  <2>4. /\ DOMAIN given = MemoryFields /\ given.last = tried.last
        /\ tried.synced /\ tried.cache # "none" => given.synced /\ given.cache # "none"
    <3>1. CASE answer = "Time"
      BY <2>3, <3>1 DEF Told, MemoryFields
    <3>2. CASE answer # "Time"
      BY <2>3, <3>2
    <3> QED
      BY <3>1, <3>2
  <2>5. memory' = [given EXCEPT !.was = wifi]
    BY <1>2
  <2> HIDE DEF given
  <2>6. /\ DOMAIN memory' = MemoryFields /\ memory'.was = wifi /\ memory'.last = given.last
        /\ memory'.synced = given.synced /\ memory'.cache = given.cache
    BY <2>4, <2>5 DEF MemoryFields
  <2> QED
    BY <1>4, <2>2, <2>3, <2>4, <2>6 DEF MemoryOK
<1> HIDE DEF tried
<1>13. gap' = Far \/ memory'.last <= gap' \/ (memory'.synced /\ memory'.cache # "none")
  <2>1. CASE polled.synced /\ polled.cache # "none"
    BY <1>12, <2>1
  <2>2. CASE ~(polled.synced /\ polled.cache # "none") /\ ~asked.started
    <3>1. gap = Far \/ memory.last <= gap
      BY <1>4, <1>5, <2>2
    <3>2. memory'.last <= memory.last + 1
      BY <1>4, <1>5, <1>12
    <3>3. memory'.last \in Nat
      BY <1>12 DEF MemoryOK
    <3> QED
      BY <1>5, <1>11, <2>2, <3>1, <3>2, <3>3
  <2>3. CASE ~(polled.synced /\ polled.cache # "none") /\ asked.started
    <3>1. memory'.last = 0
      BY <1>6, <1>7, <1>12, <2>3
    <3>2. gap' \in Nat
      BY <1>11, FarEnough DEF Calm
    <3> QED
      BY <3>1, <3>2
  <2> QED
    BY <2>1, <2>2, <2>3
<1> QED
  BY <1>8, <1>9, <1>11, <1>12, <1>13 DEF AskInv

-----------------------------------------------------------------------------
(* Both                                                                     *)

PaceInv == WaitInv /\ AskInv
InTime == (net'.called => quiet + 1 >= net.active) /\ (ntp'.started => gap + 1 >= MinGap)

LEMMA NewNtp ==
  ASSUME NEW works \in BOOLEAN
  PROVE  /\ Calm(NtpBegun(works), Far) /\ NtpBegun(works).started = FALSE
         /\ NtpBegun(works).going = FALSE
BY FarEnough, NtpAssumption DEF NtpBegun, Calm, NtpOK, NtpFields

LEMMA NewMemory ==
  ASSUME NEW reading
  PROVE  /\ DOMAIN Remembers(reading) = MemoryFields /\ Remembers(reading).last = 0
         /\ DOMAIN NoClock = MemoryFields /\ NoClock.last = 0
BY DEF Remembers, NoClock, MemoryFields

LEMMA PaceInit ==
  ASSUME TimeInit
  PROVE  PaceInv
<1>1. ConfigOK(device.config) /\ device \in Devices
  BY DevicesAssumption DEF TimeInit, ConfigOK
<1>2. net = Down(device.config) /\ quiet = 0 /\ ntp = NtpBegun(FALSE) /\ memory = NoClock /\ gap = Far
  BY DEF TimeInit
<1>3. Waiting(net, quiet)
  BY <1>1, <1>2 DEF Down, Waiting, NetFields, ConfigOK
<1>4. Calm(ntp, gap)
  BY <1>2, NewNtp
<1>5. MemoryOK /\ memory.last <= gap
  <2>1. DOMAIN memory = MemoryFields /\ memory.last = 0
    BY <1>2, NewMemory
  <2>2. gap \in Nat
    BY <1>2, FarEnough
  <2> QED
    BY <2>1, <2>2 DEF MemoryOK
<1>6. AskInv
  BY <1>1, <1>2, <1>4, <1>5 DEF AskInv
<1> QED
  BY <1>1, <1>3, <1>6 DEF PaceInv, WaitInv

LEMMA BootPaced ==
  ASSUME PaceInv, Boot
  PROVE  PaceInv' /\ InTime
<1>1. PICK works \in Radios, reads \in BOOLEAN, begun \in BOOLEAN :
        Boots(device, clock, works, reads, begun)
  BY DEF Boot
<1>2. /\ net' = Begun(device.config, works) /\ ntp' = NtpBegun(begun) /\ quiet' = 0 /\ gap' = Far
      /\ \E reading : memory' = Remembers(reading) \/ memory' = NoClock
      /\ device' = device
  BY <1>1 DEF Boots, Boot
<1>3. ConfigOK(device.config) /\ device \in Devices
  BY DevicesAssumption DEF PaceInv, WaitInv, ConfigOK
<1>4. Waiting(net', 0) /\ net'.called = FALSE
  BY <1>2, <1>3, BegunWaits
<1>5. Calm(ntp, gap)' /\ ntp'.started = FALSE
  BY <1>2, NewNtp
<1>6. MemoryOK'
  <2>1. DOMAIN memory' = MemoryFields /\ memory'.last = 0
    BY <1>2, NewMemory
  <2> QED
    BY <2>1 DEF MemoryOK
<1>7. AskInv'
  BY <1>2, <1>3, <1>5, <1>6 DEF AskInv
<1> QED
  BY <1>2, <1>3, <1>4, <1>5, <1>7 DEF PaceInv, WaitInv, InTime

\* Between two passes nothing is asked of anybody.
LEMMA IdlePaced ==
  ASSUME PaceInv, NEW n, NoCall(n), n = net \/ \E why : n = [net EXCEPT !.reason = why],
         UNCHANGED <<device, memory, quiet, gap>>
  PROVE  PaceInv' /\ InTime
<1>1. Waiting(n, quiet)
  BY DEF PaceInv, WaitInv, Waiting, NetFields
<1>2. Waiting(net, quiet)' /\ net'.called = FALSE
  BY <1>1, NoCallWaits
<1>3. ntp' = [ntp EXCEPT !.started = FALSE]
  BY DEF NoCall
<1>4. NtpOK(ntp') /\ ntp'.started = FALSE /\ ntp'.going = ntp.going
      /\ ntp'.result = ntp.result /\ ntp'.period = ntp.period
  BY <1>3 DEF PaceInv, AskInv, Calm, NtpOK, NtpFields
<1>5. AskInv'
  BY <1>4 DEF PaceInv, AskInv, Calm, MemoryOK
<1> QED
  BY <1>2, <1>4, <1>5 DEF PaceInv, WaitInv, InTime

LEMMA PassPaced ==
  ASSUME PaceInv, Pass
  PROVE  PaceInv' /\ InTime
<1>1. PICK sta \in Stas :
        /\ Connects(sta)
        /\ CASE device.driver = "core" -> CorePass
             [] device.driver = "lamp" -> LampPass
             [] OTHER -> DoserPass(sta = "Connected")
  BY DEF Pass
<1>2. device' = device /\ device \in Devices /\ device.driver \in {"core", "lamp", "doser"}
  BY DevicesAssumption DEF Pass, PaceInv, WaitInv
<1>3. Waiting(net, quiet)' /\ (net'.called => quiet + 1 >= net.active)
  BY <1>1, ConnectsWaits DEF PaceInv, WaitInv
<1>4. AskInv' /\ (ntp'.started => gap + 1 >= MinGap)
  <2>1. CASE device.driver = "core"
    BY <1>1, <1>2, <2>1, CoreAsks DEF PaceInv, MinGap, Timeless
  <2>2. CASE device.driver = "lamp"
    BY <1>1, <1>2, <2>2, LampAsks DEF PaceInv, MinGap, Timeless
  <2>3. CASE device.driver = "doser"
    <3>1. DoserPass(sta = "Connected") /\ (sta = "Connected") \in BOOLEAN
      BY <1>1, <2>3
    <3> QED
      BY <1>2, <2>3, <3>1, DoserAsks DEF PaceInv
  <2> QED
    BY <1>2, <2>1, <2>2, <2>3
<1> QED
  BY <1>2, <1>3, <1>4 DEF PaceInv, WaitInv, InTime

LEMMA PaceNext ==
  ASSUME PaceInv, [TimeNext]_timeVars
  PROVE  PaceInv' /\ [InTime]_timeVars
<1>1. CASE UNCHANGED timeVars
  BY <1>1 DEF timeVars, PaceInv, WaitInv, AskInv, MemoryOK
<1>2. CASE ClockStops \/ Settles
  BY <1>2, IdlePaced DEF ClockStops, Settles
<1>3. CASE ReasonComes
  BY <1>3, IdlePaced DEF ReasonComes
<1> QED
  BY <1>1, <1>2, <1>3, BootPaced, PassPaced DEF TimeNext

\* Neither the radio nor the time server is asked before the wait is over, for every
\* configuration and interval, and however connections, answers and restarts follow.
THEOREM AlwaysAskedInTime == TimeSpec => AskedInTime
<1>1. TimeInit => PaceInv
  BY PaceInit
<1>2. PaceInv /\ [TimeNext]_timeVars => PaceInv'
  BY PaceNext
<1>3. PaceInv /\ [TimeNext]_timeVars =>
        [(net'.called => quiet + 1 >= net.active) /\ (ntp'.started => gap + 1 >= MinGap)]_timeVars
  BY PaceNext DEF InTime
<1> QED
  BY <1>1, <1>2, <1>3, PTL DEF TimeSpec, AskedInTime

-----------------------------------------------------------------------------
(* The days since 1970: the parts of DaysFromCivil and CivilFromDays *)

\* The days of a year that begins in March before a month; the days before such a year, over
\* the years 1999 to 2199; the year a month belongs to; and the parts of the way back.
MonthStart(m) == (153 * (IF m > 2 THEN m - 3 ELSE m + 9) + 2) \div 5
YearStart(y) == 365 * y + y \div 4 - (IF y >= 2100 THEN 1 ELSE 0) - 719483
MarchYear(y, m) == IF m <= 2 THEN y - 1 ELSE y
Eras(y, s) == (y \div 400) * 146097 + (y % 400) * 365 + (y % 400) \div 4 - (y % 400) \div 100 + s - 719468
YearOfEra(doe) == (doe - doe \div 1460 + doe \div 36524 - doe \div 146096) \div 365
DayOfYear(doe) == doe - (365 * YearOfEra(doe) + YearOfEra(doe) \div 4 - YearOfEra(doe) \div 100)

\* From 1999 to 2199 the eras of DaysFromCivil are one straight count of leap years.
LEMMA ErasCounted ==
  ASSUME NEW y \in Int, 1999 <= y, y <= 2199, NEW s \in Int
  PROVE  Eras(y, s) = YearStart(y) + s
<1>1. CASE y = 1999
  BY <1>1, SMTT(10) DEF Eras, YearStart
<1>2. CASE 2000 <= y
  BY <1>2, SMTT(10) DEF Eras, YearStart
<1> QED BY <1>1, <1>2, SMTT(10)

\* DaysFromCivil counts the years, then the months of the year, then the days.
LEMMA DaysCounted ==
  ASSUME NEW y \in Int, NEW m \in Int, NEW d \in Int, 1999 <= MarchYear(y, m), MarchYear(y, m) <= 2199
  PROVE  DaysFromCivil(y, m, d) = YearStart(MarchYear(y, m)) + (MonthStart(m) + d - 1)
<1>1. MarchYear(y, m) \in Int /\ MonthStart(m) + d - 1 \in Int
  BY SMTT(10) DEF MarchYear, MonthStart
<1>3. DaysFromCivil(y, m, d) = Eras(MarchYear(y, m), MonthStart(m) + d - 1)
  BY DEF DaysFromCivil, Eras, MonthStart, MarchYear
<1>4. 1999 <= MarchYear(y, m) /\ MarchYear(y, m) <= 2199
  OBVIOUS
<1> QED BY ONLY <1>1, <1>3, <1>4, ErasCounted, SMTT(10)

\* CivilFromDays finds the year 1999, the last of its era, ...
LEMMA EarlyYear ==
  ASSUME NEW s \in Int, 0 <= s, s <= 365, NEW e \in Int, e = 145731 + s
  PROVE  YearOfEra(e) = 399 /\ DayOfYear(e) = s
<1>1. YearOfEra(e) = 399
  BY SMTT(10) DEF YearOfEra
<1> QED BY <1>1, SMTT(10) DEF DayOfYear

\* ... and the years of the next era, whose day 365 is the 29th of February of a leap year.
Since2000(y) == 365 * y + y \div 4 - (IF y >= 100 THEN 1 ELSE 0)
LastDay(y, s) == s = 365 => (y + 1) % 4 = 0 /\ y # 99 /\ y # 199
LEMMA LateYear ==
  ASSUME NEW y \in Int, 0 <= y, y <= 199, NEW s \in Int, 0 <= s, s <= 365,
         LastDay(y, s), NEW e \in Int, e = Since2000(y) + s
  PROVE  YearOfEra(e) = y /\ DayOfYear(e) = s
<1>1. YearOfEra(e) = y
  BY SMTT(10) DEF YearOfEra, LastDay, Since2000
<1> QED BY <1>1, SMTT(10) DEF DayOfYear, Since2000, LastDay

\* What LateYear needs, of a day counted since 1970.
LEMMA SinceMarch2000 ==
  ASSUME NEW y \in Int, 2000 <= y, y <= 2199, NEW s \in Int, 0 <= s, s <= 365, NEW e \in Int,
         e = YearStart(y) + s - 11017
  PROVE  /\ e = Since2000(y - 2000) + s
         /\ 0 <= e /\ e <= 73048
  BY SMTT(10) DEF YearStart, Since2000

LEMMA LateEra ==
  ASSUME NEW e \in Int, 0 <= e, e <= 73048, NEW z \in Int, z = e + 730485
  PROVE  z \div 146097 = 5 /\ z % 146097 = e
  BY SMTT(10)

\* The year that begins in March, and the day of it, are found again.
LEMMA EraFound ==
  ASSUME NEW y \in Int, 1999 <= y, y <= 2199, NEW s \in Int, 0 <= s, s <= 365,
         LastDay(y - 2000, s), NEW z \in Int, z = YearStart(y) + s + 719468
  PROVE  /\ YearOfEra(z % 146097) + (z \div 146097) * 400 = y
         /\ DayOfYear(z % 146097) = s
<1>1. CASE y = 1999
  <2>1. z \div 146097 = 4 /\ z % 146097 = 145731 + s /\ z % 146097 \in Int
    BY <1>1, SMTT(10) DEF YearStart
  <2>2. YearOfEra(z % 146097) = 399 /\ DayOfYear(z % 146097) = s
    BY <2>1, EarlyYear
  <2> QED BY ONLY <1>1, <2>1, <2>2, SMTT(10)
<1>2. CASE 2000 <= y
  <2> DEFINE e == z - 730485
  <2>1. e \in Int /\ e = YearStart(y) + s - 11017 /\ z = e + 730485
    BY SMTT(10) DEF YearStart
  <2> HIDE DEF e
  <2>2. e = Since2000(y - 2000) + s /\ 0 <= e /\ e <= 73048
    BY <1>2, <2>1, SinceMarch2000
  <2>3. z \div 146097 = 5 /\ z % 146097 = e
    BY <2>1, <2>2, LateEra
  <2>5. y - 2000 \in Int /\ 0 <= y - 2000 /\ y - 2000 <= 199
    BY <1>2, SMTT(10)
  <2>6. YearOfEra(e) = y - 2000 /\ DayOfYear(e) = s
    BY <2>1, <2>2, <2>5, LateYear
  <2> QED BY ONLY <2>3, <2>6, y \in Int, SMTT(10)
<1> QED BY <1>1, <1>2, SMTT(10)

\* A day of a month, in a leap year perhaps; and the month found again.
MonthOK(m, d) == /\ 1 <= m /\ m <= 12 /\ 1 <= d /\ d <= 31
                 /\ m = 4 \/ m = 6 \/ m = 9 \/ m = 11 => d <= 30
                 /\ m = 2 => d <= 29
MonthOfYear(s) == (5 * s + 2) \div 153
CivilMonth(mp) == IF mp < 10 THEN mp + 3 ELSE mp - 9
DayOfMonth(s) == s - (153 * MonthOfYear(s) + 2) \div 5 + 1
LEMMA MonthFound ==
  ASSUME NEW m \in Int, NEW d \in Int, MonthOK(m, d), NEW s \in Int, s = MonthStart(m) + d - 1
  PROVE  /\ CivilMonth(MonthOfYear(s)) = m /\ DayOfMonth(s) = d
         /\ 0 <= s /\ s <= 365 /\ (s = 365 => m = 2 /\ d = 29)
<1>1. MonthOfYear(s) = (IF m > 2 THEN m - 3 ELSE m + 9)
  BY SMTT(10) DEF MonthOK, MonthOfYear, MonthStart
<1>2. CivilMonth(MonthOfYear(s)) = m
  BY <1>1, SMTT(10) DEF MonthOK, CivilMonth
<1>3. DayOfMonth(s) = d
  BY <1>1, SMTT(10) DEF MonthOK, MonthStart, DayOfMonth
<1>4. 0 <= s /\ s <= 365 /\ (s = 365 => m = 2 /\ d = 29)
  BY SMTT(10) DEF MonthOK, MonthStart
<1> QED BY <1>2, <1>3, <1>4

\* The dates from 2000 to 2199, and the day after them.
DateOK(y, m, d) ==
  /\ MonthOK(m, d) /\ 2000 <= y /\ y <= 2200 /\ (y = 2200 => m = 1)
  /\ m = 2 /\ d = 29 => y % 4 = 0 /\ y # 2100

\* CivilFromDays inverts DaysFromCivil on those dates.
LEMMA CivilInverse ==
  ASSUME NEW y \in Int, NEW m \in Int, NEW d \in Int, DateOK(y, m, d)
  PROVE  /\ DaysFromCivil(y, m, d) \in Int
         /\ CivilFromDays(DaysFromCivil(y, m, d)) = [year |-> y, month |-> m, day |-> d]
<1> DEFINE p == MarchYear(y, m)  s == MonthStart(m) + d - 1  z == YearStart(p) + s + 719468
<1>1. p \in Int /\ 1999 <= p /\ p <= 2199 /\ y = p + (IF m <= 2 THEN 1 ELSE 0)
  BY SMTT(10) DEF DateOK, MonthOK, MarchYear
<1>2. s \in Int
  BY SMTT(10) DEF MonthStart
<1>3. MonthOK(m, d)
  BY DEF DateOK
<1> HIDE DEF p, s
<1>4. /\ CivilMonth(MonthOfYear(s)) = m /\ DayOfMonth(s) = d
      /\ 0 <= s /\ s <= 365 /\ (s = 365 => m = 2 /\ d = 29)
  BY <1>2, <1>3, MonthFound DEF s
<1>5. LastDay(p - 2000, s)
  <2>1. s = 365 => p + 1 = y /\ y % 4 = 0 /\ y # 2100 /\ y # 2200
    BY <1>1, <1>4, SMTT(10) DEF DateOK
  <2> QED BY ONLY <1>1, <2>1, y \in Int, SMTT(10) DEF LastDay
<1>6. z \in Int /\ YearStart(p) \in Int
  BY <1>1, <1>2, SMTT(10) DEF YearStart
<1>7. DaysFromCivil(y, m, d) = YearStart(p) + s
  BY <1>1, DaysCounted DEF p, s
<1>8. /\ YearOfEra(z % 146097) + (z \div 146097) * 400 = p
      /\ DayOfYear(z % 146097) = s
  BY <1>1, <1>2, <1>4, <1>5, <1>6, EraFound
<1>9. CivilFromDays(YearStart(p) + s) =
        [year |-> YearOfEra(z % 146097) + (z \div 146097) * 400
                    + (IF CivilMonth(MonthOfYear(DayOfYear(z % 146097))) <= 2 THEN 1 ELSE 0),
         month |-> CivilMonth(MonthOfYear(DayOfYear(z % 146097))),
         day |-> DayOfMonth(DayOfYear(z % 146097))]
  BY DEF CivilFromDays, YearOfEra, DayOfYear, CivilMonth, MonthOfYear, DayOfMonth
<1>10. CivilFromDays(YearStart(p) + s) =
        [year |-> p + (IF m <= 2 THEN 1 ELSE 0), month |-> m, day |-> d]
  BY ONLY <1>4, <1>8, <1>9
<1> QED BY ONLY <1>1, <1>2, <1>6, <1>7, <1>10

\* The rule of leap years, and the months, over these two centuries.
LEMMA LeapYears ==
  ASSUME NEW y \in Int, 2000 <= y, y <= 2199
  PROVE  IsLeapYear(y) <=> y % 4 = 0 /\ y # 2100
  BY SMTT(10) DEF IsLeapYear

LEMMA MonthLengths ==
  ASSUME NEW y \in Int, 2000 <= y, y <= 2199, NEW m \in Int, 1 <= m, m <= 12
  PROVE  /\ m = 4 \/ m = 6 \/ m = 9 \/ m = 11 => DaysInMonth(y, m) = 30
         /\ m = 2 => DaysInMonth(y, m) = IF y % 4 = 0 /\ y # 2100 THEN 29 ELSE 28
         /\ ~(m = 2 \/ m = 4 \/ m = 6 \/ m = 9 \/ m = 11) => DaysInMonth(y, m) = 31
         /\ DaysInMonth(y, m) \in Int
<1>1. IsLeapYear(y) <=> y % 4 = 0 /\ y # 2100
  BY LeapYears
<1>2. m \in 1..12
  BY SMTT(10)
<1> QED BY ONLY <1>1, <1>2, SMTT(10) DEF DaysInMonth

LEMMA DatesOK ==
  ASSUME NEW y \in Int, 2000 <= y, y <= 2199, NEW m \in Int, 1 <= m, m <= 12,
         NEW d \in Int, 1 <= d, d <= DaysInMonth(y, m)
  PROVE  DateOK(y, m, d)
  BY MonthLengths, SMTT(10) DEF DateOK, MonthOK

\* The day after a date counts one more.
LEMMA NextDay ==
  ASSUME NEW y \in Int, 2000 <= y, y <= 2199, NEW m \in Int, 1 <= m, m <= 12,
         NEW d \in Int, 1 <= d, d <= DaysInMonth(y, m),
         NEW y2 \in Int, NEW m2 \in Int, NEW d2 \in Int,
         d < DaysInMonth(y, m) => y2 = y /\ m2 = m /\ d2 = d + 1,
         d >= DaysInMonth(y, m) /\ m < 12 => y2 = y /\ m2 = m + 1 /\ d2 = 1,
         d >= DaysInMonth(y, m) /\ m >= 12 => y2 = y + 1 /\ m2 = 1 /\ d2 = 1
  PROVE  DateOK(y2, m2, d2) /\ DaysFromCivil(y2, m2, d2) = DaysFromCivil(y, m, d) + 1
<1> DEFINE n == DaysInMonth(y, m)
<1>1. /\ m = 4 \/ m = 6 \/ m = 9 \/ m = 11 => n = 30
      /\ m = 2 => n = IF y % 4 = 0 /\ y # 2100 THEN 29 ELSE 28
      /\ ~(m = 2 \/ m = 4 \/ m = 6 \/ m = 9 \/ m = 11) => n = 31
      /\ n \in Int
  BY MonthLengths
<1>2. /\ d < n => y2 = y /\ m2 = m /\ d2 = d + 1
      /\ d >= n /\ m < 12 => y2 = y /\ m2 = m + 1 /\ d2 = 1
      /\ d >= n /\ m >= 12 => y2 = y + 1 /\ m2 = 1 /\ d2 = 1
      /\ d <= n /\ 1 <= d /\ 1 <= m /\ m <= 12 /\ 2000 <= y /\ y <= 2199
  OBVIOUS
<1> HIDE DEF n
<1>3. DateOK(y2, m2, d2)
  BY ONLY <1>1, <1>2, y \in Int, m \in Int, d \in Int, y2 \in Int, m2 \in Int, d2 \in Int, SMTT(10) DEF DateOK, MonthOK
<1>4. MarchYear(y, m) \in Int /\ MarchYear(y2, m2) \in Int
  BY ONLY y \in Int, y2 \in Int, SMTT(10) DEF MarchYear
<1>5. 1999 <= MarchYear(y, m) /\ MarchYear(y, m) <= 2199 /\ 1999 <= MarchYear(y2, m2) /\ MarchYear(y2, m2) <= 2199
  BY ONLY <1>2, <1>3, y \in Int, m \in Int, y2 \in Int, m2 \in Int, SMTT(10) DEF MarchYear, DateOK
<1>6. YearStart(MarchYear(y2, m2)) + (MonthStart(m2) + d2 - 1) = YearStart(MarchYear(y, m)) + (MonthStart(m) + d - 1) + 1
  BY ONLY <1>1, <1>2, y \in Int, m \in Int, d \in Int, y2 \in Int, m2 \in Int, d2 \in Int, SMTT(10)
  DEF YearStart, MarchYear, MonthStart
<1>7. /\ DaysFromCivil(y, m, d) = YearStart(MarchYear(y, m)) + (MonthStart(m) + d - 1)
      /\ DaysFromCivil(y2, m2, d2) = YearStart(MarchYear(y2, m2)) + (MonthStart(m2) + d2 - 1)
  BY <1>5, DaysCounted
<1> QED BY ONLY <1>3, <1>6, <1>7

-----------------------------------------------------------------------------
(* The day of the week *)

\* The part of the month in Zeller's congruence, and how it differs from MonthStart.
Zeller(m) == (13 * ((IF m < 3 THEN m + 12 ELSE m) + 1)) \div 5
LEMMA ZellerMonth ==
  ASSUME NEW m \in Int, 1 <= m, m <= 12
  PROVE  /\ Zeller(m) \in Int
         /\ (MonthStart(m) - Zeller(m) + 10) % 7 = 0
  BY SMTT(10) DEF Zeller, MonthStart

LEMMA SameWeekday ==
  ASSUME NEW a \in Int, NEW b \in Int, \E t \in Int : b = a + 7 * t
  PROVE  a % 7 = b % 7
<1>1. PICK t \in Int : b = a + 7 * t
  OBVIOUS
<1> QED BY ONLY <1>1, a \in Int, SMTT(10)

\* Zeller's congruence counts the days as DaysFromCivil does, modulo 7, in each century.
CivilYear(p) == p \in Int /\ 1999 <= p /\ p <= 2199
ZellerFits(s, q) == s \in Int /\ q \in Int /\ (s - q + 10) % 7 = 0
ZellerSum(p, q, d) == d + q + (p % 100) + (p % 100) \div 4 + (p \div 100) \div 4 + 5 * (p \div 100) + 6
ZellerRight(p, s, q, d) == ZellerSum(p, q, d) % 7 = (YearStart(p) + (s + d - 1) + 4) % 7
LEMMA ZellerYear ==
  ASSUME NEW p \in Int, CivilYear(p), NEW s \in Int, NEW q \in Int, ZellerFits(s, q), NEW d \in Int
  PROVE  ZellerRight(p, s, q, d)
<1> DEFINE a == ZellerSum(p, q, d)  b == YearStart(p) + (s + d - 1) + 4  u == (s - q + 10) \div 7
<1>0. 1999 <= p /\ p <= 2199
  BY DEF CivilYear
<1>1. s - q + 10 = 7 * u /\ u \in Int /\ p \div 4 \in Int
  BY SMTT(10) DEF ZellerFits
<1>2. a \in Int /\ b \in Int
  BY SMTT(10) DEF YearStart, ZellerSum
<1>3. a % 7 = b % 7
  <2>1. CASE p < 2000
    <3>1. p \div 100 = 19 /\ p % 100 = p - 1900 /\ (p - 1900) \div 4 = (p \div 4) - 475 /\ 19 \div 4 = 4
      BY <1>0, <2>1, SMTT(10)
    <3>2. a = d + q + (p - 1900) + ((p \div 4) - 475) + 4 + 5 * 19 + 6
      BY ONLY <3>1 DEF ZellerSum
    <3>3. YearStart(p) = 365 * p + p \div 4 - 0 - 719483
      BY <1>0, <2>1, SMTT(10) DEF YearStart
    <3>4. b = 365 * p + p \div 4 - 0 - 719483 + (s + d - 1) + 4
      BY ONLY <3>3
    <3> HIDE DEF a, b, u
    <3>5. b = a + 7 * (52 * p - 102460 + u)
      BY ONLY <1>1, <1>2, <3>2, <3>4, p \in Int, s \in Int, q \in Int, d \in Int
    <3>6. 52 * p - 102460 + u \in Int
      BY ONLY <1>1, p \in Int
    <3>7. \E t \in Int : b = a + 7 * t
      BY ONLY <3>5, <3>6
    <3> QED BY ONLY <1>2, <3>7, SameWeekday, Zenon
  <2>2. CASE 2000 <= p /\ p < 2100
    <3>1. p \div 100 = 20 /\ p % 100 = p - 2000 /\ (p - 2000) \div 4 = (p \div 4) - 500 /\ 20 \div 4 = 5
      BY <1>0, <2>2, SMTT(10)
    <3>2. a = d + q + (p - 2000) + ((p \div 4) - 500) + 5 + 5 * 20 + 6
      BY ONLY <3>1 DEF ZellerSum
    <3>3. YearStart(p) = 365 * p + p \div 4 - 0 - 719483
      BY <1>0, <2>2, SMTT(10) DEF YearStart
    <3>4. b = 365 * p + p \div 4 - 0 - 719483 + (s + d - 1) + 4
      BY ONLY <3>3
    <3> HIDE DEF a, b, u
    <3>5. b = a + 7 * (52 * p - 102443 + u)
      BY ONLY <1>1, <1>2, <3>2, <3>4, p \in Int, s \in Int, q \in Int, d \in Int
    <3>6. 52 * p - 102443 + u \in Int
      BY ONLY <1>1, p \in Int
    <3>7. \E t \in Int : b = a + 7 * t
      BY ONLY <3>5, <3>6
    <3> QED BY ONLY <1>2, <3>7, SameWeekday, Zenon
  <2>3. CASE 2100 <= p
    <3>1. p \div 100 = 21 /\ p % 100 = p - 2100 /\ (p - 2100) \div 4 = (p \div 4) - 525 /\ 21 \div 4 = 5
      BY <1>0, <2>3, SMTT(10)
    <3>2. a = d + q + (p - 2100) + ((p \div 4) - 525) + 5 + 5 * 21 + 6
      BY ONLY <3>1 DEF ZellerSum
    <3>3. YearStart(p) = 365 * p + p \div 4 - 1 - 719483
      BY <1>0, <2>3, SMTT(10) DEF YearStart
    <3>4. b = 365 * p + p \div 4 - 1 - 719483 + (s + d - 1) + 4
      BY ONLY <3>3
    <3> HIDE DEF a, b, u
    <3>5. b = a + 7 * (52 * p - 102426 + u)
      BY ONLY <1>1, <1>2, <3>2, <3>4, p \in Int, s \in Int, q \in Int, d \in Int
    <3>6. 52 * p - 102426 + u \in Int
      BY ONLY <1>1, p \in Int
    <3>7. \E t \in Int : b = a + 7 * t
      BY ONLY <3>5, <3>6
    <3> QED BY ONLY <1>2, <3>7, SameWeekday, Zenon
  <2> QED BY <1>0, <2>1, <2>2, <2>3, SMTT(10)
<1> QED BY <1>3 DEF ZellerRight

LEMMA Weekdays ==
  ASSUME NEW y \in Int, 2000 <= y, y <= 2199, NEW m \in Int, 1 <= m, m <= 12,
         NEW d \in Int
  PROVE  DayOfWeek(y, m, d) = (DaysFromCivil(y, m, d) + 4) % 7
<1> DEFINE p == MarchYear(y, m)
<1>1. p \in Int /\ 1999 <= p /\ p <= 2199
  BY SMTT(10) DEF MarchYear
<1>2. ZellerFits(MonthStart(m), Zeller(m))
  BY ZellerMonth, SMTT(10) DEF MonthStart, ZellerFits
<1>3. DaysFromCivil(y, m, d) = YearStart(p) + (MonthStart(m) + d - 1)
  BY <1>1, DaysCounted, SMTT(10)
<1>4. DayOfWeek(y, m, d) = ZellerSum(p, Zeller(m), d) % 7
  <2>1. (IF m < 3 THEN y - 1 ELSE y) = p
    BY SMTT(10) DEF MarchYear
  <2> HIDE DEF p
  <2> QED BY ONLY <2>1, ZenonT(60) DEF DayOfWeek, Zeller, ZellerSum
<1> HIDE DEF p
<1>5. CivilYear(p)
  BY <1>1, SMTT(10) DEF CivilYear
<1>6. ZellerRight(p, MonthStart(m), Zeller(m), d)
  <2>1. p \in Int /\ MonthStart(m) \in Int /\ Zeller(m) \in Int
    BY ONLY <1>2, <1>5 DEF CivilYear, ZellerFits
  <2> QED BY ONLY <1>2, <1>5, <2>1, ZellerYear, d \in Int, Zenon
<1> QED BY ONLY <1>3, <1>4, <1>6, Zenon DEF ZellerRight

-----------------------------------------------------------------------------
(* The seconds and minutes added *)

\* A time, and the date after a date.
Time(y, m, d, h, i, s) ==
  [year |-> y, month |-> m, day |-> d, hour |-> h, minute |-> i, second |-> s]
Year2(y, m, d) == IF d >= DaysInMonth(y, m) /\ m >= 12 THEN y + 1 ELSE y
Month2(y, m, d) == IF d < DaysInMonth(y, m) THEN m ELSE IF m < 12 THEN m + 1 ELSE 1
Day2(y, m, d) == IF d < DaysInMonth(y, m) THEN d + 1 ELSE 1

LEMMA DayAfter ==
  ASSUME NEW y \in Int, 2000 <= y, y <= 2199, NEW m \in Int, 1 <= m, m <= 12,
         NEW d \in Int, 1 <= d, d <= DaysInMonth(y, m)
  PROVE  LET y2 == Year2(y, m, d)  m2 == Month2(y, m, d)  d2 == Day2(y, m, d) IN
         /\ y2 \in Int /\ m2 \in Int /\ d2 \in Int /\ DateOK(y2, m2, d2)
         /\ DaysFromCivil(y2, m2, d2) = DaysFromCivil(y, m, d) + 1
<1>1. DaysInMonth(y, m) \in Int
  BY MonthLengths, SMTT(10)
<1>2. /\ Year2(y, m, d) \in Int /\ Month2(y, m, d) \in Int /\ Day2(y, m, d) \in Int
      /\ d < DaysInMonth(y, m) => Year2(y, m, d) = y /\ Month2(y, m, d) = m /\ Day2(y, m, d) = d + 1
      /\ d >= DaysInMonth(y, m) /\ m < 12 => Year2(y, m, d) = y /\ Month2(y, m, d) = m + 1 /\ Day2(y, m, d) = 1
      /\ d >= DaysInMonth(y, m) /\ m >= 12 => Year2(y, m, d) = y + 1 /\ Month2(y, m, d) = 1 /\ Day2(y, m, d) = 1
  BY ONLY <1>1, y \in Int, m \in Int, d \in Int, SMTT(10) DEF Year2, Month2, Day2
<1> QED BY <1>2, NextDay, SMTT(10)

\* Tomorrow is that date, at the same hour.
LEMMA TomorrowIs ==
  ASSUME NEW y \in Int, NEW m \in Int, NEW d \in Int, NEW h, NEW i, NEW s, DaysInMonth(y, m) \in Int
  PROVE  Tomorrow(Time(y, m, d, h, i, s))
           = Time(Year2(y, m, d), Month2(y, m, d), Day2(y, m, d), h, i, s)
<1> DEFINE t == Time(y, m, d, h, i, s)
<1>1. t.year = y /\ t.month = m /\ t.day = d /\ t.hour = h /\ t.minute = i /\ t.second = s
  BY DEF Time
<1>2. DOMAIN t = {"year", "month", "day", "hour", "minute", "second"}
  BY DEF Time
<1>3. CASE d < DaysInMonth(y, m)
  <2>1. Tomorrow(t) = [t EXCEPT !.day = @ + 1]
    BY ONLY <1>1, <1>3, Zenon DEF Tomorrow
  <2>2. Year2(y, m, d) = y /\ Month2(y, m, d) = m /\ Day2(y, m, d) = d + 1
    BY <1>3, SMTT(10) DEF Year2, Month2, Day2
  <2> QED BY ONLY <2>1, <2>2 DEF Time
<1>4. CASE ~(d < DaysInMonth(y, m)) /\ m < 12
  <2>1. Tomorrow(t) = [t EXCEPT !.day = 1, !.month = @ + 1]
    BY ONLY <1>1, <1>4, Zenon DEF Tomorrow
  <2>2. Year2(y, m, d) = y /\ Month2(y, m, d) = m + 1 /\ Day2(y, m, d) = 1
    BY <1>4, SMTT(10) DEF Year2, Month2, Day2
  <2> QED BY ONLY <2>1, <2>2 DEF Time
<1>5. CASE ~(d < DaysInMonth(y, m)) /\ ~(m < 12)
  <2>1. Tomorrow(t) = [t EXCEPT !.day = 1, !.month = 1, !.year = @ + 1]
    BY ONLY <1>1, <1>5, Zenon DEF Tomorrow
  <2>2. Year2(y, m, d) = y + 1 /\ Month2(y, m, d) = 1 /\ Day2(y, m, d) = 1
    BY <1>5, SMTT(10) DEF Year2, Month2, Day2
  <2> QED BY ONLY <2>1, <2>2 DEF Time
<1> QED BY <1>3, <1>4, <1>5

\* What IsValidUtc says of a date and of an hour.
IsDay(y, m, d) ==
  2000 <= y /\ y <= 2199 /\ 1 <= m /\ m <= 12 /\ 1 <= d /\ d <= DaysInMonth(y, m)
IsClock(h, i, s) == 0 <= h /\ h <= 23 /\ 0 <= i /\ i <= 59 /\ 0 <= s /\ s <= 59

LEMMA DayOfDay ==
  ASSUME NEW y \in Int, NEW m \in Int, NEW d \in Int, IsDay(y, m, d)
  PROVE  /\ DaysInMonth(y, m) \in Int
         /\ DaysFromCivil(y, m, d) \in Int
         /\ CivilFromDays(DaysFromCivil(y, m, d)) = [year |-> y, month |-> m, day |-> d]
<1>1. DaysInMonth(y, m) \in Int
  BY MonthLengths, SMTT(10) DEF IsDay
<1>2. DateOK(y, m, d)
  BY DatesOK, SMTT(10) DEF IsDay
<1> QED BY <1>1, <1>2, CivilInverse, SMTT(10)

LEMMA DayOfNext ==
  ASSUME NEW y \in Int, NEW m \in Int, NEW d \in Int, IsDay(y, m, d)
  PROVE  /\ Year2(y, m, d) \in Int /\ Month2(y, m, d) \in Int /\ Day2(y, m, d) \in Int
         /\ DaysFromCivil(Year2(y, m, d), Month2(y, m, d), Day2(y, m, d)) = DaysFromCivil(y, m, d) + 1
         /\ CivilFromDays(DaysFromCivil(y, m, d) + 1)
              = [year |-> Year2(y, m, d), month |-> Month2(y, m, d), day |-> Day2(y, m, d)]
<1> DEFINE y2 == Year2(y, m, d)  m2 == Month2(y, m, d)  d2 == Day2(y, m, d)
<1>1. /\ y2 \in Int /\ m2 \in Int /\ d2 \in Int /\ DateOK(y2, m2, d2)
      /\ DaysFromCivil(y2, m2, d2) = DaysFromCivil(y, m, d) + 1
  BY DayAfter, SMTT(10) DEF IsDay
<1> HIDE DEF y2, m2, d2
<1>2. CivilFromDays(DaysFromCivil(y2, m2, d2)) = [year |-> y2, month |-> m2, day |-> d2]
  BY <1>1, CivilInverse, SMTT(10)
<1> QED BY <1>1, <1>2, SMTT(10) DEF y2, m2, d2

\* The hour, minute and second of a second of a day; and whether that is tomorrow's.
HourAt(c) == c \div 3600
MinuteAt(c) == (c % 3600) \div 60
SecondAt(c) == c % 60
NewDay(c) == c >= 86400

\* AddSeconds on the same day and over midnight.
LEMMA AddedSeconds ==
  ASSUME NEW y \in Int, NEW m \in Int, NEW d \in Int, IsDay(y, m, d),
         NEW h \in Int, NEW i \in Int, NEW s \in Int, IsClock(h, i, s), NEW n \in Int, 0 <= n, n <= 86400,
         NEW total \in Int, total = h * 3600 + i * 60 + s + n
  PROVE  /\ ~NewDay(total) => AddSeconds(Time(y, m, d, h, i, s), n)
              = Time(y, m, d, HourAt(total), MinuteAt(total), SecondAt(total))
         /\ NewDay(total) => AddSeconds(Time(y, m, d, h, i, s), n)
              = Time(Year2(y, m, d), Month2(y, m, d), Day2(y, m, d),
                     HourAt(total - 86400), MinuteAt(total - 86400), SecondAt(total - 86400))
<1> DEFINE t == Time(y, m, d, h, i, s)  D == DaysFromCivil(y, m, d)
           at(date, c) == [year |-> date.year, month |-> date.month, day |-> date.day,
                           hour |-> c \div 3600, minute |-> (c % 3600) \div 60, second |-> c % 60]
<1>1. SecondOfDay(t) + n = total /\ t.year = y /\ t.month = m /\ t.day = d
  BY SMTT(10) DEF SecondOfDay, Time
<1>2. AddSeconds(t, n) = at(CivilFromDays(D + total \div 86400), total % 86400)
  BY ONLY <1>1, SMTT(10) DEF AddSeconds
<1>3. total < 86400 => total \div 86400 = 0 /\ total % 86400 = total
  BY SMTT(10) DEF IsClock
<1>4. total >= 86400 => total \div 86400 = 1 /\ total % 86400 = total - 86400
  BY SMTT(10) DEF IsClock
<1>5. D \in Int /\ CivilFromDays(D) = [year |-> y, month |-> m, day |-> d] /\ D + 0 = D
  BY DayOfDay, SMTT(10)
<1>6. CivilFromDays(D + 1) = [year |-> Year2(y, m, d), month |-> Month2(y, m, d), day |-> Day2(y, m, d)]
  BY DayOfNext, SMTT(10)
<1> HIDE DEF D
<1>7. ASSUME total < 86400
      PROVE  AddSeconds(t, n) = Time(y, m, d, total \div 3600, (total % 3600) \div 60, total % 60)
  BY ONLY <1>2, <1>3, <1>5, <1>7, SMTT(10) DEF Time
<1>8. ASSUME total >= 86400
      PROVE  AddSeconds(t, n)
              = Time(Year2(y, m, d), Month2(y, m, d), Day2(y, m, d), (total - 86400) \div 3600,
                     ((total - 86400) % 3600) \div 60, (total - 86400) % 60)
  BY ONLY <1>2, <1>4, <1>6, <1>8, SMTT(10) DEF Time
<1> QED BY <1>7, <1>8, SMTT(10) DEF NewDay, HourAt, MinuteAt, SecondAt

\* The assignments of the code to the fields of a time.
SetSecond(t, a) == [t EXCEPT !.second = a]
SetMinuteSecond(t, b, a) == [t EXCEPT !.second = a, !.minute = b]
SetClock(t, c, b, a) == [t EXCEPT !.second = a, !.minute = b, !.hour = c]
SetHourMinute(t, c, b) == [t EXCEPT !.hour = c, !.minute = b]

LEMMA SecondSet ==
  ASSUME NEW y, NEW m, NEW d, NEW h, NEW i, NEW s, NEW a
  PROVE  [Time(y, m, d, h, i, s) EXCEPT !.second = a] = Time(y, m, d, h, i, a)
  BY SMTT(10) DEF Time

LEMMA MinuteSet ==
  ASSUME NEW y, NEW m, NEW d, NEW h, NEW i, NEW s, NEW a
  PROVE  [Time(y, m, d, h, i, s) EXCEPT !.minute = a] = Time(y, m, d, h, a, s)
  BY SMTT(10) DEF Time

LEMMA HourSet ==
  ASSUME NEW y, NEW m, NEW d, NEW h, NEW i, NEW s, NEW a
  PROVE  [Time(y, m, d, h, i, s) EXCEPT !.hour = a] = Time(y, m, d, a, i, s)
  BY SMTT(10) DEF Time

LEMMA ClockSet ==
  ASSUME NEW y, NEW m, NEW d, NEW h, NEW i, NEW s, NEW a, NEW b, NEW c
  PROVE  /\ SetSecond(Time(y, m, d, h, i, s), a) = Time(y, m, d, h, i, a)
         /\ SetMinuteSecond(Time(y, m, d, h, i, s), b, a) = Time(y, m, d, h, b, a)
         /\ SetClock(Time(y, m, d, h, i, s), c, b, a) = Time(y, m, d, c, b, a)
         /\ SetHourMinute(Time(y, m, d, h, i, s), c, b) = Time(y, m, d, c, b, s)
<1> DEFINE u == [Time(y, m, d, h, i, s) EXCEPT !.second = a]
           v == [u EXCEPT !.minute = b]
           w == [Time(y, m, d, h, i, s) EXCEPT !.hour = c]
<1>1. u = Time(y, m, d, h, i, a)
  BY SecondSet, SMTT(10)
<1>2. w = Time(y, m, d, c, i, s)
  BY HourSet, SMTT(10)
<1> HIDE DEF u, w
<1>3. v = Time(y, m, d, h, b, a)
  BY <1>1, MinuteSet, SMTT(10)
<1>4. [w EXCEPT !.minute = b] = Time(y, m, d, c, b, s)
  BY <1>2, MinuteSet, SMTT(10)
<1> HIDE DEF v
<1>5. [v EXCEPT !.hour = c] = Time(y, m, d, c, b, a)
  BY <1>3, HourSet, SMTT(10)
<1>6. /\ SetMinuteSecond(Time(y, m, d, h, i, s), b, a) = v
      /\ SetClock(Time(y, m, d, h, i, s), c, b, a) = [v EXCEPT !.hour = c]
      /\ SetHourMinute(Time(y, m, d, h, i, s), c, b) = [w EXCEPT !.minute = b]
      /\ SetSecond(Time(y, m, d, h, i, s), a) = u
  BY ZenonT(30) DEF u, v, w, SetMinuteSecond, SetClock, SetHourMinute, SetSecond
<1> QED BY <1>1, <1>3, <1>4, <1>5, <1>6

\* AddOneSecond carries as AddSeconds divides.
LEMMA OneSecondAgrees ==
  ASSUME NEW y \in Int, NEW m \in Int, NEW d \in Int, IsDay(y, m, d),
         NEW h \in Int, NEW i \in Int, NEW s \in Int, IsClock(h, i, s)
  PROVE  AddOneSecond(Time(y, m, d, h, i, s)) = AddSeconds(Time(y, m, d, h, i, s), 1)
<1> DEFINE t == Time(y, m, d, h, i, s)  total == h * 3600 + i * 60 + s + 1  late == total - 86400
<1>1. total \in Int
  OBVIOUS
<1>2. /\ ~NewDay(total) => AddSeconds(t, 1) = Time(y, m, d, HourAt(total), MinuteAt(total), SecondAt(total))
      /\ NewDay(total) => AddSeconds(t, 1)
              = Time(Year2(y, m, d), Month2(y, m, d), Day2(y, m, d), HourAt(late), MinuteAt(late), SecondAt(late))
  BY <1>1, AddedSeconds, SMTT(10)
<1>3. s < 59 => ~NewDay(total) /\ HourAt(total) = h /\ MinuteAt(total) = i /\ SecondAt(total) = s + 1
  BY SMTT(10) DEF IsClock, NewDay, HourAt, MinuteAt, SecondAt
<1>4. ~(s < 59) /\ i < 59 => ~NewDay(total) /\ HourAt(total) = h /\ MinuteAt(total) = i + 1 /\ SecondAt(total) = 0
  BY SMTT(10) DEF IsClock, NewDay, HourAt, MinuteAt, SecondAt
<1>5. ~(s < 59) /\ ~(i < 59) /\ h < 23 =>
         ~NewDay(total) /\ HourAt(total) = h + 1 /\ MinuteAt(total) = 0 /\ SecondAt(total) = 0
  BY SMTT(10) DEF IsClock, NewDay, HourAt, MinuteAt, SecondAt
<1>6. ~(s < 59) /\ ~(i < 59) /\ ~(h < 23) =>
         NewDay(total) /\ HourAt(late) = 0 /\ MinuteAt(late) = 0 /\ SecondAt(late) = 0
  BY SMTT(10) DEF IsClock, NewDay, HourAt, MinuteAt, SecondAt
<1>7. t.hour = h /\ t.minute = i /\ t.second = s
  BY DEF Time
<1>8. Tomorrow(Time(y, m, d, 0, 0, 0)) = Time(Year2(y, m, d), Month2(y, m, d), Day2(y, m, d), 0, 0, 0)
  BY DayOfDay, TomorrowIs, SMTT(10)
<1> HIDE DEF total, late
<1>9. CASE s < 59
  <2>1. AddOneSecond(t) = SetSecond(t, s + 1)
    BY ONLY <1>7, <1>9 DEF AddOneSecond, SetSecond
  <2>2. SetSecond(t, s + 1) = Time(y, m, d, h, i, s + 1)
    BY ONLY ClockSet
  <2> QED BY ONLY <1>2, <1>3, <1>9, <2>1, <2>2, h \in Int, i \in Int, s \in Int
<1>10. CASE ~(s < 59) /\ i < 59
  <2>1. AddOneSecond(t) = SetMinuteSecond(t, i + 1, 0)
    BY ONLY <1>7, <1>10 DEF AddOneSecond, SetMinuteSecond
  <2>2. SetMinuteSecond(t, i + 1, 0) = Time(y, m, d, h, i + 1, 0)
    BY ONLY ClockSet
  <2> QED BY ONLY <1>2, <1>4, <1>10, <2>1, <2>2, h \in Int, i \in Int, s \in Int
<1>11. CASE ~(s < 59) /\ ~(i < 59) /\ h < 23
  <2>1. AddOneSecond(t) = SetClock(t, h + 1, 0, 0)
    BY ONLY <1>7, <1>11 DEF AddOneSecond, SetClock
  <2>2. SetClock(t, h + 1, 0, 0) = Time(y, m, d, h + 1, 0, 0)
    BY ONLY ClockSet
  <2> QED BY ONLY <1>2, <1>5, <1>11, <2>1, <2>2, h \in Int, i \in Int, s \in Int
<1>12. CASE ~(s < 59) /\ ~(i < 59) /\ ~(h < 23)
  <2>1. AddOneSecond(t) = Tomorrow(SetClock(t, 0, 0, 0))
    BY ONLY <1>7, <1>12 DEF AddOneSecond, SetClock
  <2>2. SetClock(t, 0, 0, 0) = Time(y, m, d, 0, 0, 0)
    BY ONLY ClockSet
  <2> QED BY ONLY <1>2, <1>6, <1>8, <1>12, <2>1, <2>2
<1> QED BY <1>9, <1>10, <1>11, <1>12

\* AddMinutes, its sum named.
AddMinutesAt(t, total) ==
  SetHourMinute(IF total >= 1440 THEN Tomorrow(t) ELSE t, (total % 1440) \div 60, total % 60)

LEMMA AddMinutesFrom ==
  ASSUME NEW t, NEW n
  PROVE  AddMinutes(t, n) = AddMinutesAt(t, t.hour * 60 + t.minute + n)
  BY ZenonT(30) DEF AddMinutes, AddMinutesAt, SetHourMinute

\* AddMinutes, up to a day, adds as many seconds.
LEMMA MinutesAgree ==
  ASSUME NEW y \in Int, NEW m \in Int, NEW d \in Int, IsDay(y, m, d),
         NEW h \in Int, NEW i \in Int, NEW s \in Int, IsClock(h, i, s),
         NEW n \in Int, 0 <= n, n <= 1440, NEW k \in Int, k = 60 * n
  PROVE  AddMinutes(Time(y, m, d, h, i, s), n) = AddSeconds(Time(y, m, d, h, i, s), k)
<1> DEFINE t == Time(y, m, d, h, i, s)  minutes == h * 60 + i + n
           total == h * 3600 + i * 60 + s + k  late == total - 86400
           hour == (minutes % 1440) \div 60  minute == minutes % 60
<1>1. total \in Int /\ 0 <= k /\ k <= 86400
  BY SMTT(10)
<1>2. /\ ~NewDay(total) => AddSeconds(t, k) = Time(y, m, d, HourAt(total), MinuteAt(total), SecondAt(total))
      /\ NewDay(total) => AddSeconds(t, k)
              = Time(Year2(y, m, d), Month2(y, m, d), Day2(y, m, d), HourAt(late), MinuteAt(late), SecondAt(late))
  BY <1>1, AddedSeconds, SMTT(10)
<1>0. k = 60 * n
  OBVIOUS
<1>3. total = 60 * minutes + s
  BY ONLY <1>0, h \in Int, i \in Int, s \in Int, n \in Int, k \in Int, SMTT(10)
<1>4. minutes \in Int /\ 0 <= minutes /\ minutes < 2880 /\ 0 <= s /\ s < 60
  BY SMTT(10) DEF IsClock
<1>5. t.hour * 60 + t.minute + n = minutes
  BY ONLY DEF Time
<1> HIDE DEF minutes
<1>6. minutes < 1440 =>
        ~NewDay(total) /\ HourAt(total) = hour /\ MinuteAt(total) = minute /\ SecondAt(total) = s
  BY ONLY <1>3, <1>4, s \in Int, SMTT(10) DEF NewDay, HourAt, MinuteAt, SecondAt
<1>7. minutes >= 1440 =>
        NewDay(total) /\ HourAt(late) = hour /\ MinuteAt(late) = minute /\ SecondAt(late) = s
  BY ONLY <1>3, <1>4, s \in Int, SMTT(10) DEF NewDay, HourAt, MinuteAt, SecondAt
<1>8. Tomorrow(t) = Time(Year2(y, m, d), Month2(y, m, d), Day2(y, m, d), h, i, s)
  BY DayOfDay, TomorrowIs, SMTT(10)
<1>9. AddMinutes(t, n) = SetHourMinute(IF minutes >= 1440 THEN Tomorrow(t) ELSE t, hour, minute)
  BY ONLY <1>5, AddMinutesFrom, SMTT(10) DEF AddMinutesAt
<1> HIDE DEF total, late, hour, minute
<1>10. CASE minutes < 1440
  <2>1. (IF minutes >= 1440 THEN Tomorrow(t) ELSE t) = t
    BY ONLY <1>4, <1>10, SMTT(10)
  <2>2. AddMinutes(t, n) = SetHourMinute(t, hour, minute)
    BY ONLY <1>9, <2>1, SMTT(10)
  <2>3. SetHourMinute(t, hour, minute) = Time(y, m, d, hour, minute, s)
    BY ONLY ClockSet
  <2> QED BY ONLY <1>2, <1>6, <1>10, <2>2, <2>3, SMTT(10)
<1>11. CASE minutes >= 1440
  <2>1. (IF minutes >= 1440 THEN Tomorrow(t) ELSE t) = Tomorrow(t)
    BY ONLY <1>11, SMTT(10)
  <2>2. AddMinutes(t, n) = SetHourMinute(Tomorrow(t), hour, minute)
    BY ONLY <1>9, <2>1, SMTT(10)
  <2>3. SetHourMinute(Time(Year2(y, m, d), Month2(y, m, d), Day2(y, m, d), h, i, s), hour, minute)
          = Time(Year2(y, m, d), Month2(y, m, d), Day2(y, m, d), hour, minute, s)
    BY ONLY ClockSet
  <2> QED BY ONLY <1>2, <1>7, <1>8, <1>11, <2>2, <2>3, SMTT(10)
<1> QED BY <1>4, <1>10, <1>11, SMTT(10)

-----------------------------------------------------------------------------
(* The registers of the battery clock *)

\* Each register is read as it was written: two digits, the hour of the 24, and the month
\* beside the bit of the century.
LEMMA BcdReadBack ==
  ASSUME NEW v \in Int, 0 <= v, v <= 99
  PROVE  /\ DecToBcd(v) \in Int /\ Bcd(DecToBcd(v)) = v
         /\ DecToBcd(v) % 16 <= 9 /\ DecToBcd(v) \div 16 <= 9
  BY SMTT(10) DEF DecToBcd, Bcd

LEMMA IsBcdOf ==
  ASSUME NEW v \in Int, 0 <= v, v <= 99, NEW n \in Int, v <= n
  PROVE  IsBcd(DecToBcd(v), n)
  BY BcdReadBack, SMTT(10) DEF IsBcd

LEMMA HourReadBack ==
  ASSUME NEW h \in Int, 0 <= h, h <= 23
  PROVE  IsHour(DecToBcd(h)) /\ HourOf(DecToBcd(h)) = h
<1> DEFINE b == DecToBcd(h)
<1>1. b \in Int /\ 0 <= b /\ b <= 35
  BY SMTT(10) DEF DecToBcd
<1>2. Bcd(b) = h /\ IsBcd(b, 23)
  BY BcdReadBack, IsBcdOf, SMTT(10)
<1> HIDE DEF b
<1>3. ~Bit(b, 64) /\ ~Bit(b, 128) /\ b % 64 = b
  BY ONLY <1>1, SMTT(10) DEF Bit
<1>4. IsHour(b) /\ HourOf(b) = h
  BY ONLY <1>2, <1>3, SMTT(10) DEF IsHour, HourOf
<1> QED BY <1>4 DEF b

LEMMA MonthReadBack ==
  ASSUME NEW m \in Int, 1 <= m, m <= 12, NEW c \in Int, c = 0 \/ c = 128
  PROVE  LET b == DecToBcd(m) + c IN
         /\ ~Bit(b, 64) /\ ~Bit(b, 32) /\ b % 32 = DecToBcd(m)
         /\ Bit(b, 128) <=> c = 128
<1> DEFINE e == DecToBcd(m)
<1>1. e \in Int /\ 0 <= e /\ e <= 18
  BY SMTT(10) DEF DecToBcd
<1> HIDE DEF e
<1>2. CASE c = 0
  <2>1. (e + c) \div 64 = 0 /\ (e + c) \div 32 = 0 /\ (e + c) \div 128 = 0 /\ (e + c) % 32 = e
    BY ONLY <1>1, <1>2, SMTT(10)
  <2> QED BY ONLY <2>1, <1>2, SMTT(10) DEF Bit, e
<1>3. CASE c = 128
  <2>1. (e + c) \div 64 = 2 /\ (e + c) \div 32 = 4 /\ (e + c) \div 128 = 1 /\ (e + c) % 32 = e
    BY ONLY <1>1, <1>3, SMTT(10)
  <2> QED BY ONLY <2>1, <1>3, SMTT(10) DEF Bit, e
<1> QED BY <1>2, <1>3

\* The dates and hours above are those IsValidUtc accepts.
LEMMA ValidUtc ==
  ASSUME NEW y \in Int, NEW m \in Int, NEW d \in Int, IsDay(y, m, d),
         NEW h \in Int, NEW i \in Int, NEW s \in Int, IsClock(h, i, s)
  PROVE  IsValidUtc(Time(y, m, d, h, i, s))
<1> DEFINE t == Time(y, m, d, h, i, s)
<1>1. t.year = y /\ t.month = m /\ t.day = d /\ t.hour = h /\ t.minute = i /\ t.second = s
  BY ONLY DEF Time
<1>2. /\ y \in 2000..2199 /\ m \in 1..12 /\ d \in 1..DaysInMonth(y, m)
      /\ h \in 0..23 /\ i \in 0..59 /\ s \in 0..59
  BY DayOfDay, SMTT(10) DEF IsDay, IsClock
<1> HIDE DEF t
<1>3. IsValidUtc(t)
  BY ONLY <1>1, <1>2, SMTT(10) DEF IsValidUtc
<1> QED BY <1>3 DEF t

\* All seven together.
LEMMA ReadBack ==
  ASSUME NEW y \in Int, NEW m \in Int, NEW d \in Int, IsDay(y, m, d),
         NEW h \in Int, NEW i \in Int, NEW s \in Int, IsClock(h, i, s)
  PROVE  Decoded(Registers(Time(y, m, d, h, i, s))) = Time(y, m, d, h, i, s)
<1> DEFINE t == Time(y, m, d, h, i, s)  r == Registers(t)  c == IF y >= 2100 THEN 128 ELSE 0
<1>1. t.year = y /\ t.month = m /\ t.day = d /\ t.hour = h /\ t.minute = i /\ t.second = s
  BY ONLY DEF Time
<1>2. /\ r[1] = DecToBcd(s) /\ r[2] = DecToBcd(i) /\ r[3] = DecToBcd(h) /\ r[5] = DecToBcd(d)
      /\ r[6] = DecToBcd(m) + c /\ r[7] = DecToBcd(y % 100)
  BY ONLY <1>1, SMTT(10) DEF Registers
<1>3. /\ 0 <= s /\ s <= 59 /\ 0 <= i /\ i <= 59 /\ 0 <= h /\ h <= 23 /\ 1 <= d /\ d <= 31
      /\ 1 <= m /\ m <= 12 /\ 2000 <= y /\ y <= 2199
  <2>1. IsDay(y, m, d) => d <= 31
    BY MonthLengths, SMTT(10) DEF IsDay
  <2> QED BY <2>1, SMTT(10) DEF IsDay, IsClock
<1>4. y % 100 \in Int /\ 0 <= y % 100 /\ y % 100 <= 99 /\ y = 2000 + (IF y >= 2100 THEN 100 ELSE 0) + (y % 100)
  BY ONLY <1>3, y \in Int, SMTT(10)
<1>5. /\ IsBcd(r[1], 59) /\ IsBcd(r[2], 59) /\ IsBcd(r[5], 31) /\ IsBcd(r[7], 99)
      /\ Bcd(r[1]) = s /\ Bcd(r[2]) = i /\ Bcd(r[5]) = d /\ Bcd(r[7]) = y % 100
  BY ONLY <1>2, <1>3, <1>4, BcdReadBack, IsBcdOf, s \in Int, i \in Int, d \in Int, SMTT(10)
<1>6. IsHour(r[3]) /\ HourOf(r[3]) = h
  BY ONLY <1>2, <1>3, HourReadBack, h \in Int, SMTT(10)
<1>7. /\ ~Bit(r[6], 64) /\ ~Bit(r[6], 32) /\ r[6] % 32 = DecToBcd(m)
      /\ Bit(r[6], 128) <=> y >= 2100
  <2>1. c \in Int /\ (c = 0 \/ c = 128) /\ (c = 128 <=> y >= 2100)
    BY ONLY y \in Int, SMTT(10)
  <2> HIDE DEF c
  <2> QED BY ONLY <1>2, <1>3, <2>1, MonthReadBack, m \in Int, SMTT(10)
<1>8. IsBcd(r[6] % 32, 12) /\ Bcd(r[6] % 32) = m
  BY ONLY <1>3, <1>7, BcdReadBack, IsBcdOf, m \in Int, SMTT(10)
<1>9. 2000 + (IF Bit(r[6], 128) THEN 100 ELSE 0) + Bcd(r[7]) = y
  BY ONLY <1>4, <1>5, <1>7, y \in Int, SMTT(10)
<1>10. IsValidUtc(t)
  BY ValidUtc
<1> HIDE DEF r
<1>11. [second |-> Bcd(r[1]), minute |-> Bcd(r[2]), hour |-> HourOf(r[3]), day |-> Bcd(r[5]),
            month |-> Bcd(r[6] % 32),
            year |-> 2000 + (IF Bit(r[6], 128) THEN 100 ELSE 0) + Bcd(r[7])] = t
  BY ONLY <1>5, <1>6, <1>8, <1>9, SMTT(10) DEF Time
<1> HIDE DEF t
<1>12. Decoded(r) = t
  BY ONLY <1>5, <1>6, <1>7, <1>8, <1>10, <1>11, SMTT(10) DEF Decoded
<1> QED BY <1>12 DEF r, t

-----------------------------------------------------------------------------
(* The local time of Warsaw *)

\* The days of a year against the last of March and of October.
LEMMA DaysInOrder ==
  ASSUME NEW y \in Int, NEW m \in Int, NEW d \in Int, IsDay(y, m, d)
  PROVE  LET D == DaysFromCivil(y, m, d)
             P == DaysFromCivil(y, 3, 31)  Q == DaysFromCivil(y, 10, 31) IN
         /\ D \in Int /\ P \in Int /\ Q \in Int
         /\ m < 3 => D < P - 30
         /\ m = 3 => D = P + d - 31
         /\ m > 3 => P < D
         /\ m < 10 => D < Q - 30
         /\ m = 10 => D = Q + d - 31
         /\ m > 10 => Q < D
<1>1. DaysFromCivil(y, m, d) = YearStart(MarchYear(y, m)) + (MonthStart(m) + d - 1)
  <2>1. 1999 <= MarchYear(y, m) /\ MarchYear(y, m) <= 2199
    BY SMTT(10) DEF IsDay, MarchYear
  <2> QED BY <2>1, DaysCounted, SMTT(10)
<1>2. /\ DaysFromCivil(y, 3, 31) = YearStart(MarchYear(y, 3)) + (MonthStart(3) + 31 - 1)
      /\ DaysFromCivil(y, 10, 31) = YearStart(MarchYear(y, 10)) + (MonthStart(10) + 31 - 1)
  <2>1. ASSUME NEW a \in Int, a = 3 \/ a = 10
        PROVE  DaysFromCivil(y, a, 31) = YearStart(MarchYear(y, a)) + (MonthStart(a) + 31 - 1)
    <3>1. 1999 <= MarchYear(y, a) /\ MarchYear(y, a) <= 2199
      BY <2>1, SMTT(10) DEF IsDay, MarchYear
    <3> QED BY ONLY <3>1, DaysCounted, y \in Int, a \in Int, SMTT(10)
  <2> QED BY ONLY <2>1, SMTT(10)
<1>3. /\ 2000 <= y /\ y <= 2199 /\ 1 <= m /\ m <= 12 /\ 1 <= d
      /\ m = 4 \/ m = 6 \/ m = 9 \/ m = 11 => d <= 30
      /\ m = 2 => d <= IF y % 4 = 0 /\ y # 2100 THEN 29 ELSE 28
      /\ d <= 31
  BY MonthLengths, SMTT(10) DEF IsDay
<1> DEFINE D == YearStart(MarchYear(y, m)) + (MonthStart(m) + d - 1)
           P == YearStart(MarchYear(y, 3)) + (MonthStart(3) + 31 - 1)
           Q == YearStart(MarchYear(y, 10)) + (MonthStart(10) + 31 - 1)
<1>4. /\ D \in Int /\ P \in Int /\ Q \in Int
      /\ m < 3 => D < P - 30
      /\ m = 3 => D = P + d - 31
      /\ m > 3 => P < D
      /\ m < 10 => D < Q - 30
      /\ m = 10 => D = Q + d - 31
      /\ m > 10 => Q < D
  BY ONLY <1>3, y \in Int, m \in Int, d \in Int, SMTT(20) DEF YearStart, MonthStart, MarchYear
<1> HIDE DEF D, P, Q
<1>5. DaysFromCivil(y, m, d) = D /\ DaysFromCivil(y, 3, 31) = P /\ DaysFromCivil(y, 10, 31) = Q
  BY ONLY <1>1, <1>2 DEF D, P, Q
<1> QED BY ONLY <1>4, <1>5, m \in Int, SMTT(10)

\* The last Sunday before a last day of a month.
Sundays(a, b) == {n \in a..b : (n + 4) % 7 = 0}
LEMMA LastSundayIs ==
  ASSUME NEW p \in Int
  PROVE  LET w == (p + 4) % 7 IN
         /\ w \in Int /\ 0 <= w /\ w <= 6
         /\ Max(Sundays(p - 6, p)) = p - w
<1> DEFINE w == (p + 4) % 7  S == {n \in (p - 6)..p : (n + 4) % 7 = 0}
<1>1. w \in Int /\ 0 <= w /\ w <= 6 /\ (p - w + 4) % 7 = 0
  BY SMTT(10)
<1>2. \A n \in Int : p - 6 <= n /\ n <= p /\ (n + 4) % 7 = 0 => n = p - w
  BY SMTT(10)
<1>3. \A n \in S : n = p - w
  BY <1>2, SMTT(10)
<1>4. p - w \in S
  BY <1>1, SMTT(10)
<1>5. S = {p - w}
  BY ONLY <1>3, <1>4
<1> HIDE DEF S
<1>6. p - w \in Int
  BY <1>1
<1> HIDE DEF w
<1>7. Max(S) = p - w
  BY ONLY <1>5, <1>6, SMTT(10) DEF Max
<1> QED BY <1>1, <1>7 DEF w, S, Sundays

\* The two changes of a year fall on LastSunday of March and of October.
LEMMA ChangeIs ==
  ASSUME NEW y \in Int, NEW m \in Int, m = 3 \/ m = 10, 2000 <= y, y <= 2199
  PROVE  LET P == DaysFromCivil(y, m, 31)  w == (P + 4) % 7 IN
         /\ P \in Int /\ w \in Int /\ 0 <= w /\ w <= 6
         /\ ChangeOf(y, m) = <<P - w, 3600>>
         /\ LastSunday(y, m) = 31 - w
<1> DEFINE P == DaysFromCivil(y, m, 31)  w == (P + 4) % 7
<1>1. DaysInMonth(y, m) = 31
  BY MonthLengths, SMTT(10)
<1>2. P \in Int
  <2>1. IsDay(y, m, 31)
    BY <1>1, SMTT(10) DEF IsDay
  <2> QED BY <2>1, DayOfDay, SMTT(10)
<1>3. DayOfWeek(y, m, 31) = w
  BY Weekdays, SMTT(10)
<1>4. DaysFromCivil(y, m, 25) = P - 6
  <2>1. 1999 <= MarchYear(y, m) /\ MarchYear(y, m) <= 2199
    BY SMTT(10) DEF MarchYear
  <2>2. /\ P = YearStart(MarchYear(y, m)) + (MonthStart(m) + 31 - 1)
        /\ DaysFromCivil(y, m, 25) = YearStart(MarchYear(y, m)) + (MonthStart(m) + 25 - 1)
    BY ONLY <2>1, DaysCounted, y \in Int, m \in Int, SMTT(10)
  <2>3. YearStart(MarchYear(y, m)) \in Int /\ MonthStart(m) \in Int
    BY SMTT(10) DEF YearStart, MarchYear, MonthStart
  <2> QED BY ONLY <2>2, <2>3, SMTT(10)
<1> HIDE DEF P
<1>5. w \in Int /\ 0 <= w /\ w <= 6
  BY ONLY <1>2, SMTT(10)
<1>6. Max(Sundays(P - 6, P)) = P - w
  BY ONLY <1>2, LastSundayIs
<1>7. ChangeOf(y, m) = <<Max(Sundays(P - 6, P)), 3600>>
  <2>1. ChangeOf(y, m) = <<Max(Sundays(DaysFromCivil(y, m, 25), P)), 3600>>
    BY ONLY DEF ChangeOf, Sundays, P
  <2> QED BY ONLY <1>4, <2>1
<1>8. LastSunday(y, m) = 31 - w
  BY ONLY <1>1, <1>3 DEF LastSunday
<1> QED BY <1>2, <1>5, <1>6, <1>7, <1>8, SMTT(10) DEF P

\* isDstEuropeWarsaw compares months, days and hours; the property, days since 1970.
Summer(t) == NotAfter(ChangeOf(t.year, 3), Stamp(t)) /\ ~NotAfter(ChangeOf(t.year, 10), Stamp(t))
LEMMA SummerIs ==
  ASSUME NEW y \in Int, NEW m \in Int, NEW d \in Int, IsDay(y, m, d),
         NEW h \in Int, NEW i \in Int, NEW s \in Int, IsClock(h, i, s)
  PROVE  IsDst(Time(y, m, d, h, i, s)) <=> Summer(Time(y, m, d, h, i, s))
<1> DEFINE t == Time(y, m, d, h, i, s)  D == DaysFromCivil(y, m, d)
           P == DaysFromCivil(y, 3, 31)  Q == DaysFromCivil(y, 10, 31)
           v == (P + 4) % 7  w == (Q + 4) % 7  c == h * 3600 + i * 60 + s
<1>1. t.year = y /\ t.month = m /\ t.day = d /\ t.hour = h /\ t.minute = i /\ t.second = s
  BY ONLY DEF Time
<1>2. Stamp(t) = <<D, c>>
  <2>1. SecondOfDay(t) = c
    BY ONLY <1>1 DEF SecondOfDay
  <2> HIDE DEF t
  <2> QED BY ONLY <1>1, <2>1 DEF Stamp
<1>3. 2000 <= y /\ y <= 2199 /\ 1 <= m /\ m <= 12 /\ m \in Int /\ d \in Int /\ h \in Int
  BY DEF IsDay
<1>4. /\ P \in Int /\ v \in Int /\ 0 <= v /\ v <= 6
      /\ ChangeOf(y, 3) = <<P - v, 3600>> /\ LastSunday(y, 3) = 31 - v
  BY ONLY <1>3, ChangeIs, y \in Int, SMTT(10)
<1>5. /\ Q \in Int /\ w \in Int /\ 0 <= w /\ w <= 6
      /\ ChangeOf(y, 10) = <<Q - w, 3600>> /\ LastSunday(y, 10) = 31 - w
  BY ONLY <1>3, ChangeIs, y \in Int, SMTT(10)
<1>6. /\ D \in Int
      /\ m < 3 => D < P - 30
      /\ m = 3 => D = P + d - 31
      /\ m > 3 => P < D
      /\ m < 10 => D < Q - 30
      /\ m = 10 => D = Q + d - 31
      /\ m > 10 => Q < D
  BY DaysInOrder, SMTT(10)
<1>7. c \in Int /\ (3600 <= c <=> h >= 1)
  BY SMTT(10) DEF IsClock
<1> HIDE DEF t, D, P, Q, v, w, c
<1>8. NotAfter(ChangeOf(y, 3), Stamp(t)) <=> m > 3 \/ (m = 3 /\ (d > 31 - v \/ (d = 31 - v /\ h >= 1)))
  <2>1. NotAfter(ChangeOf(y, 3), Stamp(t)) <=> P - v < D \/ (P - v = D /\ 3600 <= c)
    BY ONLY <1>2, <1>4, SMTT(10) DEF NotAfter
  <2> QED BY ONLY <2>1, <1>3, <1>4, <1>6, <1>7, SMTT(10)
<1>9. NotAfter(ChangeOf(y, 10), Stamp(t)) <=> m > 10 \/ (m = 10 /\ (d > 31 - w \/ (d = 31 - w /\ h >= 1)))
  <2>1. NotAfter(ChangeOf(y, 10), Stamp(t)) <=> Q - w < D \/ (Q - w = D /\ 3600 <= c)
    BY ONLY <1>2, <1>5, SMTT(10) DEF NotAfter
  <2> QED BY ONLY <2>1, <1>3, <1>5, <1>6, <1>7, SMTT(10)
<1>10. IsDst(t) <=> \/ m \in 4..9
                    \/ m = 3 /\ (d > 31 - v \/ (d = 31 - v /\ h >= 1))
                    \/ m = 10 /\ (d < 31 - w \/ (d = 31 - w /\ h < 1))
  BY ONLY <1>1, <1>4, <1>5 DEF IsDst
<1>11. Summer(t) <=> NotAfter(ChangeOf(y, 3), Stamp(t)) /\ ~NotAfter(ChangeOf(y, 10), Stamp(t))
  BY ONLY <1>1 DEF Summer
<1>12. IsDst(t) <=> Summer(t)
  BY ONLY <1>3, <1>4, <1>5, <1>8, <1>9, <1>10, <1>11, SMTT(10)
<1> QED BY <1>12 DEF t

-----------------------------------------------------------------------------
(* The calendar: every day and every time *)

\* The examined days and instants are dates and times of those kinds.
LEMMA YearExamined ==
  ASSUME NEW y \in Years
  PROVE  y \in Int /\ 2000 <= y /\ y <= 2199
<1>1. \A z \in 2000..2199 : z \in Int /\ 2000 <= z /\ z <= 2199
  BY ONLY SMTT(10)
<1>2. y \in 2000..2199
  BY ONLY y \in Years, YearsAssumption, SMTT(10)
<1> QED BY ONLY <1>1, <1>2, SMTT(10)

LEMMA DayExamined ==
  ASSUME NEW x \in Days
  PROVE  /\ x[1] \in Int /\ x[2] \in Int /\ x[3] \in Int
         /\ IsDay(x[1], x[2], x[3])
<1>1. x \in Years \X (1..12) \X (1..31) /\ x[3] <= DaysInMonth(x[1], x[2])
  BY Zenon DEF Days
<1>2. x[1] \in Years /\ x[2] \in 1..12 /\ x[3] \in 1..31
  BY ONLY <1>1, SMTT(10)
<1>3. x[1] \in Int /\ 2000 <= x[1] /\ x[1] <= 2199
  BY ONLY <1>2, YearExamined
<1> QED BY ONLY <1>1, <1>2, <1>3, SMTT(10) DEF IsDay

LEMMA InstantExamined ==
  ASSUME NEW t \in Instants
  PROVE  \E y, m, d, h, i, s \in Int :
           t = Time(y, m, d, h, i, s) /\ IsDay(y, m, d) /\ IsClock(h, i, s)
<1>1. \E x \in Days, h \in {0, 1, 12, 22, 23}, s \in {0, 59} :
        t = [year |-> x[1], month |-> x[2], day |-> x[3], hour |-> h, minute |-> s, second |-> s]
  BY SMTT(10) DEF Instants
<1>2. PICK x \in Days, h \in {0, 1, 12, 22, 23}, s \in {0, 59} :
        t = [year |-> x[1], month |-> x[2], day |-> x[3], hour |-> h, minute |-> s, second |-> s]
  BY ONLY <1>1
<1>3. t = Time(x[1], x[2], x[3], h, s, s)
  BY ONLY <1>2 DEF Time
<1>4. h \in Int /\ s \in Int /\ IsClock(h, s, s)
  BY ONLY h \in {0, 1, 12, 22, 23}, s \in {0, 59}, SMTT(10) DEF IsClock
<1>5. x[1] \in Int /\ x[2] \in Int /\ x[3] \in Int /\ IsDay(x[1], x[2], x[3])
  BY ONLY DayExamined, x \in Days
<1> DEFINE y == x[1]  m == x[2]  d == x[3]
<1> HIDE DEF y, m, d
<1>6. t = Time(y, m, d, h, s, s) /\ y \in Int /\ m \in Int /\ d \in Int /\ IsDay(y, m, d)
  BY ONLY <1>3, <1>5 DEF y, m, d
<1> QED BY ONLY <1>4, <1>6, ZenonT(60)

LEMMA DateSet ==
  ASSUME NEW y, NEW m, NEW d
  PROVE  [NoTime EXCEPT !.year = y, !.month = m, !.day = d] = Time(y, m, d, 0, 0, 0)
<1> DEFINE u == [NoTime EXCEPT !.year = y]
           v == [u EXCEPT !.month = m]
<1>1. u = Time(y, 0, 0, 0, 0, 0)
  BY SMTT(10) DEF NoTime, Time
<1> HIDE DEF u
<1>2. v = Time(y, m, 0, 0, 0, 0)
  BY <1>1, SMTT(10) DEF Time
<1> HIDE DEF v
<1>3. [v EXCEPT !.day = d] = Time(y, m, d, 0, 0, 0)
  BY <1>2, SMTT(10) DEF Time
<1>4. [v EXCEPT !.day = d] = [NoTime EXCEPT !.year = y, !.month = m, !.day = d]
  BY SMTT(10) DEF u, v
<1> QED BY ONLY <1>3, <1>4

\* DaysAgree: for whatever years of 2000 to 2199, every day of them is found again from its
\* number, the day after it counts one more, and Zeller's congruence names its weekday.
THEOREM DaysAlwaysAgree == DaysAgree
<1> SUFFICES ASSUME NEW x \in Days
             PROVE  LET n == DaysFromCivil(x[1], x[2], x[3])
                        t == [NoTime EXCEPT !.year = x[1], !.month = x[2], !.day = x[3]]
                        u == Tomorrow(t)
                    IN  /\ CivilFromDays(n) = [year |-> x[1], month |-> x[2], day |-> x[3]]
                        /\ DaysFromCivil(u.year, u.month, u.day) = n + 1
                        /\ DayOfWeek(x[1], x[2], x[3]) = (n + 4) % 7
  BY Zenon DEF DaysAgree
<1> DEFINE y == x[1]  m == x[2]  d == x[3]
<1>1. y \in Int /\ m \in Int /\ d \in Int /\ IsDay(y, m, d)
  BY DayExamined
<1>2. [NoTime EXCEPT !.year = x[1], !.month = x[2], !.day = x[3]] = Time(y, m, d, 0, 0, 0)
  BY ONLY DateSet
<1> HIDE DEF y, m, d
<1>3. Tomorrow(Time(y, m, d, 0, 0, 0)) = Time(Year2(y, m, d), Month2(y, m, d), Day2(y, m, d), 0, 0, 0)
  BY ONLY <1>1, DayOfDay, TomorrowIs
<1>4. DaysFromCivil(Year2(y, m, d), Month2(y, m, d), Day2(y, m, d)) = DaysFromCivil(y, m, d) + 1
  BY ONLY <1>1, DayOfNext
<1>5. CivilFromDays(DaysFromCivil(y, m, d)) = [year |-> y, month |-> m, day |-> d]
  BY ONLY <1>1, DayOfDay
<1>6. DayOfWeek(y, m, d) = (DaysFromCivil(y, m, d) + 4) % 7
  BY ONLY <1>1, Weekdays, SMTT(10) DEF IsDay
<1>7. \A a, b, c : Time(a, b, c, 0, 0, 0).year = a /\ Time(a, b, c, 0, 0, 0).month = b /\ Time(a, b, c, 0, 0, 0).day = c
  BY ONLY DEF Time
<1>8. LET u == Time(Year2(y, m, d), Month2(y, m, d), Day2(y, m, d), 0, 0, 0) IN
      DaysFromCivil(u.year, u.month, u.day) = DaysFromCivil(y, m, d) + 1
  BY ONLY <1>4, <1>7
<1>9. DaysFromCivil(Tomorrow(Time(y, m, d, 0, 0, 0)).year, Tomorrow(Time(y, m, d, 0, 0, 0)).month,
                    Tomorrow(Time(y, m, d, 0, 0, 0)).day) = DaysFromCivil(y, m, d) + 1
  BY ONLY <1>3, <1>8
<1> QED BY ONLY <1>2, <1>5, <1>6, <1>9 DEF y, m, d

LEMMA MinutesExamined ==
  ASSUME NEW t \in Instants, NEW n \in {1, 60, 120}, NEW k \in Int, k = 60 * n
  PROVE  AddMinutes(t, n) = AddSeconds(t, k)
<1>1. PICK y, m, d, h, i, s \in Int :
           t = Time(y, m, d, h, i, s) /\ IsDay(y, m, d) /\ IsClock(h, i, s)
  BY ONLY InstantExamined, t \in Instants, ZenonT(60)
<1>2. n \in Int /\ 0 <= n /\ n <= 1440
  BY ONLY n \in {1, 60, 120}, SMTT(10)
<1> QED BY ONLY <1>1, <1>2, MinutesAgree, k \in Int, k = 60 * n, SMTT(10)

\* TimesAgree: the registers of the battery clock give back the time written to them, and the
\* three ways to add to a time (AddOneSecond, AddMinutes, AddSeconds) give the same.
THEOREM TimesAlwaysAgree == TimesAgree
<1> SUFFICES ASSUME NEW t \in Instants
             PROVE  /\ Decoded(Registers(t)) = t
                    /\ AddOneSecond(t) = AddSeconds(t, 1)
                    /\ \A n \in {1, 60, 120} : AddMinutes(t, n) = AddSeconds(t, 60 * n)
  BY Zenon DEF TimesAgree
<1>1. PICK y, m, d, h, i, s \in Int :
           t = Time(y, m, d, h, i, s) /\ IsDay(y, m, d) /\ IsClock(h, i, s)
  BY ONLY InstantExamined, t \in Instants, ZenonT(60)
<1>2. Decoded(Registers(t)) = t
  BY ONLY <1>1, ReadBack
<1>3. AddOneSecond(t) = AddSeconds(t, 1)
  BY ONLY <1>1, OneSecondAgrees
<1>4. ASSUME NEW n \in {1, 60, 120} PROVE AddMinutes(t, n) = AddSeconds(t, 60 * n)
  <2>1. 60 * n \in Int
    BY ONLY n \in {1, 60, 120}, SMTT(10)
  <2> QED BY ONLY <2>1, t \in Instants, n \in {1, 60, 120}, MinutesExamined
<1> QED BY <1>2, <1>3, <1>4

\* WarsawChanges: convertUtcToWarsaw adds two hours between 01:00 UTC of the last Sunday of
\* March and 01:00 UTC of the last Sunday of October, and one hour otherwise.
THEOREM WarsawAlwaysChanges == WarsawChanges
<1> SUFFICES ASSUME NEW t \in Instants
             PROVE  ToWarsaw(t) = AddSeconds(t, IF Summer(t) THEN 7200 ELSE 3600)
  BY ZenonT(60) DEF WarsawChanges, Summer
<1>1. PICK y, m, d, h, i, s \in Int :
           t = Time(y, m, d, h, i, s) /\ IsDay(y, m, d) /\ IsClock(h, i, s)
  BY ONLY InstantExamined, t \in Instants, ZenonT(60)
<1>2. IsDst(t) <=> Summer(t)
  BY ONLY <1>1, SummerIs
<1>3. /\ 60 \in {1, 60, 120} /\ 3600 \in Int /\ 3600 = 60 * 60
      /\ 120 \in {1, 60, 120} /\ 7200 \in Int /\ 7200 = 60 * 120
  BY ONLY SMTT(10)
<1>4. AddMinutes(t, 60) = AddSeconds(t, 3600) /\ AddMinutes(t, 120) = AddSeconds(t, 7200)
  BY ONLY <1>3, t \in Instants, MinutesExamined, SMTT(10)
<1> QED BY ONLY <1>2, <1>4, SMTT(10) DEF ToWarsaw

\* StampsAgree: the stamp of the doser's localTimeToEpoch is that of the wall clock, or 0: its
\* 32 bits never begin again.
THEOREM StampsAlwaysAgree == StampsAgree
<1> SUFFICES ASSUME NEW t \in Instants
             PROVE  GetUtcTimestamp(t) \in {UtcTimestamp(t), Epoch}
  BY Zenon DEF StampsAgree
<1>1. IsValidUtc(t)
  BY InstantExamined, ValidUtc
<1>2. UtcTimestamp(t) = Stamp(t)
  BY ONLY <1>1 DEF UtcTimestamp
<1>3. LocalTimeToEpoch(t) \in {Stamp(t), Epoch}
  BY ONLY DEF LocalTimeToEpoch
<1> QED BY ONLY <1>2, <1>3 DEF GetUtcTimestamp

\* Not only the examined instants: for every date from 2000 to 2199 and every time of the day, the
\* registers give it back, a second more is a second more, up to a day of minutes (addMinutes) is as
\* many seconds, and isDstEuropeWarsaw holds between the two changes of its year.
THEOREM EveryTimeAgrees ==
  ASSUME NEW y \in Int, NEW m \in Int, NEW d \in Int, IsDay(y, m, d),
         NEW h \in Int, NEW i \in Int, NEW s \in Int, IsClock(h, i, s),
         NEW n \in Int, 0 <= n, n <= 1440
  PROVE  LET t == Time(y, m, d, h, i, s) IN
         /\ Decoded(Registers(t)) = t
         /\ AddOneSecond(t) = AddSeconds(t, 1)
         /\ AddMinutes(t, n) = AddSeconds(t, 60 * n)
         /\ IsDst(t) <=> Summer(t)
<1> DEFINE t == Time(y, m, d, h, i, s)  k == 60 * n
<1>1. k \in Int /\ k = 60 * n
  BY SMTT(10)
<1> HIDE DEF k
<1>2. AddMinutes(t, n) = AddSeconds(t, k)
  BY <1>1, MinutesAgree, SMTT(10)
<1>3. AddMinutes(t, n) = AddSeconds(t, 60 * n)
  BY ONLY <1>2 DEF k
<1>4. Decoded(Registers(t)) = t
  BY ReadBack
<1>5. AddOneSecond(t) = AddSeconds(t, 1)
  BY OneSecondAgrees
<1>6. IsDst(t) <=> Summer(t)
  BY SummerIs
<1> QED BY ONLY <1>3, <1>4, <1>5, <1>6

\* OneCalendar: whatever the years examined, the device that shows the right time counts its days,
\* its Warsaw time and its stamps by one calendar.
THEOREM CalendarIsOne == TimeSpec => []OneCalendar
<1>1. OneCalendar
  BY DaysAlwaysAgree, TimesAlwaysAgree, WarsawAlwaysChanges, StampsAlwaysAgree, Zenon DEF OneCalendar
<1> QED BY <1>1, PTL
===============================================================================
