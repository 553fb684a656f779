------------------------------ MODULE CoreRuntime ------------------------------
(***************************************************************************)
(* The runtime of aquaOneCore: ApplicationRuntime, which starts a device    *)
(* along a plan and takes it into and out of maintenance; the               *)
(* RuntimeStateCoordinator, which from the handoff on writes its health and *)
(* safety; the alarms that feed it; and the gates that let commands through.*)
(*                                                                         *)
(* All calls come from the one task of the application, but a participant's *)
(* callback may itself make any of them before it returns.                  *)
(***************************************************************************)
EXTENDS Naturals, Sequences, SequencesExt, AlarmState

CONSTANTS
  Plans,        \* the plans a device may be built with
  Capacity,     \* records for optional failures
  Alarms, Latching, AlarmFault, AlarmLocks,  \* alarms; those that latch, that mean
                                             \* FAULT (the others DEGRADED), that lock
  OtherSays,                                 \* what the other provider may say
  ProvidersListed                            \* BOOLEANs: the provider lists are well formed

OK == 0
DEGRADED == 1
FAULT == 2
Healths == OK..FAULT

\* StartupPhase, as numbers.
BOOT == 0
SAFETY_VALIDATION == 5
NETWORK_INIT == 6
RUNNING == 8
Ordinary == (BOOT..7) \ {SAFETY_VALIDATION}
NoId == "no id"

\* What a provider may return; Bogus is a value that is none of the enumeration's.
Bogus == 3
Contributions == [health : Healths \cup {Bogus}, safety : {"CLEAR", "LOCKED", "bogus"}]
Trusted == [health |-> OK, safety |-> "CLEAR"]

ASSUME RuntimeAssumption ==
  /\ \A p \in Plans : p.participants \in Seq(Range(p.participants))
  /\ OtherSays \subseteq Contributions
  /\ Capacity \in Nat /\ ProvidersListed \subseteq BOOLEAN
  /\ Latching \subseteq Alarms /\ AlarmFault \subseteq Alarms /\ AlarmLocks \subseteq Alarms

VARIABLES
  plan,         \* the plan; it is part of the firmware
  status, report, starting,     \* ApplicationRuntime: status_, report_, startInProgress_
  calls,        \* the callbacks of start() still to return; the first is being called
  handed,       \* runtimeStateCoordinator_ is set
  coordinator,  \* RuntimeStateCoordinator
  alarms, other, locks,   \* what alarms, another provider and the action locks say
  stored,       \* the alarms the application has stored as pending
  done,         \* what the last step carried out
  fresh,        \* history: no provider has changed since the status was last written
  ran,          \* history: the callbacks start() has called
  told          \* history: the last event of each alarm

runtime == <<plan, status, report, starting, calls, handed>>
facts == <<alarms, other, locks, stored>>
history == <<fresh, ran, told>>
vars == <<runtime, coordinator, facts, done, history>>

Silent == [cond |-> FALSE, active |-> FALSE, ack |-> FALSE, heard |-> FALSE]
PreStart == [op |-> "BOOTING", health |-> OK, locked |-> TRUE, phase |-> BOOT]
NoReport == [complete |-> FALSE, fatal |-> FALSE, optional |-> 0, kept |-> 0, final |-> PreStart]
Lockings == {"free", "locked", "broken"}

Coordinators == [valid : ProvidersListed, active : {FALSE}, latched : {FALSE}]
NewAlarms == [a \in Alarms |-> NewAlarm]
AllSilent == [a \in Alarms |-> Silent]

Init ==
  /\ plan \in Plans
  /\ status = PreStart /\ report = NoReport /\ starting = FALSE /\ calls = <<>> /\ handed = FALSE
  /\ coordinator \in Coordinators /\ alarms = NewAlarms
  /\ fresh = FALSE /\ ran = <<>> /\ told = AllSilent
  /\ other = Trusted /\ locks = "free"
  /\ stored = [a \in Alarms |-> FALSE] /\ done = "none"

Does(what) == done' = what

-----------------------------------------------------------------------------
(* start()                                                                  *)

\* validateFullPlan(), which comes after the outputs are safe.
ValidParticipants(early, gate, ps) ==
  \A i \in DOMAIN ps :
    /\ ps[i].callback /\ ps[i].id # NoId
    /\ ps[i].phase \in Ordinary /\ ps[i].need \in {"REQUIRED", "OPTIONAL"}
    /\ ps[i].phase >= NETWORK_INIT => ps[i].need = "OPTIONAL"
    /\ i > 1 => ps[i - 1].phase <= ps[i].phase
    /\ ps[i].id \notin {early.id, gate.id} /\ \A j \in 1..(i - 1) : ps[j].id # ps[i].id
ValidPlan(p) ==
  /\ p.storage /\ p.gate.callback /\ p.gate.id \notin {NoId, p.early.id}
  /\ ValidParticipants(p.early, p.gate, p.participants)

Special(action, phase) ==
  [id |-> action.id, callback |-> action.callback, phase |-> phase, need |-> "SPECIAL"]
\* What start() calls after the early outputs: 0 is the safety gate, the others the participants.
Callback(p, k) ==
  IF k = 0 THEN Special(p.gate, SAFETY_VALIDATION) ELSE p.participants[k]
\* executePhase() is called for one phase after the other, and goes through the whole list.
Earlier(p, j, k) ==
  \/ Callback(p, j).phase < Callback(p, k).phase
  \/ Callback(p, j).phase = Callback(p, k).phase /\ j < k
Orders(p) ==
  LET n == Len(p.participants)
  IN {order \in Bijection(1..(n + 1), 0..n) :
        \A i, j \in 1..(n + 1) : i < j => Earlier(p, order[i], order[j])}
\* The order in which a valid plan is called; there is one.
Schedules(p) == {[i \in 1..(Len(p.participants) + 1) |-> Callback(p, order[i])] : order \in Orders(p)}

Failed(phase) == [op |-> "ERROR", health |-> FAULT, locked |-> TRUE, phase |-> phase]
Fails(phase) ==
  /\ status' = Failed(phase)
  /\ report' = [report EXCEPT !.complete = TRUE, !.fatal = TRUE, !.final = status']
  /\ starting' = FALSE /\ calls' = <<>> /\ UNCHANGED ran

\* The callbacks that remain are called, or there are none and the device runs.
GoesOn(next, st) ==
  IF next # <<>>
  THEN /\ status' = [st EXCEPT !.phase = next[1].phase]
       /\ calls' = next /\ ran' = Append(ran, next[1]) /\ UNCHANGED starting
  ELSE /\ status' = [st EXCEPT !.phase = RUNNING, !.op = "RUNNING", !.locked = FALSE]
       /\ calls' = next /\ starting' = FALSE /\ UNCHANGED ran

MayStart == ~report.complete /\ ~starting
\* validateEarlySafeOutputs()
EarlyIsCallable == plan.early.callback /\ plan.early.id # NoId
Start ==
  /\ MayStart
  /\ IF EarlyIsCallable
       THEN /\ starting' = TRUE /\ status' = PreStart
            /\ calls' = <<Special(plan.early, BOOT)>>
            /\ ran' = Append(ran, Special(plan.early, BOOT)) /\ UNCHANGED report
       ELSE Fails(BOOT)
  /\ UNCHANGED <<plan, handed>>

\* handleParticipantResult, handleSpecialResult
Tolerated(q, result) ==
  \/ result = "SUCCEEDED"
  \/ q.need = "OPTIONAL" /\ result \in {"DISABLED", "FAILED"}
OptionalFailure(q, result) == q.need = "OPTIONAL" /\ result = "FAILED"
After(q, result) ==
  [status EXCEPT !.health = IF OptionalFailure(q, result) THEN DEGRADED ELSE @,
                 !.locked = @ /\ q.phase # SAFETY_VALIDATION]
Reported(q, result) ==
  IF OptionalFailure(q, result)
  THEN [report EXCEPT !.optional = @ + 1, !.kept = IF @ < Capacity THEN @ + 1 ELSE @]
  ELSE report
Returns(result) ==
  /\ starting /\ calls # <<>> /\ UNCHANGED <<plan, handed>>
  /\ LET q == calls[1]
         early == q.need = "SPECIAL" /\ q.phase = BOOT
     IN IF ~Tolerated(q, result) \/ (early /\ ~ValidPlan(plan))
        THEN Fails(q.phase)
        ELSE \E next \in IF early THEN Schedules(plan) ELSE {Tail(calls)} :
               /\ GoesOn(next, After(q, result))
               /\ report' = [Reported(q, result) EXCEPT
                               !.complete = (next = <<>>),
                               !.final = IF next = <<>> THEN status' ELSE @]
CallbackReturns == \E result \in {"SUCCEEDED", "DISABLED", "FAILED", "invalid"} : Returns(result)

-----------------------------------------------------------------------------
(* RuntimeStateCoordinator                                                  *)

\* AlarmHealthProvider and AlarmSafetyProvider, and one provider of another kind.
AlarmHealth == {IF ~alarms[a].active THEN OK ELSE IF a \in AlarmFault THEN FAULT ELSE DEGRADED
                : a \in Alarms}
AlarmLocked == \E a \in AlarmLocks : alarms[a].active
ProvidersValid == coordinator.valid /\ other.health # Bogus /\ other.safety # "bogus"
\* mutant: the last safety provider asked decides
LastWins == [health |-> IF ~ProvidersValid THEN FAULT
                        ELSE CHOOSE h \in AlarmHealth \cup {other.health} :
                               \A g \in AlarmHealth \cup {other.health} : g <= h,
             locked |-> ~ProvidersValid \/ other.safety = "LOCKED"]
\* aggregate(): the worst health, and any lock; all of it is lost to one invalid value.
Aggregate == [health |-> IF ~ProvidersValid THEN FAULT
                         ELSE CHOOSE h \in AlarmHealth \cup {other.health} :
                                \A g \in AlarmHealth \cup {other.health} : g <= h,
              locked |-> ~ProvidersValid \/ other.safety = "LOCKED" \/ AlarmLocked]

\* refresh()
Refresh ==
  /\ coordinator.active
  /\ status' = [status EXCEPT !.health = IF coordinator.latched THEN FAULT ELSE Aggregate.health,
                              !.locked = coordinator.latched \/ Aggregate.locked]
  /\ fresh' = TRUE /\ Does("none")
  /\ UNCHANGED <<plan, report, starting, calls, handed, coordinator, facts, ran, told>>

\* activate(): the providers must not know of less than the start found out.
Activates ==
  /\ ~coordinator.active /\ ProvidersValid
  /\ Aggregate.health >= status.health /\ (status.locked => Aggregate.locked)

\* handoffRuntimeState()
HandoffRuntimeState ==
  /\ ~handed /\ report.complete /\ ~report.fatal /\ status.op = "RUNNING" /\ status.phase = RUNNING
  /\ IF Activates
       THEN /\ handed' = TRUE /\ coordinator' = [coordinator EXCEPT !.active = TRUE]
            /\ status' = [status EXCEPT !.health = Aggregate.health, !.locked = Aggregate.locked]
            /\ fresh' = TRUE
       ELSE status' = Failed(status.phase) /\ UNCHANGED <<handed, coordinator, fresh>>
  /\ Does("none") /\ UNCHANGED <<plan, report, starting, calls, facts, ran, told>>

\* mutant: a failed transition is written once and not remembered
WrittenOnce == [coordinator EXCEPT !.active = TRUE]
\* latchRuntimeFailure()
LatchRuntimeFailure == [coordinator EXCEPT !.latched = TRUE]

\* requestMaintenanceTransition(), with the participant's answer; other requests change nothing.
From(request) == IF request = "Enter" THEN "RUNNING" ELSE "MAINTENANCE"
To(request) == IF request = "Enter" THEN "MAINTENANCE" ELSE "RUNNING"
RequestMaintenanceTransition(request, answer) ==
  /\ handed /\ status.op = From(request)
  /\ \/ /\ answer = "Prepared"
        /\ status' = [status EXCEPT !.op = To(request)] /\ UNCHANGED coordinator
     \/ answer = "Rejected" /\ UNCHANGED <<status, coordinator>>
     \/ /\ answer \in {"Failed", "invalid"}
        /\ coordinator' = LatchRuntimeFailure /\ status' = Failed(status.phase)
  /\ Does("none")
  /\ UNCHANGED <<plan, report, starting, calls, handed, facts, history>>

-----------------------------------------------------------------------------
(* Commands                                                                 *)

\* RuntimeCommandPolicyGate; the other classes have no way through it.
PolicyAllows(what) ==
  \/ what = "normal" /\ status.op = "RUNNING"
  \/ what = "recovery" /\ status.op \in {"RUNNING", "ERROR"}
\* RuntimeMaintenanceCommandPolicyGate, for an operation within maintenance.
MaintenanceAllows(what) == what = "operation" /\ status.op = "MAINTENANCE"
\* ActionLockCoordinator fails closed: contributions that make no sense lock.
LocksFree == locks = "free"
\* RuntimeCommandSafetyGate, for normal commands.
SafetyAllows(what) == what = "normal" => ~status.locked /\ LocksFree
\* A valid command comes through the pipeline.
Execute(what) ==
  /\ PolicyAllows(what) \/ MaintenanceAllows(what)
  /\ SafetyAllows(what) /\ Does(what)
  /\ UNCHANGED <<runtime, coordinator, facts, history>>
\* evaluateNormalProcessing(): the domain goes on by itself.
Process ==
  /\ status.op = "RUNNING" /\ Does("processing")
  /\ UNCHANGED <<runtime, coordinator, facts, history>>
Command == (\E what \in {"normal", "recovery", "operation"} : Execute(what)) \/ Process

-----------------------------------------------------------------------------
(* Alarms and other facts                                                   *)

\* The alarm is changed, and the transition goes to the emitter.
Becomes(a, new, transition) ==
  /\ alarms' = [alarms EXCEPT ![a] = new]
  /\ told' = IF Tells(transition)
             THEN [told EXCEPT ![a] = [cond |-> new.cond, active |-> new.active,
                                       ack |-> new.ack, heard |-> TRUE]]
             ELSE told
  /\ fresh' = (fresh /\ new = alarms[a])
  /\ UNCHANGED <<runtime, coordinator, other, locks, stored, ran>>
SetCondition(a, c) ==
  Becomes(a, Conditioned(alarms[a], a \in Latching, c),
          ConditionTransition(alarms[a], a \in Latching, c)) /\ Does("none")
Acknowledge(a) ==
  Becomes(a, Acknowledged(alarms[a]),
          IF CanAcknowledge(alarms[a]) THEN "Acknowledged" ELSE "NoChange") /\ Does("none")
ClearLatched(a) ==
  Becomes(a, Cleared(alarms[a], a \in Latching),
          IF CanClear(alarms[a], a \in Latching) THEN "LatchCleared" ELSE "NoChange")
  /\ Does("clear")
\* The application restores what it stored, or mistakes another alarm's record for it.
RestoreAlarm(a, pending) ==
  Becomes(a, Restored(alarms[a], a \in Latching, pending), "NoChange") /\ Does("none")
\* Bound: after a start that failed nobody asks the alarms and the providers any more.
Followed == ~report.fatal
Alarm ==
  /\ Followed
  /\ \E a \in Alarms : \/ \E c \in BOOLEAN : SetCondition(a, c)
                       \/ Acknowledge(a) \/ ClearLatched(a)
                       \/ RestoreAlarm(a, stored[a])
                       \/ a \notin Latching /\ RestoreAlarm(a, TRUE)

\* The application stores an alarm.
Save(a) ==
  /\ stored' = [stored EXCEPT ![a] = Pending(alarms[a], a \in Latching)]
  /\ Does("none") /\ UNCHANGED <<runtime, coordinator, alarms, other, locks, history>>
\* Other providers and action locks change.
Provide(says) ==
  /\ other' = says /\ fresh' = (fresh /\ says = other) /\ Does("none")
  /\ UNCHANGED <<runtime, coordinator, alarms, locks, stored, ran, told>>
Lock(l) ==
  /\ locks' = l /\ Does("none")
  /\ UNCHANGED <<runtime, coordinator, alarms, other, stored, history>>
Fact ==
  /\ Followed
  /\ \/ \E a \in Alarms : Save(a)
     \/ \E says \in OtherSays : Provide(says)
     \/ \E l \in Lockings : Lock(l)

\* The device is restarted at any time, with the same plan.
Reboot ==
  /\ status' = PreStart /\ report' = NoReport /\ starting' = FALSE /\ calls' = <<>> /\ handed' = FALSE
  /\ coordinator' \in Coordinators /\ alarms' = NewAlarms
  /\ fresh' = FALSE /\ ran' = <<>> /\ told' = AllSilent
  /\ Does("reboot") /\ UNCHANGED <<plan, other, locks, stored>>

StartStep == (Start \/ CallbackReturns) /\ Does("none") /\ UNCHANGED <<coordinator, facts, fresh, told>>
Maintain == \E request \in {"Enter", "Exit"}, answer \in {"Prepared", "Rejected", "Failed", "invalid"} :
              RequestMaintenanceTransition(request, answer)

Next == StartStep \/ HandoffRuntimeState \/ Refresh \/ Maintain \/ Command \/ Alarm \/ Fact \/ Reboot

Spec == Init /\ [][Next]_vars

-----------------------------------------------------------------------------
(* Properties                                                               *)

\* start() calls each callback once, in the order of the phases, and nothing of the
\* network before the safety gate has let it pass.
StartOrder ==
  \A i, j \in DOMAIN ran :
    i < j => /\ ran[i].id # ran[j].id /\ ran[i].phase <= ran[j].phase
             /\ ran[j].phase >= NETWORK_INIT => \E k \in 1..(j - 1) : ran[k].phase = SAFETY_VALIDATION

\* A normal command is carried out only while its action is not locked, and, as far as the
\* providers were asked, no provider and no alarm locks the device or makes no sense.
LocksObeyed ==
  done = "normal" => /\ locks = "free"
                     /\ fresh => ~AlarmLocked /\ other.safety = "CLEAR" /\ ProvidersValid

\* Nothing gets past a gate too early: neither the network during start, nor a command later.
GatesHold == StartOrder /\ LocksObeyed

\* A latched alarm that is active stays so until it is cleared on request, after its
\* condition was looked at and found gone; only a restart that forgets it is excepted.
AlarmHeld ==
  [][\A a \in Latching :
       alarms[a].active /\ ~alarms'[a].active /\ done' # "reboot"
         => done' = "clear" /\ alarms[a].known /\ ~alarms[a].cond]_vars

\* Who follows an alarm's events knows whether it is active, and never takes it for
\* unanswered when it was acknowledged; an alarm nothing was told of is as restored.
EventsTell ==
  \A a \in Alarms :
    IF told[a].heard
    THEN told[a].active = alarms[a].active /\ (alarms[a].ack => told[a].ack)
    ELSE alarms[a].active => alarms[a].tried

Life == INSTANCE DeviceLife WITH
  life <- IF status.op = "BOOTING" THEN IF starting THEN "starting" ELSE "off"
          ELSE IF status.op = "ERROR" THEN "failed"
          ELSE IF ~handed THEN "up"
          ELSE IF status.op = "RUNNING" THEN "running" ELSE "service",
  safe <- ~status.locked,
  act <- IF done \in {"normal", "recovery", "operation", "processing"} THEN done ELSE "none"
\* The device lives as DeviceLife promises: a failure, at start or after, is for good, and
\* what is carried out fits the state it is in.
LifeSpec == Life!Spec
=============================================================================
