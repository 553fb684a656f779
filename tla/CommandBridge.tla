---------------------------- MODULE CommandBridge ----------------------------
(***************************************************************************)
(* The fixed-capacity bridge that carries a command from an HTTP handler   *)
(* (a task of the web server) to the application task and its result back. *)
(* aquaOneCore has it twice: WebActionBridge with NativeActionBoundary as  *)
(* its caller, and WebApplicationBridge with the handlers of Hydro, Luma   *)
(* and Doser.  The two share every step except what a waiter does after an *)
(* anomalous wake and what its caller does to clean up; "variant" selects  *)
(* the caller.                                                             *)
(*                                                                         *)
(* A critical section, bracketed by synchronizer_.lock() and unlock() in   *)
(* the code, is one action.  The semaphore wait and the command's          *)
(* execution happen outside the lock and are actions of their own.  A      *)
(* synchronizer call that reports failure costs one unit of "faults".      *)
(***************************************************************************)
EXTENDS Naturals, FiniteSets, Sequences

CONSTANTS
    Producers,     \* tasks that submit commands and wait for the outcome
    Capacity,      \* number of slots
    MaxCommands,   \* bound: commands all producers submit together
    MaxFaults,     \* bound: synchronizer calls that fail
    Variants,      \* callers to consider, a subset of Callers
    NoCommand      \* the value of an empty command or result

Callers == {"native", "hydro", "luma", "doser"}

ASSUME BridgeAssumption ==
    /\ Capacity \in Nat \ {0}
    /\ MaxCommands \in Nat
    /\ MaxFaults \in Nat
    /\ Variants \subseteq Callers
    /\ NoCommand \notin Producers \X Nat

VARIABLES
    variant,       \* the caller on the producers' side
    slots,         \* slots_: command, result, generation, state, attached
    completion,    \* completions_: one binary semaphore per slot
    pending,       \* pending_[] from pendingHead_, pendingCount_ entries
    app,           \* processOne() of the application task
    prod,          \* each producer: where it is in its call, and its token
    faults,        \* synchronizer failures so far
    phase,         \* history: how far each command has come
    reply          \* what the producer of each command was told

vars == <<variant, slots, completion, pending, app, prod, faults, phase, reply>>

Slots    == 1..Capacity
Commands == Producers \X (1..MaxCommands)

SlotStates == {"Free", "Queued", "Processing", "Completed"}
AppSteps   == {"idle", "execute", "publish"}
CallSteps  == {"idle", "accepted", "blocked", "woken", "cleanup", "retry"}
WakeStatus == {"Signaled", "TimedOut", "Failure"}
Outcomes   == {"none", "notAccepted", "completed", "timedOut", "bridgeFailure"}

SlotType ==
    [command : Commands \cup {NoCommand}, result : Commands \cup {NoCommand},
     generation : Nat, state : SlotStates, attached : BOOLEAN]
AppType ==
    [step : AppSteps, slot : Slots, generation : Nat,
     command : Commands \cup {NoCommand}]
ProducerType ==
    [step : CallSteps, sent : 0..MaxCommands, slot : Slots, generation : Nat,
     wake : WakeStatus]
ReplyType ==
    [kind : Outcomes, closed : BOOLEAN, result : Commands \cup {NoCommand}]

TypeOK ==
    /\ variant \in Variants
    /\ slots \in [Slots -> SlotType]
    /\ completion \in [Slots -> BOOLEAN]
    /\ pending \in Seq(Slots)
    /\ app \in AppType
    /\ prod \in [Producers -> ProducerType]
    /\ faults \in 0..MaxFaults
    /\ phase \in [Commands -> {"new", "refused", "accepted", "executed"}]
    /\ reply \in [Commands -> ReplyType]

\* Between calls the locals of processOne() and of the handler do not exist.
IdleApp == [step |-> "idle", slot |-> 1, generation |-> 0, command |-> NoCommand]
IdleProducer(n) == [step |-> "idle", sent |-> n, slot |-> 1, generation |-> 0,
                    wake |-> "TimedOut"]

Init ==
    /\ variant \in Variants
    /\ slots = [s \in Slots |-> [command |-> NoCommand, result |-> NoCommand,
                                 generation |-> 0, state |-> "Free",
                                 attached |-> FALSE]]
    /\ completion = [s \in Slots |-> FALSE]
    /\ pending = <<>>
    /\ app = IdleApp
    /\ prod = [p \in Producers |-> IdleProducer(0)]
    /\ faults = 0
    /\ phase = [c \in Commands |-> "new"]
    /\ reply = [c \in Commands |-> [kind |-> "none", closed |-> FALSE,
                                    result |-> NoCommand]]

-----------------------------------------------------------------------------
(* Helpers of the bridge.                                                  *)

FreeSlots == {s \in Slots : slots[s].state = "Free"}

\* freeSlot(): the first free slot in index order.
IsFirstFree(s) == s \in FreeSlots /\ \A t \in FreeSlots : s <= t

Current(p) == <<p, prod[p].sent>>      \* the command of p's present call

\* matches(token)
Matches(p) ==
    LET slot == slots[prod[p].slot] IN
    /\ slot.state # "Free"
    /\ slot.generation = prod[p].generation

Attached(p) == Matches(p) /\ slots[prod[p].slot].attached

\* release(slot)
Release(s) == slots' = [slots EXCEPT ![s].attached = FALSE, ![s].state = "Free"]

\* Mutant: a time-out frees the slot although the command is still queued.
DetachByRelease(s) == Release(s)

Detach(s) == slots' = [slots EXCEPT ![s].attached = FALSE]

GoTo(p, step) == prod' = [prod EXCEPT ![p].step = step]

Fault == faults < MaxFaults /\ faults' = faults + 1

\* The call of p returns to the handler.
Answer(p, kind, closed, result) ==
    /\ prod' = [prod EXCEPT ![p] = IdleProducer(prod[p].sent)]
    /\ reply' = [reply EXCEPT ![Current(p)] =
                    [kind |-> kind, closed |-> closed, result |-> result]]

-----------------------------------------------------------------------------
(* Producers: submit(), then wait(), then the caller's clean-up.           *)

Accept(p, s) ==
    LET c == <<p, prod[p].sent + 1>> IN
    /\ completion' = [completion EXCEPT ![s] = FALSE]    \* prepareCompletion
    /\ slots' = [slots EXCEPT ![s] =
                    [command |-> c, result |-> @.result, state |-> "Queued",
                     generation |-> @.generation + 1, attached |-> TRUE]]
    /\ pending' = Append(pending, s)
    /\ prod' = [prod EXCEPT ![p] =
                    [step |-> "accepted", sent |-> @.sent + 1, slot |-> s,
                     generation |-> slots[s].generation + 1, wake |-> @.wake]]
    /\ phase' = [phase EXCEPT ![c] = "accepted"]
    /\ UNCHANGED <<reply, faults>>

Refuse(p) ==
    LET c == <<p, prod[p].sent + 1>> IN
    /\ prod' = [prod EXCEPT ![p].sent = @ + 1]
    /\ phase' = [phase EXCEPT ![c] = "refused"]
    /\ reply' = [reply EXCEPT ![c] = [kind |-> "notAccepted", closed |-> TRUE,
                                      result |-> NoCommand]]
    /\ UNCHANGED <<slots, completion, pending>>

Submit(p) ==
    /\ prod[p].step = "idle"
    /\ prod[p].sent < MaxCommands
    /\ Cardinality({c \in Commands : phase[c] # "new"}) < MaxCommands
    /\ \/ \E s \in Slots : IsFirstFree(s) /\ Accept(p, s)
       \/ FreeSlots = {} /\ Refuse(p) /\ UNCHANGED faults     \* QueueFull
       \/ Fault /\ Refuse(p)           \* lock() or prepareCompletion() failed
    /\ UNCHANGED <<variant, app>>

\* Mutant: the waiter trusts its wake-up instead of the slot's state.
TakeAnyResult(p) ==
    LET s == prod[p].slot IN
    /\ Answer(p, "completed", TRUE, slots[s].result)
    /\ Release(s)

TakeResult(p) ==
    LET s == prod[p].slot IN
    /\ slots[s].state = "Completed"
    /\ Answer(p, "completed", TRUE, slots[s].result)
    /\ Release(s)

\* wait(), first critical section.
WaitEnter(p) ==
    /\ prod[p].step = "accepted"
    /\ \/ /\ Fault
          /\ GoTo(p, "cleanup")
          /\ UNCHANGED <<slots, reply>>
       \/ /\ ~Attached(p)
          /\ GoTo(p, "cleanup")
          /\ UNCHANGED <<slots, reply, faults>>
       \/ /\ Attached(p)
          /\ TakeResult(p)
          /\ UNCHANGED faults
       \/ /\ Attached(p)
          /\ slots[prod[p].slot].state # "Completed"
          /\ GoTo(p, "blocked")
          /\ UNCHANGED <<slots, reply, faults>>
    /\ UNCHANGED <<variant, completion, pending, app, phase>>

Wake(p, status) ==
    prod' = [prod EXCEPT ![p].step = "woken", ![p].wake = status]

\* waitForCompletion(): the semaphore is taken if it is given; only an empty one
\* can time out, after any time.  A failing one reports Failure; waking the
\* waiter for nothing would count as the same to wait().
WaitForCompletion(p) ==
    LET s == prod[p].slot IN
    /\ prod[p].step = "blocked"
    /\ \/ /\ completion[s]
          /\ completion' = [completion EXCEPT ![s] = FALSE]
          /\ Wake(p, "Signaled")
          /\ UNCHANGED faults
       \/ /\ ~completion[s]
          /\ Wake(p, "TimedOut")
          /\ UNCHANGED <<completion, faults>>
       \/ /\ Fault
          /\ Wake(p, "Failure")
          /\ UNCHANGED completion
    /\ UNCHANGED <<variant, slots, pending, app, phase, reply>>

\* An anomalous wake: WebActionBridge leaves the waiter attached for its caller
\* to retry or abandon, WebApplicationBridge detaches it.
KeepsWaiterOnAnomaly == variant = "native"

\* wait(), second critical section: resolves completion against time-out.
WaitRecheck(p) ==
    LET s == prod[p].slot IN
    /\ prod[p].step = "woken"
    /\ \/ /\ Fault
          /\ GoTo(p, "cleanup")
          /\ UNCHANGED <<slots, reply>>
       \/ /\ ~Attached(p)
          /\ GoTo(p, "cleanup")
          /\ UNCHANGED <<slots, reply, faults>>
       \/ /\ Attached(p)
          /\ TakeResult(p)
          /\ UNCHANGED faults
       \/ /\ Attached(p)
          /\ slots[s].state # "Completed"
          /\ prod[p].wake # "TimedOut"
          /\ IF KeepsWaiterOnAnomaly THEN UNCHANGED slots ELSE Detach(s)
          /\ GoTo(p, "cleanup")
          /\ UNCHANGED <<reply, faults>>
       \/ /\ Attached(p)
          /\ slots[s].state # "Completed"
          /\ prod[p].wake = "TimedOut"
          /\ Detach(s)
          /\ Answer(p, "timedOut", TRUE, NoCommand)
          /\ UNCHANGED faults
    /\ UNCHANGED <<variant, completion, pending, app, phase>>

\* Mutant: abandon() never frees a slot whose result is already stored.
AbandonByDetaching(p) ==
    IF Attached(p) THEN Detach(prod[p].slot) ELSE UNCHANGED slots

\* abandon(token) with the lock held: never cancels the command.
Abandon(p) ==
    LET s == prod[p].slot IN
    IF ~Attached(p) THEN UNCHANGED slots
    ELSE IF slots[s].state = "Completed" THEN Release(s)
    ELSE Detach(s)

\* Only submitAndWait() reports whether its token is closed.
AnswerBridgeFailure(p, closed) ==
    Answer(p, "bridgeFailure", closed /\ variant = "native", NoCommand)

\* A call whose wait() ended neither with a result nor with a time-out cleans
\* up.  Doser's handler does nothing.
CleanUpDoser(p) ==
    /\ prod[p].step = "cleanup"
    /\ variant = "doser"
    /\ AnswerBridgeFailure(p, FALSE)
    /\ UNCHANGED <<variant, slots, completion, pending, app, faults, phase>>

\* Hydro's abandons, whatever comes of it.
CleanUpHydro(p) ==
    /\ prod[p].step = "cleanup"
    /\ variant = "hydro"
    /\ \/ Abandon(p) /\ UNCHANGED faults
       \/ Fault /\ UNCHANGED slots
    /\ AnswerBridgeFailure(p, FALSE)
    /\ UNCHANGED <<variant, completion, pending, app, phase>>

\* submitAndWait() and Luma's handler abandon, and once more if the lock failed.
CleanUp(p) ==
    /\ prod[p].step = "cleanup"
    /\ variant \in {"native", "luma"}
    /\ \/ /\ Abandon(p)
          /\ AnswerBridgeFailure(p, TRUE)
          /\ UNCHANGED faults
       \/ /\ Fault
          /\ GoTo(p, "retry")
          /\ UNCHANGED <<slots, reply>>
    /\ UNCHANGED <<variant, completion, pending, app, phase>>

RetryAbandon(p) ==
    /\ prod[p].step = "retry"
    /\ \/ /\ Abandon(p)
          /\ AnswerBridgeFailure(p, TRUE)
          /\ UNCHANGED faults
       \/ /\ Fault
          /\ AnswerBridgeFailure(p, FALSE)
          /\ UNCHANGED slots
    /\ UNCHANGED <<variant, completion, pending, app, phase>>

-----------------------------------------------------------------------------
(* The application task: processOne(), once per tick.  A failing lock() at *)
(* its start changes nothing and is not a step.                            *)

\* Mutant: a command nobody waits for any more is skipped.
RunnableIfAwaited(s) == slots[s].state = "Queued" /\ slots[s].attached

Runnable(s) == slots[s].state = "Queued"

TakePending ==
    LET s == Head(pending) IN
    /\ app.step = "idle"
    /\ pending # <<>>
    /\ pending' = Tail(pending)
    /\ IF Runnable(s)
       THEN /\ slots' = [slots EXCEPT ![s].state = "Processing"]
            /\ app' = [step |-> "execute", slot |-> s,
                       generation |-> slots[s].generation,
                       command |-> slots[s].command]
       ELSE UNCHANGED <<slots, app>>
    /\ UNCHANGED <<variant, completion, prod, faults, phase, reply>>

\* pipeline_.execute(command), or executor(request, context), without the lock.
Execute ==
    /\ app.step = "execute"
    /\ app' = [app EXCEPT !.step = "publish"]
    /\ phase' = [phase EXCEPT ![app.command] = "executed"]
    /\ UNCHANGED <<variant, slots, completion, pending, prod, faults, reply>>

StoreResult(s) ==
    slots' = [slots EXCEPT ![s].result = app.command, ![s].state = "Completed"]

Publish ==
    LET s == app.slot
        Own == slots[s].generation = app.generation /\ slots[s].state = "Processing"
    IN
    /\ app.step = "publish"
    /\ app' = IdleApp
    /\ \/ /\ Fault                                   \* lock() failed
          /\ UNCHANGED <<slots, completion>>
       \/ /\ ~Own
          /\ UNCHANGED <<slots, completion, faults>>
       \/ /\ Own /\ ~slots[s].attached
          /\ Release(s)
          /\ UNCHANGED <<completion, faults>>
       \/ /\ Own /\ slots[s].attached
          /\ StoreResult(s)
          /\ \/ completion' = [completion EXCEPT ![s] = TRUE] /\ UNCHANGED faults
             \/ Fault /\ UNCHANGED completion        \* signalCompletion() failed
    /\ UNCHANGED <<variant, pending, prod, phase, reply>>

-----------------------------------------------------------------------------
Call(p) ==
    \/ WaitEnter(p) \/ WaitForCompletion(p) \/ WaitRecheck(p)
    \/ CleanUpDoser(p) \/ CleanUpHydro(p) \/ CleanUp(p) \/ RetryAbandon(p)

ProcessOne == TakePending \/ Execute \/ Publish

Next == ProcessOne \/ \E p \in Producers : Submit(p) \/ Call(p)

\* The application task ticks forever and every wait is bounded, so neither a
\* pending command nor a call in progress is left alone; nothing obliges a
\* producer to submit.
Fairness == WF_vars(ProcessOne) /\ \A p \in Producers : WF_vars(Call(p))

Spec == Init /\ [][Next]_vars /\ Fairness

-----------------------------------------------------------------------------
(* Properties.                                                             *)

\* The ring of pending slots and the slot table never disagree: every queued
\* slot is in the ring exactly once and the ring holds nothing else, so it never
\* overflows its Capacity entries and processOne() never drops a command.
QueueIntegrity ==
    /\ \A i, j \in 1..Len(pending) : pending[i] = pending[j] => i = j
    /\ {pending[i] : i \in 1..Len(pending)} = {s \in Slots : slots[s].state = "Queued"}

InCall(p) == prod[p].step # "idle"

\* Slot s will be given back: it is queued, the application is working on it, or
\* a producer still inside its call holds the token for the stored result.
Recoverable(s) ==
    \/ slots[s].state \in {"Free", "Queued"}
    \/ slots[s].state = "Processing" /\ app.step # "idle" /\ app.slot = s
    \/ /\ slots[s].state = "Completed"
       /\ \E p \in Producers : InCall(p) /\ prod[p].slot = s /\ Attached(p)

\* A slot can only be lost to a synchronizer failure, one slot for each failure
\* at most, and to a caller that retries abandon() only after three: without
\* failures the bridge keeps its Capacity whatever the timing of time-outs,
\* completions and clean-ups is.
CapacityLossBounded ==
    LET lost == {s \in Slots : ~Recoverable(s)}
        uncollected == {s \in lost : slots[s].state = "Completed"}
    IN
    /\ Cardinality(lost) <= faults
    /\ variant \in {"native", "luma"} => 3 * Cardinality(uncollected) <= faults

\* A semaphore given for an earlier command never wakes a later waiter of the
\* same slot, and nobody but its own call ever gives up a token: an answer of
\* "bridge failure" is due to a synchronizer failure in that very call.
AnomaliesCostFaults ==
    Cardinality({c \in Commands : reply[c].kind = "bridgeFailure"}) <= faults

\* tokenProtocolClosed, and every answer that implies it, is the truth: once a
\* call has reported its token closed, no slot waits for that command's producer.
ClosedTokenOwnsNothing ==
    \A c \in Commands : \A s \in Slots :
        reply[c].closed => ~(slots[s].command = c /\ slots[s].attached)

\* Ring, slots and tokens agree: no accepted command is dropped or kept for nobody.
SlotsAccounted == QueueIntegrity /\ ClosedTokenOwnsNothing
\* Capacity and answers are lost to a failing synchronizer only.
LossesBounded == CapacityLossBounded /\ AnomaliesCostFaults

\* What the producers are told, seen from the service; a result of another
\* command is no answer of the service at all.
ServiceAnswer(c) ==
    CASE reply[c].kind = "none" -> "none"
      [] reply[c].kind = "notAccepted" -> "refused"
      [] reply[c].kind \in {"timedOut", "bridgeFailure"} -> "unknown"
      [] reply[c].kind = "completed" /\ reply[c].result = c -> "result"
      [] OTHER -> "wrong"

\* Accepted commands that have not run: the one processOne() holds, then the ring.
NotYetRun ==
    (IF app.step = "execute" THEN <<app.command>> ELSE <<>>)
        \o [i \in 1..Len(pending) |-> slots[pending[i]].command]

Service == INSTANCE CommandService WITH
    answer <- [c \in Commands |-> ServiceAnswer(c)], waiting <- NotYetRun

\* The bridge implements the service: refused commands never run, accepted ones
\* run at most once and in order, and a known result is that of the own command,
\* across time-outs, reused slots, stale tokens and failing locks.
ImplementsService == Service!Spec

\* Every accepted command eventually runs and its call eventually returns, even
\* when its producer timed out or failed in between.
AcceptedCommandSettles ==
    \A c \in Commands :
        phase[c] = "accepted" ~> phase[c] = "executed" /\ reply[c].kind # "none"

-----------------------------------------------------------------------------
(* The inductive invariant behind QueueIntegrity and ClosedTokenOwnsNothing. *)

QueueInv ==
    /\ \A i, j \in 1..Len(pending) : pending[i] = pending[j] => i = j
    /\ \A i \in 1..Len(pending) : slots[pending[i]].state = "Queued"
    /\ \A s \in Slots :
          slots[s].state = "Queued" => \E i \in 1..Len(pending) : pending[i] = s

\* Nothing was answered to a command that is not yet submitted, or whose call is
\* in progress; and a token names its own command for as long as it is current.
CallInv(p) ==
    /\ \A n \in 1..MaxCommands :
          n > prod[p].sent \/ (n = prod[p].sent /\ InCall(p))
             => reply[<<p, n>>].kind = "none" /\ ~reply[<<p, n>>].closed
    /\ LET slot == slots[prod[p].slot] IN
       InCall(p) =>
          /\ prod[p].sent \in 1..MaxCommands
          /\ prod[p].generation <= slot.generation
          /\ prod[p].generation = slot.generation => slot.command = Current(p)

\* The call that waits for slot s: either still in progress with the current
\* token of s, or ended by a failure that it did not report as closed.
WaiterOf(s, p, n) ==
    /\ slots[s].command = <<p, n>>
    /\ \/ /\ InCall(p)
          /\ prod[p].sent = n
          /\ prod[p].slot = s
          /\ prod[p].generation = slots[s].generation
       \/ /\ n <= prod[p].sent
          /\ reply[<<p, n>>].kind = "bridgeFailure"
          /\ ~reply[<<p, n>>].closed

AttachedInv(s) ==
    slots[s].attached =>
        /\ slots[s].state # "Free"
        /\ \E p \in Producers, n \in 1..MaxCommands : WaiterOf(s, p, n)

TokenInv ==
    /\ \A p \in Producers : CallInv(p)
    /\ \A s \in Slots : AttachedInv(s)

-----------------------------------------------------------------------------
(* The inductive invariant behind ImplementsService, on top of the above.  *)

\* A command is new until its producer's call, and was accepted when that call
\* waits for it.
PhaseInv(p) ==
    /\ \A n \in 1..MaxCommands : n > prod[p].sent => phase[<<p, n>>] = "new"
    /\ InCall(p) => phase[Current(p)] \in {"accepted", "executed"}

\* A stored result is that of the slot's own command, which has run.
ResultInv(s) ==
    /\ slots[s].state # "Free" =>
          /\ slots[s].command \in Commands
          /\ phase[slots[s].command] \in {"accepted", "executed"}
    /\ slots[s].state = "Completed" =>
          /\ slots[s].result = slots[s].command
          /\ phase[slots[s].command] = "executed"

\* The slot processOne() took a command from stays its own until Publish.
AppInv ==
    app.step # "idle" =>
        /\ slots[app.slot].state = "Processing"
        /\ slots[app.slot].generation = app.generation
        /\ slots[app.slot].command = app.command
        /\ app.step = "publish" => phase[app.command] = "executed"

ServedInv ==
    /\ \A p \in Producers : PhaseInv(p)
    /\ \A s \in Slots : ResultInv(s)
    /\ AppInv

-----------------------------------------------------------------------------
(* The inductive invariant behind LossesBounded, on top of the above.      *)

\* A waiter keeps its slot until its own call gives it up.
HeldInv(p) ==
    /\ prod[p].step \in {"accepted", "blocked", "woken"} => Attached(p)
    /\ prod[p].step = "woken" /\ prod[p].wake = "Signaled" =>
          slots[prod[p].slot].state = "Completed"

\* A semaphore still given belongs to a stored result; a result is stored for a
\* waiter; no command is in two slots.
CompletionInv(s) ==
    /\ slots[s].state # "Free" /\ completion[s] => slots[s].state = "Completed"
    /\ slots[s].state = "Completed" => slots[s].attached
    /\ \A t \in Slots : slots[s].state # "Free" /\ slots[t].state # "Free"
                        /\ slots[s].command = slots[t].command => s = t

\* The call that meets a failure, or has met one.
Failing(p) ==
    \/ prod[p].step \in {"cleanup", "retry"}
    \/ prod[p].step = "woken" /\ prod[p].wake = "Failure"

\* The application has left slot s without publishing its result.
Stranded(s) ==
    slots[s].state = "Processing" /\ ~(app.step # "idle" /\ app.slot = s)

\* The call that waited for slot s is over, but the slot still waits for it.
Orphaned(s) ==
    /\ slots[s].attached
    /\ ~\E p \in Producers : InCall(p) /\ Current(p) = slots[s].command

\* The failures that a command's slot and call bear witness to, each of another
\* synchronizer call.
Charged(c, failure) ==
    \/ /\ failure = "publish"
       /\ \E s \in Slots : Stranded(s) /\ slots[s].command = c
    \/ /\ failure = "call"
       /\ \/ reply[c].kind = "bridgeFailure"
          \/ \E p \in Producers : Failing(p) /\ Current(p) = c
    \/ /\ failure = "abandon"
       /\ \E p \in Producers : prod[p].step = "retry" /\ Current(p) = c
    \/ /\ failure \in {"abandon", "retry"}
       /\ variant \in {"native", "luma"}
       /\ \E s \in Slots : Orphaned(s) /\ slots[s].command = c

Receipts ==
    {r \in Commands \X {"publish", "call", "abandon", "retry"} : Charged(r[1], r[2])}

LossInv ==
    /\ \A p \in Producers : HeldInv(p)
    /\ \A s \in Slots : CompletionInv(s)
    /\ IsFiniteSet(Receipts) /\ Cardinality(Receipts) <= faults

=============================================================================
