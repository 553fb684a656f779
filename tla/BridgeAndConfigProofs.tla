------------------------ MODULE BridgeAndConfigProofs -------------------------
(***************************************************************************)
(* Theorems about the two services that the Core offers to every            *)
(* application: the command bridge of its two tasks, for any number of      *)
(* producers, slots, commands and synchronizer failures, and the storage of *)
(* its configuration, for any number of boots, saves and misreads.          *)
(***************************************************************************)
EXTENDS CommandBridge, ConfigLifecycle, FiniteSetTheorems, SequenceTheorems, TLAPS

(***************************************************************************)
(* The command bridge.                                                      *)
(***************************************************************************)
LEMMA InitTypeOK == Init => TypeOK
BY BridgeAssumption
   DEF Init, TypeOK, IdleApp, IdleProducer, Slots, SlotStates, AppSteps,
       CallSteps, WakeStatus, Outcomes, SlotType, AppType, ProducerType, ReplyType

LEMMA SubmitTypeOK ==
    ASSUME TypeOK, NEW p \in Producers, Submit(p)
    PROVE  TypeOK'
<1> DEFINE c == <<p, prod[p].sent + 1>>
<1>1. c \in Commands /\ prod[p].sent + 1 \in 0..MaxCommands
  BY BridgeAssumption DEF TypeOK, Submit, Commands, ProducerType
<1>2. CASE \E s \in Slots : IsFirstFree(s) /\ Accept(p, s)
  <2>1. PICK s \in Slots : Accept(p, s)
    BY <1>2
  <2>2. slots' \in [Slots -> SlotType]
    BY <1>1, <2>1 DEF TypeOK, Accept, SlotType, SlotStates
  <2>3. pending' \in Seq(Slots) /\ completion' \in [Slots -> BOOLEAN]
    BY <2>1 DEF TypeOK, Accept
  <2>4. prod' \in [Producers -> ProducerType]
    BY <1>1, <2>1, SMTT(30) DEF TypeOK, Accept, CallSteps, ProducerType, SlotType
  <2>5. phase' \in [Commands -> {"new", "refused", "accepted", "executed"}]
    BY <1>1, <2>1 DEF TypeOK, Accept
  <2> QED BY <2>1, <2>2, <2>3, <2>4, <2>5 DEF TypeOK, Accept, Submit
<1>3. CASE Refuse(p) /\ (UNCHANGED faults \/ Fault)
  <2>1. prod' \in [Producers -> ProducerType]
    <3>1. prod \in [Producers -> ProducerType]
      BY DEF TypeOK
    <3>2. prod' = [prod EXCEPT ![p].sent = @ + 1]
      BY <1>3 DEF Refuse
    <3> QED BY <1>1, <3>1, <3>2 DEF ProducerType
  <2>2. phase' \in [Commands -> {"new", "refused", "accepted", "executed"}]
    BY <1>1, <1>3 DEF TypeOK, Refuse
  <2>3. reply' \in [Commands -> ReplyType]
    BY <1>1, <1>3 DEF TypeOK, Refuse, Outcomes, ReplyType
  <2>4. faults' \in 0..MaxFaults
    BY <1>3, BridgeAssumption DEF TypeOK, Fault
  <2> QED BY <1>3, <2>1, <2>2, <2>3, <2>4 DEF TypeOK, Refuse, Submit
<1> QED BY <1>2, <1>3 DEF Submit

LEMMA ReleaseType ==
    ASSUME TypeOK, NEW s \in Slots, Release(s)
    PROVE  slots' \in [Slots -> SlotType]
<1>1. slots \in [Slots -> SlotType]
  BY DEF TypeOK
<1>2. slots' = [slots EXCEPT ![s].attached = FALSE, ![s].state = "Free"]
  BY DEF Release
<1>3. "Free" \in SlotStates BY DEF SlotStates
<1> QED BY <1>1, <1>2, <1>3 DEF SlotType

LEMMA DetachType ==
    ASSUME TypeOK, NEW s \in Slots, Detach(s)
    PROVE  slots' \in [Slots -> SlotType]
<1>1. slots \in [Slots -> SlotType]
  BY DEF TypeOK
<1> QED BY <1>1 DEF SlotType, Detach

LEMMA GoToType ==
    ASSUME TypeOK, NEW p \in Producers, NEW step \in CallSteps, GoTo(p, step)
    PROVE  prod' \in [Producers -> ProducerType]
<1>1. prod \in [Producers -> ProducerType]
  BY DEF TypeOK
<1> QED BY <1>1 DEF ProducerType, GoTo

LEMMA WakeType ==
    ASSUME TypeOK, NEW p \in Producers, NEW woken \in WakeStatus, Wake(p, woken)
    PROVE  prod' \in [Producers -> ProducerType]
<1>1. prod \in [Producers -> ProducerType]
  BY DEF TypeOK
<1>2. "woken" \in CallSteps
  BY DEF CallSteps
<1> QED BY <1>1, <1>2 DEF ProducerType, Wake

LEMMA AnswerType ==
    ASSUME TypeOK, NEW p \in Producers, NEW kind \in Outcomes,
           NEW closed \in BOOLEAN, NEW result \in Commands \cup {NoCommand},
           Answer(p, kind, closed, result)
    PROVE  /\ prod' \in [Producers -> ProducerType]
           /\ reply' \in [Commands -> ReplyType]
<1>1. prod \in [Producers -> ProducerType] /\ reply \in [Commands -> ReplyType]
  BY DEF TypeOK
<1>2. IdleProducer(prod[p].sent) \in ProducerType
  BY <1>1, BridgeAssumption
     DEF IdleProducer, ProducerType, CallSteps, WakeStatus, Slots
<1>3. [kind |-> kind, closed |-> closed, result |-> result] \in ReplyType
  BY DEF ReplyType
<1> QED BY <1>1, <1>2, <1>3 DEF Answer

LEMMA FaultType ==
    ASSUME TypeOK, Fault
    PROVE  faults' \in 0..MaxFaults
BY BridgeAssumption DEF TypeOK, Fault

LEMMA TakeResultType ==
    ASSUME TypeOK, NEW p \in Producers, TakeResult(p)
    PROVE  /\ slots' \in [Slots -> SlotType]
           /\ prod' \in [Producers -> ProducerType]
           /\ reply' \in [Commands -> ReplyType]
<1>1. prod[p].slot \in Slots
  BY DEF TypeOK, ProducerType
<1>2. slots[prod[p].slot].result \in Commands \cup {NoCommand}
  BY <1>1 DEF TypeOK, SlotType
<1>3. "completed" \in Outcomes /\ TRUE \in BOOLEAN
  BY DEF Outcomes
<1> QED BY <1>1, <1>2, <1>3, AnswerType, ReleaseType DEF TakeResult

LEMMA BridgeFailureType ==
    ASSUME TypeOK, NEW p \in Producers, NEW closed \in BOOLEAN,
           AnswerBridgeFailure(p, closed)
    PROVE  /\ prod' \in [Producers -> ProducerType]
           /\ reply' \in [Commands -> ReplyType]
<1>1. "bridgeFailure" \in Outcomes /\ (closed /\ variant = "native") \in BOOLEAN
  BY DEF Outcomes
<1> QED BY <1>1, AnswerType DEF AnswerBridgeFailure

LEMMA AbandonType ==
    ASSUME TypeOK, NEW p \in Producers, Abandon(p)
    PROVE  slots' \in [Slots -> SlotType]
<1>1. prod[p].slot \in Slots /\ slots \in [Slots -> SlotType]
  BY DEF TypeOK, ProducerType
<1> QED BY <1>1, ReleaseType, DetachType DEF Abandon

-----------------------------------------------------------------------------
(* Every step of a producer's call keeps the types.                        *)

LEMMA WaitEnterTypeOK ==
    ASSUME TypeOK, NEW p \in Producers, WaitEnter(p)
    PROVE  TypeOK'
<1>1. slots' \in [Slots -> SlotType]
  BY TakeResultType DEF WaitEnter, TypeOK
<1>2. prod' \in [Producers -> ProducerType] /\ reply' \in [Commands -> ReplyType]
  <2>1. "cleanup" \in CallSteps /\ "blocked" \in CallSteps
    BY DEF CallSteps
  <2> QED BY <2>1, TakeResultType, GoToType DEF WaitEnter, TypeOK
<1>3. faults' \in 0..MaxFaults
  BY FaultType DEF WaitEnter, TypeOK
<1> QED BY <1>1, <1>2, <1>3 DEF WaitEnter, TypeOK

LEMMA WaitForCompletionTypeOK ==
    ASSUME TypeOK, NEW p \in Producers, WaitForCompletion(p)
    PROVE  TypeOK'
<1>1. prod' \in [Producers -> ProducerType]
  <2>1. \A woken \in {"Signaled", "TimedOut", "Failure"} : woken \in WakeStatus
    BY DEF WakeStatus
  <2> QED BY <2>1, WakeType DEF WaitForCompletion
<1>2. completion' \in [Slots -> BOOLEAN]
  BY DEF WaitForCompletion, TypeOK
<1>3. faults' \in 0..MaxFaults
  BY FaultType DEF WaitForCompletion, TypeOK
<1> QED BY <1>1, <1>2, <1>3 DEF WaitForCompletion, TypeOK

LEMMA WaitRecheckTypeOK ==
    ASSUME TypeOK, NEW p \in Producers, WaitRecheck(p)
    PROVE  TypeOK'
<1>0. prod[p].slot \in Slots
  BY DEF TypeOK, ProducerType
<1>1. slots' \in [Slots -> SlotType]
  BY <1>0, TakeResultType, DetachType DEF WaitRecheck, TypeOK
<1>2. prod' \in [Producers -> ProducerType] /\ reply' \in [Commands -> ReplyType]
  <2>1. "cleanup" \in CallSteps /\ "timedOut" \in Outcomes /\ TRUE \in BOOLEAN
    BY DEF CallSteps, Outcomes
  <2> QED BY <2>1, TakeResultType, GoToType, AnswerType DEF WaitRecheck, TypeOK
<1>3. faults' \in 0..MaxFaults
  BY FaultType DEF WaitRecheck, TypeOK
<1> QED BY <1>1, <1>2, <1>3 DEF WaitRecheck, TypeOK

LEMMA CleanUpsTypeOK ==
    ASSUME TypeOK, NEW p \in Producers,
           CleanUpDoser(p) \/ CleanUpHydro(p) \/ CleanUp(p) \/ RetryAbandon(p)
    PROVE  TypeOK'
<1>1. slots' \in [Slots -> SlotType]
  BY AbandonType DEF CleanUpDoser, CleanUpHydro, CleanUp, RetryAbandon, TypeOK
<1>2. prod' \in [Producers -> ProducerType] /\ reply' \in [Commands -> ReplyType]
  <2>1. "retry" \in CallSteps /\ TRUE \in BOOLEAN /\ FALSE \in BOOLEAN
    BY DEF CallSteps
  <2> QED BY <2>1, BridgeFailureType, GoToType
          DEF CleanUpDoser, CleanUpHydro, CleanUp, RetryAbandon, TypeOK
<1>3. faults' \in 0..MaxFaults
  BY FaultType DEF CleanUpDoser, CleanUpHydro, CleanUp, RetryAbandon, TypeOK
<1> QED BY <1>1, <1>2, <1>3
        DEF CleanUpDoser, CleanUpHydro, CleanUp, RetryAbandon, TypeOK

-----------------------------------------------------------------------------
(* Every step of the application task keeps the types.                     *)

LEMMA TakePendingTypeOK == ASSUME TypeOK, TakePending PROVE TypeOK'
<1>1. Head(pending) \in Slots /\ Tail(pending) \in Seq(Slots)
  BY DEF TypeOK, TakePending
<1>2. slots \in [Slots -> SlotType] /\ slots[Head(pending)] \in SlotType
  BY <1>1 DEF TypeOK
<1>3. "Processing" \in SlotStates /\ "execute" \in AppSteps
  BY DEF SlotStates, AppSteps
<1>4. slots' \in [Slots -> SlotType]
  <2>1. PICK s \in Slots : s = Head(pending)
    BY <1>1
  <2>2. [slots[s] EXCEPT !.state = "Processing"] \in SlotType
    BY <1>2, <1>3, <2>1 DEF SlotType
  <2>3. \/ slots' = [slots EXCEPT ![s] = [slots[s] EXCEPT !.state = "Processing"]]
        \/ slots' = slots
    BY <2>1 DEF TakePending
  <2> QED BY <1>2, <2>2, <2>3
<1>5. app' \in AppType
  BY <1>1, <1>2, <1>3 DEF TakePending, SlotType, AppType, TypeOK
<1> QED BY <1>1, <1>4, <1>5 DEF TakePending, TypeOK, AppType

LEMMA ExecuteTypeOK == ASSUME TypeOK, Execute PROVE TypeOK'
<1>1. app' \in AppType
  <2>1. app \in AppType
    BY DEF TypeOK, AppType
  <2> QED BY <2>1 DEF Execute, AppType, AppSteps
<1>2. phase' \in [Commands -> {"new", "refused", "accepted", "executed"}]
  BY DEF TypeOK, Execute
<1> QED BY <1>1, <1>2 DEF Execute, TypeOK, AppType

LEMMA PublishTypeOK == ASSUME TypeOK, Publish PROVE TypeOK'
<1>1. app \in AppType /\ slots \in [Slots -> SlotType]
  BY DEF TypeOK, AppType
<1>2. slots' \in [Slots -> SlotType]
  <2>1. app.slot \in Slots /\ app.command \in Commands \cup {NoCommand}
    BY <1>1 DEF AppType
  <2>2. ASSUME StoreResult(app.slot) PROVE slots' \in [Slots -> SlotType]
    <3>1. "Completed" \in SlotStates
      BY DEF SlotStates
    <3> QED BY <1>1, <2>1, <2>2, <3>1 DEF StoreResult, SlotType
  <2> QED BY <1>1, <2>1, <2>2, ReleaseType DEF Publish
<1>3. IdleApp \in AppType
  BY BridgeAssumption DEF IdleApp, AppType, AppSteps, Slots
<1>4. completion' \in [Slots -> BOOLEAN]
  BY DEF Publish, TypeOK
<1>5. faults' \in 0..MaxFaults
  BY FaultType DEF Publish, TypeOK
<1> QED BY <1>2, <1>3, <1>4, <1>5 DEF Publish, TypeOK, AppType

\* Every reachable state of the bridge is well typed: indices stay inside the
\* slot table and no field ever holds a value of another kind.
THEOREM TypeCorrect == Spec => []TypeOK
<1>1. Init => TypeOK
  BY InitTypeOK
<1>2. TypeOK /\ [Next]_vars => TypeOK'
  <2> SUFFICES ASSUME TypeOK, [Next]_vars PROVE TypeOK'
    OBVIOUS
  <2>1. CASE UNCHANGED vars
    BY <2>1 DEF vars, TypeOK
  <2>2. CASE ProcessOne
    BY <2>2, TakePendingTypeOK, ExecuteTypeOK, PublishTypeOK DEF ProcessOne
  <2>3. CASE \E p \in Producers : Submit(p) \/ Call(p)
    BY <2>3, SubmitTypeOK, WaitEnterTypeOK, WaitForCompletionTypeOK,
       WaitRecheckTypeOK, CleanUpsTypeOK DEF Call
  <2> QED BY <2>1, <2>2, <2>3 DEF Next
<1> QED BY <1>1, <1>2, PTL DEF Spec

-----------------------------------------------------------------------------
(* The ring of pending slots.                                              *)

\* A producer inside its call touches at most the slot of its own valid token:
\* it detaches from it, or takes it back when the result is stored.
SlotEffect(p) ==
    \/ UNCHANGED slots
    \/ /\ Attached(p)
       /\ slots[prod[p].slot].state # "Completed"
       /\ Detach(prod[p].slot)
    \/ /\ Attached(p)
       /\ slots[prod[p].slot].state = "Completed"
       /\ Release(prod[p].slot)

LEMMA CallEffect ==
    ASSUME NEW p \in Producers, Call(p)
    PROVE  SlotEffect(p) /\ UNCHANGED <<variant, pending, app, phase>>
BY DEF Call, WaitEnter, WaitForCompletion, WaitRecheck, CleanUpDoser, CleanUpHydro,
       CleanUp, RetryAbandon, TakeResult, Abandon, SlotEffect

LEMMA CallKeepsQueue ==
    ASSUME TypeOK, QueueInv, NEW p \in Producers, Call(p)
    PROVE  QueueInv'
<1>1. UNCHANGED pending /\ SlotEffect(p)
  BY CallEffect
<1>2. \A s \in Slots : slots'[s].state = "Queued" <=> slots[s].state = "Queued"
  <2>1. slots \in [Slots -> SlotType] /\ prod[p].slot \in Slots
    BY DEF TypeOK, ProducerType
  <2> QED BY <1>1, <2>1 DEF SlotEffect, Detach, Release, SlotType
<1>3. \A i \in 1..Len(pending) : pending[i] \in Slots
  BY DEF TypeOK
<1> QED BY <1>1, <1>2, <1>3 DEF QueueInv

LEMMA SubmitKeepsQueue ==
    ASSUME TypeOK, QueueInv, NEW p \in Producers, Submit(p)
    PROVE  QueueInv'
<1>0. pending \in Seq(Slots) /\ slots \in [Slots -> SlotType]
  BY DEF TypeOK
<1>1. CASE Refuse(p)
  BY <1>1 DEF Refuse, QueueInv
<1>2. CASE \E s \in Slots : IsFirstFree(s) /\ Accept(p, s)
  <2>1. PICK s \in Slots : slots[s].state = "Free" /\ Accept(p, s)
    BY <1>2 DEF IsFirstFree, FreeSlots
  <2>2. /\ pending' = Append(pending, s)
        /\ Len(pending') = Len(pending) + 1
        /\ pending'[Len(pending) + 1] = s
        /\ \A i \in 1..Len(pending) : pending'[i] = pending[i] /\ pending[i] \in Slots
    BY <1>0, <2>1 DEF Accept
  <2>3. /\ slots'[s].state = "Queued"
        /\ \A t \in Slots : t # s => slots'[t] = slots[t]
    BY <1>0, <2>1 DEF Accept, SlotType
  <2>4. \A i \in 1..Len(pending) : pending[i] # s
    BY <2>1 DEF QueueInv
  <2>5. Len(pending) \in Nat
    BY <1>0
  <2>6. \A i, j \in 1..Len(pending') : pending'[i] = pending'[j] => i = j
    BY <2>2, <2>4, <2>5 DEF QueueInv
  <2>7. \A i \in 1..Len(pending') : slots'[pending'[i]].state = "Queued"
    BY <2>2, <2>3, <2>4, <2>5 DEF QueueInv
  <2>8. \A t \in Slots : slots'[t].state = "Queued" =>
            \E i \in 1..Len(pending') : pending'[i] = t
    BY <2>2, <2>3, <2>5 DEF QueueInv
  <2> QED BY <2>6, <2>7, <2>8 DEF QueueInv
<1> QED BY <1>1, <1>2 DEF Submit

LEMMA ProcessOneKeepsQueue ==
    ASSUME TypeOK, QueueInv, ProcessOne
    PROVE  QueueInv'
<1>0. pending \in Seq(Slots) /\ slots \in [Slots -> SlotType] /\ app.slot \in Slots
  BY DEF TypeOK, AppType
<1>1. CASE TakePending
  <2> DEFINE s == Head(pending)
  <2>1. /\ pending # <<>> /\ s = pending[1] /\ s \in Slots
        /\ Len(pending) \in Nat \ {0}
        /\ pending' = Tail(pending)
        /\ Len(pending') = Len(pending) - 1
        /\ \A i \in 1..Len(pending') :
              pending'[i] = pending[i + 1] /\ pending[i + 1] \in Slots
    BY <1>0, <1>1 DEF TakePending
  <2>2. slots[s].state = "Queued"
    BY <2>1 DEF QueueInv
  <2>3. /\ slots'[s].state = "Processing"
        /\ \A t \in Slots : t # s => slots'[t] = slots[t]
    BY <1>0, <1>1, <2>1, <2>2 DEF TakePending, Runnable, SlotType
  <2>4. \A i \in 1..Len(pending') : pending'[i] # s
    BY <2>1 DEF QueueInv
  <2>5. \A i, j \in 1..Len(pending') : pending'[i] = pending'[j] => i = j
    BY <2>1 DEF QueueInv
  <2>6. \A i \in 1..Len(pending') : slots'[pending'[i]].state = "Queued"
    BY <2>1, <2>3, <2>4 DEF QueueInv
  <2>7. ASSUME NEW t \in Slots, slots'[t].state = "Queued"
        PROVE  \E i \in 1..Len(pending') : pending'[i] = t
    <3>1. t # s /\ slots[t].state = "Queued"
      BY <2>3, <2>7
    <3>2. PICK j \in 1..Len(pending) : pending[j] = t
      BY <3>1 DEF QueueInv
    <3>3. j # 1 /\ j - 1 \in 1..Len(pending')
      BY <2>1, <3>1, <3>2
    <3>4. pending'[j - 1] = t
      BY <2>1, <3>2, <3>3
    <3> QED BY <3>3, <3>4
  <2> QED BY <2>5, <2>6, <2>7 DEF QueueInv
<1>2. CASE Execute
  BY <1>2 DEF Execute, QueueInv
<1>3. CASE Publish
  <2>1. \A t \in Slots : slots'[t].state = "Queued" <=> slots[t].state = "Queued"
    BY <1>0, <1>3 DEF Publish, Release, StoreResult, SlotType
  <2>2. UNCHANGED pending /\ \A i \in 1..Len(pending) : pending[i] \in Slots
    BY <1>0, <1>3 DEF Publish
  <2> QED BY <2>1, <2>2 DEF QueueInv
<1> QED BY <1>1, <1>2, <1>3 DEF ProcessOne

LEMMA QueueInvAlways == Spec => []QueueInv
<1>1. Init => QueueInv
  BY DEF Init, QueueInv
<1>2. TypeOK /\ QueueInv /\ [Next]_vars => QueueInv'
  <2> SUFFICES ASSUME TypeOK, QueueInv, [Next]_vars PROVE QueueInv'
    OBVIOUS
  <2>1. CASE UNCHANGED vars
    BY <2>1 DEF vars, QueueInv
  <2> QED BY <2>1, CallKeepsQueue, SubmitKeepsQueue, ProcessOneKeepsQueue DEF Next
<1> QED BY TypeCorrect, <1>1, <1>2, PTL DEF Spec

\* The ring and the slot table always agree, whatever the interleaving: see
\* QueueIntegrity.
THEOREM QueueAlwaysIntact == Spec => []QueueIntegrity
<1>1. TypeOK /\ QueueInv => QueueIntegrity
  <2> SUFFICES ASSUME TypeOK, QueueInv PROVE QueueIntegrity
    OBVIOUS
  <2>1. \A i \in 1..Len(pending) : pending[i] \in Slots
    BY DEF TypeOK
  <2> QED BY <2>1 DEF QueueInv, QueueIntegrity
<1> QED BY TypeCorrect, QueueInvAlways, <1>1, PTL

-----------------------------------------------------------------------------
(* Tokens and the waiters they stand for.                                  *)

LEMMA TokenTypes ==
    ASSUME TypeOK
    PROVE  /\ slots \in [Slots -> SlotType]
           /\ prod \in [Producers -> ProducerType]
           /\ reply \in [Commands -> ReplyType]
           /\ \A p \in Producers : prod[p].slot \in Slots /\ prod[p].sent \in 0..MaxCommands
           /\ MaxCommands \in Nat
           /\ \A p \in Producers, n \in 1..MaxCommands : <<p, n>> \in Commands
BY BridgeAssumption DEF TypeOK, ProducerType, Commands

LEMMA AcceptKeepsTokens ==
    ASSUME TypeOK, TokenInv, NEW p \in Producers, prod[p].step = "idle",
           prod[p].sent < MaxCommands,
           NEW s \in Slots, slots[s].state = "Free", Accept(p, s)
    PROVE  TokenInv'
<1>0. ~slots[s].attached /\ ~InCall(p)
  BY DEF TokenInv, AttachedInv, InCall
<1>1. /\ slots'[s] = [command |-> <<p, prod[p].sent + 1>>, state |-> "Queued",
                      result |-> slots[s].result,
                      generation |-> slots[s].generation + 1, attached |-> TRUE]
      /\ \A t \in Slots : t # s => slots'[t] = slots[t]
      /\ prod'[p] = [step |-> "accepted", sent |-> prod[p].sent + 1, slot |-> s,
                     generation |-> slots[s].generation + 1, wake |-> prod[p].wake]
      /\ \A q \in Producers : q # p => prod'[q] = prod[q]
      /\ reply' = reply
  BY TokenTypes DEF Accept
<1>2. slots[s].generation \in Nat
  BY TokenTypes DEF SlotType
<1>3. ASSUME NEW q \in Producers PROVE CallInv(q)'
  <2>1. CASE q = p
    BY <1>0, <1>1, <1>2, <2>1, TokenTypes DEF TokenInv, CallInv, InCall, Current
  <2>2. CASE q # p
    <3>1. prod[q].generation \in Nat
      BY TokenTypes DEF ProducerType
    <3> QED BY <1>1, <1>2, <2>2, <3>1, TokenTypes
            DEF TokenInv, CallInv, InCall, Current
  <2> QED BY <2>1, <2>2
<1>4. ASSUME NEW t \in Slots PROVE AttachedInv(t)'
  <2>1. CASE t = s
    <3>1. PICK n \in 1..MaxCommands : n = prod[p].sent + 1
      BY TokenTypes
    <3>2. WaiterOf(s, p, n)'
      BY <1>1, <3>1 DEF WaiterOf, InCall
    <3>3. slots'[s].state # "Free"
      BY <1>1
    <3> QED BY <2>1, <3>2, <3>3 DEF AttachedInv
  <2>2. CASE t # s
    <3>1. SUFFICES ASSUME slots[t].attached PROVE AttachedInv(t)'
      BY <1>1, <2>2 DEF AttachedInv
    <3>2. PICK q \in Producers, n \in 1..MaxCommands : WaiterOf(t, q, n)
      BY <3>1 DEF TokenInv, AttachedInv
    <3>3. WaiterOf(t, q, n)'
      BY <1>0, <1>1, <2>2, <3>2, TokenTypes DEF WaiterOf, InCall
    <3>4. slots'[t].state # "Free"
      BY <1>1, <2>2, <3>1 DEF TokenInv, AttachedInv
    <3> QED BY <3>3, <3>4 DEF AttachedInv
  <2> QED BY <2>1, <2>2
<1> QED BY <1>3, <1>4 DEF TokenInv

LEMMA RefuseKeepsTokens ==
    ASSUME TypeOK, TokenInv, NEW p \in Producers, prod[p].step = "idle",
           prod[p].sent < MaxCommands, Refuse(p)
    PROVE  TokenInv'
<1>1. /\ UNCHANGED slots
      /\ \A q \in Producers : q # p => prod'[q] = prod[q]
      /\ \A c \in Commands : c # <<p, prod[p].sent + 1>> => reply'[c] = reply[c]
  BY TokenTypes DEF Refuse
<1>2. prod'[p].step = "idle" /\ prod'[p].sent = prod[p].sent + 1
  BY TokenTypes DEF Refuse, ProducerType
<1>3. ASSUME NEW q \in Producers PROVE CallInv(q)'
  <2>1. CASE q = p
    BY <1>1, <1>2, <2>1, TokenTypes DEF TokenInv, CallInv, InCall
  <2>2. CASE q # p
    BY <1>1, <2>2, TokenTypes DEF TokenInv, CallInv, InCall, Current
  <2> QED BY <2>1, <2>2
<1>4. ASSUME NEW t \in Slots PROVE AttachedInv(t)'
  <2> SUFFICES ASSUME slots[t].attached PROVE AttachedInv(t)'
    BY <1>1 DEF AttachedInv
  <2>1. PICK q \in Producers, n \in 1..MaxCommands : WaiterOf(t, q, n)
    BY DEF TokenInv, AttachedInv
  <2>2. n <= prod[q].sent
    BY <2>1, TokenTypes DEF WaiterOf
  <2>3. WaiterOf(t, q, n)'
    BY <1>1, <1>2, <2>1, <2>2, TokenTypes DEF WaiterOf, InCall
  <2> QED BY <1>1, <2>3 DEF TokenInv, AttachedInv
<1> QED BY <1>3, <1>4 DEF TokenInv

\* A producer that moves on inside its call keeps its token and its command.
LEMMA MoveKeepsTokens ==
    ASSUME TypeOK, TokenInv, NEW p \in Producers, InCall(p), SlotEffect(p),
           UNCHANGED reply, prod'[p].step # "idle",
           prod'[p].sent = prod[p].sent, prod'[p].slot = prod[p].slot,
           prod'[p].generation = prod[p].generation,
           \A q \in Producers : q # p => prod'[q] = prod[q]
    PROVE  TokenInv'
<1>1. \A t \in Slots : /\ slots'[t].command = slots[t].command
                       /\ slots'[t].generation = slots[t].generation
                       /\ slots'[t].attached => slots[t].attached /\ slots'[t] = slots[t]
  BY TokenTypes DEF SlotEffect, Detach, Release, SlotType
<1>2. ASSUME NEW q \in Producers PROVE CallInv(q)'
  BY <1>1, TokenTypes DEF TokenInv, CallInv, InCall, Current
<1>3. ASSUME NEW t \in Slots PROVE AttachedInv(t)'
  <2> SUFFICES ASSUME slots'[t].attached PROVE AttachedInv(t)'
    BY DEF AttachedInv
  <2>1. slots[t].attached /\ slots'[t] = slots[t]
    BY <1>1
  <2>2. PICK q \in Producers, n \in 1..MaxCommands : WaiterOf(t, q, n)
    BY <2>1 DEF TokenInv, AttachedInv
  <2>3. WaiterOf(t, q, n)'
    BY <2>1, <2>2 DEF WaiterOf, InCall
  <2> QED BY <2>1, <2>3 DEF TokenInv, AttachedInv
<1> QED BY <1>2, <1>3 DEF TokenInv

\* A call that ends either leaves no attached slot to its command, or says that
\* it failed and that its token may still be open.
LEMMA AnswerKeepsTokens ==
    ASSUME TypeOK, TokenInv, NEW p \in Producers, InCall(p), SlotEffect(p),
           NEW kind, NEW closed, NEW result, Answer(p, kind, closed, result),
           \/ kind = "bridgeFailure" /\ ~closed
           \/ ~slots'[prod[p].slot].attached
           \/ prod[p].generation # slots[prod[p].slot].generation
    PROVE  TokenInv'
<1> DEFINE c == Current(p)
<1>0. /\ prod[p].sent \in 1..MaxCommands /\ c \in Commands
      /\ reply[c].kind = "none" /\ c = <<p, prod[p].sent>>
  BY TokenTypes DEF TokenInv, CallInv, Current
<1>1. \A t \in Slots : /\ slots'[t].command = slots[t].command
                       /\ slots'[t].generation = slots[t].generation
                       /\ slots'[t].attached => slots[t].attached /\ slots'[t] = slots[t]
  BY TokenTypes DEF SlotEffect, Detach, Release, SlotType
<1>2. /\ prod'[p].step = "idle" /\ prod'[p].sent = prod[p].sent
      /\ \A q \in Producers : q # p => prod'[q] = prod[q]
      /\ reply'[c].kind = kind /\ reply'[c].closed = closed
      /\ \A d \in Commands : d # c => reply'[d] = reply[d]
  BY <1>0, TokenTypes DEF Answer, IdleProducer
<1>3. ASSUME NEW q \in Producers PROVE CallInv(q)'
  <2>1. CASE q = p
    BY <1>0, <1>2, <2>1, TokenTypes DEF TokenInv, CallInv, InCall
  <2>2. CASE q # p
    BY <1>0, <1>1, <1>2, <2>2, TokenTypes DEF TokenInv, CallInv, InCall, Current
  <2> QED BY <2>1, <2>2
<1>4. ASSUME NEW t \in Slots PROVE AttachedInv(t)'
  <2> SUFFICES ASSUME slots'[t].attached PROVE AttachedInv(t)'
    BY DEF AttachedInv
  <2>1. slots[t].attached /\ slots'[t] = slots[t]
    BY <1>1
  <2>2. PICK q \in Producers, n \in 1..MaxCommands : WaiterOf(t, q, n)
    BY <2>1 DEF TokenInv, AttachedInv
  <2>3. CASE q # p
    <3>1. WaiterOf(t, q, n)'
      <4>1. prod'[q] = prod[q] /\ <<q, n>> \in Commands /\ <<q, n>> # c
        BY <1>0, <1>2, <2>3, TokenTypes
      <4>2. reply'[<<q, n>>] = reply[<<q, n>>]
        BY <1>2, <4>1
      <4> QED BY <2>1, <2>2, <4>1, <4>2 DEF WaiterOf, InCall
    <3> QED BY <2>1, <3>1 DEF TokenInv, AttachedInv
  <2>4. CASE q = p /\ n # prod[p].sent
    <3>1. WaiterOf(t, q, n)'
      BY <1>0, <1>2, <2>1, <2>2, <2>4, TokenTypes DEF WaiterOf
    <3> QED BY <2>1, <3>1 DEF TokenInv, AttachedInv
  <2>5. CASE q = p /\ n = prod[p].sent
    <3>1. prod[p].slot = t /\ prod[p].generation = slots[t].generation
      BY <1>0, <2>2, <2>5 DEF WaiterOf
    <3>2. kind = "bridgeFailure" /\ ~closed
      BY <3>1
    <3>3. WaiterOf(t, q, n)'
      BY <1>0, <1>2, <2>1, <2>2, <2>5, <3>2, TokenTypes DEF WaiterOf
    <3> QED BY <2>1, <3>3 DEF TokenInv, AttachedInv
  <2> QED BY <2>3, <2>4, <2>5
<1> QED BY <1>3, <1>4 DEF TokenInv

\* A producer moves on inside its call.
Moves(p) ==
    /\ UNCHANGED reply
    /\ \/ \E step \in {"cleanup", "blocked", "retry"} : GoTo(p, step)
       \/ \E woken \in WakeStatus : Wake(p, woken)

LEMMA MovesEffect ==
    ASSUME TypeOK, NEW p \in Producers, Moves(p)
    PROVE  /\ UNCHANGED reply /\ prod'[p].step # "idle"
           /\ prod'[p].sent = prod[p].sent /\ prod'[p].slot = prod[p].slot
           /\ prod'[p].generation = prod[p].generation
           /\ \A q \in Producers : q # p => prod'[q] = prod[q]
<1>1. prod \in [Producers -> ProducerType]
  BY TokenTypes
<1>2. CASE \E step \in {"cleanup", "blocked", "retry"} : GoTo(p, step)
  BY <1>1, <1>2 DEF Moves, GoTo, ProducerType
<1>3. CASE \E woken \in WakeStatus : Wake(p, woken)
  BY <1>1, <1>3 DEF Moves, Wake, ProducerType
<1> QED BY <1>2, <1>3 DEF Moves

\* A producer's call ends.
Ends(p) ==
    \E kind \in Outcomes, closed \in BOOLEAN, result \in Commands \cup {NoCommand} :
        /\ Answer(p, kind, closed, result)
        /\ \/ kind = "bridgeFailure" /\ ~closed
           \/ ~slots'[prod[p].slot].attached
           \/ prod[p].generation # slots[prod[p].slot].generation

LEMMA TakeResultEnds ==
    ASSUME TypeOK, NEW p \in Producers, TakeResult(p)
    PROVE  Ends(p)
<1>1. prod[p].slot \in Slots /\ slots[prod[p].slot].result \in Commands \cup {NoCommand}
  BY TokenTypes DEF SlotType
<1>2. ~slots'[prod[p].slot].attached
  BY <1>1, TokenTypes DEF TakeResult, Release, SlotType
<1>3. "completed" \in Outcomes
  BY DEF Outcomes
<1> QED BY <1>1, <1>2, <1>3 DEF TakeResult, Ends

LEMMA AbandonEnds ==
    ASSUME TypeOK, TokenInv, NEW p \in Producers, NEW closed \in BOOLEAN,
           Abandon(p), AnswerBridgeFailure(p, closed)
    PROVE  Ends(p)
<1>0. prod[p].slot \in Slots /\ slots \in [Slots -> SlotType]
  BY TokenTypes
<1>1. CASE Attached(p)
  <2>1. ~slots'[prod[p].slot].attached
    BY <1>0, <1>1 DEF Abandon, Release, Detach, SlotType
  <2> QED BY <2>1 DEF Ends, AnswerBridgeFailure, Outcomes
<1>2. CASE ~Attached(p)
  <2>1. UNCHANGED slots
    BY <1>2 DEF Abandon
  <2>2. \/ ~slots'[prod[p].slot].attached
        \/ prod[p].generation # slots[prod[p].slot].generation
    BY <1>0, <1>2, <2>1 DEF Attached, Matches, TokenInv, AttachedInv
  <2> QED BY <2>2 DEF Ends, AnswerBridgeFailure, Outcomes
<1> QED BY <1>1, <1>2

LEMMA OpenFailureEnds ==
    ASSUME NEW p \in Producers, AnswerBridgeFailure(p, FALSE)
    PROVE  Ends(p)
BY DEF Ends, AnswerBridgeFailure, Outcomes

LEMMA CallMovesOrEnds ==
    ASSUME TypeOK, TokenInv, NEW p \in Producers, Call(p)
    PROVE  InCall(p) /\ (Moves(p) \/ Ends(p))
<1>1. CASE WaitEnter(p)
  BY <1>1, TakeResultEnds DEF WaitEnter, Moves, InCall
<1>2. CASE WaitForCompletion(p)
  BY <1>2 DEF WaitForCompletion, Moves, InCall, WakeStatus
<1>3. CASE WaitRecheck(p)
  <2>1. ASSUME Detach(prod[p].slot), Answer(p, "timedOut", TRUE, NoCommand)
        PROVE  Ends(p)
    <3>1. ~slots'[prod[p].slot].attached
      BY <2>1, TokenTypes DEF Detach, SlotType
    <3> QED BY <2>1, <3>1 DEF Ends, Outcomes
  <2> QED BY <1>3, <2>1, TakeResultEnds DEF WaitRecheck, Moves, InCall
<1>4. CASE CleanUpDoser(p)
  BY <1>4, OpenFailureEnds DEF CleanUpDoser, InCall
<1>5. CASE CleanUpHydro(p)
  BY <1>5, OpenFailureEnds DEF CleanUpHydro, InCall
<1>6. CASE CleanUp(p)
  BY <1>6, AbandonEnds DEF CleanUp, Moves, InCall
<1>7. CASE RetryAbandon(p)
  BY <1>7, AbandonEnds, OpenFailureEnds DEF RetryAbandon, InCall
<1> QED BY <1>1, <1>2, <1>3, <1>4, <1>5, <1>6, <1>7 DEF Call

LEMMA CallKeepsTokens ==
    ASSUME TypeOK, TokenInv, NEW p \in Producers, Call(p)
    PROVE  TokenInv'
<1>1. SlotEffect(p) /\ InCall(p)
  BY CallEffect, CallMovesOrEnds
<1>2. CASE Moves(p)
  BY <1>1, <1>2, MovesEffect, MoveKeepsTokens
<1>3. CASE Ends(p)
  BY <1>1, <1>3, AnswerKeepsTokens DEF Ends
<1> QED BY <1>2, <1>3, CallMovesOrEnds

LEMMA ProcessOneKeepsTokens ==
    ASSUME TypeOK, TokenInv, ProcessOne
    PROVE  TokenInv'
<1>0. /\ UNCHANGED <<prod, reply>>
      /\ Head(pending) \in Slots \/ ~TakePending
      /\ app.slot \in Slots
  BY DEF ProcessOne, TakePending, Execute, Publish, TypeOK, AppType
<1>1. \A t \in Slots : /\ slots'[t].command = slots[t].command
                       /\ slots'[t].generation = slots[t].generation
                       /\ slots'[t].attached =>
                             slots[t].attached /\ slots'[t].state # "Free"
  <2>0. slots \in [Slots -> SlotType]
    BY TokenTypes
  <2>1. \A t \in Slots : slots[t].attached => slots[t].state # "Free"
    BY DEF TokenInv, AttachedInv
  <2>2. CASE TakePending
    <3> DEFINE s == Head(pending)
    <3>1. s \in Slots
      BY <1>0, <2>2
    <3>2. CASE UNCHANGED slots
      BY <2>1, <3>2
    <3>3. CASE slots' = [slots EXCEPT ![s].state = "Processing"]
      BY <2>0, <2>1, <3>1, <3>3 DEF SlotType
    <3> QED BY <2>2, <3>2, <3>3 DEF TakePending
  <2>3. CASE Execute
    BY <2>1, <2>3 DEF Execute
  <2>4. CASE Publish
    <3>1. CASE UNCHANGED slots
      BY <2>1, <3>1
    <3>2. CASE Release(app.slot)
      BY <1>0, <2>0, <2>1, <3>2 DEF Release, SlotType
    <3>3. CASE StoreResult(app.slot)
      BY <1>0, <2>0, <2>1, <3>3 DEF StoreResult, SlotType
    <3> QED BY <2>4, <3>1, <3>2, <3>3 DEF Publish
  <2> QED BY <2>2, <2>3, <2>4 DEF ProcessOne
<1>2. ASSUME NEW q \in Producers PROVE CallInv(q)'
  BY <1>0, <1>1, TokenTypes DEF TokenInv, CallInv, InCall, Current
<1>3. ASSUME NEW t \in Slots PROVE AttachedInv(t)'
  <2> SUFFICES ASSUME slots'[t].attached PROVE AttachedInv(t)'
    BY DEF AttachedInv
  <2>1. PICK q \in Producers, n \in 1..MaxCommands : WaiterOf(t, q, n)
    BY <1>1 DEF TokenInv, AttachedInv
  <2>2. WaiterOf(t, q, n)'
    BY <1>0, <1>1, <2>1 DEF WaiterOf, InCall
  <2> QED BY <1>1, <2>2 DEF AttachedInv
<1> QED BY <1>2, <1>3 DEF TokenInv

LEMMA TokenInvAlways == Spec => []TokenInv
<1>1. Init => TokenInv
  BY BridgeAssumption
     DEF Init, TokenInv, CallInv, AttachedInv, InCall, IdleProducer, Commands
<1>2. TypeOK /\ TokenInv /\ [Next]_vars => TokenInv'
  <2> SUFFICES ASSUME TypeOK, TokenInv, [Next]_vars PROVE TokenInv'
    OBVIOUS
  <2>1. CASE UNCHANGED vars
    <3>1. UNCHANGED <<slots, prod, reply>>
      BY <2>1 DEF vars
    <3>2. \A p \in Producers : CallInv(p)'
      BY <3>1 DEF TokenInv, CallInv, InCall, Current
    <3>3. \A s \in Slots : AttachedInv(s)'
      BY <3>1 DEF TokenInv, AttachedInv, WaiterOf, InCall
    <3> QED BY <3>2, <3>3 DEF TokenInv
  <2>2. ASSUME NEW p \in Producers, Submit(p) PROVE TokenInv'
    BY <2>2, AcceptKeepsTokens, RefuseKeepsTokens DEF Submit, IsFirstFree, FreeSlots
  <2> QED BY <2>1, <2>2, CallKeepsTokens, ProcessOneKeepsTokens DEF Next
<1> QED BY TypeCorrect, <1>1, <1>2, PTL DEF Spec

\* What a call reports about its token is the truth: see ClosedTokenOwnsNothing.
THEOREM ClosedTokensOwnNothing == Spec => []ClosedTokenOwnsNothing
<1>1. TypeOK /\ TokenInv => ClosedTokenOwnsNothing
  <2> SUFFICES ASSUME TypeOK, TokenInv, NEW c \in Commands, NEW s \in Slots,
                      slots[s].command = c, slots[s].attached
               PROVE  ~reply[c].closed
    BY DEF ClosedTokenOwnsNothing
  <2>1. PICK p \in Producers, n \in 1..MaxCommands : WaiterOf(s, p, n)
    BY DEF TokenInv, AttachedInv
  <2>2. c = <<p, n>>
    BY <2>1 DEF WaiterOf
  <2> QED BY <2>1, <2>2 DEF WaiterOf, TokenInv, CallInv
<1> QED BY TypeCorrect, TokenInvAlways, <1>1, PTL

\* Both together: ring, slots and tokens agree in every reachable state of the bridge.
THEOREM SlotsAlwaysAccounted == Spec => []SlotsAccounted
<1>1. QueueIntegrity /\ ClosedTokenOwnsNothing => SlotsAccounted
  BY DEF SlotsAccounted
<1> QED BY <1>1, QueueAlwaysIntact, ClosedTokensOwnNothing, PTL

-----------------------------------------------------------------------------
(* What the slots, the application task and the calls know of a command.   *)

\* A step that submits nothing and publishes nothing keeps every command where
\* it is; at most it frees or detaches from a slot the application has left.
LEMMA CallKeepsServed ==
    ASSUME TypeOK, TokenInv, ServedInv, NEW p \in Producers, Call(p)
    PROVE  ServedInv'
<1>1. SlotEffect(p) /\ UNCHANGED <<app, phase>> /\ InCall(p)
  BY CallEffect, CallMovesOrEnds
<1>2. \A t \in Slots : /\ slots'[t].command = slots[t].command
                       /\ slots'[t].result = slots[t].result
                       /\ slots'[t].generation = slots[t].generation
                       /\ slots'[t].state \in {"Free", slots[t].state}
                       /\ slots[t].state # "Completed" =>
                             slots'[t].state = slots[t].state
  BY <1>1, TokenTypes DEF SlotEffect, Detach, Release, SlotType
<1>3. /\ prod'[p].sent = prod[p].sent
      /\ \A q \in Producers : q # p => prod'[q] = prod[q]
  <2>1. CASE Moves(p)
    BY <2>1, MovesEffect
  <2>2. CASE Ends(p)
    BY <2>2, TokenTypes DEF Ends, Answer, IdleProducer
  <2> QED BY <2>1, <2>2, CallMovesOrEnds
<1>4. ASSUME NEW q \in Producers PROVE PhaseInv(q)'
  BY <1>1, <1>3 DEF ServedInv, PhaseInv, InCall, Current
<1>5. ASSUME NEW t \in Slots PROVE ResultInv(t)'
  BY <1>1, <1>2 DEF ServedInv, ResultInv
<1>6. AppInv'
  <2>1. app.slot \in Slots
    BY DEF TypeOK, AppType
  <2> QED BY <1>1, <1>2, <2>1 DEF ServedInv, AppInv
<1> QED BY <1>4, <1>5, <1>6 DEF ServedInv

\* A submission touches a free slot and a new command only.
LEMMA SubmitKeepsServed ==
    ASSUME TypeOK, TokenInv, ServedInv, NEW p \in Producers, Submit(p)
    PROVE  ServedInv'
<1> DEFINE c == <<p, prod[p].sent + 1>>
<1>1. /\ prod[p].step = "idle" /\ UNCHANGED app
      /\ prod[p].sent + 1 \in 1..MaxCommands /\ c \in Commands
      /\ phase[c] = "new" /\ phase \in [Commands -> {"new", "refused", "accepted", "executed"}]
      /\ app.slot \in Slots
  BY TokenTypes DEF Submit, ServedInv, PhaseInv, TypeOK, AppType
<1>2. /\ phase'[c] # "new"
      /\ \A d \in Commands : d # c => phase'[d] = phase[d]
      /\ prod'[p].sent = prod[p].sent + 1
      /\ prod'[p].step # "idle" => phase'[c] = "accepted"
      /\ \A q \in Producers : q # p => prod'[q] = prod[q]
  <2>1. CASE Refuse(p)
    BY <1>1, <2>1, TokenTypes DEF Refuse, ProducerType
  <2>2. CASE \E s \in Slots : Accept(p, s)
    BY <1>1, <2>2, TokenTypes DEF Accept
  <2> QED BY <2>1, <2>2 DEF Submit
<1>3. \A t \in Slots :
        \/ slots'[t] = slots[t]
        \/ /\ slots[t].state = "Free" /\ slots'[t].state = "Queued"
           /\ slots'[t].command = c /\ phase'[c] = "accepted"
  <2>1. CASE Refuse(p)
    BY <2>1 DEF Refuse
  <2>2. CASE \E s \in Slots : IsFirstFree(s) /\ Accept(p, s)
    BY <1>1, <2>2, TokenTypes DEF Accept, IsFirstFree, FreeSlots
  <2> QED BY <2>1, <2>2 DEF Submit
<1>4. ASSUME NEW q \in Producers PROVE PhaseInv(q)'
  <2>1. CASE q = p
    <3>1. \A n \in 1..MaxCommands : n > prod'[p].sent => phase'[<<p, n>>] = "new"
      BY <1>2, TokenTypes DEF ServedInv, PhaseInv
    <3>2. prod'[p].step # "idle" => phase'[<<p, prod'[p].sent>>] = "accepted"
      BY <1>2
    <3> QED BY <2>1, <3>1, <3>2 DEF PhaseInv, InCall, Current
  <2>2. CASE q # p
    <3>1. \A n \in 1..MaxCommands : phase'[<<q, n>>] = phase[<<q, n>>]
      BY <1>2, <2>2, TokenTypes
    <3>2. InCall(q) => prod[q].sent \in 1..MaxCommands
      BY DEF TokenInv, CallInv
    <3>3. prod'[q] = prod[q]
      BY <1>2, <2>2
    <3> QED BY <3>1, <3>2, <3>3 DEF ServedInv, PhaseInv, InCall, Current
  <2> QED BY <2>1, <2>2
<1>5. ASSUME NEW t \in Slots PROVE ResultInv(t)'
  BY <1>1, <1>2, <1>3 DEF ServedInv, ResultInv
<1>6. AppInv'
  <2>1. CASE app.step = "idle"
    BY <1>1, <2>1 DEF AppInv
  <2>2. CASE app.step # "idle"
    <3>1. slots'[app.slot] = slots[app.slot] /\ slots[app.slot].command \in Commands
          /\ phase[slots[app.slot].command] # "new"
      BY <1>1, <1>3, <2>2 DEF ServedInv, AppInv, ResultInv
    <3> QED BY <1>1, <1>2, <2>2, <3>1 DEF ServedInv, AppInv
  <2> QED BY <2>1, <2>2
<1> QED BY <1>4, <1>5, <1>6 DEF ServedInv

LEMMA TakePendingKeepsServed ==
    ASSUME TypeOK, QueueInv, ServedInv, TakePending
    PROVE  ServedInv'
<1> DEFINE s == Head(pending)
<1>1. /\ s \in Slots /\ slots[s].state = "Queued"
      /\ UNCHANGED <<prod, phase>>
  <2>1. s = pending[1] /\ 1 \in 1..Len(pending) /\ pending[1] \in Slots
    BY DEF TypeOK, TakePending
  <2> QED BY <2>1 DEF QueueInv, TakePending
<1>2. /\ slots'[s] = [slots[s] EXCEPT !.state = "Processing"]
      /\ \A t \in Slots : t # s => slots'[t] = slots[t]
      /\ app' = [step |-> "execute", slot |-> s,
                 generation |-> slots[s].generation, command |-> slots[s].command]
  BY <1>1, TokenTypes DEF TakePending, Runnable
<1>3. \A q \in Producers : PhaseInv(q)'
  BY <1>1 DEF ServedInv, PhaseInv, InCall, Current
<1>4. slots[s] \in SlotType
  BY <1>1, TokenTypes
<1>5. ASSUME NEW t \in Slots PROVE ResultInv(t)'
  BY <1>1, <1>2, <1>4 DEF ServedInv, ResultInv, SlotType
<1>6. AppInv'
  BY <1>1, <1>2, <1>4 DEF AppInv, SlotType
<1> QED BY <1>3, <1>5, <1>6 DEF ServedInv

LEMMA ExecuteKeepsServed ==
    ASSUME TypeOK, ServedInv, Execute
    PROVE  ServedInv'
<1>1. /\ app.slot \in Slots /\ app.command \in Commands
      /\ phase \in [Commands -> {"new", "refused", "accepted", "executed"}]
      /\ phase[app.command] \in {"accepted", "executed"}
      /\ phase' = [phase EXCEPT ![app.command] = "executed"]
      /\ UNCHANGED <<slots, prod>>
      /\ app' = [app EXCEPT !.step = "publish"] /\ app \in AppType
      /\ app.step = "execute"
  BY DEF TypeOK, AppType, ServedInv, AppInv, ResultInv, Execute
<1>2. \A d \in Commands : phase'[d] = IF d = app.command THEN "executed" ELSE phase[d]
  BY <1>1
<1>3. ASSUME NEW q \in Producers PROVE PhaseInv(q)'
  <2>1. \A n \in 1..MaxCommands : n > prod[q].sent => phase'[<<q, n>>] = "new"
    BY <1>1, <1>2, TokenTypes DEF ServedInv, PhaseInv
  <2>2. InCall(q)' => phase'[Current(q)] \in {"accepted", "executed"}
    BY <1>1 DEF ServedInv, PhaseInv, InCall, Current
  <2> QED BY <1>1, <2>1, <2>2 DEF PhaseInv, InCall, Current
<1>4. ASSUME NEW t \in Slots PROVE ResultInv(t)'
  BY <1>1, <1>2 DEF ServedInv, ResultInv
<1>5. AppInv'
  BY <1>1, <1>2 DEF ServedInv, AppInv, AppType
<1> QED BY <1>3, <1>4, <1>5 DEF ServedInv

LEMMA PublishKeepsServed ==
    ASSUME TypeOK, ServedInv, Publish
    PROVE  ServedInv'
<1>1. /\ app.slot \in Slots /\ slots[app.slot] \in SlotType
      /\ slots[app.slot].state = "Processing"
      /\ slots[app.slot].command = app.command
      /\ phase[app.command] = "executed"
      /\ UNCHANGED <<phase, prod>> /\ app'.step = "idle"
  BY TokenTypes DEF TypeOK, AppType, ServedInv, AppInv, Publish, IdleApp
<1>2. /\ \A t \in Slots : t # app.slot => slots'[t] = slots[t]
      /\ slots'[app.slot].command = app.command
      /\ slots'[app.slot].state \in {"Processing", "Free", "Completed"}
      /\ slots'[app.slot].state = "Completed" => slots'[app.slot].result = app.command
  <2>1. CASE UNCHANGED slots
    BY <1>1, <2>1
  <2>2. CASE Release(app.slot)
    BY <1>1, <2>2, TokenTypes DEF Release, SlotType
  <2>3. CASE StoreResult(app.slot)
    BY <1>1, <2>3, TokenTypes DEF StoreResult, SlotType
  <2> QED BY <2>1, <2>2, <2>3 DEF Publish
<1>3. \A q \in Producers : PhaseInv(q)'
  BY <1>1 DEF ServedInv, PhaseInv, InCall, Current
<1>4. ASSUME NEW t \in Slots PROVE ResultInv(t)'
  <2>1. CASE t = app.slot
    BY <1>1, <1>2, <2>1 DEF ServedInv, ResultInv
  <2>2. CASE t # app.slot
    BY <1>1, <1>2, <2>2 DEF ServedInv, ResultInv
  <2> QED BY <2>1, <2>2
<1>5. AppInv'
  BY <1>1 DEF AppInv
<1> QED BY <1>3, <1>4, <1>5 DEF ServedInv

\* Commands are new until they are submitted, and results are their slot's own.
LEMMA ServedAlways == Spec => [](TypeOK /\ QueueInv /\ TokenInv /\ ServedInv)
<1>1. Init => ServedInv
  BY BridgeAssumption
     DEF Init, ServedInv, PhaseInv, ResultInv, AppInv, InCall, IdleProducer, IdleApp,
         Commands
<1>2. TypeOK /\ QueueInv /\ TokenInv /\ ServedInv /\ [Next]_vars => ServedInv'
  <2> SUFFICES ASSUME TypeOK, QueueInv, TokenInv, ServedInv, [Next]_vars
               PROVE  ServedInv'
    OBVIOUS
  <2>1. CASE UNCHANGED vars
    BY <2>1 DEF vars, ServedInv, PhaseInv, ResultInv, AppInv, InCall, Current
  <2>2. CASE ProcessOne
    BY <2>2, TakePendingKeepsServed, ExecuteKeepsServed, PublishKeepsServed
       DEF ProcessOne
  <2> QED BY <2>1, <2>2, SubmitKeepsServed, CallKeepsServed DEF Next
<1> QED BY <1>1, <1>2, TypeCorrect, QueueInvAlways, TokenInvAlways, PTL DEF Spec

-----------------------------------------------------------------------------
(* The service seen through the bridge.                                    *)

Given == Commands \cup {NoCommand}
InHand == IF app.step = "execute" THEN <<app.command>> ELSE <<>>
RingOf(ring, table) == [i \in 1..Len(ring) |-> table[ring[i]].command]

LEMMA RingIsSeq ==
    ASSUME NEW ring \in Seq(Slots), NEW table \in [Slots -> SlotType]
    PROVE  /\ RingOf(ring, table) \in Seq(Given)
           /\ Len(RingOf(ring, table)) = Len(ring)
           /\ \A i \in 1..Len(ring) : RingOf(ring, table)[i] = table[ring[i]].command
<1>1. \A i \in 1..Len(ring) : table[ring[i]].command \in Given
  BY DEF SlotType, Given
<1>2. RingOf(ring, table) \in Seq(Given)
  BY <1>1 DEF RingOf
<1>3. Len(RingOf(ring, table)) = Len(ring)
  BY DEF RingOf
<1> QED BY <1>2, <1>3 DEF RingOf

LEMMA NotYetRunSplit ==
    ASSUME TypeOK
    PROVE  /\ NotYetRun = InHand \o RingOf(pending, slots)
           /\ InHand \in Seq(Given)
<1>1. app.command \in Given
  BY DEF TypeOK, AppType, Given
<1> QED BY <1>1 DEF InHand, NotYetRun, RingOf

LEMMA QueueUntouched ==
    ASSUME TypeOK, QueueInv, UNCHANGED <<app, pending>>,
           \A s \in Slots : slots[s].state = "Queued" =>
                               slots'[s].command = slots[s].command
    PROVE  NotYetRun' = NotYetRun
<1>1. \A i \in 1..Len(pending) :
         slots'[pending[i]].command = slots[pending[i]].command
  BY DEF TypeOK, QueueInv
<1> QED BY <1>1 DEF NotYetRun

LEMMA AcceptServes ==
    ASSUME TypeOK, slots' \in [Slots -> SlotType], QueueInv, ServedInv,
           NEW p \in Producers, prod[p].sent < MaxCommands,
           NEW s \in Slots, slots[s].state = "Free", Accept(p, s), UNCHANGED app
    PROVE  \E c \in Commands : Service!Accept(c)
<1> DEFINE c == <<p, prod[p].sent + 1>>
           ring == RingOf(pending, slots)
<1>1. c \in Commands /\ phase[c] = "new" /\ c \in Given
  BY TokenTypes DEF ServedInv, PhaseInv, Given
<1>2. /\ phase' = [phase EXCEPT ![c] = "accepted"]
      /\ UNCHANGED reply
      /\ pending' = Append(pending, s)
      /\ slots'[s].command = c
      /\ \A t \in Slots : t # s => slots'[t] = slots[t]
  BY TokenTypes DEF Accept
<1>3. pending \in Seq(Slots) /\ Len(pending) \in Nat /\ slots \in [Slots -> SlotType]
  BY DEF TypeOK
<1>4. RingOf(pending', slots') = Append(ring, c)
  <2>1. /\ pending' \in Seq(Slots)
        /\ Len(pending') = Len(pending) + 1 /\ pending'[Len(pending) + 1] = s
        /\ \A i \in 1..Len(pending) :
              pending'[i] = pending[i] /\ pending[i] \in Slots /\ pending[i] # s
    BY <1>2, <1>3 DEF QueueInv
  <2>2. ring \in Seq(Given) /\ Len(ring) = Len(pending)
    BY <1>3, RingIsSeq
  <2>3. /\ Append(ring, c) \in Seq(Given)
        /\ Len(Append(ring, c)) = Len(pending) + 1
        /\ \A i \in 1..Len(pending) : Append(ring, c)[i] = slots[pending[i]].command
        /\ Append(ring, c)[Len(pending) + 1] = c
    <3> HIDE DEF ring
    <3>1. \A i \in 1..Len(pending) : ring[i] = slots[pending[i]].command
      BY <1>3, RingIsSeq DEF ring
    <3> QED BY <1>1, <1>3, <2>2, <3>1
  <2>4. /\ RingOf(pending', slots') \in Seq(Given)
        /\ Len(RingOf(pending', slots')) = Len(pending) + 1
        /\ \A i \in 1..Len(pending) + 1 :
              RingOf(pending', slots')[i] = slots'[pending'[i]].command
    BY <2>1, RingIsSeq
  <2>5. \A i \in 1..Len(pending) + 1 :
           RingOf(pending', slots')[i] = Append(ring, c)[i]
    <3> SUFFICES ASSUME NEW i \in 1..Len(pending) + 1
                 PROVE  slots'[pending'[i]].command = Append(ring, c)[i]
      BY <2>4
    <3>0. i = Len(pending) + 1 \/ i \in 1..Len(pending)
      BY <1>3
    <3> HIDE DEF ring
    <3>1. CASE i = Len(pending) + 1
      BY <1>2, <2>1, <2>3, <3>1
    <3>2. CASE i \in 1..Len(pending)
      BY <1>2, <2>1, <2>3, <3>2
    <3> QED BY <3>0, <3>1, <3>2
  <2> QED BY <2>3, <2>4, <2>5, SeqEqual
<1>5. NotYetRun' = Append(NotYetRun, c)
  <2>1. NotYetRun' = InHand \o RingOf(pending', slots')
    BY DEF NotYetRun, InHand, RingOf
  <2>2. NotYetRun = InHand \o ring /\ InHand \in Seq(Given) /\ ring \in Seq(Given)
    BY <1>3, NotYetRunSplit, RingIsSeq
  <2> HIDE DEF ring
  <2>3. InHand \o Append(ring, c) = Append(InHand \o ring, c)
    BY <1>1, <2>2
  <2> QED BY <1>4, <2>1, <2>2, <2>3
<1>6. [d \in Commands |-> ServiceAnswer(d)]' = [d \in Commands |-> ServiceAnswer(d)]
  BY <1>2 DEF ServiceAnswer
<1> QED BY <1>1, <1>2, <1>5, <1>6 DEF Service!Accept

LEMMA RefuseServes ==
    ASSUME TypeOK, TokenInv, ServedInv, NEW p \in Producers, prod[p].step = "idle",
           prod[p].sent < MaxCommands, Refuse(p), UNCHANGED app
    PROVE  \E c \in Commands : Service!Refuse(c)
<1> DEFINE c == <<p, prod[p].sent + 1>>
<1>1. c \in Commands /\ phase[c] = "new"
  BY TokenTypes DEF ServedInv, PhaseInv
<1>2. /\ phase' = [phase EXCEPT ![c] = "refused"]
      /\ reply'[c].kind = "notAccepted"
      /\ \A d \in Commands : d # c => reply'[d] = reply[d]
      /\ UNCHANGED <<slots, pending, app>>
  BY <1>1, TokenTypes DEF Refuse
<1>3. NotYetRun' = NotYetRun
  BY <1>2 DEF NotYetRun
<1>4. [d \in Commands |-> ServiceAnswer(d)]'
        = [[d \in Commands |-> ServiceAnswer(d)] EXCEPT ![c] = "refused"]
  BY <1>1, <1>2 DEF ServiceAnswer
<1> QED BY <1>1, <1>2, <1>3, <1>4 DEF Service!Refuse

\* A call answers at most once: a stored result of its own command, which has
\* run, or that it does not know.
LEMMA CallAnswers ==
    ASSUME TypeOK, TokenInv, ServedInv, NEW p \in Producers, Call(p)
    PROVE  \/ UNCHANGED reply
           \/ \E kind \in Outcomes, closed \in BOOLEAN,
                 result \in Commands \cup {NoCommand} :
                /\ Answer(p, kind, closed, result)
                /\ \/ kind \in {"timedOut", "bridgeFailure"}
                   \/ /\ kind = "completed" /\ result = Current(p)
                      /\ phase[Current(p)] = "executed"
<1>1. ASSUME TakeResult(p), Attached(p)
      PROVE  /\ Answer(p, "completed", TRUE, Current(p))
             /\ phase[Current(p)] = "executed"
             /\ Current(p) \in Commands
  <2>1. prod[p].slot \in Slots /\ InCall(p)
    BY TokenTypes, CallMovesOrEnds
  <2>2. slots[prod[p].slot].command = Current(p)
    BY <1>1, <2>1 DEF Attached, Matches, TokenInv, CallInv
  <2> QED BY <1>1, <2>1, <2>2 DEF TakeResult, ServedInv, ResultInv
<1>2. {"timedOut", "bridgeFailure", "completed"} \subseteq Outcomes
  BY DEF Outcomes
<1>3. CASE WaitEnter(p)
  BY <1>1, <1>2, <1>3 DEF WaitEnter
<1>4. CASE WaitForCompletion(p)
  BY <1>4 DEF WaitForCompletion
<1>5. CASE WaitRecheck(p)
  BY <1>1, <1>2, <1>5 DEF WaitRecheck
<1>6. CASE CleanUpDoser(p)
  BY <1>2, <1>6 DEF CleanUpDoser, AnswerBridgeFailure
<1>7. CASE CleanUpHydro(p)
  BY <1>2, <1>7 DEF CleanUpHydro, AnswerBridgeFailure
<1>8. CASE CleanUp(p)
  BY <1>2, <1>8 DEF CleanUp, AnswerBridgeFailure
<1>9. CASE RetryAbandon(p)
  BY <1>2, <1>9 DEF RetryAbandon, AnswerBridgeFailure
<1> QED BY <1>3, <1>4, <1>5, <1>6, <1>7, <1>8, <1>9 DEF Call

LEMMA CallServes ==
    ASSUME TypeOK, QueueInv, TokenInv, ServedInv, NEW p \in Producers, Call(p)
    PROVE  Service!Next \/ UNCHANGED Service!vars
<1> DEFINE c == Current(p)
<1>1. UNCHANGED <<pending, app, phase>> /\ SlotEffect(p) /\ InCall(p)
  BY CallEffect, CallMovesOrEnds
<1>2. NotYetRun' = NotYetRun
  <2>1. \A s \in Slots : slots'[s].command = slots[s].command
    <3>1. SlotEffect(p)
      BY <1>1
    <3> QED BY <3>1, TokenTypes, SMTT(30) DEF SlotEffect, Detach, Release, SlotType
  <2> QED BY <1>1, <2>1, QueueUntouched
<1>3. CASE UNCHANGED reply
  <2>1. [d \in Commands |-> ServiceAnswer(d)]' = [d \in Commands |-> ServiceAnswer(d)]
    BY <1>3 DEF ServiceAnswer
  <2> QED BY <1>1, <1>2, <2>1 DEF Service!vars
<1>4. ASSUME NEW kind \in Outcomes, NEW closed \in BOOLEAN,
             NEW result \in Commands \cup {NoCommand},
             Answer(p, kind, closed, result),
             \/ kind \in {"timedOut", "bridgeFailure"}
             \/ kind = "completed" /\ result = c /\ phase[c] = "executed"
      PROVE  Service!Next
  <2>1. /\ c \in Commands /\ reply[c].kind = "none"
        /\ phase[c] \in {"accepted", "executed"}
    BY <1>1, TokenTypes DEF TokenInv, CallInv, ServedInv, PhaseInv, Current
  <2>2. /\ reply'[c].kind = kind /\ reply'[c].result = result
        /\ \A d \in Commands : d # c => reply'[d] = reply[d]
    BY <1>4, <2>1, TokenTypes DEF Answer
  <2>3. [d \in Commands |-> ServiceAnswer(d)][c] = "none"
    BY <2>1 DEF ServiceAnswer
  <2>4. CASE kind \in {"timedOut", "bridgeFailure"}
    <3>1. [d \in Commands |-> ServiceAnswer(d)]'
            = [[d \in Commands |-> ServiceAnswer(d)] EXCEPT ![c] = "unknown"]
      BY <2>1, <2>2, <2>4 DEF ServiceAnswer
    <3>2. Service!AnswerUnknown(c)
      BY <1>1, <1>2, <2>1, <2>3, <3>1 DEF Service!AnswerUnknown
    <3> QED BY <2>1, <3>2 DEF Service!Next
  <2>5. CASE kind = "completed" /\ result = c /\ phase[c] = "executed"
    <3>1. [d \in Commands |-> ServiceAnswer(d)]'
            = [[d \in Commands |-> ServiceAnswer(d)] EXCEPT ![c] = "result"]
      BY <2>1, <2>2, <2>5 DEF ServiceAnswer
    <3>2. Service!AnswerResult(c)
      BY <1>1, <1>2, <2>3, <2>5, <3>1 DEF Service!AnswerResult
    <3> QED BY <2>1, <3>2 DEF Service!Next
  <2> QED BY <1>4, <2>4, <2>5
<1> QED BY <1>3, <1>4, CallAnswers

\* processOne() runs the oldest accepted command; taking it from the ring and
\* publishing its result are invisible to the service.
LEMMA TakePendingServes ==
    ASSUME TypeOK, slots' \in [Slots -> SlotType], QueueInv, TakePending
    PROVE  UNCHANGED Service!vars
<1> DEFINE s == Head(pending)
           ring == RingOf(pending, slots)
           rest == RingOf(pending', slots')
<1>1. /\ pending \in Seq(Slots) /\ pending # <<>> /\ slots \in [Slots -> SlotType]
      /\ app.step = "idle" /\ UNCHANGED <<phase, reply>>
      /\ pending' = Tail(pending)
  BY DEF TypeOK, TakePending
<1>2. /\ s = pending[1] /\ s \in Slots
      /\ Len(pending) \in Nat \ {0}
      /\ pending' \in Seq(Slots)
      /\ Len(pending') = Len(pending) - 1
      /\ \A i \in 1..Len(pending') :
            pending'[i] = pending[i + 1] /\ pending[i + 1] \in Slots
  BY <1>1
<1>3. slots[s].state = "Queued"
  BY <1>2 DEF QueueInv
<1>4. /\ app'.step = "execute" /\ app'.command = slots[s].command
      /\ \A t \in Slots : slots'[t].command = slots[t].command
  <2>1. /\ app'.step = "execute" /\ app'.command = slots[s].command
        /\ slots' = [slots EXCEPT ![s].state = "Processing"]
    BY <1>3 DEF TakePending, Runnable
  <2> HIDE DEF s
  <2>2. \A t \in Slots : slots'[t].command = slots[t].command
    BY <1>1, <1>2, <2>1 DEF SlotType
  <2> QED BY <2>1, <2>2
<1>5. ring \in Seq(Given) /\ Len(ring) = Len(pending)
  BY <1>1, RingIsSeq
<1>6. \A i \in 1..Len(pending) : ring[i] = slots[pending[i]].command
  BY <1>1, RingIsSeq
<1>7. rest \in Seq(Given) /\ Len(rest) = Len(pending')
  BY <1>2, RingIsSeq
<1>8. \A i \in 1..Len(pending') : rest[i] = slots[pending[i + 1]].command
  BY <1>2, <1>4, RingIsSeq
<1>9. NotYetRun' = <<slots[s].command>> \o rest
  BY <1>4 DEF NotYetRun, RingOf
<1>10. NotYetRun = ring
  <2>1. NotYetRun = InHand \o ring
    BY NotYetRunSplit
  <2>2. InHand = <<>>
    BY <1>1 DEF InHand
  <2> HIDE DEF ring
  <2> QED BY <1>5, <2>1, <2>2, ConcatEmptySeq
<1>11. ring = <<slots[s].command>> \o rest
  <2> DEFINE front == <<slots[s].command>>
  <2>1. slots[s].command \in Given
    BY <1>1, <1>2 DEF SlotType, Given
  <2> HIDE DEF ring, rest
  <2>2. /\ front \o rest \in Seq(Given)
        /\ Len(front \o rest) = Len(pending)
        /\ (front \o rest)[1] = slots[s].command
        /\ \A i \in 1..Len(pending') : (front \o rest)[i + 1] = rest[i]
    BY <1>2, <1>7, <2>1
  <2>3. ASSUME NEW i \in 1..Len(ring) PROVE ring[i] = (front \o rest)[i]
    <3>1. CASE i = 1
      BY <1>2, <1>5, <1>6, <2>2, <3>1
    <3>2. CASE i # 1
      <4>1. PICK j \in 1..Len(pending') : i = j + 1
        BY <1>2, <1>5, <2>3, <3>2
      <4> QED BY <1>2, <1>5, <1>6, <1>8, <2>2, <4>1
    <3> QED BY <3>1, <3>2
  <2> QED BY <1>5, <2>2, <2>3, SeqEqual
<1>12. [d \in Commands |-> ServiceAnswer(d)]' = [d \in Commands |-> ServiceAnswer(d)]
  BY <1>1 DEF ServiceAnswer
<1> QED BY <1>1, <1>9, <1>10, <1>11, <1>12 DEF Service!vars

LEMMA ExecuteServes ==
    ASSUME TypeOK, ServedInv, Execute
    PROVE  Service!Execute
<1> DEFINE ring == RingOf(pending, slots)
<1>1. /\ app.step = "execute" /\ app'.step = "publish"
      /\ phase' = [phase EXCEPT ![app.command] = "executed"]
      /\ UNCHANGED <<slots, pending, reply>>
  BY DEF Execute, TypeOK, AppType
<1>2. ring \in Seq(Given)
  BY TokenTypes, RingIsSeq DEF TypeOK
<1>3. NotYetRun = <<app.command>> \o ring
  BY <1>1 DEF NotYetRun, RingOf
<1>4. NotYetRun' = ring
  <2>1. NotYetRun' = <<>> \o ring
    BY <1>1 DEF NotYetRun, RingOf
  <2> HIDE DEF ring
  <2> QED BY <1>2, <2>1, ConcatEmptySeq
<1>5. app.command \in Given
  BY DEF TypeOK, AppType, Given
<1>6. NotYetRun # <<>> /\ Head(NotYetRun) = app.command /\ Tail(NotYetRun) = ring
  <2> HIDE DEF ring
  <2> QED BY <1>2, <1>3, <1>5
<1>7. [d \in Commands |-> ServiceAnswer(d)]' = [d \in Commands |-> ServiceAnswer(d)]
  BY <1>1 DEF ServiceAnswer
<1> QED BY <1>1, <1>4, <1>6, <1>7 DEF Service!Execute

LEMMA PublishServes ==
    ASSUME TypeOK, QueueInv, Publish
    PROVE  UNCHANGED Service!vars
<1>1. UNCHANGED <<pending, phase, reply>>
  BY DEF Publish
<1>2. \A s \in Slots : slots'[s].command = slots[s].command
  BY TokenTypes DEF Publish, Release, StoreResult, SlotType
<1>3. NotYetRun' = NotYetRun
  <2>1. \A i \in 1..Len(pending) :
           slots'[pending[i]].command = slots[pending[i]].command
    BY <1>2 DEF TypeOK
  <2> QED BY <1>1, <2>1 DEF NotYetRun, Publish, IdleApp
<1>4. [d \in Commands |-> ServiceAnswer(d)]' = [d \in Commands |-> ServiceAnswer(d)]
  BY <1>1 DEF ServiceAnswer
<1> QED BY <1>1, <1>3, <1>4 DEF Service!vars

\* The bridge implements the service it promises to its two tasks: refused
\* commands never run, accepted ones run at most once and in their order, and a
\* result is that of the own command, whatever times out, fails or is reused.
THEOREM BridgeImplementsService == Spec => ImplementsService
<1>1. Init => Service!Init
  <2> SUFFICES ASSUME Init PROVE Service!Init
    OBVIOUS
  <2>1. NotYetRun = <<>>
    BY DEF Init, NotYetRun, IdleApp
  <2>2. [d \in Commands |-> ServiceAnswer(d)] = [d \in Commands |-> "none"]
    BY DEF Init, ServiceAnswer
  <2> QED BY <2>1, <2>2 DEF Init, Service!Init
<1>2. /\ TypeOK /\ TypeOK' /\ QueueInv /\ TokenInv /\ ServedInv /\ [Next]_vars
      => [Service!Next]_(Service!vars)
  <2> SUFFICES ASSUME TypeOK, TypeOK', QueueInv, TokenInv, ServedInv, [Next]_vars
               PROVE  Service!Next \/ UNCHANGED Service!vars
    OBVIOUS
  <2>0. slots' \in [Slots -> SlotType]
    BY DEF TypeOK
  <2>1. CASE UNCHANGED vars
    BY <2>1 DEF vars, Service!vars, NotYetRun, ServiceAnswer
  <2>2. CASE ProcessOne
    BY <2>0, <2>2, TakePendingServes, ExecuteServes, PublishServes
       DEF ProcessOne, Service!Next
  <2>3. ASSUME NEW p \in Producers, Submit(p) PROVE Service!Next
    BY <2>0, <2>3, AcceptServes, RefuseServes
       DEF Submit, IsFirstFree, FreeSlots, Service!Next
  <2>4. ASSUME NEW p \in Producers, Call(p)
        PROVE  Service!Next \/ UNCHANGED Service!vars
    BY <2>4, CallServes
  <2> QED BY <2>1, <2>2, <2>3, <2>4 DEF Next
<1> QED BY <1>1, <1>2, ServedAlways, PTL DEF Spec, Service!Spec, ImplementsService

-----------------------------------------------------------------------------
(* What is lost, and the failures that paid for it.                        *)

Failures == {"publish", "call", "abandon", "retry"}

ReceiptsInv == IsFiniteSet(Receipts) /\ Cardinality(Receipts) <= faults

LEMMA ReceiptsKept ==
    ASSUME TypeOK, ReceiptsInv, faults' \in {faults, faults + 1},
           \A c \in Commands, f \in Failures : Charged(c, f)' => Charged(c, f)
    PROVE  ReceiptsInv'
<1>1. Receipts' \subseteq Receipts
  BY DEF Receipts, Failures
<1>2. faults \in Nat
  BY BridgeAssumption DEF TypeOK
<1>3. IsFiniteSet(Receipts') /\ Cardinality(Receipts') <= Cardinality(Receipts)
  BY <1>1, FS_Subset DEF ReceiptsInv
<1>4. Cardinality(Receipts) \in Nat /\ Cardinality(Receipts') \in Nat
  BY <1>3, FS_CardinalityType DEF ReceiptsInv
<1> QED BY <1>2, <1>3, <1>4 DEF ReceiptsInv

LEMMA ReceiptAdded ==
    ASSUME TypeOK, ReceiptsInv, faults' = faults + 1, NEW r,
           \A c \in Commands, f \in Failures :
              Charged(c, f)' => Charged(c, f) \/ <<c, f>> = r
    PROVE  ReceiptsInv'
<1>1. Receipts' \subseteq Receipts \cup {r}
  <2> SUFFICES ASSUME NEW x \in Receipts' PROVE x \in Receipts \cup {r}
    OBVIOUS
  <2>1. PICK c \in Commands, f \in Failures : x = <<c, f>> /\ Charged(c, f)'
    BY DEF Receipts, Failures
  <2> QED BY <2>1 DEF Receipts, Failures
<1>2. faults \in Nat
  BY BridgeAssumption DEF TypeOK
<1>3. /\ IsFiniteSet(Receipts \cup {r})
      /\ Cardinality(Receipts) \in Nat
      /\ Cardinality(Receipts \cup {r}) \in {Cardinality(Receipts), Cardinality(Receipts) + 1}
  BY FS_AddElement, FS_CardinalityType DEF ReceiptsInv
<1>4. IsFiniteSet(Receipts') /\ Cardinality(Receipts') <= Cardinality(Receipts \cup {r})
  BY <1>1, <1>3, FS_Subset
<1>5. Cardinality(Receipts') \in Nat
  BY <1>4, FS_CardinalityType
<1> QED BY <1>2, <1>3, <1>4, <1>5 DEF ReceiptsInv

LEMMA FaultPaid ==
    ASSUME TypeOK, Fault
    PROVE  faults' = faults + 1
BY DEF Fault

\* Two calls never hold one slot.
LEMMA HolderUnique ==
    ASSUME TokenInv, NEW p \in Producers, NEW q \in Producers,
           InCall(p), InCall(q), Attached(p), Attached(q), prod[p].slot = prod[q].slot
    PROVE  p = q
BY DEF TokenInv, CallInv, Attached, Matches, Current

\* A call that has given its slot up leaves none that waits for its command.
LEMMA NoSlotLeft ==
    ASSUME TypeOK, TokenInv, NEW p \in Producers, InCall(p), SlotEffect(p),
           ~Attached(p) \/ ~slots'[prod[p].slot].attached
    PROVE  \A s \in Slots : slots'[s].attached => slots[s].command # Current(p)
<1> SUFFICES ASSUME NEW s \in Slots, slots'[s].attached, slots[s].command = Current(p)
             PROVE  FALSE
  OBVIOUS
<1>1. slots[s].attached
  BY TokenTypes DEF SlotEffect, Detach, Release, SlotType
<1>2. PICK q \in Producers, n \in 1..MaxCommands : WaiterOf(s, q, n)
  BY <1>1 DEF TokenInv, AttachedInv
<1>3. q = p /\ n = prod[p].sent
  BY <1>2 DEF WaiterOf, Current
<1>4. prod[p].slot = s /\ prod[p].generation = slots[s].generation
  BY <1>2, <1>3 DEF WaiterOf, TokenInv, CallInv
<1>5. Attached(p)
  BY <1>1, <1>4 DEF Attached, Matches, TokenInv, AttachedInv
<1> QED BY <1>4, <1>5

LEMMA MoveCharges ==
    ASSUME TypeOK, NEW p \in Producers, InCall(p), SlotEffect(p), Moves(p),
           UNCHANGED <<variant, app>>, NEW c \in Commands, NEW f \in Failures,
           Charged(c, f)'
    PROVE  \/ Charged(c, f)
           \/ <<c, f>> = <<Current(p), "call">> /\ Failing(p)'
           \/ <<c, f>> = <<Current(p), "abandon">> /\ prod'[p].step = "retry"
<1>1. /\ UNCHANGED reply /\ prod'[p].step # "idle"
      /\ \A q \in Producers : prod'[q].sent = prod[q].sent
      /\ \A q \in Producers : q # p => prod'[q] = prod[q]
  BY MovesEffect
<1>2. \A s \in Slots : /\ slots'[s].command = slots[s].command
                       /\ slots'[s].attached => slots[s].attached
                       /\ slots'[s].state = "Processing" => slots[s].state = "Processing"
  BY TokenTypes DEF SlotEffect, Detach, Release, SlotType
<1>3. \A s \in Slots : Stranded(s)' => Stranded(s)
  BY <1>2 DEF Stranded
<1>4. \A s \in Slots : Orphaned(s)' => Orphaned(s)
  BY <1>1, <1>2 DEF Orphaned, InCall, Current
<1>5. \A q \in Producers : q # p => (Failing(q)' <=> Failing(q))
  BY <1>1 DEF Failing
<1>6. \A q \in Producers : Current(q)' = Current(q)
  BY <1>1 DEF Current
<1> QED BY <1>1, <1>2, <1>3, <1>4, <1>5, <1>6 DEF Charged, Failures

LEMMA AnswerCharges ==
    ASSUME TypeOK, TokenInv, NEW p \in Producers, InCall(p), SlotEffect(p),
           NEW kind, NEW closed, NEW result, Answer(p, kind, closed, result),
           UNCHANGED <<variant, app>>, NEW c \in Commands, NEW f \in Failures,
           Charged(c, f)'
    PROVE  \/ Charged(c, f)
           \/ <<c, f>> = <<Current(p), "call">> /\ kind = "bridgeFailure"
           \/ /\ c = Current(p) /\ f \in {"abandon", "retry"}
              /\ variant \in {"native", "luma"}
              /\ \E s \in Slots : slots'[s].attached /\ slots[s].command = Current(p)
<1>1. /\ prod'[p].step = "idle"
      /\ \A q \in Producers : q # p => prod'[q] = prod[q]
      /\ \A d \in Commands : d # Current(p) => reply'[d] = reply[d]
      /\ Current(p) \in Commands => reply'[Current(p)].kind = kind
  BY TokenTypes DEF Answer, IdleProducer
<1>2. \A s \in Slots : /\ slots'[s].command = slots[s].command
                       /\ slots'[s].attached => slots[s].attached
                       /\ slots'[s].state = "Processing" => slots[s].state = "Processing"
  BY TokenTypes DEF SlotEffect, Detach, Release, SlotType
<1>3. \A s \in Slots : Stranded(s)' => Stranded(s)
  BY <1>2 DEF Stranded
<1>4. ASSUME NEW s \in Slots, Orphaned(s)'
      PROVE  Orphaned(s) \/ (slots'[s].attached /\ slots[s].command = Current(p))
  BY <1>1, <1>2, <1>4 DEF Orphaned, InCall, Current
<1>5. \A q \in Producers : Failing(q)' => q # p /\ Failing(q) /\ Current(q)' = Current(q)
  BY <1>1 DEF Failing, Current
<1>6. CASE f = "publish"
  BY <1>2, <1>3, <1>6 DEF Charged
<1>7. CASE f = "call"
  BY <1>1, <1>5, <1>7 DEF Charged
<1>8. CASE f \in {"abandon", "retry"}
  <2>1. CASE \E q \in Producers : prod'[q].step = "retry" /\ Current(q)' = c /\ f = "abandon"
    BY <1>1, <1>8, <2>1 DEF Charged, Current
  <2>2. CASE /\ variant' \in {"native", "luma"}
             /\ \E s \in Slots : Orphaned(s)' /\ slots'[s].command = c
    BY <1>2, <1>4, <1>8, <2>2 DEF Charged
  <2> QED BY <1>8, <2>1, <2>2 DEF Charged
<1> QED BY <1>6, <1>7, <1>8 DEF Failures

LEMMA CallKeepsReceipts ==
    ASSUME TypeOK, TokenInv, LossInv, NEW p \in Producers, Call(p)
    PROVE  ReceiptsInv'
<1> DEFINE Kept == \A c \in Commands, f \in Failures : Charged(c, f)' => Charged(c, f)
           Added(r) == \A c \in Commands, f \in Failures :
                          Charged(c, f)' => Charged(c, f) \/ <<c, f>> = r
<1>1. SlotEffect(p) /\ InCall(p) /\ UNCHANGED <<variant, app>> /\ Current(p) \in Commands
  BY CallEffect, CallMovesOrEnds, TokenTypes DEF TokenInv, CallInv, Current
<1>2. ReceiptsInv /\ HeldInv(p)
  BY DEF LossInv, ReceiptsInv
<1>3. ASSUME Failing(p) PROVE Charged(Current(p), "call")
  BY <1>3 DEF Charged
<1>4. ASSUME Moves(p), Failing(p)' => Failing(p), prod'[p].step # "retry" PROVE Kept
  BY <1>1, <1>3, <1>4, MoveCharges
<1>5. ASSUME Moves(p), Failing(p)' => Failing(p) PROVE Added(<<Current(p), "abandon">>)
  BY <1>1, <1>3, <1>5, MoveCharges
<1>6. ASSUME Moves(p), prod'[p].step # "retry" PROVE Added(<<Current(p), "call">>)
  BY <1>1, <1>6, MoveCharges
<1>7. ASSUME NEW kind, NEW closed, NEW result, Answer(p, kind, closed, result),
             kind = "bridgeFailure" => Failing(p),
             ~Attached(p) \/ ~slots'[prod[p].slot].attached
      PROVE  Kept
  <2>1. \A s \in Slots : slots'[s].attached => slots[s].command # Current(p)
    BY <1>1, <1>7, NoSlotLeft
  <2> QED BY <1>1, <1>3, <1>7, <2>1, AnswerCharges
<1>8. ASSUME TakeResult(p) PROVE Kept
  <2>1. ~slots'[prod[p].slot].attached
    BY <1>8, TokenTypes DEF TakeResult, Release, SlotType
  <2>2. Answer(p, "completed", TRUE, slots[prod[p].slot].result)
    BY <1>8 DEF TakeResult
  <2>3. "completed" # "bridgeFailure"
    OBVIOUS
  <2> QED BY <1>7, <2>1, <2>2, <2>3
<1>9. \A step \in {"cleanup", "blocked", "retry"} :
         GoTo(p, step) => prod'[p].step = step
  BY TokenTypes DEF GoTo, ProducerType
<1>10. \A woken \in WakeStatus :
          Wake(p, woken) => prod'[p].step = "woken" /\ prod'[p].wake = woken
  BY TokenTypes DEF Wake, ProducerType
<1>11. ASSUME Abandon(p) PROVE ~Attached(p) \/ ~slots'[prod[p].slot].attached
  BY <1>11, TokenTypes DEF Abandon, Release, Detach, SlotType
<1>12. CASE WaitEnter(p)
  <2>1. CASE Fault /\ GoTo(p, "cleanup") /\ UNCHANGED reply
    <3>1. Added(<<Current(p), "call">>)
      BY <1>6, <1>9, <2>1 DEF Moves
    <3> QED BY <1>2, <2>1, <3>1, FaultPaid, ReceiptAdded
  <2>2. CASE TakeResult(p) /\ UNCHANGED faults
    BY <1>2, <1>8, <2>2, ReceiptsKept
  <2>3. CASE GoTo(p, "blocked") /\ UNCHANGED <<reply, faults>>
    <3>1. Kept
      BY <1>4, <1>9, <2>3 DEF Moves, Failing
    <3> QED BY <1>2, <2>3, <3>1, ReceiptsKept
  <2> QED BY <1>2, <1>12, <2>1, <2>2, <2>3 DEF WaitEnter, HeldInv
<1>13. CASE WaitForCompletion(p)
  <2>1. CASE /\ Wake(p, "Signaled") \/ Wake(p, "TimedOut")
             /\ UNCHANGED faults
    <3>1. Kept
      BY <1>4, <1>10, <1>13, <2>1 DEF WaitForCompletion, Moves, Failing, WakeStatus
    <3> QED BY <1>2, <2>1, <3>1, ReceiptsKept
  <2>2. CASE Fault /\ Wake(p, "Failure")
    <3>1. Added(<<Current(p), "call">>)
      BY <1>6, <1>10, <1>13, <2>2 DEF WaitForCompletion, Moves, WakeStatus
    <3> QED BY <1>2, <2>2, <3>1, FaultPaid, ReceiptAdded
  <2> QED BY <1>13, <2>1, <2>2 DEF WaitForCompletion
<1>14. CASE WaitRecheck(p)
  <2>1. CASE Fault /\ GoTo(p, "cleanup") /\ UNCHANGED reply
    <3>1. Added(<<Current(p), "call">>)
      BY <1>6, <1>9, <2>1 DEF Moves
    <3> QED BY <1>2, <2>1, <3>1, FaultPaid, ReceiptAdded
  <2>2. CASE TakeResult(p) /\ UNCHANGED faults
    BY <1>2, <1>8, <2>2, ReceiptsKept
  <2>3. CASE /\ slots[prod[p].slot].state # "Completed"
             /\ prod[p].wake # "TimedOut" /\ GoTo(p, "cleanup")
             /\ UNCHANGED <<reply, faults>>
    <3>1. Failing(p)
      BY <1>2, <1>14, <2>3, TokenTypes
         DEF WaitRecheck, HeldInv, Failing, ProducerType, WakeStatus
    <3>2. Kept
      BY <1>4, <1>9, <2>3, <3>1 DEF Moves
    <3> QED BY <1>2, <2>3, <3>2, ReceiptsKept
  <2>4. CASE /\ Detach(prod[p].slot) /\ Answer(p, "timedOut", TRUE, NoCommand)
             /\ UNCHANGED faults
    <3>1. ~slots'[prod[p].slot].attached
      BY <2>4, TokenTypes DEF Detach, SlotType
    <3>2. Kept
      BY <1>7, <2>4, <3>1
    <3> QED BY <1>2, <2>4, <3>2, ReceiptsKept
  <2> QED BY <1>2, <1>14, <2>1, <2>2, <2>3, <2>4 DEF WaitRecheck, HeldInv
<1>15. CASE CleanUpDoser(p) \/ CleanUpHydro(p)
  <2>1. /\ Failing(p) /\ variant \notin {"native", "luma"}
        /\ \E closed, result : Answer(p, "bridgeFailure", closed, result)
    BY <1>15 DEF CleanUpDoser, CleanUpHydro, AnswerBridgeFailure, Failing
  <2>2. Kept
    BY <1>1, <1>3, <2>1, AnswerCharges
  <2>3. faults' \in {faults, faults + 1}
    BY <1>15 DEF CleanUpDoser, CleanUpHydro, Fault
  <2> QED BY <1>2, <2>2, <2>3, ReceiptsKept
<1>16. CASE CleanUp(p)
  <2>0. Failing(p)
    BY <1>16 DEF CleanUp, Failing
  <2>1. CASE Abandon(p) /\ AnswerBridgeFailure(p, TRUE) /\ UNCHANGED faults
    <3>1. Kept
      BY <1>7, <1>11, <2>0, <2>1 DEF AnswerBridgeFailure
    <3> QED BY <1>2, <2>1, <3>1, ReceiptsKept
  <2>2. CASE Fault /\ GoTo(p, "retry") /\ UNCHANGED reply
    <3>1. Added(<<Current(p), "abandon">>)
      BY <1>5, <2>0, <2>2 DEF Moves
    <3> QED BY <1>2, <2>2, <3>1, FaultPaid, ReceiptAdded
  <2> QED BY <1>16, <2>1, <2>2 DEF CleanUp
<1>17. CASE RetryAbandon(p)
  <2>0. Failing(p) /\ Charged(Current(p), "abandon")
    BY <1>17 DEF RetryAbandon, Failing, Charged
  <2>1. CASE Abandon(p) /\ AnswerBridgeFailure(p, TRUE) /\ UNCHANGED faults
    <3>1. Kept
      BY <1>7, <1>11, <2>0, <2>1 DEF AnswerBridgeFailure
    <3> QED BY <1>2, <2>1, <3>1, ReceiptsKept
  <2>2. CASE Fault /\ AnswerBridgeFailure(p, FALSE)
    <3>1. \E closed, result : Answer(p, "bridgeFailure", closed, result)
      BY <2>2 DEF AnswerBridgeFailure
    <3>2. Added(<<Current(p), "retry">>)
      BY <1>1, <1>3, <2>0, <3>1, AnswerCharges
    <3> QED BY <1>2, <2>2, <3>2, FaultPaid, ReceiptAdded
  <2> QED BY <1>17, <2>1, <2>2 DEF RetryAbandon
<1> QED BY <1>12, <1>13, <1>14, <1>15, <1>16, <1>17 DEF Call

\* What a call does to its slot leaves the other waiters theirs.
LEMMA CallKeepsHeld ==
    ASSUME TypeOK, TokenInv, LossInv, NEW p \in Producers, Call(p),
           NEW q \in Producers
    PROVE  HeldInv(q)'
<1>1. SlotEffect(p) /\ InCall(p)
  BY CallEffect, CallMovesOrEnds
<1>2. /\ slots \in [Slots -> SlotType] /\ prod[p].slot \in Slots /\ prod[q].slot \in Slots
      /\ HeldInv(p) /\ HeldInv(q)
  BY TokenTypes DEF LossInv
<1>3. CASE q # p
  <2>1. prod'[q] = prod[q]
    <3>1. CASE Moves(p)
      BY <1>3, <3>1, MovesEffect
    <3>2. CASE Ends(p)
      BY <1>3, <3>2, TokenTypes DEF Ends, Answer
    <3> QED BY <3>1, <3>2, CallMovesOrEnds
  <2>2. CASE prod[q].step \in {"accepted", "blocked", "woken"}
    <3>1. Attached(q) /\ InCall(q)
      BY <1>2, <2>2 DEF HeldInv, InCall
    <3>2. ~(Attached(p) /\ prod[p].slot = prod[q].slot)
      BY <1>1, <1>3, <3>1, HolderUnique
    <3>3. slots'[prod[q].slot] = slots[prod[q].slot]
      BY <1>1, <1>2, <3>2 DEF SlotEffect, Detach, Release
    <3> QED BY <1>2, <2>1, <2>2, <3>1, <3>3 DEF HeldInv, Attached, Matches
  <2> QED BY <2>1, <2>2 DEF HeldInv
<1>4. CASE q = p
  <2>1. CASE Ends(p)
    <3>1. prod'[p].step = "idle"
      BY <2>1, TokenTypes DEF Ends, Answer, IdleProducer
    <3> QED BY <1>4, <3>1 DEF HeldInv
  <2>2. CASE GoTo(p, "cleanup") \/ GoTo(p, "retry")
    <3>1. prod'[p].step \in {"cleanup", "retry"}
      BY <2>2, TokenTypes DEF GoTo, ProducerType
    <3> QED BY <1>4, <3>1 DEF HeldInv
  <2>3. CASE WaitEnter(p) /\ GoTo(p, "blocked") /\ UNCHANGED slots
    <3>1. prod'[p].step = "blocked" /\ Attached(p)
      BY <1>2, <2>3, TokenTypes DEF WaitEnter, GoTo, ProducerType, HeldInv
    <3>2. prod'[p].slot = prod[p].slot /\ prod'[p].generation = prod[p].generation
      BY <2>3, TokenTypes DEF GoTo, ProducerType
    <3> QED BY <1>4, <2>3, <3>1, <3>2 DEF HeldInv, Attached, Matches
  <2>4. ASSUME NEW woken \in WakeStatus, WaitForCompletion(p), Wake(p, woken),
               woken = "Signaled" => completion[prod[p].slot]
        PROVE  HeldInv(p)'
    <3>1. /\ prod'[p].slot = prod[p].slot /\ prod'[p].generation = prod[p].generation
          /\ prod'[p].wake = woken
      BY <2>4, TokenTypes DEF Wake, ProducerType
    <3>2. Attached(p) /\ UNCHANGED slots
      BY <1>2, <2>4 DEF WaitForCompletion, HeldInv
    <3>3. woken = "Signaled" => slots[prod[p].slot].state = "Completed"
      BY <1>2, <2>4, <3>2 DEF LossInv, CompletionInv, Attached, Matches
    <3> QED BY <3>1, <3>2, <3>3 DEF HeldInv, Attached, Matches
  <2>5. CASE WaitForCompletion(p)
    BY <1>4, <2>4, <2>5 DEF WaitForCompletion, WakeStatus
  <2>6. \/ WaitForCompletion(p) \/ Ends(p)
        \/ GoTo(p, "cleanup") \/ GoTo(p, "retry")
        \/ WaitEnter(p) /\ GoTo(p, "blocked") /\ UNCHANGED slots
    <3>1. CASE WaitEnter(p)
      BY <3>1, TakeResultEnds DEF WaitEnter
    <3>2. CASE WaitRecheck(p)
      <4>1. ASSUME Answer(p, "timedOut", TRUE, NoCommand) PROVE ~Moves(p)
        <5>1. prod'[p].step = "idle"
          BY <4>1, TokenTypes DEF Answer, IdleProducer
        <5> QED BY <5>1, MovesEffect
      <4> QED BY <3>2, <4>1, TakeResultEnds, CallMovesOrEnds DEF WaitRecheck
    <3>3. CASE CleanUpDoser(p) \/ CleanUpHydro(p) \/ CleanUp(p) \/ RetryAbandon(p)
      <4>1. ASSUME NEW closed \in BOOLEAN, AnswerBridgeFailure(p, closed)
            PROVE  ~Moves(p)
        <5>1. prod'[p].step = "idle"
          BY <4>1, TokenTypes DEF AnswerBridgeFailure, Answer, IdleProducer
        <5> QED BY <5>1, MovesEffect
      <4> QED BY <3>3, <4>1, CallMovesOrEnds
              DEF CleanUpDoser, CleanUpHydro, CleanUp, RetryAbandon
    <3> QED BY <3>1, <3>2, <3>3 DEF Call
  <2> QED BY <1>4, <2>1, <2>2, <2>3, <2>5, <2>6
<1> QED BY <1>3, <1>4

LEMMA CallKeepsLoss ==
    ASSUME TypeOK, TokenInv, LossInv, NEW p \in Producers, Call(p)
    PROVE  LossInv'
<1>1. SlotEffect(p)
  BY CallEffect
<1>2. \A s \in Slots : /\ slots'[s].command = slots[s].command
                       /\ slots'[s].state # "Free" => slots'[s].state = slots[s].state
                       /\ slots'[s].state = "Completed" =>
                             slots'[s].attached = slots[s].attached
  BY <1>1, TokenTypes DEF SlotEffect, Detach, Release, SlotType
<1>3. \A s \in Slots : completion'[s] => completion[s]
  <2>1. CASE UNCHANGED completion
    BY <2>1
  <2>2. CASE completion' = [completion EXCEPT ![prod[p].slot] = FALSE]
    BY <2>2 DEF TypeOK
  <2> QED BY <2>1, <2>2 DEF Call, WaitEnter, WaitForCompletion, WaitRecheck,
                            CleanUpDoser, CleanUpHydro, CleanUp, RetryAbandon
<1>4. ASSUME NEW s \in Slots PROVE CompletionInv(s)'
  BY <1>2, <1>3 DEF LossInv, CompletionInv
<1> QED BY <1>4, CallKeepsHeld, CallKeepsReceipts DEF LossInv, ReceiptsInv

LEMMA SubmitKeepsLoss ==
    ASSUME TypeOK, TokenInv, ServedInv, LossInv, NEW p \in Producers, Submit(p)
    PROVE  LossInv'
<1> DEFINE c == <<p, prod[p].sent + 1>>
<1>1. /\ prod[p].step = "idle" /\ UNCHANGED <<variant, app>>
      /\ c \in Commands /\ phase[c] = "new"
      /\ faults' \in {faults, faults + 1}
  BY TokenTypes DEF Submit, ServedInv, PhaseInv, Accept, Fault
<1>2. CASE Refuse(p)
  <2>1. /\ UNCHANGED <<slots, completion>>
        /\ prod'[p].step = "idle"
        /\ \A q \in Producers : q # p => prod'[q] = prod[q]
        /\ reply'[c].kind # "bridgeFailure"
        /\ \A d \in Commands : d # c => reply'[d] = reply[d]
    BY <1>1, <1>2, TokenTypes DEF Refuse, ProducerType
  <2>2. \A q \in Producers : HeldInv(q)'
    BY <2>1 DEF LossInv, HeldInv, Attached, Matches
  <2>3. \A s \in Slots : CompletionInv(s)'
    BY <2>1 DEF LossInv, CompletionInv
  <2>4. \A s \in Slots : Stranded(s)' => Stranded(s)
    BY <1>1, <2>1 DEF Stranded
  <2>5. \A s \in Slots : Orphaned(s)' => Orphaned(s)
    BY <1>1, <2>1 DEF Orphaned, InCall, Current
  <2>6. \A d \in Commands, f \in Failures : Charged(d, f)' => Charged(d, f)
    BY <1>1, <2>1, <2>4, <2>5 DEF Charged, Failing, Current
  <2> QED BY <1>1, <2>2, <2>3, <2>6, ReceiptsKept DEF LossInv, ReceiptsInv
<1>3. ASSUME NEW s \in Slots, slots[s].state = "Free", Accept(p, s) PROVE LossInv'
  <2>1. /\ slots'[s].command = c /\ slots'[s].state = "Queued" /\ slots'[s].attached = TRUE
        /\ slots'[s].generation = slots[s].generation + 1
        /\ completion'[s] = FALSE
        /\ \A t \in Slots : t # s => slots'[t] = slots[t] /\ completion'[t] = completion[t]
        /\ prod'[p].step = "accepted" /\ prod'[p].sent = prod[p].sent + 1
        /\ prod'[p].slot = s /\ prod'[p].generation = slots[s].generation + 1
        /\ \A q \in Producers : q # p => prod'[q] = prod[q]
        /\ UNCHANGED reply
    BY <1>3, TokenTypes DEF Accept, TypeOK
  <2>2. ASSUME NEW q \in Producers PROVE HeldInv(q)'
    <3>1. CASE q = p
      BY <2>1, <3>1 DEF HeldInv, Attached, Matches
    <3>2. CASE q # p
      <4>1. HeldInv(q) /\ prod'[q] = prod[q] /\ prod[q].slot \in Slots
        BY <2>1, <3>2, TokenTypes DEF LossInv
      <4>2. Attached(q) => prod[q].slot # s
        BY <1>3 DEF Attached, Matches
      <4> QED BY <2>1, <4>1, <4>2 DEF HeldInv, Attached, Matches
    <3> QED BY <3>1, <3>2
  <2>3. ASSUME NEW t \in Slots PROVE CompletionInv(t)'
    <3>1. \A u \in Slots : slots[u].state # "Free" => slots[u].command # c
      BY <1>1 DEF ServedInv, ResultInv
    <3> QED BY <2>1, <3>1 DEF LossInv, CompletionInv
  <2>4. \A t \in Slots : Stranded(t)' => Stranded(t) /\ slots'[t].command = slots[t].command
    BY <1>1, <2>1 DEF Stranded
  <2>5. ASSUME NEW t \in Slots, Orphaned(t)'
        PROVE  Orphaned(t) /\ slots'[t].command = slots[t].command
    <3>1. t # s
      BY <2>1, <2>5 DEF Orphaned, InCall, Current
    <3> QED BY <1>1, <2>1, <2>5, <3>1 DEF Orphaned, InCall, Current
  <2>6. \A q \in Producers : Failing(q)' => Failing(q) /\ Current(q)' = Current(q)
    BY <2>1 DEF Failing, Current
  <2>7. \A q \in Producers : prod'[q].step = "retry" =>
           prod[q].step = "retry" /\ Current(q)' = Current(q)
    BY <2>1 DEF Current
  <2>8. \A d \in Commands, f \in Failures : Charged(d, f)' => Charged(d, f)
    BY <1>1, <2>1, <2>4, <2>5, <2>6, <2>7 DEF Charged
  <2> QED BY <1>1, <2>2, <2>3, <2>8, ReceiptsKept DEF LossInv, ReceiptsInv
<1> QED BY <1>2, <1>3 DEF Submit, IsFirstFree, FreeSlots

LEMMA ProcessOneKeepsLoss ==
    ASSUME TypeOK, QueueInv, TokenInv, ServedInv, LossInv, ProcessOne
    PROVE  LossInv'
<1>1. /\ UNCHANGED <<variant, prod, reply>>
      /\ slots \in [Slots -> SlotType] /\ app.slot \in Slots
      /\ faults' \in {faults, faults + 1}
  BY TokenTypes DEF ProcessOne, TakePending, Execute, Publish, TypeOK, AppType, Fault
\* A step that keeps the attached slots and their commands charges for nothing
\* new but a slot it strands.
<1>2. ASSUME \A s \in Slots : /\ slots'[s].command = slots[s].command
                              /\ slots'[s].attached => slots[s].attached,
             NEW c \in Commands, NEW f \in Failures, Charged(c, f)'
      PROVE  \/ Charged(c, f)
             \/ /\ f = "publish"
                /\ \E s \in Slots : Stranded(s)' /\ slots[s].command = c
  <2>1. \A s \in Slots : Orphaned(s)' => Orphaned(s)
    BY <1>1, <1>2 DEF Orphaned, InCall, Current
  <2>2. \A p \in Producers : Failing(p)' = Failing(p) /\ Current(p)' = Current(p)
    BY <1>1 DEF Failing, Current
  <2> QED BY <1>1, <1>2, <2>1, <2>2 DEF Charged
<1>3. CASE TakePending
  <2> DEFINE s == Head(pending)
  <2>1. s \in Slots /\ slots[s].state = "Queued"
    <3>1. s = pending[1] /\ 1 \in 1..Len(pending) /\ pending[1] \in Slots
      BY <1>3 DEF TypeOK, TakePending
    <3> QED BY <3>1 DEF QueueInv
  <2>2. /\ slots' = [slots EXCEPT ![s].state = "Processing"]
        /\ app'.step = "execute" /\ app'.slot = s
        /\ app.step = "idle" /\ UNCHANGED <<completion, faults>>
    BY <1>3, <2>1 DEF TakePending, Runnable
  <2> HIDE DEF s
  <2>3. /\ \A t \in Slots : t # s => slots'[t] = slots[t]
        /\ slots'[s].command = slots[s].command
        /\ slots'[s].attached = slots[s].attached
        /\ slots'[s].generation = slots[s].generation
        /\ slots'[s].state = "Processing"
    BY <1>1, <2>1, <2>2 DEF SlotType
  <2>4. ASSUME NEW p \in Producers PROVE HeldInv(p)'
    <3>1. prod[p].slot \in Slots /\ HeldInv(p)
      BY TokenTypes DEF LossInv
    <3>2. Attached(p) => Attached(p)'
      BY <1>1, <2>1, <2>3, <3>1 DEF Attached, Matches
    <3> QED BY <1>1, <2>1, <2>3, <3>1, <3>2 DEF HeldInv
  <2>5. \A t \in Slots : CompletionInv(t)'
    BY <2>1, <2>2, <2>3 DEF LossInv, CompletionInv
  <2>6. \A t \in Slots : Stranded(t)' => Stranded(t)
    BY <2>1, <2>2, <2>3 DEF Stranded
  <2>7. \A c \in Commands, f \in Failures : Charged(c, f)' => Charged(c, f)
    <3>1. \A t \in Slots : /\ slots'[t].command = slots[t].command
                           /\ slots'[t].attached => slots[t].attached
      BY <2>3
    <3> QED BY <1>2, <2>6, <3>1 DEF Charged
  <2> QED BY <2>2, <2>4, <2>5, <2>7, ReceiptsKept DEF LossInv, ReceiptsInv
<1>4. CASE Execute
  <2>1. /\ UNCHANGED <<slots, completion, faults>>
        /\ app.step = "execute" /\ app'.step = "publish" /\ app'.slot = app.slot
    BY <1>4 DEF Execute, TypeOK, AppType
  <2>2. \A p \in Producers : HeldInv(p)'
    BY <1>1, <2>1 DEF LossInv, HeldInv, Attached, Matches
  <2>3. \A t \in Slots : CompletionInv(t)'
    BY <2>1 DEF LossInv, CompletionInv
  <2>4. \A t \in Slots : Stranded(t)' => Stranded(t)
    BY <2>1 DEF Stranded
  <2>5. \A c \in Commands, f \in Failures : Charged(c, f)' => Charged(c, f)
    BY <1>2, <2>1, <2>4 DEF Charged
  <2> QED BY <2>1, <2>2, <2>3, <2>5, ReceiptsKept DEF LossInv, ReceiptsInv
<1>5. CASE Publish
  <2> DEFINE s == app.slot
  <2>1. /\ s \in Slots /\ slots[s].state = "Processing"
        /\ slots[s].generation = app.generation
        /\ slots[s].command = app.command /\ app.step = "publish"
        /\ app'.step = "idle"
    BY <1>1, <1>5 DEF Publish, IdleApp, ServedInv, AppInv
  <2>2. \A t \in Slots : t # s => (Stranded(t)' => slots'[t] # slots[t] \/ Stranded(t))
    BY <2>1 DEF Stranded
  <2>3. CASE Fault /\ UNCHANGED <<slots, completion>>
    <3>1. \A p \in Producers : HeldInv(p)'
      BY <1>1, <2>3 DEF LossInv, HeldInv, Attached, Matches
    <3>2. \A t \in Slots : CompletionInv(t)'
      BY <2>3 DEF LossInv, CompletionInv
    <3>3. \A c \in Commands, f \in Failures :
             Charged(c, f)' => Charged(c, f) \/ <<c, f>> = <<app.command, "publish">>
      BY <1>2, <2>1, <2>2, <2>3 DEF Charged
    <3> QED BY <2>3, <3>1, <3>2, <3>3, FaultPaid, ReceiptAdded DEF LossInv, ReceiptsInv
  <2>4. CASE Release(s) /\ ~slots[s].attached /\ UNCHANGED completion
    <3>1. /\ \A t \in Slots : t # s => slots'[t] = slots[t]
          /\ slots'[s].command = slots[s].command
          /\ slots'[s].attached = FALSE /\ slots'[s].state = "Free"
      BY <1>1, <2>1, <2>4 DEF Release, SlotType
    <3>2. ASSUME NEW p \in Producers PROVE HeldInv(p)'
      <4>1. prod[p].slot \in Slots /\ HeldInv(p)
        BY TokenTypes DEF LossInv
      <4>2. Attached(p) => prod[p].slot # s
        BY <2>4 DEF Attached
      <4> QED BY <1>1, <3>1, <4>1, <4>2 DEF HeldInv, Attached, Matches
    <3>3. \A t \in Slots : CompletionInv(t)'
      BY <2>4, <3>1 DEF LossInv, CompletionInv
    <3>4. \A t \in Slots : Stranded(t)' => Stranded(t)
      BY <2>2, <3>1 DEF Stranded
    <3>5. \A t \in Slots : /\ slots'[t].command = slots[t].command
                           /\ slots'[t].attached => slots[t].attached
      BY <3>1
    <3>6. \A c \in Commands, f \in Failures : Charged(c, f)' => Charged(c, f)
      BY <1>2, <3>4, <3>5 DEF Charged
    <3> QED BY <1>1, <3>2, <3>3, <3>6, ReceiptsKept DEF LossInv, ReceiptsInv
  <2>5. CASE /\ StoreResult(s) /\ slots[s].attached
             /\ completion' = [completion EXCEPT ![s] = TRUE] \/ UNCHANGED completion
    <3>1. /\ \A t \in Slots : t # s => slots'[t] = slots[t]
          /\ slots'[s].command = slots[s].command
          /\ slots'[s].generation = slots[s].generation
          /\ slots'[s].attached = slots[s].attached /\ slots'[s].state = "Completed"
      BY <1>1, <2>1, <2>5 DEF StoreResult, SlotType
    <3>2. \A t \in Slots : t # s => completion'[t] = completion[t]
      BY <2>5 DEF TypeOK
    <3>3. ASSUME NEW p \in Producers PROVE HeldInv(p)'
      <4>1. prod[p].slot \in Slots /\ HeldInv(p)
        BY TokenTypes DEF LossInv
      <4>2. Attached(p) => Attached(p)'
        BY <1>1, <3>1, <4>1 DEF Attached, Matches
      <4> QED BY <1>1, <3>1, <4>1, <4>2 DEF HeldInv
    <3>4. ASSUME NEW t \in Slots PROVE CompletionInv(t)'
      <4>1. \A u \in Slots :
               /\ slots'[u].command = slots[u].command
               /\ slots'[u].state # "Free" => slots[u].state # "Free"
        BY <2>1, <3>1
      <4>2. /\ slots'[t].state # "Free" /\ completion'[t] => slots'[t].state = "Completed"
            /\ slots'[t].state = "Completed" => slots'[t].attached
        BY <2>5, <3>1, <3>2 DEF LossInv, CompletionInv
      <4> QED BY <4>1, <4>2 DEF LossInv, CompletionInv
    <3>5. \A t \in Slots : Stranded(t)' => Stranded(t)
      BY <2>2, <3>1 DEF Stranded
    <3>6. \A t \in Slots : /\ slots'[t].command = slots[t].command
                           /\ slots'[t].attached => slots[t].attached
      BY <3>1
    <3>7. \A c \in Commands, f \in Failures : Charged(c, f)' => Charged(c, f)
      BY <1>2, <3>5, <3>6 DEF Charged
    <3> QED BY <1>1, <3>3, <3>4, <3>7, ReceiptsKept DEF LossInv, ReceiptsInv
  <2> QED BY <1>5, <2>1, <2>3, <2>4, <2>5 DEF Publish
<1> QED BY <1>3, <1>4, <1>5 DEF ProcessOne

LEMMA LossInvAlways == Spec => [](TypeOK /\ TokenInv /\ ServedInv /\ LossInv)
<1>1. Init => LossInv
  <2> SUFFICES ASSUME Init PROVE LossInv
    OBVIOUS
  <2>1. \A p \in Producers : HeldInv(p)
    BY DEF Init, HeldInv, IdleProducer
  <2>2. \A s \in Slots : CompletionInv(s)
    BY DEF Init, CompletionInv
  <2>3. Receipts = {}
    BY DEF Init, Receipts, Charged, Stranded, Orphaned, Failing, IdleProducer
  <2> QED BY <2>1, <2>2, <2>3, FS_EmptySet DEF LossInv, Init
<1>2. TypeOK /\ QueueInv /\ TokenInv /\ ServedInv /\ LossInv /\ [Next]_vars => LossInv'
  <2> SUFFICES ASSUME TypeOK, QueueInv, TokenInv, ServedInv, LossInv, [Next]_vars
               PROVE  LossInv'
    OBVIOUS
  <2>1. CASE UNCHANGED vars
    <3>1. (\A p \in Producers : HeldInv(p)') /\ (\A s \in Slots : CompletionInv(s)')
      BY <2>1 DEF vars, LossInv, HeldInv, CompletionInv, Attached, Matches
    <3>2. \A c \in Commands, f \in Failures : Charged(c, f)' => Charged(c, f)
      BY <2>1 DEF vars, Charged, Stranded, Orphaned, Failing, InCall, Current
    <3> QED BY <2>1, <3>1, <3>2, ReceiptsKept DEF vars, LossInv, ReceiptsInv
  <2> QED BY <2>1, CallKeepsLoss, SubmitKeepsLoss, ProcessOneKeepsLoss DEF Next
<1> QED BY <1>1, <1>2, ServedAlways, PTL DEF Spec

\* Every lost slot bears witness to failures of its own.
LEMMA LossIsPaid ==
    ASSUME TypeOK, TokenInv, ServedInv, LossInv
    PROVE  LossesBounded
<1> DEFINE lost == {s \in Slots : ~Recoverable(s)}
           uncollected == {s \in lost : slots[s].state = "Completed"}
           kind(s) == IF slots[s].state = "Completed" THEN "call" ELSE "publish"
<1>1. \A s \in lost : /\ slots[s].state \in {"Processing", "Completed"}
                      /\ slots[s].command \in Commands
  BY TokenTypes DEF Recoverable, SlotType, SlotStates, ServedInv, ResultInv
<1>2. \A s, t \in lost : slots[s].command = slots[t].command => s = t
  BY <1>1 DEF LossInv, CompletionInv
<1>3. ASSUME NEW s \in uncollected
      PROVE  /\ reply[slots[s].command].kind = "bridgeFailure"
             /\ Orphaned(s)
  <2>1. slots[s].attached
    BY <1>3 DEF LossInv, CompletionInv
  <2>2. PICK p \in Producers, n \in 1..MaxCommands : WaiterOf(s, p, n)
    BY <2>1 DEF TokenInv, AttachedInv
  <2>3. ~(/\ InCall(p) /\ prod[p].slot = s
          /\ prod[p].generation = slots[s].generation)
    BY <1>3, <2>1 DEF Recoverable, Attached, Matches
  <2>4. /\ slots[s].command = <<p, n>> /\ n <= prod[p].sent
        /\ reply[<<p, n>>].kind = "bridgeFailure"
    BY <2>2, <2>3 DEF WaiterOf
  <2>5. ASSUME NEW q \in Producers, InCall(q), Current(q) = slots[s].command
        PROVE  FALSE
    <3>1. q = p /\ n = prod[p].sent
      BY <2>4, <2>5 DEF Current
    <3> QED BY <2>4, <2>5, <3>1 DEF TokenInv, CallInv
  <2> QED BY <2>1, <2>4, <2>5 DEF Orphaned
<1>4. ASSUME NEW s \in lost PROVE <<slots[s].command, kind(s)>> \in Receipts
  <2>1. CASE slots[s].state = "Completed"
    BY <1>1, <1>3, <1>4, <2>1 DEF Receipts, Charged
  <2>2. CASE slots[s].state = "Processing"
    <3>1. Stranded(s)
      BY <1>4, <2>2 DEF Recoverable, Stranded
    <3> QED BY <1>1, <1>4, <2>2, <3>1 DEF Receipts, Charged
  <2> QED BY <1>1, <1>4, <2>1, <2>2
<1>5. faults \in Nat /\ IsFiniteSet(Receipts) /\ Cardinality(Receipts) \in Nat
  BY BridgeAssumption, FS_CardinalityType DEF TypeOK, LossInv
<1>6. Cardinality(lost) <= faults
  <2> DEFINE receipt == [s \in lost |-> <<slots[s].command, kind(s)>>]
  <2>1. receipt \in [lost -> Receipts]
    BY <1>4
  <2>2. \A s, t \in lost : receipt[s] = receipt[t] => s = t
    BY <1>2
  <2>3. receipt \in Injection(lost, Receipts)
    <3> HIDE DEF receipt, lost
    <3> QED BY <2>1, <2>2 DEF Injection, IsInjective
  <2>4. IsFiniteSet(lost) /\ Cardinality(lost) <= Cardinality(Receipts)
    <3> HIDE DEF receipt, lost
    <3> QED BY <1>5, <2>3, FS_Injection
  <2>5. Cardinality(lost) \in Nat
    BY <2>4, FS_CardinalityType
  <2> HIDE DEF lost
  <2> QED BY <1>5, <2>4, <2>5 DEF LossInv
<1>7. ASSUME variant \in {"native", "luma"} PROVE 3 * Cardinality(uncollected) <= faults
  <2> DEFINE three == {"call", "abandon", "retry"}
             pairs == uncollected \X three
             receipt == [r \in pairs |-> <<slots[r[1]].command, r[2]>>]
  <2>1. ASSUME NEW s \in uncollected, NEW f \in three
        PROVE  <<slots[s].command, f>> \in Receipts
    BY <1>1, <1>3, <1>7 DEF Receipts, Charged
  <2>2. receipt \in [pairs -> Receipts]
    BY <2>1
  <2>3. \A r, t \in pairs : receipt[r] = receipt[t] => r = t
    BY <1>2
  <2>4. receipt \in Injection(pairs, Receipts)
    <3> HIDE DEF receipt, pairs
    <3> QED BY <2>2, <2>3 DEF Injection, IsInjective
  <2>5. IsFiniteSet(pairs) /\ Cardinality(pairs) <= Cardinality(Receipts)
    <3> HIDE DEF receipt, pairs
    <3> QED BY <1>5, <2>4, FS_Injection
  <2>6. IsFiniteSet(uncollected)
    <3>1. IsFiniteSet(Slots) /\ uncollected \in SUBSET Slots
      BY BridgeAssumption, FS_Interval DEF Slots
    <3> QED BY <3>1, FS_Subset
  <2>7. IsFiniteSet(three) /\ Cardinality(three) = 3
    <3>1. IsFiniteSet({"call"}) /\ Cardinality({"call"}) = 1
      BY FS_Singleton
    <3>2. IsFiniteSet({"call"} \cup {"abandon"}) /\ Cardinality({"call"} \cup {"abandon"}) = 2
      BY <3>1, FS_AddElement
    <3>3. /\ IsFiniteSet(({"call"} \cup {"abandon"}) \cup {"retry"})
          /\ Cardinality(({"call"} \cup {"abandon"}) \cup {"retry"}) = 3
      BY <3>2, FS_AddElement
    <3>4. three = ({"call"} \cup {"abandon"}) \cup {"retry"}
      OBVIOUS
    <3> QED BY <3>3, <3>4
  <2>8. Cardinality(pairs) = Cardinality(uncollected) * 3
    <3> HIDE DEF uncollected, three
    <3> QED BY <2>6, <2>7, FS_Product
  <2>9. Cardinality(uncollected) \in Nat
    BY <2>6, FS_CardinalityType
  <2> HIDE DEF uncollected, pairs
  <2> QED BY <1>5, <2>5, <2>8, <2>9 DEF LossInv
<1>8. AnomaliesCostFaults
  <2> DEFINE failed == {c \in Commands : reply[c].kind = "bridgeFailure"}
             receipt == [c \in failed |-> <<c, "call">>]
  <2>1. receipt \in [failed -> Receipts]
    BY DEF Receipts, Charged
  <2>2. \A c, d \in failed : receipt[c] = receipt[d] => c = d
    OBVIOUS
  <2>3. receipt \in Injection(failed, Receipts)
    <3> HIDE DEF receipt, failed
    <3> QED BY <2>1, <2>2 DEF Injection, IsInjective
  <2>4. IsFiniteSet(failed) /\ Cardinality(failed) <= Cardinality(Receipts)
    <3> HIDE DEF receipt, failed
    <3> QED BY <1>5, <2>3, FS_Injection
  <2>5. Cardinality(failed) \in Nat
    BY <2>4, FS_CardinalityType
  <2>6. Cardinality(failed) <= faults
    <3> HIDE DEF failed
    <3> QED BY <1>5, <2>4, <2>5 DEF LossInv
  <2> QED BY <2>6 DEF AnomaliesCostFaults
<1> QED BY <1>6, <1>7, <1>8 DEF LossesBounded, CapacityLossBounded

\* Slots and answers are lost to failing synchronizer calls only: at most one slot
\* and one answer for each failure, and for a caller that retries its clean-up an
\* uncollected result only after three.
THEOREM LossesAlwaysBounded == Spec => []LossesBounded
BY LossInvAlways, LossIsPaid, PTL

-----------------------------------------------------------------------------
(***************************************************************************)
(* What the configuration storage keeps, for every number of boots, saves  *)
(* and misreads, and every size of the generation.  The generations of the *)
(* two slots are neighbours (Chained), and the base in RAM is the newest   *)
(* record of the flash (InStep) or older than one that a save wrote        *)
(* without being told (Ahead): so a save never overwrites the newest.      *)
(***************************************************************************)

\* Boots read what is there: AcknowledgedSurvives is about no others.
BootsRead == LoadFaults = {}

\* Each write that lands unreported moves the newest record one generation away
\* from the base in RAM, which must stay comparable with it.
FewWriteFaults == MaxWriteFaults \in Nat /\ MaxWriteFaults + MaxWriteFaults < GenMod

Blobs == [Slot -> Blob]
Distance(c, r) == (c - r) % GenMod
Follows(g) == (g + 1) % GenMod
IsIntact(blob) == blob.kind = "intact"
NewestIn(blobs) == IF RawLatest(blobs) = NoSlot THEN EmptyBlob ELSE blobs[RawLatest(blobs)]

Chained(blobs) ==
  IsIntact(blobs["A"]) /\ IsIntact(blobs["B"])
    => \/ blobs["A"].gen = Follows(blobs["B"].gen)
       \/ blobs["B"].gen = Follows(blobs["A"].gen)

InStep(st, blobs) ==
  /\ st.base = RawLatest(blobs)
  /\ st.base # NoSlot => st.baseGen = NewestIn(blobs).gen

\* The newest record is the running firmware's own, n generations after the base.
Ahead(st, blobs, v, n) ==
  /\ RawLatest(blobs) # NoSlot
  /\ NewestIn(blobs).schema = v
  /\ st.base # NoSlot => Distance(NewestIn(blobs).gen, st.baseGen) \in 1..n

\* The base never runs ahead of the flash, nor behind it without a failed write.
Based(st, blobs, v, n) == InStep(st, blobs) \/ (n > 0 /\ Ahead(st, blobs, v, n))

StoreType == [open : BOOLEAN, active : Slot \cup {NoSlot}, activeGen : Gens,
              base : Slot \cup {NoSlot}, baseGen : Gens]

\* What a view of the flash may differ in, and one that misreads nothing.
Shows(seen, blobs) ==
  \A s \in Slot : seen[s] \in Blob /\ (seen[s] = blobs[s] \/ ~IsIntact(seen[s]))
Faithful(seen, blobs) ==
  \A s \in Slot : /\ IsIntact(blobs[s]) => seen[s] = blobs[s]
                  /\ seen[s].kind = "empty" <=> blobs[s].kind = "empty"

(***************************************************************************)
(* Generations.                                                            *)
(***************************************************************************)
\* The remainders the module needs.
LEMMA Modulo ==
  ASSUME NEW n \in Nat, n > 0, NEW x \in Int
  PROVE  /\ 0 =< x /\ x < n => x % n = x
         /\ n =< x /\ x < n + n => x % n = x - n
         /\ -n =< x /\ x < 0 => x % n = x + n
  OBVIOUS

\* Half of the range, as isGenerationNewer takes it.
LEMMA Half ==
  /\ GenMod \in Nat /\ GenMod > 3
  /\ GenMod \div 2 \in Nat
  /\ (GenMod \div 2) + (GenMod \div 2) = GenMod
  BY GenModAssumption DEF GenModAssumption

\* The distance of two generations.
LEMMA DistanceIs ==
  ASSUME NEW c \in Gens, NEW r \in Gens
  PROVE  Distance(c, r) = IF c >= r THEN c - r ELSE c - r + GenMod
<1>1. GenMod \in Nat /\ GenMod > 3
  BY Half
<1>2. /\ c \in Int /\ r \in Int
      /\ 0 =< c /\ c < GenMod /\ 0 =< r /\ r < GenMod
  BY <1>1 DEF Gens
<1>3. CASE c >= r
  <2>1. c - r \in Int /\ 0 =< c - r /\ c - r < GenMod
    BY <1>1, <1>2, <1>3
  <2>2. (c - r) % GenMod = c - r
    BY <1>1, <2>1, Modulo
  <2> QED BY <1>3, <2>2 DEF Distance
<1>4. CASE ~(c >= r)
  <2>1. c - r \in Int /\ -GenMod =< c - r /\ c - r < 0
    BY <1>1, <1>2, <1>4
  <2>2. (c - r) % GenMod = c - r + GenMod
    BY <1>1, <2>1, Modulo
  <2> QED BY <1>4, <2>2 DEF Distance
<1> QED BY <1>3, <1>4

\* The next generation.
LEMMA FollowsIs ==
  ASSUME NEW g \in Gens
  PROVE  /\ Follows(g) = IF g = GenMod - 1 THEN 0 ELSE g + 1
         /\ Follows(g) \in Gens
<1>1. GenMod \in Nat /\ GenMod > 3
  BY Half
<1>2. g \in Int /\ 0 =< g /\ g < GenMod
  BY <1>1 DEF Gens
<1>3. g + 1 \in Int /\ 0 =< g + 1 /\ g + 1 < GenMod + GenMod
  BY <1>1, <1>2
<1>4. g + 1 < GenMod => (g + 1) % GenMod = g + 1
  BY <1>1, <1>3, Modulo
<1>5. g = GenMod - 1 => (g + 1) % GenMod = 0
  <2> SUFFICES ASSUME g = GenMod - 1
               PROVE  (g + 1) % GenMod = 0
    OBVIOUS
  <2>1. g + 1 = GenMod
    BY <1>1
  <2>2. GenMod % GenMod = GenMod - GenMod
    BY <1>1, Modulo
  <2> QED BY <1>1, <2>1, <2>2
<1> QED BY <1>1, <1>2, <1>4, <1>5 DEF Follows, Gens

\* Of two neighbours only the following one is newer.
LEMMA NeighboursCompare ==
  ASSUME NEW g \in Gens
  PROVE  Newer(Follows(g), g) /\ ~Newer(g, Follows(g))
<1>1. /\ Follows(g) = IF g = GenMod - 1 THEN 0 ELSE g + 1
      /\ Follows(g) \in Gens
  BY FollowsIs
<1>2. /\ Distance(Follows(g), g) =
           IF Follows(g) >= g THEN Follows(g) - g ELSE Follows(g) - g + GenMod
      /\ Distance(g, Follows(g)) =
           IF g >= Follows(g) THEN g - Follows(g) ELSE g - Follows(g) + GenMod
  BY <1>1, DistanceIs
<1>3. Distance(Follows(g), g) = 1 /\ Distance(g, Follows(g)) = GenMod - 1
  BY <1>1, <1>2, Half DEF Gens
<1> QED BY <1>3, Half DEF Newer, Distance

\* A base that the newest record is some failed writes ahead of is older than it.
LEMMA AheadIsNewer ==
  ASSUME NEW c \in Gens, NEW r \in Gens, NEW n \in Nat, n + n < GenMod,
         Distance(c, r) \in 1..n
  PROVE  Newer(c, r)
BY Half DEF Newer, Distance

\* One more write takes the newest record one generation further.
LEMMA OneFurther ==
  ASSUME NEW c \in Gens, NEW r \in Gens, NEW n \in Nat, n + n < GenMod
  PROVE  /\ Distance(Follows(c), c) = 1
         /\ Distance(c, r) \in 1..n => Distance(Follows(c), r) \in 1..(n + 1)
<1>1. /\ Follows(c) = IF c = GenMod - 1 THEN 0 ELSE c + 1
      /\ Follows(c) \in Gens
  BY FollowsIs
<1>2. /\ Distance(Follows(c), c) =
           IF Follows(c) >= c THEN Follows(c) - c ELSE Follows(c) - c + GenMod
      /\ Distance(Follows(c), r) =
           IF Follows(c) >= r THEN Follows(c) - r ELSE Follows(c) - r + GenMod
      /\ Distance(c, r) = IF c >= r THEN c - r ELSE c - r + GenMod
  BY <1>1, DistanceIs
<1> QED BY <1>1, <1>2, Half DEF Gens

(***************************************************************************)
(* The newest record.                                                      *)
(***************************************************************************)
\* RawLatest finds an intact record if there is one, and the following of two.
LEMMA LatestIs ==
  ASSUME NEW blobs \in Blobs, Chained(blobs)
  PROVE  /\ RawLatest(blobs) \in Slot \cup {NoSlot}
         /\ RawLatest(blobs) = NoSlot <=> \A s \in Slot : ~IsIntact(blobs[s])
         /\ RawLatest(blobs) # NoSlot => IsIntact(blobs[RawLatest(blobs)])
         /\ \A s \in Slot : IsIntact(blobs[s]) /\ IsIntact(blobs[Other(s)]) =>
              (RawLatest(blobs) = s <=> blobs[s].gen = Follows(blobs[Other(s)].gen))
<1>1. blobs["A"].gen \in Gens /\ blobs["B"].gen \in Gens
  BY DEF Blobs, Blob, Slot
<1>2. CASE IsIntact(blobs["A"]) /\ IsIntact(blobs["B"])
  <2>1. /\ Newer(Follows(blobs["A"].gen), blobs["A"].gen)
        /\ ~Newer(blobs["A"].gen, Follows(blobs["A"].gen))
        /\ Newer(Follows(blobs["B"].gen), blobs["B"].gen)
        /\ ~Newer(blobs["B"].gen, Follows(blobs["B"].gen))
    BY <1>1, NeighboursCompare
  <2>2. RawLatest(blobs) = IF Newer(blobs["B"].gen, blobs["A"].gen) THEN "B" ELSE "A"
    BY <1>2 DEF RawLatest, NewestOf, IsIntact, Slot
  <2>3. CASE blobs["A"].gen = Follows(blobs["B"].gen)
    <3>1. blobs["B"].gen # Follows(blobs["A"].gen)
      BY <2>1, <2>3
    <3> QED BY <1>2, <2>1, <2>2, <2>3, <3>1 DEF Slot, Other, NoSlot
  <2>4. CASE blobs["B"].gen = Follows(blobs["A"].gen)
    <3>1. blobs["A"].gen # Follows(blobs["B"].gen)
      BY <2>1, <2>4
    <3> QED BY <1>2, <2>1, <2>2, <2>4, <3>1 DEF Slot, Other, NoSlot
  <2> QED BY <1>2, <2>3, <2>4 DEF Chained
<1>3. CASE ~(IsIntact(blobs["A"]) /\ IsIntact(blobs["B"]))
  BY <1>3 DEF RawLatest, NewestOf, IsIntact, Slot, Other, NoSlot
<1> QED BY <1>2, <1>3

\* A view that misreads nothing shows the same newest record.
LEMMA FaithfulLatest ==
  ASSUME NEW blobs, NEW seen, Faithful(seen, blobs), Shows(seen, blobs)
  PROVE  /\ RawLatest(seen) = RawLatest(blobs)
         /\ LoadResult(seen) = LoadResult(blobs)
<1>1. {s \in Slot : seen[s].kind = "intact"} = {s \in Slot : blobs[s].kind = "intact"}
  BY DEF Faithful, Shows, IsIntact
<1>2. \A s \in Slot : blobs[s].kind = "intact" => seen[s] = blobs[s]
  BY DEF Faithful, IsIntact
<1>3. RawLatest(seen) = RawLatest(blobs)
  BY <1>1, <1>2 DEF RawLatest, NewestOf, Slot
<1> QED BY <1>3 DEF LoadResult, Faithful

(***************************************************************************)
(* A save.                                                                 *)
(***************************************************************************)
\* It builds on the newest record, whatever it misreads: what it sees of the
\* flash, or the raw base it remembers, is that record.
LEMMA SaveBaseIs ==
  ASSUME NEW blobs \in Blobs, NEW seen, NEW st \in StoreType, NEW v, NEW n \in Nat,
         n + n < GenMod, Chained(blobs), Shows(seen, blobs), Based(st, blobs, v, n),
         n > 0 => Faithful(seen, blobs)
  PROVE  LET base == SaveBase(st, seen, v)
         IN  /\ base.slot = RawLatest(blobs)
             /\ base.slot # NoSlot => base.gen = NewestIn(blobs).gen
             /\ base.own => /\ base.slot # NoSlot
                            /\ seen[base.slot] = NewestIn(blobs)
                            /\ NewestIn(blobs).schema = v
<1> DEFINE latest == RawLatest(blobs)
           current == SelectLatest(seen, v)
           base == SaveBase(st, seen, v)
<1>1. /\ latest \in Slot \cup {NoSlot}
      /\ latest = NoSlot <=> \A s \in Slot : ~IsIntact(blobs[s])
      /\ latest # NoSlot => IsIntact(blobs[latest])
      /\ \A s \in Slot : IsIntact(blobs[s]) /\ IsIntact(blobs[Other(s)]) =>
           (latest = s <=> blobs[s].gen = Follows(blobs[Other(s)].gen))
  BY LatestIs
<1>2. latest # NoSlot => NewestIn(blobs) = blobs[latest]
  BY DEF NewestIn
<1>3. \A s \in Slot : blobs[s].gen \in Gens /\ Other(s) \in Slot /\ Other(s) # s
                      /\ s # NoSlot /\ Slot = {s, Other(s)}
  BY DEF Blobs, Blob, Slot, Other, NoSlot
\* What the firmware can select.
<1>4. /\ current \in Slot \cup {NoSlot}
      /\ current # NoSlot => /\ IsIntact(seen[current]) /\ seen[current] = blobs[current]
                             /\ seen[current].schema = v /\ IsIntact(blobs[current])
                             /\ latest # NoSlot
  <2>1. current \in {s \in Slot : seen[s].kind = "intact" /\ seen[s].schema = v} \cup {NoSlot}
    BY DEF SelectLatest, NewestOf, Slot, NoSlot
  <2> QED BY <2>1, <1>1 DEF IsIntact, Shows
\* An older selection is not newer than the newest record.
<1>5. current # NoSlot /\ current # latest => ~Newer(blobs[current].gen, blobs[latest].gen)
  <2> SUFFICES ASSUME current # NoSlot, current # latest
               PROVE  ~Newer(blobs[current].gen, blobs[latest].gen)
    OBVIOUS
  <2>1. current \in Slot /\ latest \in Slot /\ current = Other(latest)
    BY <1>1, <1>3, <1>4
  <2>2. blobs[latest].gen = Follows(blobs[current].gen)
    BY <1>1, <1>3, <1>4, <2>1
  <2> QED BY <1>3, <2>1, <2>2, NeighboursCompare
<1>6. ~Newer(blobs[latest].gen, blobs[latest].gen) \/ latest = NoSlot
  <2> SUFFICES ASSUME latest # NoSlot
               PROVE  ~Newer(blobs[latest].gen, blobs[latest].gen)
    OBVIOUS
  <2>1. Distance(blobs[latest].gen, blobs[latest].gen) = 0
    BY <1>1, <1>3, DistanceIs DEF Gens
  <2> QED BY <2>1 DEF Newer, Distance
<1>7. CASE InStep(st, blobs)
  <2>1. st.base = latest /\ (latest # NoSlot => st.baseGen = blobs[latest].gen)
    BY <1>2, <1>7 DEF InStep
  <2>2. CASE latest = NoSlot
    <3>1. current = NoSlot
      BY <1>4, <2>2
    <3> QED BY <2>1, <2>2, <3>1 DEF SaveBase
  <2>3. CASE latest # NoSlot
    <3>1. CoversRawBase(st, seen, current) /\ current # NoSlot => current = latest
      BY <1>4, <1>5, <2>1, <2>3 DEF CoversRawBase
    <3>2. CASE current # NoSlot /\ CoversRawBase(st, seen, current)
      <4>1. base = [slot |-> current, gen |-> seen[current].gen, own |-> TRUE]
        BY <3>2 DEF SaveBase
      <4> QED BY <1>2, <1>4, <2>3, <3>1, <3>2, <4>1
    <3>3. CASE ~(current # NoSlot /\ CoversRawBase(st, seen, current))
      <4>1. base = [slot |-> st.base, gen |-> st.baseGen, own |-> FALSE]
        BY <3>3 DEF SaveBase
      <4> QED BY <1>2, <2>1, <2>3, <4>1
    <3> QED BY <3>2, <3>3
  <2> QED BY <2>2, <2>3
<1>8. CASE n > 0 /\ Ahead(st, blobs, v, n)
  <2>1. latest # NoSlot /\ blobs[latest].schema = v /\ latest \in Slot
    BY <1>1, <1>2, <1>8 DEF Ahead
  <2>2. \A s \in Slot : IsIntact(blobs[s]) => seen[s] = blobs[s]
    BY <1>8 DEF Faithful
  <2>3. current = latest
    <3>1. seen[latest] = blobs[latest] /\ seen[latest].kind = "intact"
      BY <1>1, <2>1, <2>2 DEF IsIntact
    <3>2. CASE current = NoSlot
      BY <2>1, <3>1, <3>2 DEF SelectLatest, NewestOf, Slot, NoSlot
    <3>3. CASE current # NoSlot /\ current # latest
      <4>1. /\ current \in Slot /\ latest \in Slot
            /\ blobs[latest].gen = Follows(blobs[current].gen)
        BY <1>1, <1>3, <1>4, <2>1, <3>3
      <4>2. /\ Newer(blobs[latest].gen, blobs[current].gen)
            /\ ~Newer(blobs[current].gen, blobs[latest].gen)
        BY <1>3, <4>1, NeighboursCompare
      <4>3. /\ seen[current].kind = "intact" /\ seen[current].schema = v
            /\ seen[latest].schema = v
            /\ seen[current] = blobs[current]
        BY <1>4, <2>1, <3>1, <3>3 DEF IsIntact
      <4>4. {s \in Slot : seen[s].kind = "intact" /\ seen[s].schema = v} = {"A", "B"}
        BY <1>3, <3>1, <3>3, <4>1, <4>3 DEF Slot
      <4>5. current = IF Newer(seen["B"].gen, seen["A"].gen) THEN "B" ELSE "A"
        BY <4>4 DEF SelectLatest, NewestOf
      <4> QED BY <3>1, <3>3, <4>1, <4>2, <4>3, <4>5 DEF Slot
    <3> QED BY <3>2, <3>3
  <2>4. CoversRawBase(st, seen, current)
    <3>1. CASE st.base = NoSlot
      BY <3>1 DEF CoversRawBase
    <3>2. CASE st.base # NoSlot
      <4>1. Distance(blobs[latest].gen, st.baseGen) \in 1..n
        BY <1>2, <1>8, <2>1, <3>2 DEF Ahead
      <4>2. Newer(blobs[latest].gen, st.baseGen)
        BY <1>3, <2>1, <4>1, AheadIsNewer DEF StoreType
      <4> QED BY <1>4, <2>1, <2>3, <4>2 DEF CoversRawBase
    <3> QED BY <3>1, <3>2
  <2>5. base = [slot |-> current, gen |-> seen[current].gen, own |-> TRUE]
    BY <2>1, <2>3, <2>4 DEF SaveBase
  <2> QED BY <1>2, <1>4, <2>1, <2>3, <2>5
<1> QED BY <1>7, <1>8 DEF Based

\* What a write may leave in the slot it goes to.
LEMMA WriteIs ==
  ASSUME NEW blobs \in Blobs, Chained(blobs), NEW g \in Gens, NEW v \in Schemas,
         NEW p \in Payloads,
         NEW slot \in Slot, RawLatest(blobs) = NoSlot => slot = "A",
         RawLatest(blobs) # NoSlot =>
           slot = Other(RawLatest(blobs)) /\ g = Follows(NewestIn(blobs).gen)
  PROVE  LET landed == [blobs EXCEPT ![slot] = Intact(v, g, p)]
             torn == [blobs EXCEPT ![slot] = DamagedBlob]
         IN  /\ landed \in Blobs /\ Chained(landed)
             /\ RawLatest(landed) = slot /\ NewestIn(landed) = Intact(v, g, p)
             /\ torn \in Blobs /\ Chained(torn)
             /\ RawLatest(torn) = RawLatest(blobs) /\ NewestIn(torn) = NewestIn(blobs)
<1> DEFINE latest == RawLatest(blobs)
           landed == [blobs EXCEPT ![slot] = Intact(v, g, p)]
           torn == [blobs EXCEPT ![slot] = DamagedBlob]
<1>1. /\ latest \in Slot \cup {NoSlot}
      /\ latest = NoSlot <=> \A s \in Slot : ~IsIntact(blobs[s])
      /\ latest # NoSlot => IsIntact(blobs[latest])
  BY LatestIs
<1>2. \A s \in Slot : Other(s) \in Slot /\ Other(s) # s /\ Other(Other(s)) = s
                      /\ s # NoSlot /\ Slot = {s, Other(s)}
  BY DEF Slot, Other, NoSlot
<1>3. /\ Intact(v, g, p) \in Blob /\ IsIntact(Intact(v, g, p))
      /\ Intact(v, g, p).gen = g
  BY DEF Blob, Intact, IsIntact
<1>4. 0 \in Gens
  BY Half DEF Gens
<1>5. DamagedBlob \in Blob /\ ~IsIntact(DamagedBlob)
  BY <1>4 DEF Blob, DamagedBlob, EmptyBlob, IsIntact
<1>6. /\ landed \in Blobs /\ landed[slot] = Intact(v, g, p)
      /\ landed[Other(slot)] = blobs[Other(slot)]
  BY <1>2, <1>3 DEF Blobs
<1>7. /\ torn \in Blobs /\ torn[slot] = DamagedBlob
      /\ torn[Other(slot)] = blobs[Other(slot)]
  BY <1>2, <1>5 DEF Blobs
<1> HIDE DEF landed, torn
<1>8. IsIntact(landed[Other(slot)]) =>
        /\ latest = Other(slot)
        /\ landed[slot].gen = Follows(landed[Other(slot)].gen)
  <2> SUFFICES ASSUME IsIntact(landed[Other(slot)])
               PROVE  /\ latest = Other(slot)
                      /\ landed[slot].gen = Follows(landed[Other(slot)].gen)
    OBVIOUS
  <2>1. IsIntact(blobs[Other(slot)]) /\ latest # NoSlot
    BY <1>1, <1>2, <1>6
  <2>2. latest = Other(slot)
    BY <1>1, <1>2, <2>1
  <2>3. NewestIn(blobs) = blobs[Other(slot)]
    BY <2>1, <2>2 DEF NewestIn
  <2> QED BY <1>3, <1>6, <2>1, <2>2, <2>3
<1>9. Chained(landed)
  BY <1>8 DEF Chained, Slot, Other
<1>10. RawLatest(landed) = slot
  <2>1. /\ RawLatest(landed) \in Slot \cup {NoSlot}
        /\ RawLatest(landed) = NoSlot <=> \A s \in Slot : ~IsIntact(landed[s])
        /\ RawLatest(landed) # NoSlot => IsIntact(landed[RawLatest(landed)])
        /\ \A s \in Slot : IsIntact(landed[s]) /\ IsIntact(landed[Other(s)]) =>
             (RawLatest(landed) = s <=> landed[s].gen = Follows(landed[Other(s)].gen))
    BY <1>6, <1>9, LatestIs
  <2>2. IsIntact(landed[slot])
    BY <1>3, <1>6
  <2>3. RawLatest(landed) # NoSlot
    BY <2>1, <2>2
  <2>4. CASE IsIntact(landed[Other(slot)])
    BY <1>8, <2>1, <2>2, <2>4
  <2>5. CASE ~IsIntact(landed[Other(slot)])
    BY <1>2, <2>1, <2>3, <2>5
  <2> QED BY <2>4, <2>5
<1>11. NewestIn(landed) = Intact(v, g, p)
  BY <1>2, <1>6, <1>10 DEF NewestIn
<1>12. Chained(torn)
  BY <1>5, <1>7 DEF Chained, Slot
<1>13. RawLatest(torn) = latest
  <2>1. /\ RawLatest(torn) \in Slot \cup {NoSlot}
        /\ RawLatest(torn) = NoSlot <=> \A s \in Slot : ~IsIntact(torn[s])
        /\ RawLatest(torn) # NoSlot => IsIntact(torn[RawLatest(torn)])
    BY <1>7, <1>12, LatestIs
  <2>2. ~IsIntact(torn[slot])
    BY <1>5, <1>7
  <2>3. CASE latest = NoSlot
    BY <1>1, <1>2, <1>7, <2>1, <2>2, <2>3
  <2>4. CASE latest # NoSlot
    <3>1. latest = Other(slot)
      BY <1>1, <1>2, <2>4
    <3>2. IsIntact(torn[Other(slot)])
      BY <1>1, <1>7, <2>4, <3>1
    <3> QED BY <1>2, <2>1, <2>2, <3>1, <3>2
  <2> QED BY <2>3, <2>4
<1>14. NewestIn(torn) = NewestIn(blobs)
  <2>1. latest # NoSlot => latest = Other(slot)
    BY <1>1, <1>2
  <2> QED BY <1>7, <1>13, <2>1 DEF NewestIn
<1> QED BY <1>6, <1>7, <1>9, <1>10, <1>11, <1>12, <1>13, <1>14 DEF landed, torn

\* A blob that holds nothing is a blob.
LEMMA NoRecord ==
  /\ 0 \in Gens /\ 1 \in Gens
  /\ EmptyBlob \in Blob /\ ~IsIntact(EmptyBlob)
  /\ DamagedBlob \in Blob /\ ~IsIntact(DamagedBlob)
<1>1. 0 \in Gens /\ 1 \in Gens
  BY Half DEF Gens
<1> QED BY <1>1 DEF Blob, DamagedBlob, EmptyBlob, IsIntact

\* A misread slot looks like no record; a call that misreads none sees the flash.
LEMMA ViewIs ==
  ASSUME flash \in Blobs, NEW misses \in SUBSET {"unreadable", "absent"},
         NEW glance \in Glances(misses)
  PROVE  /\ Shows(Sees(glance), flash)
         /\ Misread(glance) = {} => Faithful(Sees(glance), flash)
         /\ Cardinality(Misread(glance)) \in Nat
         /\ Cardinality(Misread(glance)) = 0 => Misread(glance) = {}
<1>1. IsFiniteSet(Misread(glance))
  <2>1. IsFiniteSet({"A", "B"})
    <3>1. IsFiniteSet({}) /\ IsFiniteSet({} \cup {"A"})
      BY FS_EmptySet, FS_AddElement
    <3>2. IsFiniteSet(({} \cup {"A"}) \cup {"B"})
      BY <3>1, FS_AddElement
    <3>3. ({} \cup {"A"}) \cup {"B"} = {"A", "B"}
      OBVIOUS
    <3> QED BY <3>2, <3>3
  <2>2. Misread(glance) \subseteq {"A", "B"}
    BY DEF Misread, Slot
  <2> QED BY <2>1, <2>2, FS_Subset
<1>2. Cardinality(Misread(glance)) \in Nat
  BY <1>1, FS_CardinalityType
<1>3. Cardinality(Misread(glance)) = 0 => Misread(glance) = {}
  BY <1>1, FS_EmptySet
<1>4. \A s \in Slot : flash[s] \in Blob /\ glance[s] \in {"fine", "unreadable", "absent"}
  BY DEF Blobs, Glances
<1>5. \A s \in Slot :
        Sees(glance)[s] = IF glance[s] = "unreadable" /\ flash[s].kind # "empty"
                            THEN DamagedBlob
                            ELSE IF glance[s] = "absent" THEN EmptyBlob ELSE flash[s]
  BY DEF Sees
<1>6. Shows(Sees(glance), flash)
  BY <1>4, <1>5, NoRecord DEF Shows
<1>7. ASSUME Misread(glance) = {}
      PROVE  Faithful(Sees(glance), flash)
  <2>1. \A s \in Slot : glance[s] = "fine" \/ flash[s].kind = "empty"
    BY <1>7 DEF Misread
  <2>2. EmptyBlob.kind = "empty"
    BY DEF EmptyBlob
  <2> QED BY <1>5, <2>1, <2>2 DEF Faithful, IsIntact
<1> QED BY <1>2, <1>3, <1>6, <1>7

\* The record a save was asked for is the newest one.
Stored(blobs, v, p) ==
  IsIntact(NewestIn(blobs)) /\ NewestIn(blobs).schema = v /\ NewestIn(blobs).payload = p

\* How a save of p under v may end: the newest record is the former one or p,
\* it is p when that is acknowledged, and the base follows as BaseInv asks.
SaveEffect(o, p, v) ==
  /\ o.flash \in Blobs /\ Chained(o.flash)
  /\ o.result \in {"Success", "NoChange", "Failed", "Crash"}
  /\ o.result # "Crash" => o.store \in StoreType
  /\ o.result = "Crash" => o.store = Closed
  /\ NewestIn(o.flash) = NewestIn(flash) \/ Stored(o.flash, v, p)
  /\ Acknowledged(o.result) => Stored(o.flash, v, p) /\ InStep(o.store, o.flash)
  /\ o.result = "Failed" => Based(o.store, o.flash, v, writeFaults + 1)

\* A failed write leaves the base as it was, at most one generation further behind.
LEMMA FailedBase ==
  ASSUME NEW blobs \in Blobs, NEW st \in StoreType, NEW v \in Schemas, NEW n \in Nat,
         n + n < GenMod, Based(st, blobs, v, n), Chained(blobs),
         NEW after \in Blobs,
         \/ NewestIn(after) = NewestIn(blobs) /\ RawLatest(after) = RawLatest(blobs)
         \/ /\ RawLatest(after) # NoSlot /\ NewestIn(after).schema = v
            /\ RawLatest(blobs) # NoSlot =>
                 NewestIn(after).gen = Follows(NewestIn(blobs).gen)
  PROVE  /\ Refresh(st, after, v) \in StoreType
         /\ Based(Refresh(st, after, v), after, v, n + 1)
<1> DEFINE new == Refresh(st, after, v)
<1>1. SelectLatest(after, v) \in Slot \cup {NoSlot}
  BY DEF SelectLatest, NewestOf, Slot, NoSlot
<1>2. new = [st EXCEPT !.active = SelectLatest(after, v),
                       !.activeGen = IF SelectLatest(after, v) = NoSlot THEN 0
                                     ELSE after[SelectLatest(after, v)].gen]
  BY DEF Refresh
<1>3. \A s \in Slot : after[s].gen \in Gens
  BY DEF Blobs, Blob
<1>4. new \in StoreType /\ new.base = st.base /\ new.baseGen = st.baseGen
  BY <1>1, <1>2, <1>3, NoRecord DEF StoreType
<1> HIDE DEF new
<1>5. ASSUME NewestIn(after) = NewestIn(blobs), RawLatest(after) = RawLatest(blobs)
      PROVE  Based(new, after, v, n + 1)
  <2>1. CASE InStep(st, blobs)
    BY <1>4, <1>5, <2>1 DEF InStep, Based
  <2>2. CASE n > 0 /\ Ahead(st, blobs, v, n)
    <3>1. 1..n \subseteq 1..(n + 1)
      OBVIOUS
    <3> QED BY <1>4, <1>5, <2>2, <3>1 DEF Ahead, Based
  <2> QED BY <2>1, <2>2 DEF Based
<1>6. ASSUME RawLatest(after) # NoSlot, NewestIn(after).schema = v,
             RawLatest(blobs) # NoSlot =>
               NewestIn(after).gen = Follows(NewestIn(blobs).gen)
      PROVE  Based(new, after, v, n + 1)
  <2>1. ASSUME new.base # NoSlot
        PROVE  Distance(NewestIn(after).gen, new.baseGen) \in 1..(n + 1)
    <3>1. RawLatest(blobs) # NoSlot
      BY <1>4, <2>1 DEF Based, InStep, Ahead
    <3>2. NewestIn(blobs).gen \in Gens /\ st.baseGen \in Gens
      BY <3>1, LatestIs DEF NewestIn, Blobs, Blob, StoreType
    <3>3. CASE InStep(st, blobs)
      <4>1. st.baseGen = NewestIn(blobs).gen
        BY <1>4, <2>1, <3>3 DEF InStep
      <4>2. Distance(Follows(NewestIn(blobs).gen), NewestIn(blobs).gen) = 1
        BY <3>2, OneFurther
      <4> QED BY <1>4, <1>6, <3>1, <4>1, <4>2
    <3>4. CASE n > 0 /\ Ahead(st, blobs, v, n)
      <4>1. Distance(NewestIn(blobs).gen, st.baseGen) \in 1..n
        BY <1>4, <2>1, <3>4 DEF Ahead
      <4>2. Distance(Follows(NewestIn(blobs).gen), st.baseGen) \in 1..(n + 1)
        BY <3>2, <4>1, OneFurther
      <4> QED BY <1>4, <1>6, <3>1, <4>2
    <3> QED BY <3>3, <3>4 DEF Based
  <2> QED BY <1>6, <2>1 DEF Based, Ahead
<1> QED BY <1>4, <1>5, <1>6 DEF new

\* The members of an outcome, read off the ways a save can end.
LEMMA OutcomeIs ==
  ASSUME NEW p, NEW v, NEW o \in SaveOutcomes(p, v)
  PROVE  \E g \in Glances(SaveFaults) :
           LET base == SaveBase(store, Sees(g), v)
               slot == SaveTarget(base)
               blob == Intact(v, SaveGen(base), p)
           IN  /\ o.misreads = Cardinality(Misread(g))
               /\ \/ /\ base.own /\ Sees(g)[base.slot].payload = p
                     /\ o.flash = flash /\ o.result = "NoChange"
                     /\ o.store = Rebased(store, base.slot, base.gen)
                  \/ /\ o.flash = [flash EXCEPT ![slot] = blob] /\ o.result = "Success"
                     /\ o.store = Rebased(store, slot, blob.gen)
                  \/ \E written \in {flash[slot], DamagedBlob, blob} :
                       /\ o.flash = [flash EXCEPT ![slot] = written]
                       /\ \/ o.result = "Failed" /\ o.store = Refresh(store, o.flash, v)
                          \/ o.result = "Crash" /\ o.store = Closed
<1> DEFINE Base(g) == SaveBase(store, Sees(g), v)
           Same(g) == Base(g).own /\ Sees(g)[Base(g).slot].payload = p
           Target(g) == SaveTarget(Base(g))
           New(g) == Intact(v, SaveGen(Base(g)), p)
           Reads(g) == Cardinality(Misread(g))
           After(g, written) == [flash EXCEPT ![Target(g)] = written]
           Kept == {[flash |-> flash, store |-> Rebased(store, Base(g).slot, Base(g).gen),
                     result |-> "NoChange", misreads |-> Reads(g)] :
                      g \in {h \in Glances(SaveFaults) : Same(h)}}
           Done(g) == {[flash |-> After(g, New(g)), store |-> Rebased(store, Target(g), New(g).gen),
                        result |-> "Success", misreads |-> Reads(g)]}
           Lost(g) == {[flash |-> After(g, written),
                        store |-> Refresh(store, After(g, written), v),
                        result |-> "Failed", misreads |-> Reads(g)] :
                          written \in {flash[Target(g)], DamagedBlob, New(g)}}
           Cut(g) == {[flash |-> After(g, written), store |-> Closed,
                       result |-> "Crash", misreads |-> Reads(g)] :
                          written \in {flash[Target(g)], DamagedBlob, New(g)}}
           Ended == UNION {Done(g) \cup Lost(g) \cup Cut(g) :
                             g \in {h \in Glances(SaveFaults) : ~Same(h)}}
<1>1. o \in Kept \/ o \in Ended
  BY DEF SaveOutcomes
<1>2. CASE o \in Kept
  <2>1. PICK g \in Glances(SaveFaults) :
          /\ Same(g)
          /\ o = [flash |-> flash, store |-> Rebased(store, Base(g).slot, Base(g).gen),
                  result |-> "NoChange", misreads |-> Reads(g)]
    BY <1>2
  <2> QED BY <2>1
<1>3. CASE o \in Ended
  <2>1. PICK g \in Glances(SaveFaults) : o \in Done(g) \cup Lost(g) \cup Cut(g)
    BY <1>3
  <2>2. CASE o \in Done(g)
    BY <2>2
  <2>3. CASE o \in Lost(g)
    <3>1. PICK written \in {flash[Target(g)], DamagedBlob, New(g)} :
            o = [flash |-> After(g, written), store |-> Refresh(store, After(g, written), v),
                 result |-> "Failed", misreads |-> Reads(g)]
      BY <2>3
    <3> QED BY <3>1
  <2>4. CASE o \in Cut(g)
    <3>1. PICK written \in {flash[Target(g)], DamagedBlob, New(g)} :
            o = [flash |-> After(g, written), store |-> Closed,
                 result |-> "Crash", misreads |-> Reads(g)]
      BY <2>4
    <3> QED BY <3>1
  <2> QED BY <2>1, <2>2, <2>3, <2>4
<1> QED BY <1>1, <1>2, <1>3

\* The record that a save found or wrote becomes the base of the next one.
LEMMA RebasedIs ==
  ASSUME NEW st \in StoreType, NEW s \in Slot, NEW gen \in Gens
  PROVE  /\ Rebased(st, s, gen) \in StoreType
         /\ Rebased(st, s, gen).base = s /\ Rebased(st, s, gen).baseGen = gen
BY DEF Rebased, StoreType

(***************************************************************************)
(* A save keeps what BaseInv says and changes the newest record to its own *)
(* only, however it ends and whatever it misread on the way.               *)
(***************************************************************************)
LEMMA SaveEnds ==
  ASSUME flash \in Blobs, Chained(flash), store \in StoreType,
         writeFaults \in Nat, writeFaults + writeFaults < GenMod,
         NEW v \in Schemas, NEW p \in Payloads, Based(store, flash, v, writeFaults),
         NEW o \in SaveOutcomes(p, v), o.misreads > 0 => writeFaults = 0
  PROVE  SaveEffect(o, p, v)
<1>1. PICK g \in Glances(SaveFaults) :
           LET base == SaveBase(store, Sees(g), v)
               slot == SaveTarget(base)
               blob == Intact(v, SaveGen(base), p)
           IN  /\ o.misreads = Cardinality(Misread(g))
               /\ \/ /\ base.own /\ Sees(g)[base.slot].payload = p
                     /\ o.flash = flash /\ o.result = "NoChange"
                     /\ o.store = Rebased(store, base.slot, base.gen)
                  \/ /\ o.flash = [flash EXCEPT ![slot] = blob] /\ o.result = "Success"
                     /\ o.store = Rebased(store, slot, blob.gen)
                  \/ \E written \in {flash[slot], DamagedBlob, blob} :
                       /\ o.flash = [flash EXCEPT ![slot] = written]
                       /\ \/ o.result = "Failed" /\ o.store = Refresh(store, o.flash, v)
                          \/ o.result = "Crash" /\ o.store = Closed
  BY OutcomeIs
<1> DEFINE seen == Sees(g)
           base == SaveBase(store, seen, v)
           slot == SaveTarget(base)
           gen == SaveGen(base)
           blob == Intact(v, gen, p)
           latest == RawLatest(flash)
           landed == [flash EXCEPT ![slot] = blob]
           torn == [flash EXCEPT ![slot] = DamagedBlob]
<1>2. Shows(seen, flash) /\ (writeFaults > 0 => Faithful(seen, flash))
  <2>1. SaveFaults \in SUBSET {"unreadable", "absent"}
    BY ReadFaultsAssumption DEF ReadFaultsAssumption
  <2>2. /\ Shows(Sees(g), flash)
        /\ Misread(g) = {} => Faithful(Sees(g), flash)
        /\ Cardinality(Misread(g)) \in Nat
        /\ Cardinality(Misread(g)) = 0 => Misread(g) = {}
    BY <2>1, ViewIs
  <2>3. writeFaults > 0 => Cardinality(Misread(g)) = 0
    BY <1>1, <2>2
  <2> QED BY <2>2, <2>3
<1>3. /\ base.slot = latest
      /\ base.slot # NoSlot => base.gen = NewestIn(flash).gen
      /\ base.own => /\ base.slot # NoSlot
                     /\ seen[base.slot] = NewestIn(flash)
                     /\ NewestIn(flash).schema = v
  BY <1>2, SaveBaseIs
<1>4. /\ latest \in Slot \cup {NoSlot}
      /\ latest # NoSlot => /\ IsIntact(flash[latest]) /\ NewestIn(flash) = flash[latest]
                            /\ flash[latest].gen \in Gens
  BY LatestIs DEF NewestIn, Blobs, Blob
<1>5. /\ slot \in Slot /\ gen \in Gens
      /\ latest = NoSlot => slot = "A"
      /\ latest # NoSlot => slot = Other(latest) /\ gen = Follows(NewestIn(flash).gen)
  <2>1. slot \in Slot /\ (latest = NoSlot => slot = "A")
        /\ (latest # NoSlot => slot = Other(latest))
    BY <1>3, <1>4 DEF SaveTarget, Other, Slot, NoSlot
  <2>2. latest # NoSlot => gen = Follows(NewestIn(flash).gen)
    BY <1>3 DEF SaveGen, Follows
  <2>3. latest = NoSlot => gen = 1
    BY <1>3 DEF SaveGen
  <2> QED BY <1>4, <2>1, <2>2, <2>3, FollowsIs, NoRecord
<1> HIDE DEF gen, slot
<1>6. /\ landed \in Blobs /\ Chained(landed)
      /\ RawLatest(landed) = slot /\ NewestIn(landed) = blob
      /\ torn \in Blobs /\ Chained(torn)
      /\ RawLatest(torn) = latest /\ NewestIn(torn) = NewestIn(flash)
  BY <1>5, WriteIs
<1>7. /\ IsIntact(blob) /\ blob.schema = v /\ blob.payload = p /\ blob.gen = gen
      /\ slot # NoSlot
  BY <1>5 DEF Intact, IsIntact, Slot, NoSlot
<1>8. Stored(landed, v, p)
  BY <1>6, <1>7 DEF Stored
<1> HIDE DEF base, seen, blob, landed, torn
\* What an interrupted or failed write may leave.
<1>9. ASSUME NEW written \in {flash[slot], DamagedBlob, blob}
      PROVE  [flash EXCEPT ![slot] = written] \in {flash, torn, landed}
  <2>1. [flash EXCEPT ![slot] = flash[slot]] = flash
    BY DEF Blobs
  <2> QED BY <1>9, <2>1 DEF torn, landed
<1>10. \A after \in {flash, torn, landed} :
         /\ after \in Blobs /\ Chained(after)
         /\ NewestIn(after) = NewestIn(flash) \/ Stored(after, v, p)
         /\ \/ NewestIn(after) = NewestIn(flash) /\ RawLatest(after) = latest
            \/ /\ RawLatest(after) # NoSlot /\ NewestIn(after).schema = v
               /\ latest # NoSlot =>
                    NewestIn(after).gen = Follows(NewestIn(flash).gen)
  BY <1>5, <1>6, <1>7, <1>8
<1>11. \A after \in {flash, torn, landed} :
         /\ Refresh(store, after, v) \in StoreType
         /\ Based(Refresh(store, after, v), after, v, writeFaults + 1)
  BY <1>10, FailedBase
<1>12. CASE /\ base.own /\ seen[base.slot].payload = p
            /\ o.flash = flash /\ o.result = "NoChange"
            /\ o.store = Rebased(store, base.slot, base.gen)
  <2>1. /\ latest # NoSlot /\ base.slot = latest /\ base.gen = NewestIn(flash).gen
        /\ NewestIn(flash).schema = v /\ NewestIn(flash).payload = p
    BY <1>3, <1>12
  <2>2. Stored(flash, v, p)
    BY <1>4, <2>1 DEF Stored
  <2>3. o.store \in StoreType /\ InStep(o.store, flash)
    BY <1>4, <1>12, <2>1, RebasedIs DEF InStep
  <2> QED BY <1>12, <2>2, <2>3 DEF SaveEffect
<1>13. CASE /\ o.flash = landed /\ o.result = "Success"
            /\ o.store = Rebased(store, slot, blob.gen)
  <2>1. o.store \in StoreType /\ InStep(o.store, landed)
    BY <1>5, <1>6, <1>7, <1>13, RebasedIs DEF InStep
  <2> QED BY <1>6, <1>8, <1>13, <2>1 DEF SaveEffect
<1>14. CASE \E written \in {flash[slot], DamagedBlob, blob} :
              /\ o.flash = [flash EXCEPT ![slot] = written]
              /\ \/ o.result = "Failed" /\ o.store = Refresh(store, o.flash, v)
                 \/ o.result = "Crash" /\ o.store = Closed
  <2>1. o.flash \in {flash, torn, landed}
    BY <1>9, <1>14
  <2>2. \/ o.result = "Failed" /\ o.store = Refresh(store, o.flash, v)
        \/ o.result = "Crash" /\ o.store = Closed
    BY <1>14
  <2>3. ~Acknowledged(o.result)
    BY <2>2 DEF Acknowledged
  <2> QED BY <1>10, <1>11, <2>1, <2>2, <2>3 DEF SaveEffect
<1> QED BY <1>1, <1>12, <1>13, <1>14 DEF landed, blob, slot, gen, base, seen

(***************************************************************************)
(* The inductive invariant.  The generations are neighbours; while there   *)
(* is power, the base in RAM is as far behind the newest record as writes  *)
(* have failed; and a firmware that may write is no older than that record. *)
(***************************************************************************)
StatusType ==
  [source : {"None", "Stored", "Migrated", "Defaults"}, hasActive : BOOLEAN,
   aligned : BOOLEAN, restart : BOOLEAN, recovery : BOOLEAN, degraded : BOOLEAN,
   last : {"NotAttempted", "InvalidArgument", "ValidationFailed", "MigrationFailed",
           "UnsupportedVersion", "RecoveryRequired", "ApplyFailed", "PersistFailed",
           "RestartRequired", "DefaultsApplied", "Migrated", "NoChange", "Success"}]

TypeInv ==
  /\ flash \in Blobs /\ store \in StoreType
  /\ writeFaults \in 0..MaxWriteFaults
  /\ schema \in Schemas /\ power \in {"off", "on", "storing"}
  /\ status \in StatusType /\ everSaved \in BOOLEAN

ChainInv == Chained(flash)
BaseInv == power # "off" => Based(store, flash, schema, writeFaults)

MayWrite == power = "storing" \/ (power = "on" /\ status.hasActive)
ActiveInv ==
  /\ MayWrite => Newest.schema =< schema
  /\ power = "storing" => active \in Payloads

ConfigInv ==
  /\ TypeInv /\ ChainInv /\ BaseInv /\ ActiveInv
  /\ AcknowledgedSurvives /\ DriftIsReported

\* The constants as the lemmas use them.
LEMMA Releases ==
  ASSUME NEW v \in Schemas
  PROVE  v \in Nat /\ \A p : Valid(v, p) => p \in Payloads
BY SchemasAssumption, AdapterAssumption DEF SchemasAssumption, AdapterAssumption, Valid

\* A service that is closed, and a lifecycle that did not start.
LEMMA AtRest == Closed \in StoreType /\ Fresh \in StatusType
<1>1. Closed \in StoreType
  BY NoRecord DEF Closed, StoreType
<1>2. Fresh \in StatusType
  BY DEF Fresh, StatusType
<1> QED BY <1>1, <1>2

\* The generation before g.
LEMMA PrecedesIs ==
  ASSUME NEW g \in Gens
  PROVE  (g - 1) % GenMod \in Gens /\ Follows((g - 1) % GenMod) = g
<1>1. g - 1 \in Int /\ -GenMod =< g - 1 /\ g - 1 < GenMod /\ GenMod \in Nat /\ GenMod > 0
  BY Half DEF Gens
<1>2. (g - 1) % GenMod = IF g = 0 THEN g - 1 + GenMod ELSE g - 1
  <2>1. CASE g = 0
    <3>1. (g - 1) % GenMod = g - 1 + GenMod
      BY <1>1, <2>1, Modulo
    <3> QED BY <2>1, <3>1
  <2>2. CASE g # 0
    <3>1. 0 =< g - 1
      BY <2>2, Half DEF Gens
    <3>2. (g - 1) % GenMod = g - 1
      BY <1>1, <3>1, Modulo
    <3> QED BY <2>2, <3>2
  <2> QED BY <2>1, <2>2
<1>3. (g - 1) % GenMod \in Gens
  BY <1>1, <1>2 DEF Gens
<1>4. Follows((g - 1) % GenMod) =
        IF (g - 1) % GenMod = GenMod - 1 THEN 0 ELSE ((g - 1) % GenMod) + 1
  BY <1>3, FollowsIs
<1> QED BY <1>1, <1>2, <1>3, <1>4 DEF Gens

\* A device from the factory and one that has saved for long.
LEMMA InitInv ==
  ASSUME FewWriteFaults, ConfigInit
  PROVE  ConfigInv
<1>1. store \in StoreType /\ status \in StatusType
  BY AtRest DEF ConfigInit
<1>2. writeFaults \in 0..MaxWriteFaults /\ schema \in Schemas /\ power = "off"
      /\ everSaved \in BOOLEAN
  <2>1. writeFaults = 0 /\ schema \in Schemas /\ power = "off" /\ MaxWriteFaults \in Nat
    BY DEF ConfigInit, FewWriteFaults
  <2>2. everSaved \in BOOLEAN
    BY DEF ConfigInit
  <2> QED BY <2>1, <2>2
<1>3. CASE flash = [s \in Slot |-> EmptyBlob] /\ everSaved = FALSE
  <2>1. flash \in Blobs
    BY <1>3, NoRecord DEF Blobs
  <2>2. Chained(flash)
    BY <1>3, NoRecord DEF Chained, Slot
  <2> QED BY <1>1, <1>2, <1>3, <2>1, <2>2
        DEF ConfigInv, TypeInv, ChainInv, BaseInv, ActiveInv, MayWrite, AcknowledgedSurvives,
            DriftIsReported, Drift
<1>4. CASE \E g \in Gens, v \in Schemas, p \in Payloads :
             /\ flash = [s \in Slot |-> IF s = "A" THEN Intact(v, g, p)
                                        ELSE Intact(v, (g - 1) % GenMod, Default)]
             /\ promised = {<<v, p>>}
  <2>1. PICK g \in Gens, v \in Schemas, p \in Payloads :
             /\ flash = [s \in Slot |-> IF s = "A" THEN Intact(v, g, p)
                                        ELSE Intact(v, (g - 1) % GenMod, Default)]
             /\ promised = {<<v, p>>}
    BY <1>4
  <2>2. /\ flash["A"] = Intact(v, g, p)
        /\ flash["B"] = Intact(v, (g - 1) % GenMod, Default)
    BY <2>1 DEF Slot
  <2>3. (g - 1) % GenMod \in Gens /\ Follows((g - 1) % GenMod) = g
    BY PrecedesIs
  <2>4. Default \in Payloads
    BY AdapterAssumption DEF AdapterAssumption
  <2>5. flash \in Blobs
    BY <2>1, <2>3, <2>4 DEF Blobs, Blob, Intact, Slot
  <2>6. /\ IsIntact(flash["A"]) /\ IsIntact(flash["B"])
        /\ flash["A"].gen = Follows(flash["B"].gen)
    BY <2>2, <2>3 DEF Intact, IsIntact
  <2>7. Chained(flash)
    BY <2>6 DEF Chained
  <2>8. RawLatest(flash) = "A"
    BY <2>5, <2>6, <2>7, LatestIs DEF Slot, Other
  <2>9. Newest = Intact(v, g, p)
    BY <2>2, <2>8 DEF Newest, NoSlot
  <2>10. AcknowledgedSurvives
    BY <2>1, <2>9 DEF AcknowledgedSurvives, Intact
  <2> QED BY <1>1, <1>2, <2>5, <2>7, <2>10
        DEF ConfigInv, TypeInv, ChainInv, BaseInv, ActiveInv, MayWrite, DriftIsReported, Drift
<1> QED BY <1>3, <1>4 DEF ConfigInit

(***************************************************************************)
(* A call that persists p, once for the two that do.                       *)
(***************************************************************************)
LEMMA PersistingInv ==
  ASSUME FewWriteFaults, ConfigInv, MayWrite,
         NEW p \in Payloads, NEW o \in SaveOutcomes(p, schema), NEW settled, NEW failed,
         Persisting(p, schema, o, settled, failed), schema' = schema,
         settled.status \in StatusType, failed.status \in StatusType,
         \/ settled.active = p
         \/ settled.status.restart \/ settled.status.recovery \/ settled.status.degraded,
         failed.status.degraded
  PROVE  ConfigInv'
<1>1. /\ flash \in Blobs /\ Chained(flash) /\ store \in StoreType /\ schema \in Schemas
      /\ writeFaults \in Nat /\ writeFaults + writeFaults < GenMod
      /\ MaxWriteFaults \in Nat /\ everSaved \in BOOLEAN
      /\ Based(store, flash, schema, writeFaults)
      /\ Newest.schema =< schema /\ schema \in Nat
  <2>1. GenMod \in Nat
    BY Half
  <2> QED BY <2>1, Releases
        DEF ConfigInv, TypeInv, ChainInv, BaseInv, ActiveInv, MayWrite, FewWriteFaults
<1>2. o.misreads > 0 => writeFaults = 0
  BY DEF Persisting, Stores, Misreading
<1>3. SaveEffect(o, p, schema)
  BY <1>1, <1>2, SaveEnds
<1>4. /\ flash' = o.flash /\ store' = o.store
      /\ writeFaults' = writeFaults + (IF o.result = "Failed" THEN 1 ELSE 0)
      /\ writeFaults' =< MaxWriteFaults
      /\ Promise(o.result, p, schema)
      /\ o.result = "Crash" => Down
      /\ o.result # "Crash" =>
           LET end == IF Acknowledged(o.result) THEN settled ELSE failed
           IN  /\ power' = "on" /\ status' = end.status /\ active' = end.active
  BY DEF Persisting, Stores
<1>5. Newest' = NewestIn(o.flash) /\ Newest = NewestIn(flash)
  BY <1>4 DEF Newest, NewestIn
<1>6. Closed \in StoreType /\ Fresh \in StatusType
  BY AtRest
<1>7. power' \in {"off", "on"} /\ (power' = "off" <=> o.result = "Crash")
  BY <1>4 DEF Down
<1>8. TypeInv'
  <2>1. writeFaults' \in 0..MaxWriteFaults
    BY <1>1, <1>4
  <2>2. status' \in StatusType
    BY <1>4, <1>6 DEF Down
  <2>3. everSaved' \in BOOLEAN
    BY <1>4 DEF Promise
  <2>4. flash' \in Blobs /\ store' \in StoreType
    BY <1>3, <1>4, <1>6 DEF SaveEffect
  <2>5. schema' \in Schemas
    BY <1>1
  <2> QED BY <1>7, <2>1, <2>2, <2>3, <2>4, <2>5 DEF TypeInv
<1>9. ChainInv'
  BY <1>3, <1>4 DEF SaveEffect, ChainInv
<1>10. BaseInv'
  <2>1. CASE Acknowledged(o.result)
    BY <1>3, <1>4, <2>1 DEF SaveEffect, BaseInv, Based
  <2>2. CASE o.result = "Failed"
    BY <1>1, <1>3, <1>4, <2>2 DEF SaveEffect, BaseInv
  <2>3. CASE o.result = "Crash"
    BY <1>7, <2>3 DEF BaseInv
  <2> QED BY <1>3, <2>1, <2>2, <2>3 DEF SaveEffect, Acknowledged
<1>11. ActiveInv'
  <2>1. NewestIn(o.flash).schema =< schema
    BY <1>1, <1>3, <1>5 DEF SaveEffect, Stored
  <2> QED BY <1>5, <1>7, <2>1 DEF ActiveInv
<1>12. AcknowledgedSurvives'
  <2>1. CASE Acknowledged(o.result)
    BY <1>3, <1>4, <1>5, <2>1
      DEF SaveEffect, Stored, Promise, AcknowledgedSurvives, IsIntact
  <2>2. CASE ~Acknowledged(o.result)
    <3>1. everSaved' = everSaved /\ promised' = promised \cup {<<schema, p>>}
      BY <1>1, <1>4, <2>2 DEF Promise
    <3>2. AcknowledgedSurvives
      BY DEF ConfigInv
    <3>3. Newest' = Newest \/ Stored(o.flash, schema, p)
      BY <1>3, <1>5 DEF SaveEffect
    <3> QED BY <1>5, <3>1, <3>2, <3>3 DEF Stored, AcknowledgedSurvives, IsIntact
  <2> QED BY <2>1, <2>2
<1>13. DriftIsReported'
  <2>1. CASE Acknowledged(o.result)
    <3>1. Newest'.schema = schema /\ Newest'.payload = p
      BY <1>3, <1>5, <2>1 DEF SaveEffect, Stored
    <3>2. status' = settled.status /\ active' = settled.active
      BY <1>4, <2>1 DEF Acknowledged
    <3> QED BY <3>1, <3>2 DEF DriftIsReported, Drift
  <2>2. CASE o.result = "Failed"
    BY <1>4, <2>2 DEF DriftIsReported, Acknowledged
  <2>3. CASE o.result = "Crash"
    BY <1>7, <2>3 DEF DriftIsReported, Drift
  <2> QED BY <1>3, <2>1, <2>2, <2>3 DEF SaveEffect, Acknowledged
<1> QED BY <1>8, <1>9, <1>10, <1>11, <1>12, <1>13 DEF ConfigInv

(***************************************************************************)
(* A boot.                                                                 *)
(***************************************************************************)
\* What startup() decides before it writes: it goes on from the newest record, if
\* the firmware may use it, or from the defaults if there is none, and it says so.
BootEffect(v) ==
  /\ power' \in {"on", "storing"} /\ status' \in StatusType
  /\ power' = "storing" \/ status'.hasActive => Newest.schema =< v
  /\ power' = "storing" => active' \in Payloads
  /\ power' = "on" /\ status'.hasActive =>
       \/ status'.recovery
       \/ Newest.schema = v /\ Newest.payload = active'

\* Ending a start with a failure, running and storing.
LEMMA StopEffect ==
  ASSUME NEW v, NEW name \in {"ValidationFailed", "MigrationFailed", "UnsupportedVersion",
                              "RecoveryRequired", "ApplyFailed"},
         Stop(name)
  PROVE  BootEffect(v)
<1>1. status' = [Fresh EXCEPT !.last = name, !.recovery = TRUE, !.degraded = TRUE]
      /\ power' = "on"
  BY DEF Stop, Failed
<1>2. status' \in StatusType /\ ~status'.hasActive
  BY <1>1 DEF Fresh, StatusType
<1> QED BY <1>1, <1>2 DEF BootEffect

\* Defaults are for a flash without a record.
LEMMA DefaultsEffect ==
  ASSUME NEW v \in Schemas, NEW persist \in BOOLEAN, UseDefaults(v, persist),
         RawLatest(flash) = NoSlot
  PROVE  BootEffect(v)
<1>1. Newest.schema =< v /\ Default \in Payloads
  BY Releases, AdapterAssumption DEF Newest, EmptyBlob, AdapterAssumption
<1>2. /\ Committed(Fresh, "Defaults") \in StatusType
      /\ Failed(Committed(Fresh, "Defaults"), "RecoveryRequired", TRUE) \in StatusType
      /\ Failed(Committed(Fresh, "Defaults"), "RecoveryRequired", TRUE).recovery
  BY DEF Committed, Failed, Fresh, StatusType
<1>3. CASE Stop("ValidationFailed") \/ Stop("ApplyFailed")
  BY <1>3, StopEffect
<1>4. CASE Store(Committed(Fresh, "Defaults"), Default)
  BY <1>1, <1>2, <1>4 DEF Store, BootEffect
<1>5. CASE Run(Failed(Committed(Fresh, "Defaults"), "RecoveryRequired", TRUE), Default)
  BY <1>1, <1>2, <1>5 DEF Run, BootEffect
<1> QED BY <1>3, <1>4, <1>5 DEF UseDefaults

\* An acceptable record of this firmware or an older one.
LEMMA RecordEffect ==
  ASSUME TypeInv, NEW v \in Schemas, Supported(Newest, v), Valid(v, Newest.payload),
         UseRecord(v, Newest)
  PROVE  BootEffect(v)
<1>1. Newest \in Blob
  BY NoRecord DEF TypeInv, Blobs, Newest, RawLatest, NewestOf, Slot, NoSlot
<1>2. Newest.schema \in Nat /\ v \in Nat /\ Newest.schema =< v /\ Newest.payload \in Payloads
  BY <1>1, Releases DEF Blob, Supported
<1> DEFINE kept == [Committed(Fresh, "Stored") EXCEPT !.aligned = TRUE, !.last = "Success"]
           migrated == Committed(Fresh, "Migrated")
<1>3. kept \in StatusType /\ migrated \in StatusType
  BY DEF Committed, Fresh, StatusType
<1> HIDE DEF kept, migrated
<1>4. CASE Stop("ApplyFailed")
  BY <1>4, StopEffect
<1>5. CASE Newest.schema >= v /\ Run(kept, Newest.payload)
  BY <1>2, <1>3, <1>5 DEF Run, BootEffect
<1>6. CASE Store(migrated, Newest.payload)
  BY <1>2, <1>3, <1>6 DEF Store, BootEffect
<1> QED BY <1>4, <1>5, <1>6 DEF UseRecord, kept, migrated

\* A boot that reads the flash as it is.
LEMMA BootInv ==
  ASSUME BootsRead, ConfigInv, NEW v \in Schemas, NEW glance \in Glances(LoadFaults),
         Boot(v, glance)
  PROVE  ConfigInv'
<1> DEFINE seen == Sees(glance)
           latest == RawLatest(flash)
<1>1. /\ flash \in Blobs /\ Chained(flash) /\ flash' = flash
      /\ writeFaults' = writeFaults /\ schema' = v
      /\ promised' = promised /\ everSaved' = everSaved
  BY DEF Boot, ConfigInv, TypeInv, ChainInv, ghost
<1>2. Faithful(seen, flash) /\ Shows(seen, flash)
  <2>1. Misread(glance) = {}
    BY DEF BootsRead, Glances, Misread
  <2>2. {} \in SUBSET {"unreadable", "absent"} /\ glance \in Glances({})
    BY DEF BootsRead
  <2> QED BY <1>1, <2>1, <2>2, ViewIs
<1>3. RawLatest(seen) = latest /\ LoadResult(seen) = LoadResult(flash)
  BY <1>2, FaithfulLatest
<1>4. /\ latest \in Slot \cup {NoSlot}
      /\ latest # NoSlot => /\ seen[latest] = Newest /\ flash[latest] = Newest
                            /\ Newest.gen \in Gens
  BY <1>1, <1>2, LatestIs DEF Faithful, Newest, Blobs, Blob
<1> HIDE DEF seen
<1>5. store' \in StoreType /\ InStep(store', flash)
  <2> DEFINE selected == SelectLatest(flash, v)
             begun == Begin(v, flash)
  <2>1. selected \in Slot \cup {NoSlot}
    BY DEF SelectLatest, NewestOf, Slot, NoSlot
  <2>2. begun = [[Closed EXCEPT !.open = TRUE] EXCEPT
                   !.active = selected,
                   !.activeGen = IF selected = NoSlot THEN 0 ELSE flash[selected].gen]
    BY DEF Begin, Refresh
  <2>3. (IF selected = NoSlot THEN 0 ELSE flash[selected].gen) \in Gens
    BY <1>1, <2>1, NoRecord DEF Blobs, Blob
  <2>4. begun \in StoreType
    BY <2>1, <2>2, <2>3, AtRest DEF StoreType
  <2>5. store' = [begun EXCEPT !.base = latest,
                               !.baseGen = IF latest = NoSlot THEN 0 ELSE seen[latest].gen]
    BY <1>3 DEF Boot, LoadLatestRaw, seen
  <2> HIDE DEF begun
  <2> QED BY <1>4, <2>4, <2>5, NoRecord DEF StoreType, InStep, NewestIn, Newest
<1>6. LoadAndApply(v, seen)
  BY DEF Boot, seen
<1>7. BootEffect(v)
  <2> DEFINE result == Loaded(LoadResult(seen))
             record == seen[RawLatest(seen)]
  <2>1. latest # NoSlot => LoadResult(flash) = "Success"
    <3>1. latest # NoSlot => ~\A s \in Slot : flash[s].kind = "empty"
      BY <1>1, <1>4, LatestIs DEF IsIntact
    <3> QED BY <3>1 DEF LoadResult
  <2>2. latest = NoSlot => LoadResult(flash) # "Success"
    <3>1. CASE \A s \in Slot : flash[s].kind = "empty"
      BY <3>1 DEF LoadResult
    <3>2. CASE ~\A s \in Slot : flash[s].kind = "empty"
      BY <3>2 DEF LoadResult
    <3> QED BY <3>1, <3>2
  <2>7. result = "Success" <=> latest # NoSlot
    <3>1. result = IF LoadResult(flash) = "NoValidRecord" THEN "Corrupt"
                   ELSE LoadResult(flash)
      BY <1>3 DEF Loaded
    <3> QED BY <2>1, <2>2, <3>1
  <2>3. CASE result = "Empty" /\ UseDefaults(v, TRUE)
    BY <2>7, <2>3, DefaultsEffect
  <2>4. CASE result = "Corrupt" /\ UseDefaults(v, FALSE)
    BY <2>7, <2>4, DefaultsEffect
  <2>5. CASE \/ Stop("RecoveryRequired") \/ Stop("UnsupportedVersion")
             \/ Stop("MigrationFailed") \/ Stop("ValidationFailed")
    BY <2>5, StopEffect
  <2>6. CASE /\ result = "Success" /\ Decodes(v, record) /\ Valid(v, record.payload)
             /\ UseRecord(v, record)
    <3>1. record = Newest
      BY <1>3, <1>4, <2>7, <2>6
    <3> HIDE DEF record
    <3>2. Supported(Newest, v) /\ Valid(v, Newest.payload) /\ UseRecord(v, Newest)
      BY <2>6, <3>1 DEF Decodes
    <3> QED BY <3>2, RecordEffect DEF ConfigInv
  <2> QED BY <1>6, <2>3, <2>4, <2>5, <2>6 DEF LoadAndApply
<1>8. Newest' = Newest
  BY <1>1 DEF Newest
<1>9. TypeInv'
  BY <1>1, <1>5, <1>7 DEF ConfigInv, TypeInv, BootEffect
<1>10. ChainInv' /\ BaseInv'
  BY <1>1, <1>5 DEF ChainInv, BaseInv, Based
<1>11. ActiveInv'
  BY <1>1, <1>7, <1>8 DEF ActiveInv, MayWrite, BootEffect
<1>12. AcknowledgedSurvives'
  BY <1>1, <1>8 DEF ConfigInv, AcknowledgedSurvives
<1>13. DriftIsReported'
  BY <1>1, <1>7, <1>8 DEF DriftIsReported, Drift, BootEffect
<1> QED BY <1>9, <1>10, <1>11, <1>12, <1>13 DEF ConfigInv

(***************************************************************************)
(* Every step.                                                             *)
(***************************************************************************)
\* The write at the end of a start.
LEMMA StartupInv ==
  ASSUME FewWriteFaults, ConfigInv, StartupPersist
  PROVE  ConfigInv'
<1> DEFINE done == IF status.source = "Defaults" THEN "DefaultsApplied" ELSE "Migrated"
           settled == [status |-> [status EXCEPT !.aligned = TRUE, !.last = done],
                       active |-> active]
           failed == [status |-> [status EXCEPT !.aligned = FALSE, !.degraded = TRUE,
                                                !.last = "PersistFailed"],
                      active |-> active]
<1>1. PICK o \in SaveOutcomes(active, schema) : Persisting(active, schema, o, settled, failed)
  BY DEF StartupPersist
<1>2. /\ MayWrite /\ active \in Payloads /\ schema' = schema
      /\ status \in StatusType
  BY DEF StartupPersist, MayWrite, ConfigInv, TypeInv, ActiveInv
<1>3. settled.status \in StatusType /\ failed.status \in StatusType
      /\ settled.active = active /\ failed.status.degraded
  BY <1>2 DEF StatusType
<1> HIDE DEF settled, failed
<1> QED BY <1>1, <1>2, <1>3, PersistingInv

\* An update that reaches the storage.
LEMMA UpdateInv ==
  ASSUME FewWriteFaults, ConfigInv, NEW p \in Payloads, Update(p)
  PROVE  ConfigInv'
<1> DEFINE failed == [status |-> NotPersisted(status), active |-> active]
           restart == [status |-> AwaitsRestart(status), active |-> active]
           unapplied == [status |-> ApplyFailure(status), active |-> active]
           applied(o) == [status |-> InForce(status, o.result), active |-> p]
<1>1. PICK o \in SaveOutcomes(p, schema) :
        \E settled \in {restart, unapplied, applied(o)} :
          Persisting(p, schema, o, settled, failed)
  BY DEF Update
<1>2. PICK settled \in {restart, unapplied, applied(o)} :
        Persisting(p, schema, o, settled, failed)
  BY <1>1
<1>3. MayWrite /\ schema' = schema /\ status \in StatusType
  BY DEF Update, MayWrite, ConfigInv, TypeInv
<1>4. failed.status \in StatusType /\ failed.status.degraded
  BY <1>3 DEF StatusType, NotPersisted
<1>5. /\ restart.status \in StatusType /\ restart.status.restart
      /\ unapplied.status \in StatusType /\ unapplied.status.recovery
  BY <1>3 DEF StatusType, AwaitsRestart, ApplyFailure
<1>6. applied(o).status \in StatusType /\ applied(o).active = p
  BY <1>3 DEF StatusType, InForce
<1>7. /\ settled.status \in StatusType
      /\ \/ settled.active = p
         \/ settled.status.restart \/ settled.status.recovery \/ settled.status.degraded
  BY <1>2, <1>5, <1>6
<1> HIDE DEF failed, restart, unapplied, applied
<1> QED BY <1>2, <1>3, <1>4, <1>7, PersistingInv

LEMMA NextInv ==
  ASSUME BootsRead, FewWriteFaults, ConfigInv, [ConfigNext]_configVars
  PROVE  ConfigInv'
<1>1. CASE \E v \in Schemas, glance \in Glances(LoadFaults) : Boot(v, glance)
  BY <1>1, BootInv
<1>2. CASE StartupPersist
  BY <1>2, StartupInv
<1>3. CASE \E p \in Payloads : Update(p)
  BY <1>3, UpdateInv
<1>4. CASE \E p \in Payloads : UpdateRefused(p)
  <2>1. /\ UNCHANGED <<flash, store, writeFaults, schema, power, active, ghost>>
        /\ \E last \in {"InvalidArgument", "ValidationFailed"} :
             status' = [status EXCEPT !.last = last]
    BY <1>4 DEF UpdateRefused, ghost
  <2>2. /\ status' \in StatusType /\ status \in StatusType
        /\ status'.hasActive = status.hasActive /\ status'.restart = status.restart
        /\ status'.recovery = status.recovery /\ status'.degraded = status.degraded
    BY <2>1 DEF ConfigInv, TypeInv, StatusType
  <2>3. Newest' = Newest
    BY <2>1 DEF Newest
  <2>4. TypeInv' /\ ChainInv' /\ BaseInv'
    BY <2>1, <2>2 DEF ghost, ConfigInv, TypeInv, ChainInv, BaseInv
  <2>5. ActiveInv' /\ AcknowledgedSurvives' /\ DriftIsReported'
    BY <2>1, <2>2, <2>3
      DEF ConfigInv, ActiveInv, MayWrite, AcknowledgedSurvives, DriftIsReported, Drift, ghost
  <2> QED BY <2>4, <2>5 DEF ConfigInv
<1>5. CASE PowerLoss
  <2>1. /\ UNCHANGED <<flash, writeFaults, schema, promised, everSaved>>
        /\ power' = "off" /\ status' = Fresh /\ store' = Closed
    BY <1>5 DEF PowerLoss, Down
  <2>2. Newest' = Newest
    BY <2>1 DEF Newest
  <2>3. TypeInv' /\ ChainInv' /\ BaseInv'
    BY <2>1, AtRest DEF ConfigInv, TypeInv, ChainInv, BaseInv
  <2>4. ActiveInv' /\ AcknowledgedSurvives' /\ DriftIsReported'
    BY <2>1, <2>2
      DEF ConfigInv, ActiveInv, MayWrite, AcknowledgedSurvives, DriftIsReported, Drift
  <2> QED BY <2>3, <2>4 DEF ConfigInv
<1>6. CASE UNCHANGED configVars
  <2>1. UNCHANGED <<flash, store, writeFaults, schema, power, status, active,
                    promised, everSaved>>
    BY <1>6 DEF configVars, lifecycle, ghost
  <2>2. Newest' = Newest
    BY <2>1 DEF Newest
  <2>3. TypeInv' /\ ChainInv' /\ BaseInv'
    BY <2>1 DEF ConfigInv, TypeInv, ChainInv, BaseInv
  <2>4. ActiveInv' /\ AcknowledgedSurvives' /\ DriftIsReported'
    BY <2>1, <2>2
      DEF ConfigInv, ActiveInv, MayWrite, AcknowledgedSurvives, DriftIsReported, Drift
  <2> QED BY <2>3, <2>4 DEF ConfigInv
<1> QED BY <1>1, <1>2, <1>3, <1>4, <1>5, <1>6 DEF ConfigNext

\* The invariant holds throughout.
LEMMA ConfigInvAlways ==
  ASSUME BootsRead, FewWriteFaults
  PROVE  ConfigSpec => []ConfigInv
<1>1. ConfigInit => ConfigInv
  BY InitInv
<1>2. ConfigInv /\ [ConfigNext]_configVars => ConfigInv'
  BY NextInv
<1> QED BY <1>1, <1>2, PTL DEF ConfigSpec

(***************************************************************************)
(* StorageService: with boots that read the flash, and fewer unreported    *)
(* writes than half of the generations, what a save acknowledged, or what  *)
(* a later attempt wrote, is the newest record for good: across power      *)
(* failures in a save, failed writes, misreads, migrations and the wrap.   *)
(***************************************************************************)
THEOREM AcknowledgedAlwaysSurvives ==
  ASSUME BootsRead, FewWriteFaults
  PROVE  ConfigSpec => []AcknowledgedSurvives
<1>1. ConfigInv => AcknowledgedSurvives
  BY DEF ConfigInv
<1> QED BY <1>1, ConfigInvAlways, PTL

(***************************************************************************)
(* ConfigLifecycle: under the same assumptions the status shows whenever    *)
(* the newest stored settings are not those that are in force.              *)
(***************************************************************************)
THEOREM DriftAlwaysReported ==
  ASSUME BootsRead, FewWriteFaults
  PROVE  ConfigSpec => []DriftIsReported
<1>1. ConfigInv => DriftIsReported
  BY DEF ConfigInv
<1> QED BY <1>1, ConfigInvAlways, PTL

(***************************************************************************)
(* ConfigLifecycle::startup and update: under the same assumptions an older *)
(* firmware never writes over the settings of a newer one.                  *)
(***************************************************************************)
THEOREM NewerSchemaAlwaysUntouched ==
  ASSUME BootsRead, FewWriteFaults
  PROVE  ConfigSpec => NewerSchemaUntouched
<1>1. ConfigInv /\ [ConfigNext]_configVars => [flash' # flash => Newest.schema =< schema]_configVars
  <2> SUFFICES ASSUME ConfigInv, ConfigNext, flash' # flash
               PROVE  Newest.schema =< schema
    OBVIOUS
  <2>1. StartupPersist \/ \E p \in Payloads : Update(p)
    BY DEF ConfigNext, Boot, UpdateRefused, PowerLoss
  <2>2. MayWrite
    BY <2>1 DEF StartupPersist, Update, MayWrite
  <2> QED BY <2>2 DEF ConfigInv, ActiveInv
<1> QED BY <1>1, ConfigInvAlways, PTL DEF ConfigSpec, NewerSchemaUntouched
===============================================================================
