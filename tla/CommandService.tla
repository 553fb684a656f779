--------------------------- MODULE CommandService ---------------------------
(***************************************************************************)
(* What the command bridge of aquaOneCore promises to the two tasks it     *)
(* connects, without slots, tokens, semaphores or locks: a command handed  *)
(* over by an HTTP handler is either refused, and then never runs, or      *)
(* accepted, and then runs at most once, in the order of acceptance.  The  *)
(* handler gets one answer: refused, the result of its own command, or     *)
(* "accepted, outcome unknown".                                            *)
(***************************************************************************)
EXTENDS Sequences

CONSTANT Commands     \* identities of the commands that may be handed over

VARIABLES
    phase,            \* [Commands -> Phases] how far a command has come
    answer,           \* [Commands -> Answers] what its handler was told
    waiting           \* accepted commands that have not run, in order

vars == <<phase, answer, waiting>>

Phases  == {"new", "refused", "accepted", "executed"}
Answers == {"none", "refused", "unknown", "result"}

Init ==
    /\ phase = [c \in Commands |-> "new"]
    /\ answer = [c \in Commands |-> "none"]
    /\ waiting = <<>>

Refuse(c) ==
    /\ phase[c] = "new"
    /\ phase' = [phase EXCEPT ![c] = "refused"]
    /\ answer' = [answer EXCEPT ![c] = "refused"]
    /\ UNCHANGED waiting

Accept(c) ==
    /\ phase[c] = "new"
    /\ phase' = [phase EXCEPT ![c] = "accepted"]
    /\ waiting' = Append(waiting, c)
    /\ UNCHANGED answer

\* Only the oldest accepted command may run, and it leaves the queue for good.
Execute ==
    /\ waiting # <<>>
    /\ phase' = [phase EXCEPT ![Head(waiting)] = "executed"]
    /\ waiting' = Tail(waiting)
    /\ UNCHANGED answer

AnswerResult(c) ==
    /\ phase[c] = "executed"
    /\ answer[c] = "none"
    /\ answer' = [answer EXCEPT ![c] = "result"]
    /\ UNCHANGED <<phase, waiting>>

\* The handler stops waiting; the command is not cancelled by that.
AnswerUnknown(c) ==
    /\ phase[c] \in {"accepted", "executed"}
    /\ answer[c] = "none"
    /\ answer' = [answer EXCEPT ![c] = "unknown"]
    /\ UNCHANGED <<phase, waiting>>

Next ==
    \/ Execute
    \/ \E c \in Commands :
          Refuse(c) \/ Accept(c) \/ AnswerResult(c) \/ AnswerUnknown(c)

Spec == Init /\ [][Next]_vars
=============================================================================
