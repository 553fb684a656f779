------------------------------ MODULE ModeStack ------------------------------
(***************************************************************************)
(* What the Luma lamp promises about its modes: sessions are nested.  A     *)
(* session is opened on top of the others and sessions end from the top     *)
(* only, so the lamp always comes back to what it was doing underneath.     *)
(* The base mode may be changed under the sessions without ending them,     *)
(* and OFF ends them all.                                                   *)
(***************************************************************************)
EXTENDS LumaModes, Sequences

VARIABLES
  stack,   \* the open sessions, the one in charge last
  base,    \* the mode under them
  off,     \* OFF is in force
  mode,    \* the mode in charge
  back     \* the mode that comes when it ends

vars == <<stack, base, off, mode, back>>

\* The n-th mode from the top: the sessions, then the base mode for ever.
FromTop(n) == IF n <= Len(stack) THEN stack[Len(stack) + 1 - n] ELSE base

Shown ==
  /\ mode = IF off THEN "Off" ELSE FromTop(1)
  /\ back = IF off THEN "Normal" ELSE FromTop(2)

Init == stack = <<>> /\ base = "Normal" /\ off = FALSE /\ Shown

\* A session opens above all the others and takes charge.
Open ==
  /\ ~off
  /\ \E o \in Overrides : stack' = Append(stack, o)
  /\ \A i \in 1..Len(stack) : Priority[stack[i]] < Priority[stack'[Len(stack')]]
  /\ UNCHANGED <<base, off>>

\* Sessions end from the top, one or several at once.
Unwind ==
  /\ \E n \in 0..Len(stack) : stack' = SubSeq(stack, 1, n)
  /\ UNCHANGED <<base, off>>

Rebase == ~off /\ base' \in Bases /\ UNCHANGED <<stack, off>>

\* OFF, its end, and a restart of the firmware forget everything.
Forget == stack' = <<>> /\ base' = "Normal" /\ off' \in BOOLEAN

Next == (Open \/ Unwind \/ Rebase \/ Forget) /\ Shown'

Spec == Init /\ [][Next]_vars
==============================================================================
