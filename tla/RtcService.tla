------------------------------- MODULE RtcService -------------------------------
(***************************************************************************)
(* The battery clock of a device, and RtcService of aquaOneCore, which reads *)
(* and sets it.  What its registers hold is told apart only as the right    *)
(* time, a wrong one, or none at all; osf is its flag that the oscillator   *)
(* has stopped.                                                             *)
(***************************************************************************)

Contents == {"right", "wrong", "garbage"}
\* A clock; "unset" is history: it stopped and was not set since.
Clocks == [content : Contents, osf : BOOLEAN, unset : BOOLEAN]

\* The oscillator stops.
Stopped(r) == {[content |-> c, osf |-> TRUE, unset |-> TRUE] : c \in {"wrong", "garbage"}}

\* read() of a service that was initialised, over a bus that works
Reading(r, works) ==
  IF works /\ ~r.osf /\ r.content # "garbage" THEN r.content ELSE "none"

\* setUtc(): how far it comes, and what it leaves.  A write of the registers that fails may
\* have changed some of them.
Set(r) == [r EXCEPT !.content = "right", !.unset = FALSE]
\* mutant: the flag is cleared before the time is written
ClearsFirst(r) ==
  [done : {FALSE}, clock : {r} \cup [content : Contents \ {"right"}, osf : {FALSE}, unset : {r.unset}]
                             \cup {[Set(r) EXCEPT !.osf = FALSE]}]
  \cup [done : {TRUE}, clock : {[Set(r) EXCEPT !.osf = FALSE]}]
SetUtc(r) ==
  [done : {FALSE}, clock : {r} \cup {[r EXCEPT !.content = c] : c \in Contents \ {"right"}}
                             \cup {Set(r), [Set(r) EXCEPT !.osf = FALSE]}]
  \cup [done : {TRUE}, clock : {[Set(r) EXCEPT !.osf = FALSE]}]
\* The same when the bus works, or when the service has no bus.
SetsWell(r) == {[done |-> TRUE, clock |-> [Set(r) EXCEPT !.osf = FALSE]]}
SetsNothing(r) == {[done |-> FALSE, clock |-> r]}
=============================================================================
