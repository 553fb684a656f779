------------------------------- MODULE LumaLamp -------------------------------
(***************************************************************************)
(* The PWM outputs of the Luma lamp (AqmaHardware, Lolin32Hardware): a      *)
(* channel is driven by the LEDC peripheral once it is attached and by the  *)
(* GPIO latch before, and every driver call may fail.  Turning a channel    *)
(* off has three ways to succeed.  The polarity of a channel is folded into *)
(* "lit": the pad is at another level than its physical OFF.                *)
(***************************************************************************)
EXTENDS Naturals, Sequences, FiniteSets

CONSTANT
  NumChannels   \* channels of the lamp (8 in the product)

ASSUME ChannelAssumption == NumChannels \in Nat \ {0}

Channels == 1..NumChannels
\* Driver calls: gpio_set_level, gpio_hold_en, ledcAttachChannel, ledcWrite,
\* gpio_hold_dis, ledc_stop and ledcDetach.
Calls == {"level", "hold", "attach", "write", "unhold", "stop", "detach"}

LampType == [ready : BOOLEAN, attached : SUBSET Channels, held : SUBSET Channels,
             lit : SUBSET Channels]

\* In everything below, fail is the set of the driver calls that fail.
Works(c, call, fail) == <<c, call>> \notin fail

\* Turning channel c off: what it leaves and whether it counts as a success.
CanWriteOff(lamp, c, fail) == c \in lamp.attached /\ Works(c, "write", fail)
Detaches(lamp, c, fail) ==
  c \in lamp.attached /\ ~Works(c, "write", fail) /\ Works(c, "detach", fail)
LatchesOff(lamp, c, fail) ==
  /\ c \notin lamp.attached \/ Detaches(lamp, c, fail)
  /\ Works(c, "level", fail)
\* mutant: the peripheral is not stopped
DarkByLatch(lamp, c, fail) == CanWriteOff(lamp, c, fail) \/ LatchesOff(lamp, c, fail)
GoesDark(lamp, c, fail) ==
  \/ CanWriteOff(lamp, c, fail)
  \/ c \in lamp.attached /\ Works(c, "stop", fail)
  \/ LatchesOff(lamp, c, fail)
OffSucceeds(lamp, c, fail) ==
  IF c \in lamp.attached THEN Works(c, "write", fail) ELSE Works(c, "level", fail)

AllOffOk(lamp, fail) == \A c \in Channels : OffSucceeds(lamp, c, fail)
AllOff(lamp, fail) ==
  [lamp EXCEPT !.ready = @ /\ AllOffOk(lamp, fail),
               !.attached = @ \ {c \in @ : Detaches(lamp, c, fail)},
               !.lit = @ \ {c \in @ : GoesDark(lamp, c, fail)}]

(***************************************************************************)
(* begin(): every pad is put to OFF, then each channel in turn is held,     *)
(* attached, written to OFF and released.  The first call that fails ends   *)
(* it; a pad that could not be released, or not be written, stays held.     *)
(***************************************************************************)
Stages == <<"hold", "attach", "write", "unhold">>
FirstBad(fail) ==
  {c \in Channels : \E call \in {"hold", "attach", "write", "unhold"} : <<c, call>> \in fail}
Begun(lamp, fail) ==
  LET safe == [lamp EXCEPT !.ready = FALSE, !.attached = {}, !.lit = {}]
      bad == CHOOSE c \in FirstBad(fail) : \A e \in FirstBad(fail) : c <= e
      failed == CHOOSE i \in 1..4 :
                  <<bad, Stages[i]>> \in fail /\ \A j \in 1..(i - 1) : <<bad, Stages[j]>> \notin fail
      upTo == [safe EXCEPT !.attached = {c \in Channels : c < bad \/ (c = bad /\ failed > 2)},
                           !.held = IF failed \in {3, 4} THEN {bad} ELSE {}]
  IN  IF \E c \in Channels : <<c, "level">> \in fail THEN AllOff(safe, fail)
      ELSE IF FirstBad(fail) # {} THEN AllOff(upTo, fail)
      ELSE [safe EXCEPT !.ready = TRUE, !.attached = Channels]

(***************************************************************************)
(* The outputs of a pass: every channel is written in turn, those in bright *)
(* to a level above zero.  A write that fails turns everything off.         *)
(***************************************************************************)
BadWrites(fail) == {c \in Channels : <<c, "write">> \in fail}
WriteOk(lamp, fail) == lamp.ready /\ BadWrites(fail) = {}
Written(lamp, bright, fail) ==
  LET done == {c \in Channels : \A e \in BadWrites(fail) : c < e}
      lit == (lamp.lit \ done) \cup (bright \cap done)
  IN  IF ~lamp.ready THEN lamp
      ELSE IF WriteOk(lamp, fail) THEN [lamp EXCEPT !.lit = lit]
      ELSE AllOff([lamp EXCEPT !.lit = lit, !.ready = FALSE], fail)
==============================================================================
