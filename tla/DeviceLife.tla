------------------------------ MODULE DeviceLife ------------------------------
(***************************************************************************)
(* What the runtime of an aquaOne device promises of its life.  It comes up *)
(* through a start that must clear its safety, works while it is up, may be *)
(* taken into service and back, and once it has failed it stays failed and  *)
(* locked until it is rebooted.  It obeys normal commands only while it is   *)
(* up and safe.                                                             *)
(***************************************************************************)
VARIABLES life, safe, act

vars == <<life, safe, act>>

Init == life = "off" /\ safe = FALSE /\ act = "none"

Quiet == act' = "none"
Start == life = "off" /\ life' = "starting" /\ safe' = FALSE /\ Quiet
Clear == life = "starting" /\ ~safe /\ safe' /\ UNCHANGED life /\ Quiet
ComeUp == life = "starting" /\ safe /\ life' = "up" /\ UNCHANGED safe /\ Quiet
\* A single safety gate may be all there is to a start.
ClearUp == life = "starting" /\ ~safe /\ life' = "up" /\ safe' /\ Quiet
Watched == life = "up" /\ life' = "running" /\ safe' \in BOOLEAN /\ Quiet
Watch == life \in {"running", "service"} /\ safe' \in BOOLEAN /\ UNCHANGED life /\ Quiet
Enter == life = "running" /\ life' = "service" /\ UNCHANGED safe /\ Quiet
Leave == life = "service" /\ life' = "running" /\ UNCHANGED safe /\ Quiet
Fail == life \notin {"off", "failed"} /\ life' = "failed" /\ ~safe' /\ Quiet
\* The start may fail in its first step.
FailAtOnce == life = "off" /\ life' = "failed" /\ ~safe' /\ Quiet
Reboot == life' = "off" /\ ~safe' /\ Quiet
Rest == Quiet /\ UNCHANGED <<life, safe>>

Obeys(what) ==
  \/ what = "normal" /\ life \in {"up", "running"} /\ safe
  \/ what = "processing" /\ life \in {"up", "running"}
  \/ what = "recovery" /\ life \in {"up", "running", "failed"}
  \/ what = "operation" /\ life = "service"
Act == \E what \in {"normal", "processing", "recovery", "operation"} :
         Obeys(what) /\ act' = what /\ UNCHANGED <<life, safe>>

Next == Start \/ Clear \/ ComeUp \/ ClearUp \/ Watched \/ Watch \/ Enter \/ Leave \/ Fail \/ FailAtOnce
        \/ Reboot \/ Rest \/ Act

Spec == Init /\ [][Next]_vars
=============================================================================
