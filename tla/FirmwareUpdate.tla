----------------------------- MODULE FirmwareUpdate -----------------------------
(***************************************************************************)
(* What an upload promises for the inactive flash partition: an image is    *)
(* written in order by one upload, chosen for the next boot only when it is *)
(* whole, and never interrupted by a restart; a chosen image is booted.     *)
(***************************************************************************)
EXTENDS Naturals, Sequences

CONSTANTS Uploads, Sizes
VARIABLES phase,    \* idle, writing, chosen, restarted
          upload,   \* the parts that the client means to send
          image     \* the parts that were written

Parts(g, n) == [i \in 1..n |-> <<g, i>>]

Init == phase = "idle" /\ upload = <<>> /\ image = <<>>
Begin ==
  /\ phase = "idle" /\ phase' = "writing" /\ image' = <<>>
  /\ \E g \in Uploads, n \in Sizes : upload' = Parts(g, n)
Write ==
  /\ phase = "writing" /\ Len(image) < Len(upload)
  /\ image' = Append(image, upload[Len(image) + 1]) /\ UNCHANGED <<phase, upload>>
Discard == phase = "writing" /\ phase' = "idle" /\ upload' = <<>> /\ image' = <<>>
Choose == phase = "writing" /\ image = upload /\ phase' = "chosen" /\ UNCHANGED <<upload, image>>
Restart == phase \in {"idle", "chosen"} /\ phase' = "restarted" /\ UNCHANGED <<upload, image>>

vars == <<phase, upload, image>>
Next == Begin \/ Write \/ Discard \/ Choose \/ Restart
Spec == Init /\ [][Next]_vars /\ WF_vars(phase = "chosen" /\ Restart)
=============================================================================
