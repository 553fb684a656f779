------------------------------ MODULE LumaModes ------------------------------
(***************************************************************************)
(* ModeManager of the Luma lamp: a base mode, four overrides kept as flags, *)
(* and OFF above everything.  The mode in charge and the mode it returns to *)
(* are recomputed after every accepted call; a call that is refused leaves  *)
(* the manager as it was.                                                   *)
(***************************************************************************)
EXTENDS Naturals

Overrides == {"ChannelTest", "Manual", "Preview", "Simulation"}
Bases == {"Normal", "Service"}
Modes == Overrides \cup Bases \cup {"Off"}

Priority == [Off |-> 7, ChannelTest |-> 6, Manual |-> 5, Preview |-> 4, Simulation |-> 3,
             Service |-> 2, Normal |-> 1]

ModeManager == [mode : Modes, base : Bases, back : Modes, open : SUBSET Overrides]

Reset == [mode |-> "Normal", base |-> "Normal", back |-> "Normal", open |-> {}]

\* The open override with the highest priority, else the base mode.
Top(open, base) ==
  IF open = {} THEN base
  ELSE CHOOSE o \in open : \A p \in open : Priority[p] <= Priority[o]

Refreshed(m) ==
  IF m.mode = "Off" THEN [m EXCEPT !.back = "Normal"]
  ELSE LET top == Top(m.open, m.base) IN
       [m EXCEPT !.mode = top, !.back = Top(m.open \ {top}, m.base)]

\* enterManual(), enterChannelTest(), enterPreview(), enterSimulation()
CanOpen(m, o) == o \notin m.open /\ m.mode # "Off" /\ Priority[m.mode] < Priority[o]
Opened(m, o) == Refreshed([m EXCEPT !.open = @ \cup {o}])

\* mutant: a session can be ended under another one
CanCloseBelow(m, o) == o \in m.open
\* exitManual(), exitChannelTest(), exitPreview(), exitSimulation()
CanClose(m, o) == m.mode = o /\ o \in m.open
Closed(m, o) == Refreshed([m EXCEPT !.open = @ \ {o}])

\* enterService() for b = "Service", exitService() for b = "Normal"
CanRebase(m, b) == m.mode # "Off" /\ m.base # b
Rebased(m, b) == Refreshed([m EXCEPT !.base = b])

SwitchedOff(m) ==
  IF m.mode = "Off" THEN m
  ELSE [m EXCEPT !.open = {}, !.base = "Normal", !.mode = "Off", !.back = "Normal"]

SwitchedOn(m) ==
  IF m.mode # "Off" THEN m
  ELSE Refreshed([m EXCEPT !.mode = "Normal", !.base = "Normal"])
==============================================================================
