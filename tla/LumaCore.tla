------------------------------- MODULE LumaCore -------------------------------
(***************************************************************************)
(* LumaCore: what the lamp has to show.  One pass ages the timers of the    *)
(* open sessions, ends those that are over, finds the levels the mode in    *)
(* charge asks for, and starts a transition when they change abruptly, so   *)
(* that the light itself never jumps.                                       *)
(*                                                                         *)
(* Levels are named by where they come from: <<"zero">>, <<"mid">> for any  *)
(* point inside a transition, a level of a session, the frame of a          *)
(* simulation, or a point of a profile's schedule.  Within the day levels   *)
(* drift continuously and are one point; "morning" and "evening" are points *)
(* that only a jump of the clock puts next to each other.                   *)
(***************************************************************************)
EXTENDS LumaModes, Integers

CONSTANTS
  Profiles, DefaultProfile, ServiceProfile,
  Standard, Night, Brief, Entry,   \* lengths of the transitions, in ticks
  TestLimit, SimulationLength      \* CHANNEL_TEST_TIMEOUT_MS, the duration of a simulation

ASSUME CoreAssumption ==
  /\ {DefaultProfile, ServiceProfile} \subseteq Profiles
  /\ {Standard, Night, Brief, Entry, TestLimit, SimulationLength} \subseteq Nat \ {0}
\* A transition, of seconds, is longer than a tick.
ASSUME LengthAssumption == 1 \notin {Standard, Night, Brief, Entry}

Least(a, b) == IF a < b THEN a ELSE b
DayState(at) == IF at = "night" THEN "night" ELSE "day"

\* A session: its levels, those shown last, and a timer; a timer of limit 0 is not armed.
\* Ages stop at the limit, as only "no less than the limit" is asked of them.
NoSession == [value |-> "none", last |-> "none", age |-> 0, limit |-> 0]
Opening(value, limit) == [value |-> value, last |-> value, age |-> 0, limit |-> limit]
Expired(s) == s.limit > 0 /\ s.age = s.limit

Still == [active |-> FALSE, from |-> <<"zero">>, age |-> 0, length |-> 0]
Moving(from, length) == [active |-> TRUE, from |-> from, age |-> 0, length |-> length]

Dark == [started |-> FALSE, seen |-> FALSE, valid |-> FALSE,
         requested |-> <<"zero">>, actual |-> <<"zero">>, tr |-> Still,
         lastMode |-> "Normal", lastProfile |-> DefaultProfile, day |-> "day", lastDay |-> "day"]

\* begin()
Begin == [modes |-> Reset, session |-> [o \in Overrides |-> NoSession], over |-> FALSE, light |-> Dark]

-----------------------------------------------------------------------------
(* The modes: c is the core before the call                                 *)

\* syncModeState: outside NORMAL and SERVICE the clock is not compared any more.
Synced(c) == [c EXCEPT !.light.seen = @ /\ c.modes.mode \in Bases]

Entered(c, o, session) ==
  IF CanOpen(c.modes, o)
  THEN Synced([c EXCEPT !.modes = Opened(@, o), !.session[o] = session])
  ELSE c
Left(c, o) ==
  IF CanClose(c.modes, o)
  THEN Synced([c EXCEPT !.modes = Closed(@, o), !.session[o] = NoSession])
  ELSE c
Changed(c, o, value) == IF c.modes.mode = o THEN [c EXCEPT !.session[o].value = value] ELSE c

\* enterService(), exitService()
ToBase(c, b) ==
  IF CanRebase(c.modes, b) THEN Synced([c EXCEPT !.modes = Rebased(@, b)]) ELSE c

EnterManual(c, value, limit) == Entered(c, "Manual", Opening(value, limit))
\* mutant: new levels restart the timer
RestartsTimer(c, value) ==
  [c EXCEPT !.session["Manual"] = Opening(value, c.session["Manual"].limit)]
SetManualLevels(c, value) == [c EXCEPT !.session["Manual"].value = value]
ExitManual(c) == Left(c, "Manual")

\* The timer of a test is armed by the first pass that shows it.
EnterChannelTest(c, value) == Entered(c, "ChannelTest", Opening(value, 0))
SetChannelTestLevel(c, value) == Changed(c, "ChannelTest", value)
ExitChannelTest(c) == Left(c, "ChannelTest")

EnterPreview(c, value) == Entered(c, "Preview", Opening(value, 0))
SetPreviewStage(c, value) == Changed(c, "Preview", value)
ExitPreview(c) == Left(c, "Preview")

\* The timer of a simulation is armed when the transition into it has ended.
EnterSimulation(c) == Entered(c, "Simulation", Opening("frame", 0))
ExitSimulation(c) == [Left(c, "Simulation") EXCEPT !.over = @ /\ ~CanClose(c.modes, "Simulation")]

EnterOff(c) ==
  IF c.modes.mode = "Off" THEN c
  ELSE Synced([c EXCEPT !.modes = SwitchedOff(@), !.over = FALSE,
                        !.session = [o \in Overrides |-> NoSession]])
ExitOff(c) ==
  IF c.modes.mode # "Off" THEN c
  ELSE Synced([c EXCEPT !.modes = SwitchedOn(@), !.light.started = FALSE])

-----------------------------------------------------------------------------
(* A pass, first part: the sessions that end by themselves                  *)

Older(s) == [s EXCEPT !.age = Least(@ + 1, s.limit)]
Aged(c) ==
  [c EXCEPT !.session = [o \in Overrides |-> Older(c.session[o])],
            !.light.tr.age = IF c.light.tr.active THEN Least(@ + 1, c.light.tr.length) ELSE @]

TestTimeout(c) ==
  LET s == c.session["ChannelTest"] IN
  IF c.modes.mode # "ChannelTest" THEN c
  ELSE IF s.limit = 0 THEN [c EXCEPT !.session["ChannelTest"].limit = TestLimit]
  ELSE IF Expired(s) THEN ExitChannelTest(c)
  ELSE c
ManualTimeout(c) ==
  IF c.modes.mode = "Manual" /\ Expired(c.session["Manual"]) THEN ExitManual(c) ELSE c
SimulationOver(c) ==
  IF c.modes.mode = "Simulation" /\ c.over THEN ExitSimulation(c) ELSE c

Timeouts(c) == SimulationOver(ManualTimeout(TestTimeout(Aged(c))))

-----------------------------------------------------------------------------
(* Second part: the levels, and whether they need a transition              *)

\* The lamp is dark while it is OFF or does not know the time.
Darkened(c) ==
  [c EXCEPT !.light = [@ EXCEPT !.started = FALSE, !.seen = FALSE, !.tr = Still,
                                !.requested = <<"zero">>, !.actual = <<"zero">>,
                                !.lastMode = c.modes.mode]]

Wanted(c, profile, at) ==
  IF c.modes.mode = "Simulation" THEN <<"frame", profile>>
  ELSE IF c.modes.mode \in Overrides THEN <<c.modes.mode, c.session[c.modes.mode].value>>
  ELSE <<"schedule", profile, at>>

\* The day state is that of the schedule; a simulation shows the day.
DayOf(c, at) ==
  IF c.modes.mode = "Simulation" THEN "day"
  ELSE IF c.modes.mode \in Bases THEN DayState(at)
  ELSE c.light.day

\* Sessions that were entered or left since the last pass, the first branch that asks for one.
Touched(c) == IF c.modes.mode = c.light.lastMode THEN {}
              ELSE {c.modes.mode, c.light.lastMode} \cap Overrides
BranchOrder == [Simulation |-> 1, Preview |-> 2, ChannelTest |-> 3, Manual |-> 4]
Branch(c) == CHOOSE o \in Touched(c) : \A p \in Touched(c) : BranchOrder[o] <= BranchOrder[p]
LengthOf == [Simulation |-> Entry, Preview |-> Brief, ChannelTest |-> Brief, Manual |-> Standard]
Selection(c) == c.modes.mode \in Overrides \ {"Simulation"}
Reselected(c) ==
  LET s == c.session[c.modes.mode] IN Selection(c) /\ s.value # s.last

\* The length of the transition that a pass starts, 0 for none.
TransitionLength(c, profile, at, jump) ==
  LET l == c.light IN
  IF ~l.started THEN Standard
  ELSE IF Touched(c) # {} THEN LengthOf[Branch(c)]
  ELSE IF Selection(c) THEN (IF Reselected(c) THEN Brief ELSE 0)
  ELSE IF profile # l.lastProfile THEN Standard
  ELSE IF DayOf(c, at) # l.lastDay THEN Night
  ELSE IF jump /\ Wanted(c, profile, at) # l.requested THEN Standard
  ELSE 0

\* TransitionEngine: where a transition to some levels is at its age.
Position(tr, to) ==
  IF tr.age = 0 THEN tr.from ELSE IF tr.age < tr.length THEN <<"mid">> ELSE to
CurrentLevels(l) == IF l.tr.active THEN Position(l.tr, l.requested) ELSE l.requested
\* mutant: a transition starts from the levels that were asked for
StartsAtRequested(l) == l.requested
StartFrom(l) == IF l.started THEN CurrentLevels(l) ELSE <<"zero">>

\* What a branch records for the comparisons of the next pass.
Recorded(c, profile, at) ==
  LET l == c.light
      afresh == ~l.started \/ Touched(c) # {} \/ (~Selection(c) /\ profile # l.lastProfile)
      shown == Selection(c) /\ (l.started /\ Touched(c) # {} => Branch(c) = c.modes.mode)
      mode == c.modes.mode
  IN [c EXCEPT !.light.lastMode = mode,
               !.light.lastProfile = IF afresh THEN profile ELSE @,
               !.light.lastDay = IF afresh \/ ~Selection(c) THEN DayOf(c, at) ELSE @,
               !.session = IF shown THEN [@ EXCEPT ![mode].last = c.session[mode].value] ELSE @]

\* The output, by way of the transition if there is one.
Output(l, tr, wanted) ==
  [l EXCEPT !.requested = wanted,
            !.actual = IF tr.active THEN Position(tr, wanted) ELSE wanted,
            !.tr = IF tr.active /\ tr.age < tr.length THEN tr ELSE Still]

Shown(c, profile, at, jump) ==
  LET length == TransitionLength(c, profile, at, jump)
      tr == IF length > 0 THEN Moving(StartFrom(c.light), length) ELSE c.light.tr
      noted == Recorded(c, profile, at)
  IN [noted EXCEPT !.light = [Output(@, tr, Wanted(c, profile, at)) EXCEPT
                                !.started = TRUE, !.valid = TRUE,
                                !.seen = c.modes.mode \in Bases, !.day = DayOf(c, at)]]

\* A simulation begins when its transition has ended, and is over when its time has passed.
SimulationNext(c) ==
  LET s == c.session["Simulation"]
      settled == c.modes.mode = "Simulation" /\ ~c.light.tr.active
  IN [c EXCEPT !.session["Simulation"].limit = IF settled THEN SimulationLength ELSE @,
               !.over = @ \/ (settled /\ Expired(s))]

\* update(), a tick after the last: the clock reads at or is invalid; jump: it moved by more than
\* a tick does.
Update(c, valid, profile, at, jump) ==
  LET ended == Timeouts(c) IN
  IF ended.modes.mode = "Off" THEN Darkened(ended)
  ELSE IF ~valid THEN [Darkened(ended) EXCEPT !.light.valid = FALSE]
  ELSE SimulationNext(Shown(ended, IF ended.modes.mode = "Service" THEN ServiceProfile ELSE profile,
                            at, jump /\ ended.light.seen /\ ended.modes.mode \in Bases))
===============================================================================
