----------------------------- MODULE LumaFirmware -----------------------------
(***************************************************************************)
(* FirmwareApp and the main loop of the Luma lamp: each tick passes the     *)
(* time to the core and its levels to the lamp, and after it at most one    *)
(* request is carried out.  A driver call that fails stops                 *)
(* the firmware for good: only a reboot tries the lamp again.  The storage  *)
(* is not part of it: a boot finds any profile or falls back to the default *)
(* one, and storing a choice succeeds or fails.  The clock's readings are   *)
(* three points of a day, between which LumaSchedule's light moves smoothly.*)
(***************************************************************************)
EXTENDS LumaCore, LumaLamp, LumaSchedule

CONSTANTS
  Levels,         \* levels that are set by hand, tested or previewed
  ManualLimits,   \* timeouts of a manual session, in ticks; 0 for none,
                  \* and none that is over before a pass has shown it
  MaxNested,      \* bound: sessions open at a time
  Faults          \* sets of driver calls that fail together

ASSUME FirmwareAssumption ==
  /\ ManualLimits \subseteq Nat \ {1} /\ MaxNested \in Nat
  /\ Faults \subseteq SUBSET (Channels \X Calls) /\ {} \in Faults

\* The three ways of turning a channel off do not all fail at once.
ASSUME FaultAssumption ==
  \A fail \in Faults, c \in Channels :
    \/ <<c, "write">> \notin fail
    \/ <<c, "stop">> \notin fail
    \/ <<c, "detach">> \notin fail /\ <<c, "level">> \notin fail

Points == {"morning", "evening", "night"}
\* How the clock moves from one reading to the next when it does not jump.
Drifts == {<<p, p>> : p \in Points} \cup {<<"evening", "night">>, <<"night", "morning">>}

VARIABLES
  core,       \* LumaCore
  profile,    \* config_.activeProfileIndex
  running,    \* status_.running
  lamp,       \* AqmaHardware
  at,         \* the clock's last valid reading
  phase       \* of loop(): the lamp's pass, or the web's request

vars == <<core, profile, running, lamp, at, phase>>

ColdLamp == [ready |-> FALSE, attached |-> {}, held |-> {}, lit |-> {}]

\* Bound: drivers fail only while no session is open; the lamp is driven the same in all modes.
FaultsNow == IF core.modes.open = {} THEN Faults ELSE {{}}

\* begin(): the configuration, then the lamp, then the core; the first pass reads the time.
Starts(fail) ==
  LET begun == Begun(lamp, fail) IN
  /\ profile' \in Profiles
  /\ running' = begun.ready
  /\ lamp' = IF begun.ready THEN begun ELSE AllOff(begun, fail)
  /\ core' = Begin
  /\ phase' = "pass"
  /\ UNCHANGED at

Init ==
  /\ core = Begin /\ profile = DefaultProfile
  /\ running = FALSE /\ lamp = ColdLamp /\ at = "morning" /\ phase = "pass"

\* setup(), after the power came on or the controller was reset.
\* Nothing survives it, so it may as well come before a pass.
Reboot == phase = "pass" /\ \E fail \in FaultsNow : Starts(fail)

\* enterHardwareFailSafe(): the core is not read again before the next begin(), and is forgotten.
FailSafe(left, fail) ==
  /\ running' = FALSE /\ lamp' = AllOff(left, fail) /\ core' = Begin

\* writeOutputs(): zero is OFF on every channel, other levels light those that are enabled.
Bright(l) == IF l.actual = <<"zero">> THEN {} ELSE Channels
Blank(c) == ~c.light.valid \/ c.modes.mode = "Off"
Outputs(c, fail) == IF Blank(c) THEN AllOff(lamp, fail) ELSE Written(lamp, Bright(c.light), fail)
OutputsOk(c, fail) == IF Blank(c) THEN AllOffOk(lamp, fail) ELSE WriteOk(lamp, fail)

\* update(): the lamp goes on before anything else in a tick.
Pass(valid, next) ==
  /\ running /\ phase = "pass" /\ phase' = "web" /\ at' = next /\ UNCHANGED profile
  /\ LET after == Update(core, valid, profile, next, <<at, next>> \notin Drifts) IN
     \E fail \in FaultsNow :
       IF OutputsOk(after, fail)
       THEN core' = after /\ lamp' = Outputs(after, fail) /\ UNCHANGED running
       ELSE FailSafe(Outputs(after, fail), fail)

Tick == (\E next \in Points : Pass(TRUE, next)) \/ Pass(FALSE, at)

-----------------------------------------------------------------------------
(* Requests                                                                 *)

Web == phase = "web" /\ phase' = "pass"
NoRequest == Web /\ UNCHANGED <<core, profile, running, lamp, at>>
Request == Web /\ running
OnCore(after) ==
  /\ Cardinality(after.modes.open) <= MaxNested
  /\ core' = after /\ UNCHANGED <<profile, running, lamp, at>>

\* The modes a page can ask for.
OnOffer == {"Normal", "Service", "Off"}

\* reflectsMode: the mode is in force, or comes when the session in charge ends.
Reflects(m, mode) == m.mode = mode \/ (mode # "Off" /\ m.back = mode)

CommandMode(mode) ==
  /\ Request /\ ~Reflects(core.modes, mode)
  /\ OnCore(IF mode = "Off" THEN EnterOff(core)
            ELSE IF core.modes.mode = "Off" /\ mode = "Normal" THEN ExitOff(core)
            ELSE ToBase(core, mode))

\* A lamp under manual control takes new levels; its timer goes on.
CommandManual(value, limit) ==
  /\ Request
  /\ OnCore(IF core.modes.mode = "Manual" THEN SetManualLevels(core, value)
            ELSE EnterManual(core, value, limit))

CommandExitManual == Request /\ core.modes.mode = "Manual" /\ OnCore(ExitManual(core))

\* The choice is stored before it is used; when storing fails nothing changes.
SetActiveProfileIndex(p) ==
  /\ Request /\ p # profile
  /\ profile' \in {p, profile}
  /\ UNCHANGED <<core, running, lamp, at>>

\* core(): the sessions that no page offers yet.
Sessions ==
  /\ Request
  /\ \/ \E v \in Levels : \/ OnCore(EnterChannelTest(core, v))
                          \/ OnCore(SetChannelTestLevel(core, v))
                          \/ OnCore(EnterPreview(core, v))
                          \/ OnCore(SetPreviewStage(core, v))
     \/ OnCore(ExitChannelTest(core))
     \/ OnCore(ExitPreview(core))
     \/ OnCore(EnterSimulation(core))
     \/ OnCore(ExitSimulation(core))

Select == \E p \in Profiles : SetActiveProfileIndex(p)

Next ==
  \/ Reboot
  \/ Tick
  \/ NoRequest
  \/ \E mode \in OnOffer : CommandMode(mode)
  \/ \E v \in Levels, limit \in ManualLimits : CommandManual(v, limit)
  \/ CommandExitManual
  \/ Select
  \/ Sessions

\* loop() runs for ever.
Spec == Init /\ [][Next]_vars /\ WF_phase(running /\ phase' = IF phase = "web" THEN "pass" ELSE "web")

-----------------------------------------------------------------------------
\* The sessions of the lamp are nested, as ModeStack promises: the open ones, in the order of
\* their priority, are a stack that ends from the top (ModeManager::refreshCurrentAndReturn).
Only(o) == IF o \in core.modes.open THEN <<o>> ELSE <<>>
Stack == Only("Simulation") \o Only("Preview") \o Only("Manual") \o Only("ChannelTest")
Promise == INSTANCE ModeStack WITH
  stack <- Stack, base <- core.modes.base, off <- core.modes.mode = "Off",
  mode <- core.modes.mode, back <- core.modes.back
ModeSpec == Promise!Spec

\* The light never jumps: whatever is entered, left, selected or read from the clock, a pass of a
\* lit lamp shows what the last one showed, or what a transition under way has reached since.
Smooth ==
  [][LET l == core.light  n == core'.light IN
     n.started => \/ n.actual = l.actual
                  \/ /\ l.tr.active
                     /\ n.actual = IF l.tr.age + 1 < l.tr.length THEN <<"mid">> ELSE l.requested]_core

\* A lamp shines only while the firmware runs and shows a level above zero: OFF, an invalid time
\* and a failing driver leave no channel lit, even if two calls of the driver fail together.
LitByCore ==
  lamp.lit # {} => running /\ Bright(core.light) # {} /\ (phase = "web" => ~Blank(core))

\* What the clock does alone, it does smoothly: a lamp that follows its schedule shows a light that
\* never jumps within a day (DayEngine), and a clock that only goes on is never taken for one that
\* was set, nor the reverse (LumaCore::isSignificantTimeJump).
ClockRunsSmoothly == core.modes.mode = "Normal" => Seamless /\ JumpsSeen

\* Sessions with an end come to it, whatever else is entered, left or invalid in the meantime: a
\* channel test, a timed manual session, and a simulation that stays in charge of a lamp that
\* knows the time, unless profiles are selected for ever.
SessionsEnd ==
  /\ core.modes.mode = "ChannelTest" ~> core.modes.mode # "ChannelTest"
  /\ "Manual" \in core.modes.open /\ core.session["Manual"].limit > 0
       ~> "Manual" \notin core.modes.open
  /\ <>[](core.modes.mode = "Simulation" /\ core.light.valid) => []<><<profile' # profile>>_profile
==============================================================================
