----------------------------- MODULE MCHydroSense -----------------------------
(* Critical at 0 and low up to 2: levels 1 and 3 lie in the hysteresis bands. *)
EXTENDS HydroSense
MCLevels == {0, 1, 3, 4}
=============================================================================
