-------------------------- MODULE MCCommandBridge --------------------------
(* A small instance of CommandBridge for TLC: two producers, which submit  *)
(* three commands between them, share two slots, so that a timed-out        *)
(* command can still occupy the slot its producer's next command needs.     *)
EXTENDS CommandBridge

CONSTANTS p1, p2

MCProducers == {p1, p2}
=============================================================================
