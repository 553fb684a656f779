---------------------------- MODULE MCRealtimeClient ----------------------------
(* RealtimeClient on a small instance. *)
EXTENDS RealtimeClient
=============================================================================
