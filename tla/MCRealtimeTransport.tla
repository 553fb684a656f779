--------------------------- MODULE MCRealtimeTransport ---------------------------
(* RealtimeTransport on a small instance. *)
EXTENDS RealtimeTransport
=============================================================================
