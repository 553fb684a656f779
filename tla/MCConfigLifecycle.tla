-------------------------- MODULE MCConfigLifecycle --------------------------
(* Three firmware releases, three settings: the defaults, a setting that    *)
(* can be applied live and one that needs a restart and that the first      *)
(* release does not accept.  Eight generations, so that a short run wraps.  *)
EXTENDS ConfigLifecycle

MCPayloads == {"default", "live", "restart"}
MCSchemas == {1, 2, 3}
MCAccepts == [v \in MCSchemas |-> IF v >= 2 THEN MCPayloads ELSE {"default", "live"}]
MCRestartOnly == {"restart"}
=============================================================================
