----------------------------- MODULE NetworkService -----------------------------
(***************************************************************************)
(* NetworkService of aquaOneCore: one Wi-Fi station, as a record, with the  *)
(* two calls that change it.  Times are the ticks since a moment, None      *)
(* where the code holds none; they are not counted past Longest, which no   *)
(* comparison reaches.                                                      *)
(***************************************************************************)
EXTENDS Integers

None == -1
Backends == {"Connected", "Connecting", "Disconnected", "Error"}
\* The reasons the ESP reports that are worth a quick retry, and the others.
Reasons == {"none", "fast", "other"}

\* A time grows by a tick, up to a bound.
Older(t, bound) == IF t = None THEN None ELSE IF t < bound THEN t + 1 ELSE t
Longest(c) == IF c.interval > c.timeout THEN c.interval ELSE c.timeout

\* validateConfig()
ValidConfig(c) ==
  /\ c.sta => c.ssid /\ (c.auto => c.interval # 0)
  /\ c.ap => c.apSsid

Down(c) == [c |-> c, up |-> FALSE, failed |-> FALSE, state |-> "Disabled", ap |-> "Disabled",
            anchor |-> None, active |-> c.interval, conn |-> None, reason |-> "none", called |-> FALSE]

\* begin(), where "works" says which of the four calls to the radio succeed.
Begun(c, works) ==
  LET on == [Down(c) EXCEPT !.up = TRUE]
      lit == [on EXCEPT !.ap = IF c.ap THEN "Active" ELSE @]
      Bad(n) == [n EXCEPT !.state = "Error", !.failed = n.up]
  IN IF ~ValidConfig(c) THEN Bad(Down(c))
     ELSE IF ~c.sta /\ ~c.ap THEN on
     ELSE IF "radio" \notin works THEN Bad(Down(c))
     ELSE IF c.ap /\ "ap" \notin works THEN Bad([on EXCEPT !.ap = "Error"])
     ELSE IF ~c.sta THEN [lit EXCEPT !.state = "Idle"]
     ELSE IF {"host", "sta"} \subseteq works THEN [lit EXCEPT !.state = "Connecting"]
     ELSE Bad(lit)

\* observeDisconnected(): the first time, the wait is chosen; after it, the station is told to
\* reconnect, and the wait starts anew when it is next found disconnected.
Waits(n, reason) ==
  [n EXCEPT !.anchor = 0,
            !.active = IF reason = "fast" /\ n.c.fast > 0 THEN n.c.fast ELSE n.c.interval]
Reconnects(n, works) ==
  [n EXCEPT !.anchor = None, !.called = TRUE,
            !.state = IF works THEN "Connecting" ELSE "Error",
            !.conn = IF works THEN 0 ELSE None]
Disconnected(n, backend, reason, works) ==
  LET lost == [n EXCEPT !.conn = None, !.state = IF backend = "Error" THEN "Error" ELSE "Disconnected"]
  IN IF n.anchor = None THEN Waits(lost, reason)
     ELSE IF ~n.c.auto \/ n.anchor < n.active THEN lost
     ELSE Reconnects(lost, works)

ObservesConnected(n) == [n EXCEPT !.state = "Connected", !.anchor = None, !.conn = None]
\* mutant: the wait starts anew whenever the station tries by itself
ForgetsWait(n) ==
  [n EXCEPT !.state = "Connecting", !.anchor = None, !.conn = IF n.conn = None THEN 0 ELSE @]
ObservesConnecting(n) ==
  [n EXCEPT !.state = "Connecting", !.conn = IF n.conn = None THEN 0 ELSE @]
TimedOut(n) == n.conn # None /\ n.c.timeout > 0 /\ n.conn >= n.c.timeout

\* update(), a tick after the last one; "reason" is what consumeDisconnectReason() answers.
Updated(before, backend, reason, works) ==
  LET n == [before EXCEPT !.called = FALSE, !.anchor = Older(@, Longest(before.c)),
                          !.conn = Older(@, Longest(before.c))]
  IN IF ~n.up \/ n.failed \/ ~n.c.sta THEN n
     ELSE CASE backend = "Connected" -> ObservesConnected(n)
            [] backend = "Connecting" /\ ~TimedOut(n) -> ObservesConnecting(n)
            [] backend = "Connecting" /\ TimedOut(n) -> Disconnected(n, "Disconnected", reason, works)
            [] OTHER -> Disconnected(n, backend, reason, works)

\* Whether that update() asks for the reason, which is then forgotten unless another came meanwhile.
Consumes(before, backend) ==
  /\ before.up /\ ~before.failed /\ before.c.sta
  /\ \/ backend \in {"Disconnected", "Error"}
     \/ backend = "Connecting" /\ TimedOut([before EXCEPT !.conn = Older(@, Longest(before.c))])
=============================================================================
