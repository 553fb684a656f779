----------------------------- MODULE RealtimeClient -----------------------------
(***************************************************************************)
(* Home Assistant's side of the realtime stream: LumaRealtimeClient and     *)
(* LumaCoordinator, over a device that keeps the promise of RealtimeStream. *)
(* A session connects, takes the StreamStart, reads a snapshot over HTTP    *)
(* while it collects the notifications that overlap it, and then reads      *)
(* again after each notification.  The coordinator's polls go on beside it; *)
(* a lock makes all reads one at a time.                                    *)
(*                                                                         *)
(* asyncio runs one callback at a time, and what the code does between two  *)
(* awaits is one step.  The arrival of an answer and what its reader does   *)
(* with it are one: no other read can be answered in between.               *)
(***************************************************************************)
EXTENDS RealtimeStream

CONSTANTS MaxAttempts,   \* max_resync_attempts
          MaxOverlap,    \* max_overlap_frames
          MaxFailures    \* bound: HTTP reads that fail
ASSUME ClientAssumption == {MaxAttempts, MaxOverlap, MaxFailures} \subseteq Nat

VARIABLES
  data, ok, blocked,   \* data, last_update_success, _realtime_capability_blocked
  \* where the session is (waiting: the supervisor sleeps), _realtime_live, its attempt
  phase, live, attempt,
  \* frames received; seen_position; what a refresh must reach; another one is needed
  taken, seen, minimum, dirty,
  readers, answer,     \* the snapshot lock, its holder first; what a reader is to receive
  failures

session == <<phase, live, attempt, taken, seen, minimum, dirty>>
shown == <<data, ok, blocked>>
reads == <<readers, answer>>
vars == <<stream, shown, session, reads, failures>>

Nowhere == <<0, 0>>
Readers == {"client", "poll"}
\* No answer yet, and no status in it
NoAnswer == [at |-> <<0, 0>>, content |-> 0]
Failed == [at |-> <<0, 1>>, content |-> 0]
Position == ((1..MaxRuntimes) \X (0..MaxPosition)) \cup {Nowhere}

\* compare_realtime_positions: positions of different runtimes have no order.
Older(a, b) == a[1] = b[1] /\ a[2] < b[2]
AtLeast(a, b) == a[1] = b[1] /\ a[2] >= b[2]
Newest(a, b) == IF Older(a, b) THEN b ELSE a

Init ==
  /\ StreamInit /\ data = status /\ ok = TRUE /\ blocked = FALSE
  /\ phase = "waiting" /\ live = FALSE /\ attempt = 0
  /\ taken = 0 /\ seen = Nowhere /\ minimum = Nowhere /\ dirty = FALSE
  /\ readers = <<>> /\ answer = [r \in Readers |-> NoAnswer] /\ failures = 0

-----------------------------------------------------------------------------
(* The snapshot lock and the requests                                       *)

\* mutant: reads overlap
HoldsAnyway(reader) == reader \in ToSet(readers)
Holds(reader) == readers # <<>> /\ Head(readers) = reader
Receives(reader) == answer[reader] # NoAnswer
Refreshing == "client" \in ToSet(readers)
Consumed(reader) == answer' = [answer EXCEPT ![reader] = NoAnswer]
\* There are two readers at most.
Others(reader) ==
  IF readers = <<>> THEN <<>>
  ELSE IF Head(readers) = reader THEN Tail(readers) ELSE <<Head(readers)>>
\* An answered or cancelled read gives the lock up.
Quits(reader) == readers' = Others(reader) /\ Consumed(reader)
\* The session reads, perhaps after a read that has just ended.
Reads == readers' = Append(Others("client"), "client")
\* The device answers with its status, or with 503; or the request fails.
AskFor(reader) ==
  /\ Holds(reader) /\ answer[reader] = NoAnswer
  /\ \/ available /\ answer' = [answer EXCEPT ![reader] = status] /\ UNCHANGED failures
     \/ failures < MaxFailures /\ failures' = failures + 1
        /\ answer' = [answer EXCEPT ![reader] = Failed]
  /\ UNCHANGED <<stream, shown, session, readers>>

Shows(snapshot) == data' = snapshot /\ ok' = TRUE /\ blocked' = FALSE
\* mutant: another runtime's position is taken for an older one
SameRuntime(snapshot) == AtLeast(snapshot.at, data.at)
\* _reject_stale_snapshot
Fresh(snapshot) == ~Older(snapshot.at, data.at)

-----------------------------------------------------------------------------
(* The session                                                              *)

\* An exception: the tasks are cancelled, and the socket is being closed.
Ends == phase' = "closing" /\ dirty' = FALSE /\ Quits("client")

\* _current_snapshot_allows_realtime, for a firmware with the stream
Allows == ~blocked /\ ok
Connect(n) ==
  /\ Dial /\ phase' = "starting" /\ attempt' = n
  /\ taken' = 0 /\ seen' = Nowhere /\ minimum' = Nowhere
  /\ UNCHANGED <<shown, reads, failures, live, dirty>>
Wake == phase = "waiting" /\ Allows /\ Connect(0)
Reconnect == phase = "backoff" /\ Allows /\ Connect(attempt + 1)
FallBack ==
  /\ phase = "backoff" /\ ~Allows /\ phase' = "waiting"
  /\ UNCHANGED <<stream, shown, reads, failures, live, attempt, taken, seen, minimum, dirty>>

StreamStart ==
  /\ phase = "starting" /\ taken < Len(sent) /\ taken' = 1
  /\ phase' = "resync" /\ Reads
  /\ UNCHANGED <<stream, shown, answer, failures, live, attempt, seen, minimum, dirty>>
Overlap ==
  /\ phase = "resync" /\ taken < Len(sent) /\ taken' = taken + 1
  /\ IF taken > MaxOverlap THEN Ends ELSE UNCHANGED <<phase, dirty, reads>>
  /\ UNCHANGED <<stream, shown, failures, live, attempt, seen, minimum>>

\* classify_notification; Nowhere is an error.
Advance(at, frame) ==
  IF frame = Later(at) THEN frame
  ELSE IF AtLeast(at, frame) THEN at ELSE Nowhere
\* Where the frames that came while the snapshot was read lead from its position: the position
\* after each of them, unless one is an error
Trails(at) ==
  {trail \in [1..taken -> Position \ {Nowhere}] :
     trail[1] = at /\ \A i \in 2..taken : trail[i] = Advance(trail[i - 1], sent[i])}
Resynced(at) == {trail[taken] : trail \in Trails(at)}
Resync ==
  /\ phase = "resync" /\ Receives("client")
  /\ LET snapshot == answer["client"]
         valid == snapshot # Failed /\ AtLeast(snapshot.at, sent[1]) /\ Fresh(snapshot)
     IN \/ /\ valid /\ Shows(snapshot) /\ phase' = "live" /\ live' = TRUE
           /\ \E at \in Resynced(snapshot.at) :
                /\ seen' = at
                /\ IF at # snapshot.at THEN Reads /\ Consumed("client") /\ minimum' = at
                                       ELSE Quits("client") /\ UNCHANGED minimum
           /\ UNCHANGED dirty
        \/ /\ ~valid \/ Resynced(snapshot.at) = {}
           /\ Ends /\ UNCHANGED <<shown, live, seen, minimum>>
  /\ UNCHANGED <<stream, failures, attempt, taken>>

\* mutant: a notification that comes during a refresh asks for no other
StaysClean == UNCHANGED dirty
BecomesDirty == dirty' = TRUE
Notification ==
  /\ phase = "live" /\ taken < Len(sent) /\ taken' = taken + 1
  /\ LET at == Advance(seen, sent[taken'])
     IN IF at = Nowhere THEN Ends /\ UNCHANGED <<seen, minimum>>
        ELSE IF at = seen THEN UNCHANGED <<phase, dirty, reads, seen, minimum>>
        ELSE /\ seen' = at
             /\ IF Refreshing THEN BecomesDirty /\ UNCHANGED <<reads, minimum>>
                              ELSE Reads /\ minimum' = at /\ UNCHANGED <<answer, dirty>>
             /\ UNCHANGED phase
  /\ UNCHANGED <<stream, shown, failures, live, attempt>>
Refresh ==
  /\ phase = "live" /\ Receives("client")
  /\ LET snapshot == answer["client"]
     IN IF snapshot # Failed /\ AtLeast(snapshot.at, minimum) /\ Fresh(snapshot)
          THEN /\ Shows(snapshot) /\ seen' = Newest(seen, snapshot.at)
               /\ IF dirty THEN Reads /\ Consumed("client") /\ minimum' = seen'
                           ELSE Quits("client") /\ UNCHANGED minimum
               /\ dirty' = FALSE /\ UNCHANGED phase
          ELSE Ends /\ UNCHANGED <<shown, seen, minimum>>
  /\ UNCHANGED <<stream, failures, live, attempt, taken>>

\* The socket is closed, or the connection, its StreamStart or the resynchronisation takes too long.
Lost ==
  /\ \/ phase \in {"starting", "resync", "live"} /\ link \in {"cut", "down"}
     \/ phase \in {"starting", "resync"}
  /\ Ends
  /\ UNCHANGED <<stream, shown, failures, live, attempt, taken, seen, minimum>>
Closed ==
  /\ phase = "closing"
  /\ \/ Hangup
     \/ link = "down" /\ UNCHANGED stream
  /\ phase' = IF attempt + 1 < MaxAttempts THEN "backoff" ELSE "waiting"
  /\ live' = FALSE /\ taken' = 0
  /\ UNCHANGED <<shown, reads, failures, attempt, seen, minimum, dirty>>

Session == Wake \/ Reconnect \/ FallBack \/ StreamStart \/ Overlap \/ Resync \/ Notification
           \/ Refresh \/ Lost \/ Closed

-----------------------------------------------------------------------------
(* The coordinator's polls                                                  *)

Poll ==
  /\ "poll" \notin ToSet(readers) /\ readers' = Append(readers, "poll")
  /\ UNCHANGED <<stream, shown, session, answer, failures>>
\* UpdateFailed.  async_request_resync closes the socket, which the session will notice.
PollFails ==
  /\ blocked' = TRUE /\ ok' = FALSE /\ UNCHANGED <<data, seen>>
  /\ IF live /\ link # "down" THEN Hangup /\ taken' = 0 ELSE UNCHANGED <<stream, taken>>
Polled ==
  /\ Receives("poll") /\ Quits("poll")
  /\ LET snapshot == answer["poll"]
     IN IF snapshot # Failed /\ Fresh(snapshot) /\ (live => AtLeast(snapshot.at, seen))
          THEN /\ Shows(snapshot) /\ UNCHANGED <<stream, taken>>
               /\ seen' = IF live THEN Newest(seen, snapshot.at) ELSE seen
          ELSE PollFails
  /\ UNCHANGED <<phase, live, attempt, minimum, dirty, failures>>

-----------------------------------------------------------------------------
Ask == \E reader \in Readers : AskFor(reader)
Next == Session \/ Poll \/ Ask \/ Polled \/ (Device /\ UNCHANGED <<shown, session, reads, failures>>)
\* The session and the polls go on, and not every request fails or meets a 503.
Fairness == WF_vars(Session) /\ WF_vars(Poll) /\ SF_vars(Ask) /\ WF_vars(Polled) /\ DeviceKeepsUp
Spec == Init /\ [][Next]_vars /\ Fairness

(***************************************************************************)
(* No notification is forgotten: a live session that is not reading shows   *)
(* at least what it has been told of, and when it has received all that the *)
(* device had to send, it shows the device's status                         *)
(* (LumaRealtimeClient._async_resync, _async_live).                         *)
(***************************************************************************)
InSync == phase = "live" /\ ~Refreshing =>
  /\ AtLeast(data.at, seen)
  /\ link = "up" /\ ~Behind /\ taken = Len(sent) => data = status

(***************************************************************************)
(* What is shown never goes back: to an older position of its runtime, to a *)
(* former runtime, or to what was said before at the same position          *)
(* (LumaCoordinator._reject_stale_snapshot and its snapshot lock).          *)
(***************************************************************************)
NeverBack == [][/\ data'.at[1] >= data.at[1] /\ ~Older(data'.at, data.at)
                /\ data'.content >= data.content]_vars

(***************************************************************************)
(* When the device has stopped changing and requests no longer fail, its    *)
(* status is shown for good, whatever became of the stream: polls go on     *)
(* when sessions fail (LumaCoordinator, async_run).                         *)
(***************************************************************************)
CatchesUp == <>[](data = status /\ ok)
=============================================================================
