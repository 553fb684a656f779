----------------------------- MODULE RealtimeStream -----------------------------
(***************************************************************************)
(* What a Luma device promises to a realtime client.  Over HTTP it serves   *)
(* its status with a watermark, the position in its stream.  A WebSocket    *)
(* gets a StreamStart with a position and then a notification for every     *)
(* position after it, in order, or it is cut.  The status is withheld while *)
(* it changes, and what is served at a position changes only with the       *)
(* position, except while nobody follows the stream.                        *)
(*                                                                         *)
(* A position is a pair of the runtime's identity and a number, 0 being     *)
(* BeforeFirst; contents are numbered in the order in which they are said.  *)
(* There is one client, with one connection at a time.                      *)
(***************************************************************************)
EXTENDS Naturals, Sequences, SequencesExt

CONSTANTS MaxContent,    \* bound: changes of what the status says
          MaxPosition,   \* bound: notifications of a runtime
          MaxRuntimes    \* bound: starts of the device

VARIABLES status,      \* what is served: its watermark and its content
          available,   \* FALSE: the answer is 503
          link,        \* down, dialing, up, cut (closed, but the client may not know yet)
          sent         \* positions sent over the link, the StreamStart's first

stream == <<status, available, link, sent>>
Status == [at : (1..MaxRuntimes) \X (0..MaxPosition), content : 0..MaxContent]
Later(at) == <<at[1], at[2] + 1>>

StreamInit ==
  /\ status = [at |-> <<1, 0>>, content |-> 0] /\ available = TRUE
  /\ link = "down" /\ sent = <<>>

\* The application publishes, withholds or serves the status.
At(position) == {s \in Status : s.at = position /\ s.content >= status.content}
Serve ==
  /\ available' \in BOOLEAN
  /\ \/ UNCHANGED status
     \/ ~available /\ status' \in At(Later(status.at))
     \/ ~available /\ link # "up" /\ status' \in At(status.at)
  /\ UNCHANGED <<link, sent>>

Start ==
  /\ link = "dialing" /\ link' = "up"
  /\ \E p \in 0..status.at[2] : sent' = <<<<status.at[1], p>>>>
  /\ UNCHANGED <<status, available>>
\* A notification may also repeat the StreamStart's position.
Behind == link = "up" /\ Last(sent) # status.at
FeedNext == Behind /\ sent' = Append(sent, Later(Last(sent))) /\ UNCHANGED <<status, available, link>>
FeedAgain ==
  /\ link = "up" /\ Len(sent) = 1 /\ sent[1][2] > 0
  /\ sent' = Append(sent, sent[1]) /\ UNCHANGED <<status, available, link>>
Cut == link \in {"dialing", "up"} /\ link' = "cut" /\ UNCHANGED <<status, available, sent>>

Reboot ==
  /\ status.at[1] < MaxRuntimes
  /\ status' \in At(<<status.at[1] + 1, 0>>)
  /\ available' = TRUE
  /\ link' = IF link = "down" THEN "down" ELSE "cut"
  /\ UNCHANGED sent

\* The client's side.
Dial == link = "down" /\ link' \in {"dialing", "cut"} /\ sent' = <<>> /\ UNCHANGED <<status, available>>
Hangup == link # "down" /\ link' = "down" /\ sent' = <<>> /\ UNCHANGED <<status, available>>

Device == Serve \/ Start \/ FeedNext \/ FeedAgain \/ Cut \/ Reboot
\* The status is served again, and a link is brought up to it or is cut.
DeviceKeepsUp == []<>available /\ []<>~Behind
StreamSpec == StreamInit /\ [][Device \/ Dial \/ Hangup]_stream /\ DeviceKeepsUp
=============================================================================
