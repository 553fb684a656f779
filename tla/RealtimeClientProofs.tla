-------------------------- MODULE RealtimeClientProofs --------------------------
(***************************************************************************)
(* What Home Assistant shows of a Luma: proofs about RealtimeClient.        *)
(*                                                                         *)
(* The lock lets only its head have an answer, so that every answer is at   *)
(* least as new as what is shown when it arrives, and what was read while a *)
(* link is up is what the device still serves at that position.             *)
(***************************************************************************)
EXTENDS RealtimeClient, SequenceTheorems, TLAPS

Place == Nat \X Nat
Snapshot == [at : Place, content : Nat]
Queues == {<<>>, <<"client">>, <<"poll">>, <<"client", "poll">>, <<"poll", "client">>}
Phases == {"waiting", "starting", "resync", "live", "closing", "backoff"}

TypeOK ==
  /\ status \in Snapshot /\ status.at[1] # 0
  /\ link \in {"down", "dialing", "up", "cut"} /\ sent \in Seq(Place)
  /\ data \in Snapshot
  /\ phase \in Phases /\ live \in BOOLEAN
  /\ taken \in Nat /\ seen \in Place /\ minimum \in Place /\ dirty \in BOOLEAN
  /\ readers \in Queues /\ answer \in [Readers -> Snapshot]

\* A link that is up has been sent its StreamStart; frames are received in their order.
Linked ==
  /\ link = "up" => sent # <<>>
  /\ link \in {"down", "dialing"} => sent = <<>>
  /\ taken <= Len(sent)

\* When a session has frames, when it is live, and when it reads.
Placed ==
  /\ phase = "resync" => taken # 0
  /\ phase = "live" /\ link # "down" => taken # 0
  /\ phase = "live" => live
  /\ live => phase \in {"live", "closing"}
  /\ Refreshing => phase \in {"resync", "live"}

\* Only the holder of the lock has an answer.
Locked == \A r \in Readers : answer[r] # NoAnswer => Holds(r)

\* b was said after a, or at the same time.
Follows(b, a) ==
  /\ a.at[1] <= b.at[1]
  /\ a.at[1] = b.at[1] => a.at[2] <= b.at[2]
  /\ a.content <= b.content
Answered(r) == answer[r] # NoAnswer /\ answer[r] # Failed
Ordered ==
  /\ Follows(status, data)
  /\ \A r \in Readers : Answered(r) => Follows(answer[r], data) /\ Follows(status, answer[r])

\* What was read while the link was up is still what the device says there.
Says(snapshot) == snapshot.at = status.at => snapshot = status
Settled ==
  /\ phase = "resync" /\ link = "up" => Says(answer["client"])
  /\ phase = "live" /\ link = "up" => Says(data) /\ \A r \in Readers : Says(answer[r])

\* A live session has seen what it has received.  What it reads, or already shows, reaches that,
\* unless it is to read again.
Reaches ==
  phase = "live" =>
    /\ link # "down" => AtLeast(seen, sent[taken])
    /\ Refreshing => minimum[1] = seen[1] /\ (dirty \/ AtLeast(minimum, seen) \/ AtLeast(data.at, seen))
    /\ ~Refreshing => AtLeast(data.at, seen)

IInv == TypeOK /\ Linked /\ Placed /\ Locked /\ Ordered /\ Settled /\ Reaches

-----------------------------------------------------------------------------
(* The queue of readers *)

ClientReads == {<<"client">>, <<"client", "poll">>, <<"poll", "client">>}
ClientFirst == {<<"client">>, <<"client", "poll">>}
PollFirst == {<<"poll">>, <<"poll", "client">>}

LEMMA Queued ==
  ASSUME readers \in Queues
  PROVE  /\ Refreshing <=> readers \in ClientReads
         /\ Holds("client") <=> readers \in ClientFirst
         /\ Holds("poll") <=> readers \in PollFirst
BY DEF Queues, Refreshing, Holds, ToSet, ClientReads, ClientFirst, PollFirst

LEMMA QueuedThen ==
  ASSUME readers' \in Queues
  PROVE  /\ Refreshing' <=> readers' \in ClientReads
         /\ Holds("client")' <=> readers' \in ClientFirst
         /\ Holds("poll")' <=> readers' \in PollFirst
BY DEF Queues, Refreshing, Holds, ToSet, ClientReads, ClientFirst, PollFirst

LEMMA OthersThan ==
  ASSUME readers \in Queues
  PROVE  /\ Others("client") \in {<<>>, <<"poll">>}
         /\ Others("poll") \in {<<>>, <<"client">>}
         /\ Others("poll") = <<"client">> <=> readers \in ClientReads
         /\ ~Refreshing => Others("client") = readers
         /\ readers = <<"poll", "client">> => Others("poll") = <<"client">>
         /\ readers \in PollFirst => Others("client") = <<"poll">>
<1>1. CASE readers = <<>>
  BY <1>1, Queued DEF Queues, Others, ClientReads, PollFirst
<1>2. CASE readers = <<"client">>
  BY <1>2, Queued DEF Queues, Others, ClientReads, PollFirst
<1>3. CASE readers = <<"poll">>
  BY <1>3, Queued DEF Queues, Others, ClientReads, PollFirst
<1>4. CASE readers = <<"client", "poll">>
  BY <1>4, Queued DEF Queues, Others, ClientReads, PollFirst
<1>5. CASE readers = <<"poll", "client">>
  BY <1>5, Queued DEF Queues, Others, ClientReads, PollFirst
<1>6. QED
  BY <1>1, <1>2, <1>3, <1>4, <1>5 DEF Queues

LEMMA AppendFirst ==
  ASSUME NEW x
  PROVE  Append(<<>>, x) = <<x>>
<1>1. <<>> \in Seq({x}) /\ <<x>> \in Seq({x}) /\ Len(<<x>>) = 1 /\ <<x>>[1] = x
  OBVIOUS
<1>2. /\ Append(<<>>, x) \in Seq({x}) /\ Len(Append(<<>>, x)) = 1
      /\ Append(<<>>, x)[1] = x
  BY <1>1, AppendProperties
<1>3. QED
  BY <1>1, <1>2, SeqEqual

LEMMA AppendSecond ==
  ASSUME NEW x, NEW y
  PROVE  Append(<<x>>, y) = <<x, y>>
<1>1. <<x>> \in Seq({x, y}) /\ <<x, y>> \in Seq({x, y})
  OBVIOUS
<1>2. Len(<<x>>) = 1 /\ Len(<<x, y>>) = 2 /\ <<x>>[1] = x /\ <<x, y>>[1] = x /\ <<x, y>>[2] = y
  OBVIOUS
<1>3. /\ Append(<<x>>, y) \in Seq({x, y}) /\ Len(Append(<<x>>, y)) = 2
      /\ Append(<<x>>, y)[1] = x /\ Append(<<x>>, y)[2] = y
  BY <1>1, <1>2, AppendProperties
<1>4. \A i \in 1..Len(Append(<<x>>, y)) : Append(<<x>>, y)[i] = <<x, y>>[i]
  BY <1>2, <1>3
<1>5. QED
  BY <1>1, <1>2, <1>3, <1>4, SeqEqual

LEMMA Appended ==
  ASSUME readers \in Queues
  PROVE  /\ Append(Others("client"), "client") \in {<<"client">>, <<"poll", "client">>}
         /\ "poll" \notin ToSet(readers) =>
              /\ Append(readers, "poll") \in {<<"poll">>, <<"client", "poll">>}
              /\ Append(readers, "poll") \in ClientReads <=> readers \in ClientReads
         /\ readers \in PollFirst
              => Append(Others("client"), "client") = <<"poll", "client">>
<1>1. /\ Append(<<>>, "client") = <<"client">>
      /\ Append(<<"poll">>, "client") = <<"poll", "client">>
      /\ Append(<<>>, "poll") = <<"poll">>
      /\ Append(<<"client">>, "poll") = <<"client", "poll">>
  BY AppendFirst, AppendSecond
<1>2. "poll" \notin ToSet(readers) => readers \in {<<>>, <<"client">>}
  BY DEF Queues, ToSet
<1>3. <<"client">> \in ClientReads /\ <<"client", "poll">> \in ClientReads
      /\ <<"poll">> \notin ClientReads /\ <<>> \notin ClientReads
  BY DEF ClientReads
<1>4. Append(Others("client"), "client") \in {<<"client">>, <<"poll", "client">>}
  BY <1>1, OthersThan
<1>5. ASSUME "poll" \notin ToSet(readers)
      PROVE  /\ Append(readers, "poll") \in {<<"poll">>, <<"client", "poll">>}
             /\ Append(readers, "poll") \in ClientReads <=> readers \in ClientReads
  <2>1. CASE readers = <<>>
    BY <2>1, <1>1, <1>3
  <2>2. CASE readers = <<"client">>
    BY <2>2, <1>1, <1>3
  <2>3. QED
    BY <1>2, <1>5, <2>1, <2>2
<1>6. readers \in PollFirst => Append(Others("client"), "client") = <<"poll", "client">>
  BY <1>1, OthersThan
<1>7. QED
  BY <1>4, <1>5, <1>6

-----------------------------------------------------------------------------
(* The device's steps *)

LEMMA SamePlace ==
  ASSUME NEW a \in Place, NEW b \in Place, a[1] = b[1], a[2] = b[2]
  PROVE  a = b
BY DEF Place

\* What a step of the device leaves alone
Kept == UNCHANGED <<shown, session, reads, failures>>

LEMMA KeepsQueue ==
  ASSUME Kept
  PROVE  /\ Refreshing' = Refreshing
         /\ \A r \in Readers : Holds(r)' = Holds(r)
<1>1. readers' = readers
  BY DEF Kept, reads
<1>2. QED
  BY <1>1 DEF Refreshing, Holds

LEMMA InitInv == Init => IInv
<1> SUFFICES ASSUME Init
             PROVE  IInv
  OBVIOUS
<1> USE DEF Init, StreamInit
<1>1. TypeOK
  <2>1. <<1, 0>> \in Place /\ <<0, 0>> \in Place /\ <<1, 0>>[1] # 0
    BY DEF Place
  <2>2. status \in Snapshot /\ data \in Snapshot /\ NoAnswer \in Snapshot
    BY <2>1 DEF Snapshot, NoAnswer
  <2>3. status.at[1] # 0 /\ sent \in Seq(Place) /\ answer \in [Readers -> Snapshot]
    BY <2>2
  <2>4. /\ link \in {"down", "dialing", "up", "cut"} /\ phase \in Phases /\ readers \in Queues
        /\ live \in BOOLEAN /\ dirty \in BOOLEAN /\ taken \in Nat
        /\ seen \in Place /\ minimum \in Place
    BY <2>1 DEF Phases, Queues, Nowhere
  <2>5. QED
    BY <2>2, <2>3, <2>4 DEF TypeOK
<1>2. Linked /\ Placed
  BY DEF Linked, Placed, Refreshing, ToSet
<1>3. Locked /\ Settled /\ Reaches
  BY DEF Locked, Settled, Reaches, Readers
<1>4. Ordered
  BY DEF Ordered, Follows, Answered, Readers
<1>5. QED
  BY <1>1, <1>2, <1>3, <1>4 DEF IInv

\* Steps of the device that leave the status alone
LEMMA FeedInv ==
  ASSUME IInv, Start \/ FeedNext \/ FeedAgain \/ Cut, Kept
  PROVE  IInv'
<1> USE DEF IInv
<1>1. UNCHANGED status
  BY DEF Start, FeedNext, FeedAgain, Cut
<1>2. /\ sent' \in Seq(Place) /\ Len(sent) <= Len(sent') /\ link' \in {"up", "cut"}
      /\ link' = "up" => sent' # <<>>
      /\ \A i \in 1..Len(sent) : sent'[i] = sent[i]
      /\ link' = "up" => link = "up" \/ sent = <<>>
      /\ link # "down"
  <2>1. CASE Start
    BY <2>1 DEF Start, TypeOK, Linked, Snapshot, Place
  <2>2. CASE FeedNext
    <3>1. link = "up" /\ sent # <<>>
      BY <2>2 DEF FeedNext, Behind, Linked
    <3>2. Len(sent) \in Nat /\ Len(sent) # 0 /\ Last(sent) \in Place
      BY <3>1 DEF TypeOK, Last
    <3>3. Later(Last(sent)) \in Place
      BY <3>2 DEF Later, Place
    <3>4. QED
      BY <2>2, <3>1, <3>2, <3>3, AppendProperties DEF FeedNext, TypeOK
  <2>3. CASE FeedAgain
    <3>1. link = "up" /\ sent # <<>> /\ Len(sent) = 1 /\ sent[1] \in Place
      BY <2>3 DEF FeedAgain, Linked, TypeOK
    <3>2. QED
      BY <2>3, <3>1, AppendProperties DEF FeedAgain, TypeOK
  <2>4. CASE Cut
    BY <2>4 DEF Cut, TypeOK, Linked
  <2>5. QED
    BY <2>1, <2>2, <2>3, <2>4
<1>3. TypeOK'
  BY <1>1, <1>2 DEF TypeOK, Kept, shown, session, reads
<1>4. Linked'
  BY <1>2 DEF Linked, TypeOK, Kept, session
<1>5. Placed'
  BY <1>2, KeepsQueue DEF Placed, Kept, session
<1>6. Locked'
  BY KeepsQueue DEF Locked, Kept, reads
<1>7. Ordered'
  BY <1>1 DEF Ordered, Answered, Follows, Kept, shown, reads
<1>8. Settled'
  BY <1>1, <1>2 DEF Settled, Says, Linked, Placed, TypeOK, Kept, shown, session, reads
<1>9. Reaches'
  BY <1>1, <1>2, KeepsQueue DEF Reaches, Linked, Placed, TypeOK, Kept, shown, session, reads
<1>10. QED
  BY <1>3, <1>4, <1>5, <1>6, <1>7, <1>8, <1>9

LEMMA FollowsOn ==
  ASSUME NEW a \in Snapshot, NEW b \in Snapshot, NEW c \in Snapshot, Follows(b, a), Follows(c, b)
  PROVE  Follows(c, a)
BY DEF Follows, Snapshot, Place

LEMMA ServeInv ==
  ASSUME IInv, Serve \/ Reboot, Kept
  PROVE  IInv'
<1> USE DEF IInv
<1>1. /\ UNCHANGED sent /\ status' \in Snapshot /\ status'.at[1] # 0
      /\ Follows(status', status)
      /\ link' = link \/ (link # "down" /\ link' = "cut")
      /\ link' = "up" => link = "up" /\ (status' = status \/ status'.at = Later(status.at))
  <2>1. CASE Serve
    <3>1. CASE UNCHANGED status
      BY <2>1, <3>1 DEF Serve, Follows, TypeOK, Snapshot, Place
    <3>2. CASE status' \in At(Later(status.at))
      BY <2>1, <3>2 DEF Serve, At, Status, Later, Follows, TypeOK, Snapshot, Place
    <3>3. CASE link # "up" /\ status' \in At(status.at)
      BY <2>1, <3>3 DEF Serve, At, Status, Follows, TypeOK, Snapshot, Place
    <3>4. QED
      BY <2>1, <3>1, <3>2, <3>3 DEF Serve
  <2>2. CASE Reboot
    BY <2>2 DEF Reboot, At, Status, Follows, TypeOK, Snapshot, Place
  <2>3. QED
    BY <2>1, <2>2
<1>2. TypeOK'
  BY <1>1 DEF TypeOK, Kept, shown, session, reads
<1>3. Linked' /\ Placed'
  BY <1>1, KeepsQueue DEF Linked, Placed, Kept, session
<1>4. Locked'
  BY KeepsQueue DEF Locked, Kept, reads
<1>5. Ordered'
  <2>1. UNCHANGED <<data, answer>> /\ {status, status', data} \subseteq Snapshot
    BY <1>1 DEF TypeOK, Kept, shown, reads
  <2>2. Follows(status', data)
    BY <1>1, <2>1, FollowsOn DEF Ordered
  <2>3. ASSUME NEW r \in Readers, Answered(r)
        PROVE  Follows(answer[r], data) /\ Follows(status', answer[r])
    <3>1. answer[r] \in Snapshot
      BY DEF TypeOK
    <3>2. Follows(answer[r], data) /\ Follows(status, answer[r])
      BY <2>3 DEF Ordered
    <3> QED
      BY <1>1, <2>1, <3>1, <3>2, FollowsOn
  <2> QED
    BY <2>1, <2>2, <2>3 DEF Ordered, Answered
<1>6. Settled'
  <2>1. ASSUME link' = "up", NEW x \in Snapshot, Follows(status, x) \/ x.at[1] = 0, x.at = status.at => x = status
        PROVE  x.at = status'.at => x = status'
    BY <1>1, <2>1 DEF Follows, Later, TypeOK, Snapshot, Place
  <2>2. /\ data \in Snapshot /\ Follows(status, data)
        /\ \A r \in Readers : /\ answer[r] \in Snapshot
                              /\ Follows(status, answer[r]) \/ answer[r].at[1] = 0
    BY DEF Ordered, Answered, TypeOK, NoAnswer, Failed
  <2>3. link' = "up" => link = "up"
    BY <1>1
  <2>4. UNCHANGED <<data, phase, answer>>
    BY DEF Kept, shown, session, reads
  <2>5. link' = "up" /\ Says(data) => Says(data)'
    BY <2>1, <2>2, <2>4 DEF Says
  <2>6. ASSUME NEW r \in Readers, link' = "up", Says(answer[r])
        PROVE  Says(answer[r])'
    <3>1. answer[r] \in Snapshot /\ (Follows(status, answer[r]) \/ answer[r].at[1] = 0)
      BY <2>2
    <3>2. answer[r].at = status'.at => answer[r] = status'
      BY <2>1, <2>6, <3>1 DEF Says
    <3>3. QED
      BY <2>4, <3>2 DEF Says
  <2>7. "client" \in Readers
    BY DEF Readers
  <2>8. phase' = "resync" /\ link' = "up" => Says(answer["client"])'
    BY <2>3, <2>4, <2>6, <2>7 DEF Settled, Says
  <2>9. phase' = "live" /\ link' = "up" => Says(data)' /\ \A r \in Readers : Says(answer[r])'
    BY <2>3, <2>4, <2>5, <2>6 DEF Settled, Says
  <2>10. QED
    BY <2>8, <2>9 DEF Settled, Says
<1>7. Reaches'
  BY <1>1, KeepsQueue DEF Reaches, Kept, shown, session, reads
<1>8. QED
  BY <1>2, <1>3, <1>4, <1>5, <1>6, <1>7

-----------------------------------------------------------------------------
(* What an end of a read does to the queue and to the answers *)

Passes ==
  /\ readers' \in Queues /\ answer' \in [Readers -> Snapshot] /\ Locked'
  /\ \A r \in Readers : answer'[r] \in {answer[r], NoAnswer}

LEMMA NoneIsTyped == NoAnswer \in Snapshot /\ Failed \in Snapshot
BY DEF NoAnswer, Failed, Snapshot, Place

LEMMA ConsumedAnswers ==
  ASSUME NEW reader \in Readers, TypeOK, Consumed(reader)
  PROVE  /\ answer' \in [Readers -> Snapshot] /\ answer'[reader] = NoAnswer
         /\ \A r \in Readers : r # reader => answer'[r] = answer[r]
BY NoneIsTyped DEF TypeOK, Consumed

LEMMA QuitsPass ==
  ASSUME NEW reader \in Readers, TypeOK, Locked, Quits(reader)
  PROVE  /\ Passes /\ answer'[reader] = NoAnswer
         /\ reader = "client" => ~Refreshing'
         /\ reader = "poll" => (Refreshing' <=> Refreshing)
<1>1. Consumed(reader) /\ readers' = Others(reader)
  BY DEF Quits
<1>2. readers' \in Queues
  BY <1>1, OthersThan DEF TypeOK, Readers, Queues
<1>3. ASSUME NEW r \in Readers, answer'[r] # NoAnswer
      PROVE  Holds(r)'
  <2>1. r # reader /\ Holds(r)
    BY <1>1, <1>3, ConsumedAnswers DEF Locked
  <2>2. CASE r = "poll"
    BY <2>1, <2>2, <1>1, <1>2, Queued, QueuedThen, OthersThan DEF Readers, TypeOK, PollFirst
  <2>3. CASE r = "client"
    <3>1. readers \in ClientReads
      BY <2>1, <2>3, Queued DEF TypeOK, ClientFirst, ClientReads
    <3>2. readers' = <<"client">>
      BY <2>1, <2>3, <3>1, <1>1, OthersThan DEF Readers, TypeOK
    <3>3. QED
      BY <2>3, <3>2, <1>2, QueuedThen DEF ClientFirst
  <2>4. QED
    BY <2>2, <2>3 DEF Readers
<1>4. reader = "client" => ~Refreshing'
  <2>1. <<>> \notin ClientReads /\ <<"poll">> \notin ClientReads
    BY DEF ClientReads
  <2>2. reader = "client" => readers' \notin ClientReads
    BY <1>1, <2>1, OthersThan DEF TypeOK
  <2>3. QED
    BY <1>2, <2>2, QueuedThen DEF TypeOK
<1>5. reader = "poll" => (Refreshing' <=> Refreshing)
  <2>1. <<>> \notin ClientReads /\ <<"client">> \in ClientReads
    BY DEF ClientReads
  <2>2. reader = "poll" => (readers' \in ClientReads <=> readers \in ClientReads)
    BY <1>1, <2>1, OthersThan DEF TypeOK
  <2>3. QED
    BY <1>2, <2>2, Queued, QueuedThen DEF TypeOK
<1>6. QED
  BY <1>1, <1>2, <1>3, <1>4, <1>5, ConsumedAnswers DEF Passes, Locked

LEMMA ReadsPass ==
  ASSUME TypeOK, Locked, Reads,
         Consumed("client") \/ (~Refreshing /\ UNCHANGED answer)
  PROVE  Passes /\ Refreshing' /\ answer'["client"] = NoAnswer
<1>1. readers' \in {<<"client">>, <<"poll", "client">>}
  BY Appended DEF Reads, TypeOK
<1>2. readers' \in Queues /\ Refreshing'
  BY <1>1, QueuedThen DEF Queues, ClientReads
<1>3. /\ answer' \in [Readers -> Snapshot] /\ answer'["client"] = NoAnswer
      /\ answer'["poll"] = answer["poll"]
  <2>1. CASE Consumed("client")
    BY <2>1, ConsumedAnswers DEF Readers
  <2>2. CASE ~Refreshing /\ UNCHANGED answer
    BY <2>2, Queued DEF Readers, Locked, TypeOK, ClientFirst, ClientReads
  <2>3. QED
    BY <2>1, <2>2
<1>4. ASSUME answer'["poll"] # NoAnswer
      PROVE  Holds("poll")'
  <2>1. Holds("poll")
    BY <1>3, <1>4 DEF Locked, Readers
  <2>2. readers' = <<"poll", "client">>
    BY <2>1, Queued, Appended DEF Reads, TypeOK
  <2>3. QED
    BY <2>2, <1>2, QueuedThen DEF PollFirst
<1>5. QED
  BY <1>2, <1>3, <1>4 DEF Passes, Locked, Readers

\* Fewer answers, and all else that order is about as it was
LEMMA PassesOrdered ==
  ASSUME Passes, Ordered, Settled, UNCHANGED <<status, data>>, status.at[1] # 0
  PROVE  /\ Ordered'
         /\ \A r \in Readers : Says(answer[r]) => Says(answer[r])'
<1>1. ASSUME NEW r \in Readers
      PROVE  Answered(r)' => Answered(r) /\ answer'[r] = answer[r]
  BY DEF Passes, Answered
<1>2. Ordered'
  BY <1>1 DEF Ordered, Follows
<1>3. ASSUME NEW r \in Readers, Says(answer[r])
      PROVE  Says(answer[r])'
  BY <1>3 DEF Passes, Says, NoAnswer
<1>4. QED
  BY <1>2, <1>3

-----------------------------------------------------------------------------
(* The session's steps *)

LEMMA ConnectInv ==
  ASSUME IInv, Wake \/ Reconnect \/ FallBack
  PROVE  IInv'
<1> USE DEF IInv
<1>1. /\ UNCHANGED <<status, data, live, dirty, readers, answer>>
      /\ phase \in {"waiting", "backoff"} /\ phase' \in {"waiting", "starting"}
      /\ link' \in {link, "dialing", "cut"} /\ taken' \in {0, taken}
      /\ \/ UNCHANGED <<sent, link, taken, seen, minimum>>
         \/ sent' = <<>> /\ taken' = 0 /\ seen' = Nowhere /\ minimum' = Nowhere /\ link' # "up"
  BY DEF Wake, Reconnect, FallBack, Connect, Dial, stream, shown, reads
<1>2. Nowhere \in Place /\ <<>> \in Seq(Place)
  BY DEF Nowhere, Place
<1>3. Refreshing' = Refreshing /\ \A r \in Readers : Holds(r)' = Holds(r)
  BY <1>1 DEF Refreshing, Holds
<1>4. TypeOK'
  <2>1. sent' \in Seq(Place) /\ seen' \in Place /\ minimum' \in Place
    BY <1>1, <1>2 DEF TypeOK
  <2>2. link' \in {"down", "dialing", "up", "cut"} /\ taken' \in Nat /\ phase' \in Phases
    BY <1>1 DEF TypeOK, Phases
  <2>3. QED
    BY <1>1, <2>1, <2>2 DEF TypeOK
<1>5. Linked'
  BY <1>1 DEF Linked, TypeOK
<1>6. Placed'
  BY <1>1, <1>3 DEF Placed
<1>7. Locked' /\ Ordered'
  BY <1>1, <1>3 DEF Locked, Ordered, Answered, Follows
<1>8. Settled' /\ Reaches'
  BY <1>1 DEF Settled, Reaches
<1>9. QED
  BY <1>4, <1>5, <1>6, <1>7, <1>8

\* An attempt that ends, whatever its last frame was
LEMMA EndsInv ==
  ASSUME IInv, Ends, UNCHANGED <<status, link, sent, data, live>>,
         taken' \in Nat, taken' <= Len(sent), UNCHANGED <<seen, minimum>>
  PROVE  IInv'
<1> USE DEF IInv
<1>1. Passes /\ ~Refreshing' /\ phase' = "closing" /\ dirty' = FALSE
  BY QuitsPass DEF Ends, Readers
<1>2. TypeOK'
  BY <1>1 DEF TypeOK, Passes, Phases
<1>3. Linked' /\ Placed' /\ Locked'
  BY <1>1 DEF Linked, Placed, Passes
<1>4. Ordered'
  BY <1>1, PassesOrdered DEF TypeOK
<1>5. Settled' /\ Reaches'
  BY <1>1 DEF Settled, Reaches
<1>6. QED
  BY <1>2, <1>3, <1>4, <1>5

LEMMA StreamStartInv ==
  ASSUME IInv, StreamStart
  PROVE  IInv'
<1> USE DEF IInv
<1>1. /\ UNCHANGED <<status, link, sent, data, live, dirty, seen, minimum, answer>>
      /\ phase = "starting" /\ phase' = "resync" /\ taken' = 1 /\ taken < Len(sent) /\ Reads
  BY DEF StreamStart, stream, shown
<1>2. ~Refreshing
  BY <1>1 DEF Placed
<1>3. Passes /\ Refreshing' /\ answer'["client"] = NoAnswer
  BY <1>1, <1>2, ReadsPass
<1>4. TypeOK'
  BY <1>1, <1>3 DEF TypeOK, Passes, Phases
<1>5. Linked' /\ Placed' /\ Locked'
  BY <1>1, <1>3 DEF Linked, Placed, Passes, TypeOK
<1>6. Ordered'
  BY <1>1, <1>3, PassesOrdered DEF TypeOK
<1>7. Settled' /\ Reaches'
  BY <1>1, <1>3 DEF Settled, Says, NoAnswer, Reaches, TypeOK
<1>8. QED
  BY <1>4, <1>5, <1>6, <1>7

LEMMA OverlapInv ==
  ASSUME IInv, Overlap
  PROVE  IInv'
<1> USE DEF IInv
<1>1. /\ UNCHANGED <<status, link, sent, data, live, seen, minimum>>
      /\ phase = "resync" /\ taken' = taken + 1 /\ taken < Len(sent)
      /\ Ends \/ UNCHANGED <<phase, dirty, readers, answer>>
  BY DEF Overlap, stream, shown, reads
<1>2. taken' \in Nat /\ taken' <= Len(sent)
  BY <1>1 DEF TypeOK
<1>3. CASE Ends
  BY <1>1, <1>2, <1>3, EndsInv
<1>4. CASE UNCHANGED <<phase, dirty, readers, answer>>
  <2>1. Refreshing' = Refreshing /\ \A r \in Readers : Holds(r)' = Holds(r)
    BY <1>4 DEF Refreshing, Holds
  <2>2. TypeOK'
    BY <1>1, <1>2, <1>4 DEF TypeOK
  <2>3. Linked' /\ Placed' /\ Locked'
    BY <1>1, <1>2, <1>4, <2>1 DEF Linked, Placed, Locked, TypeOK
  <2>4. Ordered' /\ Settled' /\ Reaches'
    BY <1>1, <1>4 DEF Ordered, Answered, Follows, Settled, Says, Reaches
  <2>5. QED
    BY <2>2, <2>3, <2>4
<1>5. QED
  BY <1>1, <1>3, <1>4

LEMMA LostInv ==
  ASSUME IInv, Lost
  PROVE  IInv'
<1>1. Ends /\ UNCHANGED <<status, link, sent, data, live, taken, seen, minimum>>
  BY DEF Lost, stream, shown
<1>2. taken' \in Nat /\ taken' <= Len(sent)
  BY <1>1 DEF IInv, TypeOK, Linked
<1>3. QED
  BY <1>1, <1>2, EndsInv

LEMMA ClosedInv ==
  ASSUME IInv, Closed
  PROVE  IInv'
<1> USE DEF IInv
<1>1. /\ UNCHANGED <<status, data, seen, minimum, dirty, readers, answer>>
      /\ phase = "closing" /\ phase' \in {"backoff", "waiting"} /\ live' = FALSE /\ taken' = 0
      /\ link' = "down" /\ sent' \in {<<>>, sent} /\ (link = "down" \/ sent' = <<>>)
  BY DEF Closed, Hangup, stream, shown, reads
<1>2. Refreshing' = Refreshing /\ \A r \in Readers : Holds(r)' = Holds(r)
  BY <1>1 DEF Refreshing, Holds
<1>3. TypeOK'
  <2>1. <<>> \in Seq(Place)
    OBVIOUS
  <2>2. QED
    BY <1>1, <2>1 DEF TypeOK, Phases
<1>4. Linked' /\ Placed' /\ Locked'
  BY <1>1, <1>2 DEF Linked, Placed, Locked, TypeOK
<1>5. Ordered' /\ Settled' /\ Reaches'
  BY <1>1 DEF Ordered, Answered, Follows, Settled, Says, Reaches
<1>6. QED
  BY <1>3, <1>4, <1>5

\* What one frame makes of a position reaches the frame.
LEMMA AdvanceReaches ==
  ASSUME NEW at \in Place, NEW frame \in Place
  PROVE  /\ Advance(at, frame) \in Place
         /\ Advance(at, frame) # Nowhere => AtLeast(Advance(at, frame), frame)
BY DEF Advance, AtLeast, Place, Nowhere

LEMMA ResyncedReaches ==
  ASSUME NEW at \in Place, NEW end \in Resynced(at),
         taken \in Nat \ {0}, sent \in Seq(Place), taken <= Len(sent), AtLeast(at, sent[1])
  PROVE  end \in Place /\ AtLeast(end, sent[taken])
<1>1. PICK trail \in Trails(at) : end = trail[taken]
  BY DEF Resynced
<1>2. /\ trail \in [1..taken -> Position \ {Nowhere}] /\ trail[1] = at
      /\ \A i \in 2..taken : trail[i] = Advance(trail[i - 1], sent[i])
  BY <1>1 DEF Trails
<1>3. CASE taken = 1
  BY <1>1, <1>2, <1>3
<1>4. CASE taken # 1
  <2>1. taken \in 2..taken /\ taken - 1 \in 1..taken /\ taken \in 1..taken /\ taken \in 1..Len(sent)
    BY <1>4
  <2>2. sent[taken] \in Place
    BY <2>1
  <2>3. trail[taken - 1] \in Place /\ trail[taken] # Nowhere
    <3>1. trail[taken - 1] \in Position \ {Nowhere} /\ trail[taken] \in Position \ {Nowhere}
      BY <1>2, <2>1
    <3>2. Position \ {Nowhere} \subseteq Place
      BY DEF Position, Place
    <3>3. QED
      BY <3>1, <3>2
  <2>4. trail[taken] = Advance(trail[taken - 1], sent[taken])
    BY <1>2, <2>1
  <2>5. QED
    BY <1>1, <2>2, <2>3, <2>4, AdvanceReaches
<1>5. QED
  BY <1>3, <1>4

\* A snapshot that has just been shown, while nothing else is awaited
LEMMA ShownInv ==
  ASSUME NEW reader \in Readers, TypeOK, Locked, Ordered, Holds(reader), Answered(reader),
         data' = answer[reader], UNCHANGED status,
         Passes, answer'[reader] = NoAnswer
  PROVE  /\ \A r \in Readers : answer'[r] = NoAnswer
         /\ Ordered' /\ data' \in Snapshot /\ Follows(data', data)
<1>1. ASSUME NEW r \in Readers
      PROVE  answer'[r] = NoAnswer
  <2>1. CASE r = reader
    BY <2>1
  <2>2. CASE r # reader
    <3>1. ~Holds(r)
      BY <2>2 DEF Holds
    <3>2. QED
      BY <3>1 DEF Locked, Passes
  <2>3. QED
    BY <2>1, <2>2
<1>2. Follows(status, answer[reader]) /\ Follows(answer[reader], data)
  BY DEF Ordered
<1>3. Follows(status, data)'
  BY <1>2 DEF Follows
<1>4. Ordered'
  BY <1>1, <1>3 DEF Ordered, Answered
<1>5. QED
  BY <1>1, <1>2, <1>4 DEF TypeOK

LEMMA ResyncInv ==
  ASSUME IInv, Resync
  PROVE  IInv'
<1> USE DEF IInv
<1>1. /\ UNCHANGED <<status, link, sent, taken>> /\ phase = "resync" /\ Receives("client")
      /\ taken \in Nat \ {0} /\ taken <= Len(sent) /\ "client" \in Readers
  BY DEF Resync, stream, Placed, Linked, TypeOK, Readers
<1>2. CASE Ends /\ UNCHANGED <<data, live, seen, minimum>>
  BY <1>1, <1>2, EndsInv
<1>3. ASSUME NEW at \in Resynced(answer["client"].at), answer["client"] # Failed,
             AtLeast(answer["client"].at, sent[1]),
             Shows(answer["client"]), phase' = "live", live' = TRUE, seen' = at, UNCHANGED dirty,
             IF at # answer["client"].at THEN Reads /\ Consumed("client") /\ minimum' = at
                                         ELSE Quits("client") /\ UNCHANGED minimum
      PROVE  IInv'
  <2>1. Holds("client") /\ Answered("client") /\ data' = answer["client"]
    BY <1>1, <1>3 DEF Locked, Receives, Answered, Shows
  <2>2. at \in Place /\ AtLeast(at, sent[taken]) /\ answer["client"].at \in Place
    BY <1>1, <1>3, ResyncedReaches DEF TypeOK, Snapshot
  <2>3. /\ Passes /\ answer'["client"] = NoAnswer /\ minimum' \in Place
        /\ at # answer["client"].at => Refreshing' /\ minimum' = at
        /\ at = answer["client"].at => ~Refreshing'
    BY <1>1, <1>3, <2>2, ReadsPass, QuitsPass DEF TypeOK
  <2>4. (\A r \in Readers : answer'[r] = NoAnswer) /\ Ordered' /\ data' \in Snapshot
    BY <1>1, <2>1, <2>3, ShownInv
  <2>5. TypeOK'
    BY <1>1, <1>3, <2>2, <2>3, <2>4 DEF TypeOK, Passes, Phases
  <2>6. Linked' /\ Placed' /\ Locked'
    BY <1>1, <1>3, <2>3 DEF Linked, Placed, Passes
  <2>7. Settled'
    BY <1>1, <1>3, <2>1, <2>4 DEF Settled, Says, NoAnswer, TypeOK
  <2>8. AtLeast(at, at)
    BY <2>2 DEF AtLeast, Place
  <2>9. Reaches'
    BY <1>1, <1>3, <2>1, <2>2, <2>3, <2>8 DEF Reaches
  <2>10. QED
    BY <2>4, <2>5, <2>6, <2>7, <2>9
<1>4. QED
  BY <1>2, <1>3 DEF Resync, shown

LEMMA NotificationInv ==
  ASSUME IInv, Notification
  PROVE  IInv'
<1> USE DEF IInv
<1> DEFINE at == Advance(seen, sent[taken'])
<1>1. /\ UNCHANGED <<status, link, sent, data, live>> /\ phase = "live"
      /\ taken' = taken + 1 /\ taken < Len(sent)
      /\ \/ at = Nowhere /\ Ends /\ UNCHANGED <<seen, minimum>>
         \/ at # Nowhere /\ at = seen /\ UNCHANGED <<phase, dirty, readers, answer, seen, minimum>>
         \/ /\ at # Nowhere /\ seen' = at /\ UNCHANGED phase
            /\ \/ Refreshing /\ dirty' = TRUE /\ UNCHANGED <<readers, answer, minimum>>
               \/ ~Refreshing /\ Reads /\ minimum' = at /\ UNCHANGED <<answer, dirty>>
  BY DEF Notification, stream, shown, reads, BecomesDirty
<1>2. taken' \in Nat \ {0} /\ taken' <= Len(sent) /\ taken' \in 1..Len(sent)
  BY <1>1 DEF TypeOK
<1>3. at \in Place /\ (at # Nowhere => AtLeast(at, sent[taken']))
  BY <1>2, AdvanceReaches DEF TypeOK
<1>4. (at # Nowhere => at[1] = seen[1]) /\ AtLeast(at, at)
  BY <1>3 DEF Advance, Later, AtLeast, Place, TypeOK
<1> HIDE DEF at
<1>5. CASE Ends /\ UNCHANGED <<seen, minimum>>
  BY <1>1, <1>2, <1>5, EndsInv
<1>6. CASE /\ at # Nowhere /\ seen' = at /\ UNCHANGED <<phase, readers, answer, minimum>>
           /\ (at = seen /\ UNCHANGED dirty) \/ (Refreshing /\ dirty' = TRUE)
  <2>1. Refreshing' = Refreshing /\ \A r \in Readers : Holds(r)' = Holds(r)
    BY <1>6 DEF Refreshing, Holds
  <2>2. TypeOK'
    BY <1>1, <1>2, <1>3, <1>6 DEF TypeOK
  <2>3. Linked' /\ Placed' /\ Locked'
    BY <1>1, <1>2, <1>6, <2>1 DEF Linked, Placed, Locked
  <2>4. Ordered' /\ Settled'
    BY <1>1, <1>6 DEF Ordered, Answered, Follows, Settled, Says
  <2>5. Reaches'
    BY <1>1, <1>3, <1>4, <1>6, <2>1 DEF Reaches
  <2>6. QED
    BY <2>2, <2>3, <2>4, <2>5
<1>7. CASE /\ at # Nowhere /\ seen' = at /\ UNCHANGED <<phase, answer, dirty>>
           /\ ~Refreshing /\ Reads /\ minimum' = at
  <2>1. Passes /\ Refreshing' /\ answer'["client"] = NoAnswer
    BY <1>7, ReadsPass
  <2>2. TypeOK'
    BY <1>1, <1>2, <1>3, <1>7, <2>1 DEF TypeOK, Passes
  <2>3. Linked' /\ Placed' /\ Locked'
    BY <1>1, <1>2, <1>7, <2>1 DEF Linked, Placed, Passes
  <2>4. Ordered' /\ Settled'
    BY <1>1, <1>7 DEF Ordered, Answered, Follows, Settled, Says
  <2>5. Reaches'
    BY <1>1, <1>3, <1>4, <1>7, <2>1 DEF Reaches
  <2>6. QED
    BY <2>2, <2>3, <2>4, <2>5
<1>8. QED
  <2>1. CASE at = Nowhere
    BY <2>1, <1>1, <1>5
  <2>2. CASE at # Nowhere
    BY <2>2, <1>1, <1>6, <1>7
  <2>3. QED
    BY <2>1, <2>2

LEMMA NewestReaches ==
  ASSUME NEW a \in Place, NEW b \in Place, a[1] = b[1]
  PROVE  /\ Newest(a, b) \in Place /\ Newest(a, b)[1] = a[1] /\ AtLeast(Newest(a, b), a)
         /\ AtLeast(b, a) => AtLeast(b, Newest(a, b))
         /\ \A c \in Place : AtLeast(a, c) => AtLeast(Newest(a, b), c)
BY DEF Newest, Older, AtLeast, Place

LEMMA ReachesOn ==
  ASSUME NEW a \in Place, NEW b \in Place, NEW c \in Place, AtLeast(a, b), AtLeast(b, c)
  PROVE  AtLeast(a, c)
BY DEF AtLeast, Place

LEMMA RefreshInv ==
  ASSUME IInv, Refresh
  PROVE  IInv'
<1> USE DEF IInv
<1> DEFINE snapshot == answer["client"]
<1>1. /\ UNCHANGED <<status, link, sent, live, taken>> /\ phase = "live" /\ Receives("client")
      /\ "client" \in Readers
  BY DEF Refresh, stream, Readers
<1>2. CASE Ends /\ UNCHANGED <<data, seen, minimum>>
  <2>1. taken' \in Nat /\ taken' <= Len(sent)
    BY <1>1 DEF TypeOK, Linked
  <2>2. QED
    BY <1>1, <1>2, <2>1, EndsInv
<1>3. CASE /\ snapshot # Failed /\ AtLeast(snapshot.at, minimum)
           /\ Shows(snapshot) /\ seen' = Newest(seen, snapshot.at)
           /\ IF dirty THEN Reads /\ Consumed("client") /\ minimum' = seen'
                       ELSE Quits("client") /\ UNCHANGED minimum
           /\ dirty' = FALSE /\ UNCHANGED phase
  <2>1. Holds("client") /\ Answered("client") /\ data' = snapshot /\ Refreshing
    BY <1>1, <1>3, Queued DEF Locked, Receives, Answered, Shows, TypeOK, ClientFirst, ClientReads
  <2>2. /\ snapshot.at \in Place /\ seen \in Place /\ minimum \in Place /\ data.at \in Place
        /\ minimum[1] = seen[1] /\ seen[1] = snapshot.at[1]
    BY <1>1, <1>3, <2>1 DEF Reaches, TypeOK, Snapshot, AtLeast
  <2>3. /\ Passes /\ answer'["client"] = NoAnswer
        /\ dirty => Refreshing' /\ minimum' = seen'
        /\ ~dirty => ~Refreshing' /\ minimum' = minimum
    BY <1>1, <1>3, ReadsPass, QuitsPass
  <2>4. /\ \A r \in Readers : answer'[r] = NoAnswer
        /\ Ordered' /\ data' \in Snapshot /\ Follows(data', data)
    BY <1>1, <2>1, <2>3, ShownInv
  <2>5. /\ seen' \in Place /\ AtLeast(seen', seen) /\ AtLeast(seen', seen')
        /\ AtLeast(snapshot.at, seen) => AtLeast(snapshot.at, seen')
    <3>1. /\ seen' \in Place /\ AtLeast(seen', seen)
          /\ AtLeast(snapshot.at, seen) => AtLeast(snapshot.at, seen')
      BY <1>3, <2>2, NewestReaches
    <3>2. QED
      BY <3>1 DEF AtLeast, Place
  <2>6. TypeOK'
    BY <1>1, <1>3, <2>2, <2>3, <2>4, <2>5 DEF TypeOK, Passes
  <2>7. Linked' /\ Placed' /\ Locked'
    BY <1>1, <1>3, <2>3 DEF Linked, Placed, Passes
  <2>8. Settled'
    BY <1>1, <1>3, <2>1, <2>4 DEF Settled, Says, NoAnswer, TypeOK
  <2>9. ASSUME ~dirty
        PROVE  AtLeast(snapshot.at, seen')
    <3>1. AtLeast(minimum, seen) => AtLeast(snapshot.at, seen)
      BY <1>3, <2>2, ReachesOn
    <3>2. AtLeast(data.at, seen) => AtLeast(snapshot.at, seen)
      BY <2>1, <2>2, <2>4 DEF Follows, AtLeast, Place
    <3>3. QED
      BY <1>1, <2>1, <2>5, <2>9, <3>1, <3>2 DEF Reaches
  <2>10. ASSUME link' # "down"
         PROVE  AtLeast(seen', sent'[taken'])
    <3>1. taken \in 1..Len(sent) /\ sent[taken] \in Place
      BY <1>1, <2>10 DEF Placed, Linked, TypeOK
    <3>2. AtLeast(seen, sent[taken])
      BY <1>1, <2>10 DEF Reaches
    <3>3. QED
      BY <1>1, <2>2, <2>5, <3>1, <3>2, ReachesOn
  <2>11. Reaches'
    BY <1>1, <1>3, <2>1, <2>3, <2>5, <2>9, <2>10 DEF Reaches
  <2>12. QED
    BY <2>4, <2>6, <2>7, <2>8, <2>11
<1>4. QED
  BY <1>2, <1>3 DEF Refresh, shown

-----------------------------------------------------------------------------
(* Polls *)

LEMMA PollInv ==
  ASSUME IInv, Poll
  PROVE  IInv'
<1> USE DEF IInv
<1>1. /\ UNCHANGED <<status, link, sent, data, phase, live, taken, seen, minimum, dirty, answer>>
      /\ "poll" \notin ToSet(readers) /\ readers' = Append(readers, "poll")
  BY DEF Poll, stream, shown, session
<1>2. /\ readers' \in {<<"poll">>, <<"client", "poll">>}
      /\ readers' \in ClientReads <=> readers \in ClientReads
  BY <1>1, Appended DEF TypeOK
<1>3. readers' \in Queues /\ (Refreshing' <=> Refreshing)
  <2>1. readers' \in Queues
    BY <1>2 DEF Queues
  <2>2. QED
    BY <1>2, <2>1, Queued, QueuedThen DEF TypeOK
<1>4. ASSUME NEW r \in Readers, Holds(r)
      PROVE  Holds(r)'
  <2>1. readers # <<"poll">> /\ readers # <<"poll", "client">>
    BY <1>1 DEF ToSet
  <2>2. r = "client" /\ readers \in ClientReads
    BY <1>4, <2>1, Queued DEF Readers, TypeOK, PollFirst, ClientFirst, ClientReads
  <2>3. readers' = <<"client", "poll">>
    BY <1>2, <2>2 DEF ClientReads
  <2>4. QED
    BY <1>3, <2>2, <2>3, QueuedThen DEF ClientFirst
<1>5. TypeOK'
  BY <1>1, <1>3 DEF TypeOK
<1>6. Linked' /\ Placed' /\ Locked'
  BY <1>1, <1>3, <1>4 DEF Linked, Placed, Locked
<1>7. Ordered' /\ Settled' /\ Reaches'
  BY <1>1, <1>3 DEF Ordered, Answered, Follows, Settled, Says, Reaches
<1>8. QED
  BY <1>5, <1>6, <1>7

LEMMA AskInv ==
  ASSUME IInv, NEW reader \in Readers, AskFor(reader)
  PROVE  IInv'
<1> USE DEF IInv
<1>1. /\ UNCHANGED <<status, link, sent, data, phase, live, taken, seen, minimum, dirty, readers>>
      /\ Holds(reader)
      /\ \/ answer' = [answer EXCEPT ![reader] = status]
         \/ answer' = [answer EXCEPT ![reader] = Failed]
  BY DEF AskFor, stream, shown, session
<1>2. /\ answer' \in [Readers -> Snapshot]
      /\ answer'[reader] \in {status, Failed}
      /\ \A r \in Readers : r # reader => answer'[r] = answer[r]
  BY <1>1, NoneIsTyped DEF TypeOK
<1>3. Refreshing' = Refreshing /\ \A r \in Readers : Holds(r)' = Holds(r)
  BY <1>1 DEF Refreshing, Holds
<1>4. TypeOK'
  BY <1>1, <1>2 DEF TypeOK
<1>5. Linked' /\ Placed' /\ Locked'
  BY <1>1, <1>2, <1>3 DEF Linked, Placed, Locked
<1>6. Ordered'
  <2>1. Follows(status, status)
    BY DEF Follows, TypeOK, Snapshot, Place
  <2>2. ASSUME NEW r \in Readers, Answered(r)'
        PROVE  Follows(answer'[r], data) /\ Follows(status, answer'[r])
    BY <1>1, <1>2, <2>1, <2>2 DEF Ordered, Answered
  <2>3. QED
    BY <1>1, <2>2 DEF Ordered, Follows
<1>7. Settled'
  <2>1. status.at[1] # 0
    BY DEF TypeOK
  <2>2. ASSUME NEW r \in Readers, Says(answer[r])
        PROVE  Says(answer'[r])
    BY <1>2, <2>1, <2>2 DEF Says, Failed
  <2>3. QED
    BY <1>1, <2>2 DEF Settled, Says, Readers
<1>8. Reaches'
  BY <1>1, <1>3 DEF Reaches
<1>9. QED
  BY <1>4, <1>5, <1>6, <1>7, <1>8

LEMMA PolledInv ==
  ASSUME IInv, Polled
  PROVE  IInv'
<1> USE DEF IInv
<1> DEFINE snapshot == answer["poll"]
<1>1. /\ UNCHANGED <<status, phase, live, minimum, dirty>> /\ Receives("poll") /\ Quits("poll")
      /\ "poll" \in Readers /\ "client" \in Readers
  BY DEF Polled, PollFails, Hangup, stream, Readers
<1>2. Passes /\ answer'["poll"] = NoAnswer /\ (Refreshing' <=> Refreshing)
  BY <1>1, QuitsPass
<1>3. CASE /\ snapshot # Failed /\ Shows(snapshot) /\ UNCHANGED <<link, sent, taken>>
           /\ live => AtLeast(snapshot.at, seen)
           /\ seen' = IF live THEN Newest(seen, snapshot.at) ELSE seen
  <2>1. Holds("poll") /\ Answered("poll") /\ data' = snapshot
    BY <1>1, <1>3 DEF Locked, Receives, Answered, Shows
  <2>2. /\ \A r \in Readers : answer'[r] = NoAnswer
        /\ Ordered' /\ data' \in Snapshot
    BY <1>1, <1>2, <2>1, ShownInv
  <2>3. snapshot.at \in Place /\ seen \in Place
    BY <1>1 DEF TypeOK, Snapshot
  <2>4. seen' \in Place /\ (live => seen'[1] = seen[1] /\ AtLeast(seen', seen) /\ AtLeast(snapshot.at, seen'))
    BY <1>3, <2>3, NewestReaches DEF AtLeast
  <2>5. TypeOK'
    BY <1>1, <1>2, <1>3, <2>2, <2>4 DEF TypeOK, Passes
  <2>6. Linked' /\ Placed' /\ Locked'
    BY <1>1, <1>2, <1>3 DEF Linked, Placed, Passes
  <2>7. Settled'
    BY <1>1, <1>3, <2>1, <2>2 DEF Settled, Says, NoAnswer, TypeOK
  <2>8. ASSUME phase = "live", link' # "down"
        PROVE  AtLeast(seen', sent'[taken'])
    <3>1. taken \in 1..Len(sent) /\ sent[taken] \in Place /\ live
      BY <1>3, <2>8 DEF Placed, Linked, TypeOK
    <3>2. AtLeast(seen, sent[taken])
      BY <1>3, <2>8 DEF Reaches
    <3>3. QED
      BY <1>3, <2>3, <2>4, <3>1, <3>2, ReachesOn
  <2>9. Reaches'
    BY <1>1, <1>2, <1>3, <2>1, <2>4, <2>8 DEF Reaches, Placed
  <2>10. QED
    BY <2>2, <2>5, <2>6, <2>7, <2>9
<1>4. CASE PollFails
  <2>1. /\ UNCHANGED <<data, seen>>
        /\ \/ link' = "down" /\ sent' = <<>> /\ taken' = 0 /\ live
           \/ UNCHANGED <<link, sent, taken>>
    BY <1>4 DEF PollFails, Hangup, stream
  <2>2. TypeOK'
    <3>1. link' \in {link, "down"} /\ sent' \in {sent, <<>>} /\ taken' \in {taken, 0}
      BY <2>1
    <3>2. /\ sent' \in Seq(Place) /\ taken' \in Nat
          /\ link' \in {"down", "dialing", "up", "cut"}
      <4>1. <<>> \in Seq(Place) /\ sent \in Seq(Place)
        BY DEF TypeOK
      <4>2. sent' \in Seq(Place)
        BY <3>1, <4>1
      <4>3. taken' \in Nat /\ link' \in {"down", "dialing", "up", "cut"}
        BY <3>1 DEF TypeOK
      <4>4. QED
        BY <4>2, <4>3
    <3>3. readers' \in Queues /\ answer' \in [Readers -> Snapshot]
      BY <1>2 DEF Passes
    <3>4. QED
      BY <1>1, <2>1, <3>2, <3>3 DEF TypeOK
  <2>3. Linked' /\ Locked'
    BY <1>2, <2>1 DEF Linked, Passes
  <2>4. Placed'
    BY <1>1, <1>2, <2>1 DEF Placed
  <2>5. Ordered' /\ \A r \in Readers : Says(answer[r]) => Says(answer[r])'
    BY <1>1, <1>2, <2>1, PassesOrdered DEF TypeOK
  <2>6. Settled'
    BY <1>1, <2>1, <2>5 DEF Settled, Says
  <2>7. Reaches'
    BY <1>1, <1>2, <2>1 DEF Reaches
  <2>8. QED
    BY <1>2, <2>2, <2>3, <2>4, <2>5, <2>6, <2>7
<1>5. QED
  BY <1>3, <1>4 DEF Polled, stream

-----------------------------------------------------------------------------
(* The theorems *)

LEMMA StepInv ==
  ASSUME IInv, [Next]_vars
  PROVE  IInv'
<1>1. CASE Session
  BY <1>1, ConnectInv, StreamStartInv, OverlapInv, ResyncInv, NotificationInv, RefreshInv, LostInv,
     ClosedInv DEF Session
<1>2. CASE Poll
  BY <1>2, PollInv
<1>3. CASE Ask
  BY <1>3, AskInv DEF Ask
<1>4. CASE Polled
  BY <1>4, PolledInv
<1>5. CASE Device /\ UNCHANGED <<shown, session, reads, failures>>
  BY <1>5, FeedInv, ServeInv DEF Device, Kept
<1>6. CASE UNCHANGED vars
  <2>1. UNCHANGED <<status, link, sent, data, phase, live, taken, seen, minimum, dirty, readers, answer>>
    BY <1>6 DEF vars, stream, shown, session, reads
  <2>2. Refreshing' = Refreshing /\ \A r \in Readers : Holds(r)' = Holds(r)
    BY <2>1 DEF Refreshing, Holds
  <2>3. TypeOK' /\ Linked' /\ Placed' /\ Locked'
    BY <2>1, <2>2 DEF IInv, TypeOK, Linked, Placed, Locked
  <2>4. Ordered' /\ Settled' /\ Reaches'
    BY <2>1, <2>2 DEF IInv, Ordered, Answered, Follows, Settled, Says, Reaches
  <2>5. QED
    BY <2>3, <2>4 DEF IInv
<1>7. QED
  BY <1>1, <1>2, <1>3, <1>4, <1>5, <1>6 DEF Next

(***************************************************************************)
(* Whatever is lost or comes twice, the lock and the positions hold         *)
(* together what the coordinator and the session know of the device.        *)
(***************************************************************************)
THEOREM ClientInvariant == Spec => []IInv
<1>1. Init => IInv
  BY InitInv
<1>2. IInv /\ [Next]_vars => IInv'
  BY StepInv
<1>3. QED
  BY <1>1, <1>2, PTL DEF Spec

(***************************************************************************)
(* No notification is forgotten, for every number of attempts, of frames    *)
(* that overlap a snapshot, of positions, contents and restarts of the      *)
(* device, and of requests that fail (LumaRealtimeClient._async_resync,     *)
(* _async_live).                                                           *)
(***************************************************************************)
THEOREM NothingForgotten == Spec => []InSync
<1>1. IInv => InSync
  <2> SUFFICES ASSUME IInv, phase = "live", ~Refreshing
               PROVE  /\ AtLeast(data.at, seen)
                      /\ link = "up" /\ ~Behind /\ taken = Len(sent) => data = status
    BY DEF InSync
  <2>1. AtLeast(data.at, seen)
    BY DEF IInv, Reaches
  <2>2. ASSUME link = "up", ~Behind, taken = Len(sent)
        PROVE  data = status
    <3>1. sent[taken] = status.at /\ AtLeast(seen, sent[taken])
      BY <2>2 DEF IInv, Reaches, Behind, Last
    <3>2. /\ data.at \in Place /\ status.at \in Place /\ seen \in Place
          /\ Follows(status, data)
      BY DEF IInv, TypeOK, Snapshot, Ordered
    <3>3. AtLeast(data.at, status.at)
      BY <2>1, <3>1, <3>2, ReachesOn
    <3>4. data.at = status.at
      BY <3>2, <3>3, SamePlace DEF AtLeast, Follows, Place
    <3>5. QED
      BY <2>2, <3>4 DEF IInv, Settled, Says
  <2>3. QED
    BY <2>1, <2>2
<1>2. QED
  BY <1>1, ClientInvariant, PTL

(***************************************************************************)
(* What is shown never goes back, for all of these numbers: the lock makes  *)
(* every answer at least as new as what is shown when it comes              *)
(* (LumaCoordinator.async_get_snapshot, _reject_stale_snapshot).            *)
(***************************************************************************)
THEOREM ShownNeverGoesBack == Spec => NeverBack
<1> DEFINE Onward == /\ data'.at[1] >= data.at[1] /\ ~Older(data'.at, data.at)
                     /\ data'.content >= data.content
<1>1. ASSUME TypeOK, Follows(data', data), data' \in Snapshot
      PROVE  Onward
  BY <1>1 DEF Follows, Older, TypeOK, Snapshot, Place
<1>2. IInv /\ [Next]_vars => [Onward]_vars
  <2> SUFFICES ASSUME IInv, Next
               PROVE  Onward
    OBVIOUS
  <2>1. CASE data' = data
    BY <2>1, <1>1 DEF IInv, TypeOK, Follows, Snapshot, Place
  <2>2. ASSUME NEW reader \in Readers, Receives(reader), Shows(answer[reader]),
               answer[reader] # Failed
        PROVE  Onward
    BY <2>2, <1>1 DEF IInv, TypeOK, Ordered, Answered, Receives, Shows
  <2>3. CASE Resync
    BY <2>1, <2>2, <2>3 DEF Resync, shown, Readers
  <2>4. CASE Refresh
    BY <2>1, <2>2, <2>4 DEF Refresh, shown, Readers
  <2>5. CASE Polled
    BY <2>1, <2>2, <2>5 DEF Polled, PollFails, Readers
  <2>6. CASE Session /\ ~Resync /\ ~Refresh
    BY <2>1, <2>6 DEF Session, Wake, Reconnect, FallBack, Connect, StreamStart, Overlap, Notification, Lost,
                      Closed, shown
  <2>7. CASE Poll \/ Ask \/ (Device /\ UNCHANGED <<shown, session, reads, failures>>)
    BY <2>1, <2>7 DEF Poll, Ask, AskFor, shown
  <2>8. QED
    BY <2>3, <2>4, <2>5, <2>6, <2>7 DEF Next
<1>3. QED
  BY <1>2, ClientInvariant, PTL DEF Spec, NeverBack
=============================================================================
