------------------------- MODULE RealtimeTransportProofs -------------------------
(***************************************************************************)
(* The device's side of the realtime stream, for every registry, pool and   *)
(* number of changes, connections and failing calls.  The invariant IInv    *)
(* says where a publication stands (AppInv), who holds the sockets (NetInv), *)
(* what is queued (QueueInv, Notes), and what the client may count on: while *)
(* it connects (ConnectInv), that it has missed nothing unnoticed; when it  *)
(* is live (LiveInv), that what it was not told of waits for it, in order.  *)
(* So every step is one that RealtimeStream allows.                         *)
(***************************************************************************)
EXTENDS RealtimeTransport, SequenceTheorems, WellFoundedInduction, TLAPS

-----------------------------------------------------------------------------
(* Types *)

Recycles == {"None", "StopPending", "RepublishPending", "RestartPending"}
AppPcs == {"loop", "close", "present", "build", "publish", "start", "submit", "recover", "closeAll",
           "clear", "stop", "restart"}
Whys == {"none", "recovery", "recycle", "transition", "restamp"}
HttpPcs == {"idle", "marker", "settle", "fan"}
TokenType == [slot : Slots, gen : Nat, fd : Fds, asked : BOOLEAN]
SlotType == [state : {"Free", "Connecting", "Live", "Closing"}, fd : Nat, gen : Nat, captured : Nat,
             missed : BOOLEAN, closing : BOOLEAN]
StartType == [busy : BOOLEAN, gen : Nat, pos : Nat, era : Nat]
WorkType == [busy : BOOLEAN, pos : Nat, era : Nat]
ItemType == [kind : {"close"}, n : Fds] \cup [kind : {"start"}, n : Slots]
              \cup [kind : {"note"}, n : Works]
StatusType == [ok : BOOLEAN, pos : Nat, content : Nat]

TypeOK ==
  /\ world \in Nat /\ last \in Nat /\ shown \in Nat /\ start \in Nat /\ era \in Nat /\ generations \in Nat
  /\ recycle \in Recycles /\ appPc \in AppPcs /\ why \in Whys
  /\ status \in StatusType
  /\ required \in BOOLEAN /\ accepting \in BOOLEAN /\ server \in BOOLEAN /\ success \in BOOLEAN
  /\ slots \in [Slots -> SlotType] /\ starts \in [Slots -> StartType] /\ works \in [Works -> WorkType]
  /\ queue \in Seq(ItemType) /\ httpPc \in HttpPcs /\ targets \subseteq TokenType
  /\ sockets \in [Fds -> {"free", "open", "gone"}]
  /\ link \in {"down", "dialing", "up", "cut"} /\ sent \in Seq(Nat)

-----------------------------------------------------------------------------
(* The application's task: what it has published, and what it is about to *)

Announcing == appPc \in {"publish", "start"} /\ why = "transition"
InTransition == appPc = "submit" \/ Announcing
\* The last position of which clients may have been told, and of which they must be.
Told == IF InTransition THEN last - 1 ELSE last
Owed == IF InTransition \/ appPc = "recover" THEN last - 1 ELSE last
Publishing == appPc \in {"build", "publish", "start"}
AllFree == \A i \in Slots : slots[i].state = "Free"

Positions ==
  /\ start <= status.pos /\ status.pos <= last /\ last <= start + 1
  /\ InTransition => last # 0
  /\ Announcing => start = last - 1
  /\ appPc = "publish" /\ why = "transition" => status.pos = last - 1
  /\ ~required /\ appPc # "recover" /\ ~Announcing => start = last /\ last <= shown
  /\ appPc = "clear" => last <= shown
Contents ==
  /\ last <= world /\ shown <= world /\ world <= MaxChanges
  /\ status.content <= world
  /\ IF appPc = "start" THEN status.pos = last /\ status.content = world ELSE shown = status.content
  /\ appPc = "publish" => ~status.ok
  /\ appPc = "publish" /\ why = "restamp" => world = shown /\ status.pos = last
Reasons ==
  /\ appPc = "build" => why \in {"recovery", "recycle"}
  /\ appPc \in {"publish", "start"} => why # "none"
  /\ Publishing /\ why = "recovery" => required /\ AllFree
  /\ Publishing /\ why = "recycle" => recycle = "RepublishPending"
  /\ Publishing /\ why \in {"transition", "restamp"} => ~required
  /\ Publishing /\ why # "recycle" => recycle = "None"
  /\ appPc = "submit" => ~required
  /\ appPc \in {"submit", "clear"} => recycle = "None"
  /\ appPc \in {"closeAll", "clear"} => required
  /\ appPc = "stop" => recycle = "StopPending" /\ ~accepting
  /\ appPc = "restart" => recycle = "RestartPending"
Stopped ==
  /\ ~accepting => recycle # "None"
  /\ accepting => server
  /\ recycle \in {"RepublishPending", "RestartPending"} =>
       /\ ~accepting /\ AllFree /\ httpPc = "idle" /\ queue = <<>>
       /\ \A fd \in Fds : sockets[fd] = "free"
\* A token of the place as it is now has its descriptor.
Knows(token) == token.gen <= generations /\ (Current(token) => slots[token.slot].fd = token.fd)
\* The client that is to be closed is not served any more.
Chosen ==
  appPc = "close" => /\ chosen \in TokenType /\ Knows(chosen)
                     /\ Current(chosen) => slots[chosen.slot].state = "Closing"
AppInv == Positions /\ Contents /\ Reasons /\ Stopped /\ Chosen

-----------------------------------------------------------------------------
(* The sockets, and the places that hold them *)

OneSocket ==
  /\ \A fd, other \in Fds : sockets[fd] = "open" /\ sockets[other] = "open" => fd = other
  /\ (\E fd \in Fds : sockets[fd] = "open") <=> link \in {"dialing", "up"}
  /\ link \in {"down", "dialing"} => sent = <<>>
  /\ link = "up" => sent # <<>>
Held ==
  /\ \A i \in Slots : slots[i].state # "Free" =>
       /\ slots[i].fd \in Fds /\ slots[i].gen <= generations
       /\ \A j \in Slots : slots[j].state # "Free" /\ slots[i].fd = slots[j].fd => i = j
  /\ \A fd \in Fds : sockets[fd] = "open" => \E i \in Slots : slots[i].state # "Free" /\ slots[i].fd = fd
  /\ \A token \in targets : Knows(token)
NetInv == OneSocket /\ Held

-----------------------------------------------------------------------------
(* The queue: work that is queued is busy, and queued once *)

Busy(x) == (x.kind = "start" => starts[x.n].busy) /\ (x.kind = "note" => works[x.n].busy)
Holding == httpPc # "idle"
Queued ==
  /\ \A k \in DOMAIN queue : Busy(queue[k])
  /\ \A k, m \in DOMAIN queue : queue[k].kind # "close" /\ queue[k] = queue[m] => k = m
  /\ Holding => item \in ItemType /\ Busy(item) /\ \A k \in DOMAIN queue : queue[k] # item
  /\ ~Holding => targets = {}
  /\ \A token, other \in targets : token.slot = other.slot => token = other
  /\ httpPc \in {"marker", "settle"} => item.kind = "start"
  /\ httpPc = "fan" => item.kind = "note"
Eras ==
  /\ \A w \in Works : works[w].busy => works[w].era <= era /\ (required => works[w].era < era)
                                       /\ works[w].pos # 0
  /\ \A i \in Slots : starts[i].busy => starts[i].era <= era /\ (required => starts[i].era < era)
                                       /\ starts[i].pos <= start
QueueInv == Queued /\ Eras

-----------------------------------------------------------------------------
(* The notes that may still be sent, those of this era *)

Note(x) == x.kind = "note" /\ works[x.n].era = era
Pos(x) == works[x.n].pos
Sending == httpPc = "fan" /\ Note(item)
Notes ==
  /\ \A k, m \in DOMAIN queue : k < m /\ Note(queue[k]) /\ Note(queue[m]) => Pos(queue[k]) < Pos(queue[m])
  /\ Sending => \A k \in DOMAIN queue : Note(queue[k]) => Pos(item) < Pos(queue[k])
  /\ ~required =>
       /\ \A k \in DOMAIN queue : Note(queue[k]) => Pos(queue[k]) <= start /\ Pos(queue[k]) <= Told
       /\ Sending => Pos(item) <= start /\ Pos(item) <= Told

-----------------------------------------------------------------------------
(* A client that connects *)

StartOf(i) == [kind |-> "start", n |-> i]
Taking(i) == httpPc \in {"marker", "settle"} /\ item = StartOf(i)
Open(i) == sockets[slots[i].fd] = "open"
Connects ==
  \A i \in Slots : slots[i].state = "Connecting" =>
    /\ starts[i].busy /\ starts[i].gen = slots[i].gen /\ starts[i].pos = slots[i].captured
    /\ ~required => starts[i].era = era
    /\ Open(i) => link = "dialing" \/ (httpPc = "settle" /\ Taking(i))
\* One that has missed no note so far
Misses ==
  \A i \in Slots : ~required /\ slots[i].state = "Connecting" /\ ~slots[i].missed =>
    /\ Owed <= slots[i].captured
    /\ \A k \in DOMAIN queue : Note(queue[k]) =>
         /\ Pos(queue[k]) <= slots[i].captured
         /\ Taking(i) \/ (\E m \in DOMAIN queue : m < k /\ queue[m] = StartOf(i))
              => Pos(queue[k]) = slots[i].captured
Marks ==
  /\ httpPc \in {"marker", "settle"} =>
       \E token \in targets : /\ targets = {token} /\ token.slot = item.n
                              /\ token.gen = starts[item.n].gen
  /\ \A token \in targets :
       /\ httpPc \in {"marker", "settle"} /\ sockets[token.fd] = "open" => Current(token)
       /\ httpPc = "marker" /\ sockets[token.fd] = "open" => link = "dialing"
       /\ httpPc = "settle" /\ success /\ sockets[token.fd] = "open" =>
            link = "up" /\ sent = <<starts[item.n].pos>>
ConnectInv == Connects /\ Misses /\ Marks

-----------------------------------------------------------------------------
(* A client that is live *)

Live(i) == slots[i].state = "Live" /\ Open(i)
Targeted(i) == Sending /\ \E token \in targets : token.slot = i /\ Current(token)
Awaited(i) == {Pos(queue[k]) : k \in {m \in DOMAIN queue : Note(queue[m])}}
                \cup (IF Targeted(i) THEN {Pos(item)} ELSE {})
Serving == ~required /\ (accepting \/ (httpPc = "fan" /\ targets # {}))
Follows(i) ==
  /\ Last(sent) <= start /\ (Len(sent) > 1 => Last(sent) <= Told)
  /\ \A p \in Awaited(i) : p > Last(sent) \/ (Len(sent) = 1 /\ p = Last(sent))
  /\ \A p \in (Last(sent) + 1)..Owed : p \in Awaited(i)
LiveInv ==
  /\ \A i \in Slots : Live(i) => link = "up" /\ (Serving => Follows(i))
  /\ ~required /\ Sending =>
       \A token \in targets : sockets[token.fd] = "open" => Live(token.slot) /\ Current(token)

ClientInv == NetInv /\ QueueInv /\ Notes /\ ConnectInv /\ LiveInv
IInv == TypeOK /\ AppInv /\ ClientInv

-----------------------------------------------------------------------------
(* Least elements, and what is appended to the queue *)

LEMMA LeastIn ==
  ASSUME NEW S \in SUBSET Nat, S # {}
  PROVE  Least(S) \in S /\ \A n \in S : Least(S) <= n
<1>1. PICK n \in S : \A m \in S : ~(<<m, n>> \in OpToRel(<, Nat))
  BY NatLessThanWellFounded, WFMin, Zenon
<1>2. \A m \in S : ~(m < n)
  BY <1>1, Zenon DEF OpToRel
<1>3. \A m \in S : n <= m
  BY <1>2
<1>4. QED
  BY <1>3 DEF Least

\* Behind the queue there may be a new request to close.
Extended ==
  /\ queue' \in Seq(ItemType)
  /\ \A k \in DOMAIN queue : k \in DOMAIN queue' /\ queue'[k] = queue[k]
  /\ \A k \in DOMAIN queue' : k \in DOMAIN queue \/ queue'[k].kind = "close"

LEMMA Appends ==
  ASSUME NEW S, NEW q \in Seq(S), NEW x \in S
  PROVE  /\ Append(q, x) \in Seq(S) /\ Len(q) \in Nat
         /\ DOMAIN q = 1..Len(q) /\ DOMAIN Append(q, x) = 1..(Len(q) + 1)
         /\ \A k \in 1..Len(q) : Append(q, x)[k] = q[k]
         /\ Append(q, x)[Len(q) + 1] = x
<1>1. Append(q, x) \in Seq(S) /\ Len(Append(q, x)) = Len(q) + 1 /\ Len(q) \in Nat
  BY AppendProperties, LenProperties
<1>2. DOMAIN q = 1..Len(q) /\ DOMAIN Append(q, x) = 1..(Len(q) + 1)
  BY <1>1, LenProperties
<1>3. QED
  BY <1>1, <1>2, AppendProperties

LEMMA Tails ==
  ASSUME NEW S, NEW q \in Seq(S), q # <<>>
  PROVE  /\ Tail(q) \in Seq(S) /\ Len(q) \in Nat /\ Len(q) # 0 /\ Head(q) = q[1] /\ q[1] \in S
         /\ DOMAIN q = 1..Len(q) /\ DOMAIN Tail(q) = 1..(Len(q) - 1)
         /\ \A k \in 1..(Len(q) - 1) : Tail(q)[k] = q[k + 1]
<1>1. Tail(q) \in Seq(S) /\ Len(q) \in Nat /\ Len(q) # 0 /\ Head(q) = q[1] /\ Len(Tail(q)) = Len(q) - 1
  BY HeadTailProperties, EmptySeq, LenProperties
<1>2. DOMAIN q = 1..Len(q) /\ DOMAIN Tail(q) = 1..(Len(q) - 1)
  BY <1>1, LenProperties
<1>3. q[1] \in S
  BY <1>1, <1>2, ElementOfSeq
<1>4. QED
  BY <1>1, <1>2, <1>3, HeadTailProperties

LEMMA ClosesExtend ==
  ASSUME queue \in Seq(ItemType), NEW fd \in Fds, Closes(fd)
  PROVE  Extended
<1>1. [kind |-> "close", n |-> fd] \in ItemType
  BY DEF ItemType
<1>2. queue' = Append(queue, [kind |-> "close", n |-> fd])
  BY DEF Closes
<1>3. QED
  BY <1>1, <1>2, Appends DEF Extended

LEMMA NoneExtends ==
  ASSUME queue \in Seq(ItemType), queue' = queue
  PROVE  Extended
BY DEF Extended

-----------------------------------------------------------------------------
(* What a client may lose at any time, and what it keeps then *)

\* A place keeps its client, or the client is given up, or it is over.
Leaves(i) ==
  \/ slots'[i] = slots[i]
  \/ /\ slots[i].state # "Free" /\ (required \/ slots[i].state = "Closing")
     /\ slots'[i].state = "Closing" /\ slots'[i].fd = slots[i].fd /\ slots'[i].gen = slots[i].gen
  \/ slots'[i].state = "Free" /\ slots[i].state # "Free" /\ ~Open(i)
\* A step of the application's task that promises no more than before.
Aside ==
  /\ UNCHANGED <<works, starts, era, required, generations, httpd, net>>
  /\ slots' \in [Slots -> SlotType] /\ (\A i \in Slots : Leaves(i)) /\ Extended
  /\ start' \in Nat /\ start <= start' /\ Told <= Told' /\ Owed' <= Owed /\ (accepting' => accepting)
  /\ last' \in Nat

LEMMA AsideNet ==
  ASSUME TypeOK, NetInv, Aside
  PROVE  NetInv'
<1>1. OneSocket'
  BY DEF NetInv, OneSocket, Aside, net
<1>2. Held'
  <2> USE DEF Aside, net, Leaves, Open, TypeOK, SlotType
  <2>1. \A i \in Slots : slots'[i].state # "Free" =>
          /\ slots[i].state # "Free" /\ slots'[i].fd = slots[i].fd /\ slots'[i].gen = slots[i].gen
    OBVIOUS
  <2>2. \A i \in Slots : slots[i].state # "Free" /\ Open(i) => slots'[i].state # "Free"
    OBVIOUS
  <2>3. \A fd \in Fds : sockets'[fd] = "open" =>
          \E i \in Slots : slots'[i].state # "Free" /\ slots'[i].fd = fd
    <3>1. SUFFICES ASSUME NEW fd \in Fds, sockets'[fd] = "open"
                   PROVE  \E i \in Slots : slots'[i].state # "Free" /\ slots'[i].fd = fd
      OBVIOUS
    <3>2. PICK i \in Slots : slots[i].state # "Free" /\ slots[i].fd = fd
      BY <3>1 DEF NetInv, Held
    <3>3. QED
      BY <3>1, <3>2, <2>1, <2>2
  <2>4. \A token \in targets' : Knows(token)'
    <3>1. SUFFICES ASSUME NEW token \in targets, token \in TokenType, Knows(token), Current(token)'
                   PROVE  slots'[token.slot].fd = token.fd
      BY DEF NetInv, Held, Knows, httpd
    <3>2. QED
      BY <3>1, <2>1 DEF Knows, Current, TokenType
  <2>5. QED
    BY <2>1, <2>3, <2>4 DEF NetInv, Held
<1>3. QED
  BY <1>1, <1>2 DEF NetInv

LEMMA AsideQueue ==
  ASSUME TypeOK, QueueInv, Aside
  PROVE  QueueInv'
<1> USE DEF Aside, httpd
<1>1. \A k \in DOMAIN queue' : (k \in DOMAIN queue /\ queue'[k] = queue[k]) \/ queue'[k].kind = "close"
  BY DEF Extended
<1>2. \A k \in DOMAIN queue' : Busy(queue[k])'
  BY <1>1 DEF QueueInv, Queued, Busy
<1>3. \A k, m \in DOMAIN queue' : queue'[k].kind # "close" /\ queue'[k] = queue'[m] => k = m
  BY <1>1 DEF QueueInv, Queued
<1>4. ASSUME Holding
      PROVE  item \in ItemType /\ Busy(item)' /\ \A k \in DOMAIN queue' : queue'[k] # item
  <2>1. item \in ItemType /\ Busy(item)
    BY <1>4 DEF QueueInv, Queued
  <2>2. Busy(item)'
    BY <2>1 DEF Busy
  <2>3. item.kind # "close"
    BY <1>4 DEF QueueInv, Queued, Holding, TypeOK, HttpPcs
  <2>4. QED
    BY <2>1, <2>2, <2>3, <1>1, <1>4 DEF QueueInv, Queued
<1>5. Queued'
  BY <1>2, <1>3, <1>4 DEF QueueInv, Queued, Holding
<1>6. Eras'
  BY DEF QueueInv, Eras, TypeOK, StartType
<1>7. QED
  BY <1>5, <1>6 DEF QueueInv

\* The notes in the queue are those that were there.
LEMMA AsideNoted ==
  ASSUME Aside
  PROVE  /\ \A k \in DOMAIN queue' : Note(queue[k])' <=> k \in DOMAIN queue /\ Note(queue[k])
         /\ \A k \in DOMAIN queue : queue'[k] = queue[k] /\ k \in DOMAIN queue'
         /\ \A k \in DOMAIN queue : Note(queue[k]) <=> Note(queue[k])'
         /\ \A k \in DOMAIN queue : Pos(queue[k])' = Pos(queue[k])
         /\ Pos(item)' = Pos(item) /\ item' = item
         /\ Note(item)' <=> Note(item)
         /\ Sending' <=> Sending
<1> USE DEF Aside, httpd
<1>1. \A k \in DOMAIN queue' : (k \in DOMAIN queue /\ queue'[k] = queue[k]) \/ queue'[k].kind = "close"
  BY DEF Extended
<1>2. (\A k \in DOMAIN queue : Pos(queue[k])' = Pos(queue[k])) /\ Pos(item)' = Pos(item)
  BY DEF Pos, Extended
<1>3. \A k \in DOMAIN queue : queue'[k] = queue[k] /\ k \in DOMAIN queue'
  BY DEF Extended
<1>4. QED
  BY <1>1, <1>2, <1>3 DEF Note, Sending

LEMMA ToldTypes ==
  /\ last \in Nat => Told \in Int /\ Owed \in Int /\ Owed <= Told /\ Told <= Owed + 1
  /\ last' \in Nat => Told' \in Int /\ Owed' \in Int
BY DEF Told, Owed

LEMMA AsideNotes ==
  ASSUME TypeOK, QueueInv, Notes, Aside
  PROVE  Notes'
<1>1. \A k, m \in DOMAIN queue' : k < m /\ Note(queue[k])' /\ Note(queue[m])' => Pos(queue[k])' < Pos(queue[m])'
  BY AsideNoted DEF Notes
<1>2. Sending' => \A k \in DOMAIN queue' : Note(queue[k])' => Pos(item)' < Pos(queue[k])'
  BY AsideNoted DEF Notes
<1>3. ASSUME ~required
      PROVE  /\ \A k \in DOMAIN queue : Note(queue[k]) => Pos(queue[k]) <= start' /\ Pos(queue[k]) <= Told'
             /\ Sending => Pos(item) <= start' /\ Pos(item) <= Told'
  <2>1. \A w \in Works : works[w].pos \in Nat
    BY DEF TypeOK, WorkType
  <2>2. \A k \in DOMAIN queue : queue[k] \in ItemType
    BY DEF TypeOK
  <2>3. \A k \in DOMAIN queue : Note(queue[k]) => Pos(queue[k]) \in Nat
    BY <2>1, <2>2 DEF Note, Pos, ItemType
  <2>4. Sending => Pos(item) \in Nat
    BY <2>1 DEF Sending, Note, Pos, ItemType, QueueInv, Queued, Holding
  <2>5. Told \in Int /\ Told' \in Int /\ start \in Nat /\ start' \in Nat /\ start <= start' /\ Told <= Told'
    BY ToldTypes DEF TypeOK, Aside
  <2>6. QED
    BY <1>3, <2>3, <2>4, <2>5 DEF Notes
<1>4. required' = required
  BY DEF Aside
<1>5. QED
  BY <1>1, <1>2, <1>3, <1>4, AsideNoted DEF Notes, Aside, httpd

LEMMA AsideConnects ==
  ASSUME TypeOK, NetInv, QueueInv, ConnectInv, Aside
  PROVE  ConnectInv'
<1>1. \A i \in Slots : slots'[i].state = "Connecting" => slots'[i] = slots[i]
  BY DEF Aside, Leaves
<1>2. Connects'
  BY <1>1 DEF ConnectInv, Connects, Aside, httpd, net, Taking, StartOf, Open
<1>3. Misses'
  <2>1. SUFFICES ASSUME NEW i \in Slots, ~required, slots'[i].state = "Connecting", ~slots'[i].missed
                 PROVE  /\ Owed' <= slots'[i].captured
                        /\ \A k \in DOMAIN queue' : Note(queue[k])' =>
                             /\ Pos(queue[k])' <= slots'[i].captured
                             /\ Taking(i)' \/ (\E m \in DOMAIN queue' : m < k /\ queue'[m] = StartOf(i))
                                  => Pos(queue[k])' = slots'[i].captured
    BY DEF Misses, Aside, StartOf
  <2>2. slots'[i] = slots[i] /\ slots[i].captured \in Nat
    BY <1>1, <2>1 DEF TypeOK, SlotType
  <2>3. Owed' <= slots[i].captured
    <3>1. Owed <= slots[i].captured
      BY <2>1, <2>2 DEF ConnectInv, Misses
    <3>2. Owed' <= Owed /\ Owed \in Int /\ Owed' \in Int
      BY ToldTypes DEF Aside, TypeOK
    <3>3. QED
      BY <3>1, <3>2, <2>2
  <2>4. Taking(i)' <=> Taking(i)
    BY DEF Taking, StartOf, Aside, httpd
  <2>5. ASSUME NEW k \in DOMAIN queue
        PROVE  (\E m \in DOMAIN queue' : m < k /\ queue'[m] = StartOf(i)) <=>
               (\E m \in DOMAIN queue : m < k /\ queue[m] = StartOf(i))
    BY DEF Aside, Extended, StartOf
  <2>6. QED
    BY <2>1, <2>2, <2>3, <2>4, <2>5, AsideNoted DEF ConnectInv, Misses
<1>4. Marks'
  <2>1. ASSUME NEW token \in targets, sockets[token.fd] = "open", Current(token), token \in TokenType
        PROVE  Current(token)'
    <3>1. slots[token.slot].state # "Free" /\ slots[token.slot].gen = token.gen /\ slots[token.slot].fd = token.fd
      BY <2>1 DEF Current, NetInv, Held, Knows
    <3>2. Leaves(token.slot)
      BY <2>1 DEF Aside, TokenType
    <3>3. QED
      BY <2>1, <3>1, <3>2 DEF Leaves, Open, Current
  <2>2. targets' \subseteq TokenType
    BY DEF TypeOK, Aside, httpd
  <2>3. QED
    BY <2>1, <2>2 DEF ConnectInv, Marks, Aside, httpd, net
<1>5. QED
  BY <1>2, <1>3, <1>4 DEF ConnectInv

LEMMA AsideLive ==
  ASSUME TypeOK, NetInv, QueueInv, LiveInv, Aside
  PROVE  LiveInv'
<1>1. \A i \in Slots : Live(i)' => Live(i) /\ slots'[i] = slots[i]
  BY DEF Aside, Leaves, Live, Open, net
<1>2. Serving' => Serving
  BY DEF Serving, Aside, httpd
<1>3. \A i \in Slots : slots'[i] = slots[i] => Awaited(i)' = Awaited(i)
  <2>1. SUFFICES ASSUME NEW i \in Slots, slots'[i] = slots[i]
                 PROVE  Awaited(i)' = Awaited(i)
    OBVIOUS
  <2>2. Targeted(i)' <=> Targeted(i)
    BY <2>1, AsideNoted DEF Targeted, Current, Aside, httpd
  <2>3. {Pos(queue[k])' : k \in {m \in DOMAIN queue' : Note(queue[m])'}} =
        {Pos(queue[k]) : k \in {m \in DOMAIN queue : Note(queue[m])}}
    BY AsideNoted
  <2>4. Pos(item)' = Pos(item) /\ item' = item
    BY AsideNoted DEF Aside, httpd
  <2>5. QED
    BY <2>2, <2>3, <2>4, AsideNoted DEF Awaited, Aside, httpd
<1>4. ASSUME NEW i \in Slots, slots'[i] = slots[i], sent # <<>>, Follows(i)
      PROVE  Follows(i)'
  <2>1. sent' = sent /\ sent \in Seq(Nat)
    BY DEF Aside, net, TypeOK
  <2>2. Last(sent) \in Nat
    BY <1>4, <2>1, LenProperties, EmptySeq, ElementOfSeq DEF Last
  <2>3. /\ start \in Nat /\ start' \in Nat /\ start <= start' /\ Told \in Int /\ Told' \in Int /\ Told <= Told'
        /\ Owed \in Int /\ Owed' \in Int /\ Owed' <= Owed
    BY ToldTypes DEF Aside, TypeOK
  <2>4. QED
    BY <1>3, <1>4, <2>1, <2>2, <2>3 DEF Follows
<1>5. \A i \in Slots : Live(i)' => link' = "up" /\ (Serving' => Follows(i)')
  BY <1>1, <1>2, <1>4 DEF LiveInv, Aside, net, NetInv, OneSocket
<1>6. ASSUME ~required', Sending', NEW token \in targets', sockets'[token.fd] = "open"
      PROVE  Live(token.slot)' /\ Current(token)'
  <2>1. Live(token.slot) /\ Current(token) /\ token \in TokenType /\ Knows(token)
    BY <1>6, AsideNoted DEF LiveInv, Aside, httpd, net, TypeOK, NetInv, Held
  <2>2. Leaves(token.slot)
    BY <2>1 DEF Aside, TokenType
  <2>3. slots'[token.slot] = slots[token.slot]
    BY <1>6, <2>1, <2>2 DEF Leaves, Live, Aside
  <2>4. QED
    BY <2>1, <2>3 DEF Live, Current, Open, Aside, net
<1>7. QED
  BY <1>5, <1>6 DEF LiveInv

LEMMA AsideInv ==
  ASSUME TypeOK, ClientInv, Aside
  PROVE  ClientInv'
BY AsideNet, AsideQueue, AsideNotes, AsideConnects, AsideLive DEF ClientInv

-----------------------------------------------------------------------------
(* The application's task *)

\* What it does without touching a client.
LEMMA Apart ==
  ASSUME TypeOK, UNCHANGED <<registry, pool, httpd, net, required, era>>, start' \in Nat, last' \in Nat,
         start <= start', Told <= Told', Owed' <= Owed, accepting' => accepting
  PROVE  Aside
BY NoneExtends DEF TypeOK, Aside, Leaves, registry, pool

\* The slots after the registry has given up a client, or has freed its place.
LEMMA GivenUpIs ==
  ASSUME slots \in [Slots -> SlotType], NEW token, token.slot \in Slots,
         NEW s \in {Closing(token), ClosingRequested(token)}
  PROVE  /\ s \in [Slots -> SlotType] /\ (~Current(token) => s = slots)
         /\ \A i \in Slots : i # token.slot => s[i] = slots[i]
         /\ Current(token) => /\ s[token.slot].state = "Closing" /\ s[token.slot].fd = slots[token.slot].fd
                              /\ s[token.slot].gen = slots[token.slot].gen
<1> DEFINE once == [slots EXCEPT ![token.slot].state = "Closing"]
           twice == [once EXCEPT ![token.slot].closing = TRUE]
<1>1. s \in {slots, once, twice} /\ (Current(token) => s \in {once, twice}) /\ (~Current(token) => s = slots)
  BY DEF Closing, ClosingRequested
<1>2. /\ once \in [Slots -> SlotType] /\ \A i \in Slots : i # token.slot => once[i] = slots[i]
      /\ once[token.slot].state = "Closing" /\ once[token.slot].fd = slots[token.slot].fd
      /\ once[token.slot].gen = slots[token.slot].gen
  BY DEF SlotType
<1> HIDE DEF once
<1>3. /\ twice \in [Slots -> SlotType] /\ \A i \in Slots : i # token.slot => twice[i] = once[i]
      /\ twice[token.slot].state = once[token.slot].state /\ twice[token.slot].fd = once[token.slot].fd
      /\ twice[token.slot].gen = once[token.slot].gen
  <2> DEFINE asked == [once[token.slot] EXCEPT !.closing = TRUE]
  <2>1. /\ asked \in SlotType /\ asked.state = once[token.slot].state /\ asked.fd = once[token.slot].fd
        /\ asked.gen = once[token.slot].gen
    <3>1. \A r \in SlotType : LET a == [r EXCEPT !.closing = TRUE]
                              IN a \in SlotType /\ a.state = r.state /\ a.fd = r.fd /\ a.gen = r.gen
      BY DEF SlotType
    <3>2. QED
      BY <1>2, <3>1
  <2>2. twice = [once EXCEPT ![token.slot] = asked]
    OBVIOUS
  <2> HIDE DEF asked, twice
  <2>3. QED
    BY <1>2, <2>1, <2>2
<1> HIDE DEF twice
<1>4. QED
  BY <1>1, <1>2, <1>3

LEMMA ReleasedIs ==
  ASSUME slots \in [Slots -> SlotType], NEW token, token.slot \in Slots
  PROVE  /\ Released(token) \in [Slots -> SlotType] /\ (~Current(token) => Released(token) = slots)
         /\ \A i \in Slots : i # token.slot => Released(token)[i] = slots[i]
         /\ Current(token) => Released(token)[token.slot] = FreeSlot
         /\ FreeSlot.state = "Free"
BY DEF Released, FreeSlot, SlotType

LEMMA RecycleInv ==
  ASSUME IInv, Recycle
  PROVE  IInv'
<1> USE DEF IInv, AppInv, Recycle, GoTo
<1>1. TypeOK'
  BY DEF TypeOK, AppPcs, Whys, registry, pool, httpd, net
<1>2. Positions' /\ Contents'
  BY DEF Positions, Contents, Reasons, TypeOK, InTransition, Announcing
<1>3. Reasons' /\ Stopped'
  BY DEF Reasons, Stopped, Publishing, AllFree, registry, pool, httpd, net, TypeOK, Recycles, AppPcs
<1>4. Chosen'
  BY DEF Chosen
<1>5. Told' = Told /\ Owed' = Owed
  BY DEF Told, Owed, InTransition, Announcing
<1>6. Aside
  BY <1>5, Apart, ToldTypes DEF TypeOK
<1>7. QED
  BY <1>1, <1>2, <1>3, <1>4, <1>6, AsideInv

LEMMA TenSecondsInv ==
  ASSUME IInv, TenSeconds
  PROVE  IInv'
<1> USE DEF IInv, AppInv, TenSeconds
<1>1. TypeOK' /\ Positions' /\ Contents' /\ Reasons' /\ Stopped' /\ Chosen'
  BY DEF TypeOK, Positions, Contents, Reasons, Stopped, Chosen, InTransition, Announcing, Publishing, AllFree,
         Knows, Current, registry, pool, httpd, net
<1>2. Told' = Told /\ Owed' = Owed
  BY DEF Told, Owed, InTransition, Announcing
<1>3. Aside
  BY <1>2, Apart, ToldTypes DEF TypeOK
<1>4. QED
  BY <1>1, <1>3, AsideInv

LEMMA PresentInv ==
  ASSUME IInv, Present
  PROVE  IInv'
<1> USE DEF IInv, AppInv
<1>1. /\ appPc = "present" /\ appPc' \in {"loop", "publish", "recover"}
      /\ UNCHANGED <<shown, recycle, retry, chosen, start, required, era, registry, pool, accepting, server,
                     httpd, net>>
  BY DEF Present, InvalidateAndBuild, GoTo
<1>2. CASE (recycle # "None" \/ required) /\ GoTo("loop") /\ UNCHANGED <<world, last, why, status, faults>>
  <2> USE <1>1, <1>2 DEF GoTo
  <2>1. TypeOK'
    BY DEF TypeOK, AppPcs, registry, pool, httpd, net
  <2>2. Positions' /\ Contents'
    BY DEF Positions, Contents, TypeOK, InTransition, Announcing
  <2>3. Reasons' /\ Stopped' /\ Chosen'
    BY DEF Reasons, Stopped, Publishing, AllFree, registry, pool, httpd, net, Chosen
  <2>4. Told' = Told /\ Owed' = Owed
    BY DEF Told, Owed, InTransition, Announcing
  <2>5. Aside
    BY <2>4, Apart, ToldTypes DEF TypeOK
  <2>6. QED
    BY <2>1, <2>2, <2>3, <2>5, AsideInv
<1>3. CASE recycle = "None" /\ ~required
  <2> USE <1>1, <1>3
  <2>1. PICK now \in {world, world + 1} :
          /\ now <= MaxChanges /\ world' = now /\ status' = [status EXCEPT !.ok = FALSE]
          /\ \/ appPc' = "publish" /\ (PublishesTransition(now) \/ RepublishesCurrent(now))
             \/ appPc' = "recover" /\ (PublishesTransition(now) \/ RepublishesCurrent(now))
             \/ appPc' = "recover" /\ now = world /\ UNCHANGED <<last, why>>
    <3>1. world <= MaxChanges /\ world \in Nat /\ MaxChanges \in Nat
      BY TransportAssumption DEF Contents, TypeOK
    <3>2. CASE status' = Invalidated /\ GoTo("recover") /\ UNCHANGED <<world, last, why>>
      BY <3>1, <3>2 DEF Invalidated, GoTo
    <3>3. ASSUME NEW now \in Worlds, InvalidateAndBuild(now), PublishesTransition(now) \/ RepublishesCurrent(now)
          PROVE  /\ now \in {world, world + 1} /\ now <= MaxChanges /\ world' = now
                 /\ status' = [status EXCEPT !.ok = FALSE] /\ appPc' \in {"publish", "recover"}
      BY <3>1, <3>3 DEF Worlds, InvalidateAndBuild, GoTo, Invalidated
    <3>4. QED
      BY <3>2, <3>3 DEF Present
  <2> USE <2>1 DEF PublishesTransition, RepublishesCurrent, Changed
  <2>2. /\ last' \in {last, last + 1} /\ (last' = last + 1 => why' = "transition" /\ now # shown)
        /\ why' \in {"transition", "restamp", why}
        /\ appPc' = "publish" => \/ why' = "transition" /\ last' = last + 1
                                 \/ why' = "restamp" /\ last' = last /\ now = shown
    BY DEF TypeOK
  <2> HIDE DEF PublishesTransition, RepublishesCurrent
  <2>3. /\ start = last /\ status.pos \in Nat /\ status.content \in Nat /\ status.pos <= last
        /\ start <= status.pos /\ last <= shown /\ shown <= world
    BY DEF Positions, Contents, Announcing, TypeOK, StatusType
  <2>4. status' \in StatusType /\ status'.pos = status.pos /\ status'.content = status.content /\ ~status'.ok
    BY DEF TypeOK, StatusType
  <2>5. TypeOK'
    BY <2>2, <2>4 DEF TypeOK, AppPcs, Whys, registry, pool, httpd, net
  <2>6. Positions'
    BY <2>2, <2>3, <2>4 DEF Positions, InTransition, Announcing, TypeOK
  <2>7. Contents'
    BY <2>2, <2>3, <2>4 DEF Contents, TypeOK
  <2>8. Reasons' /\ Stopped' /\ Chosen'
    BY <2>2 DEF Reasons, Stopped, Publishing, AllFree, registry, pool, httpd, net, Chosen
  <2>9. Told <= Told' /\ Owed' <= Owed
    BY <2>2, <2>3 DEF Told, Owed, InTransition, Announcing, TypeOK
  <2>10. Aside
    BY <2>2, <2>9, Apart, ToldTypes, SMTT(30) DEF TypeOK
  <2>11. QED
    BY <2>5, <2>6, <2>7, <2>8, <2>10, AsideInv
<1>4. QED
  BY <1>2, <1>3 DEF Present

LEMMA BuildInv ==
  ASSUME IInv, Build
  PROVE  IInv'
<1> USE DEF IInv, AppInv
<1>1. PICK now \in Worlds : InvalidateAndBuild(now)
  BY DEF Build
<1>2. /\ appPc = "build" /\ world' \in Nat /\ world <= world' /\ world' <= MaxChanges
      /\ status' = [status EXCEPT !.ok = FALSE] /\ appPc' \in {"publish", "recover"}
      /\ UNCHANGED <<last, shown, recycle, retry, why, chosen, start, required, era, registry, pool,
                     accepting, server, httpd, net>>
  BY <1>1, TransportAssumption DEF Build, InvalidateAndBuild, GoTo, Invalidated, Worlds, TypeOK, Contents
<1>3. status' \in StatusType /\ status'.pos = status.pos /\ status'.content = status.content /\ ~status'.ok
  BY <1>2 DEF TypeOK, StatusType
<1>4. TypeOK'
  BY <1>2, <1>3 DEF TypeOK, AppPcs, registry, pool, httpd, net
<1>5. why \in {"recovery", "recycle"}
  BY <1>2 DEF Reasons
<1>6. Positions' /\ Contents'
  BY <1>2, <1>3, <1>5, SMTT(30) DEF Positions, Contents, TypeOK, InTransition, Announcing, StatusType
<1>7. Reasons' /\ Stopped' /\ Chosen'
  BY <1>2, <1>5 DEF Reasons, Stopped, Publishing, AllFree, registry, pool, httpd, net, Chosen
<1>8. Told <= Told' /\ Owed' <= Owed
  BY <1>2, <1>5 DEF Told, Owed, InTransition, Announcing, TypeOK
<1>9. Aside
  BY <1>2, <1>8, Apart DEF TypeOK
<1>10. QED
  BY <1>4, <1>6, <1>7, <1>9, AsideInv

LEMMA PublishInv ==
  ASSUME IInv, Publish
  PROVE  IInv'
<1> USE DEF IInv, AppInv, GoTo, Publish
<1>1. status' \in StatusType /\ status'.pos = last /\ status'.content = world /\ status'.ok
  BY DEF TypeOK, StatusType, Pending
<1>2. TypeOK'
  BY <1>1 DEF TypeOK, AppPcs, registry, pool, httpd, net
<1>3. Positions' /\ Contents'
  BY <1>1 DEF Positions, Contents, TypeOK, InTransition, Announcing, StatusType
<1>4. Reasons' /\ Stopped' /\ Chosen'
  BY DEF Reasons, Stopped, Publishing, AllFree, registry, pool, httpd, net, Chosen
<1>5. Told = Told' /\ Owed' = Owed
  BY DEF Told, Owed, InTransition, Announcing
<1>6. Aside
  BY <1>5, Apart, ToldTypes DEF TypeOK
<1>7. QED
  BY <1>2, <1>3, <1>4, <1>6, AsideInv

LEMMA PublishStartInv ==
  ASSUME IInv, PublishStart
  PROVE  IInv'
<1> USE DEF IInv, AppInv
<1>1. /\ appPc = "start" /\ start' = last /\ shown' = world /\ why' = "none"
      /\ \/ why = "transition" /\ appPc' = "submit" /\ recycle' = recycle
         \/ why = "restamp" /\ appPc' = "loop" /\ recycle' = recycle
         \/ why = "recovery" /\ appPc' = "clear" /\ recycle' = recycle
         \/ why = "recycle" /\ appPc' = "restart" /\ recycle' = "RestartPending"
      /\ UNCHANGED <<world, last, retry, chosen, status, required, era, registry, pool, accepting, server,
                     httpd, net>>
  BY DEF PublishStart, StreamStart, RememberCoherent, AfterPublication, GoTo
<1>2. TypeOK'
  BY <1>1 DEF TypeOK, AppPcs, Whys, Recycles, registry, pool, httpd, net
<1>3. Positions' /\ Contents'
  BY <1>1 DEF Positions, Contents, TypeOK, InTransition, Announcing
<1>4. Reasons'
  BY <1>1 DEF Reasons, Publishing, AllFree, registry
<1>5. Stopped' /\ Chosen'
  BY <1>1 DEF Reasons, Publishing, Stopped, AllFree, registry, pool, httpd, net, Chosen
<1>6. Told = Told' /\ Owed' = Owed /\ start <= start'
  BY <1>1 DEF Told, Owed, InTransition, Announcing, Positions, TypeOK, StatusType
<1>7. Aside
  BY <1>1, <1>6, Apart, ToldTypes DEF TypeOK
<1>8. QED
  BY <1>2, <1>3, <1>4, <1>5, <1>7, AsideInv

LEMMA CloseAllInv ==
  ASSUME IInv, CloseAll
  PROVE  IInv'
<1> USE DEF IInv, AppInv, GoTo, CloseAll
<1>1. slots' \in [Slots -> SlotType] /\ \A i \in Slots : Leaves(i) /\ (slots'[i].state = "Free" <=> slots[i].state = "Free")
  BY DEF AllClosing, Leaves, TypeOK, SlotType, Reasons
<1>2. TypeOK'
  BY <1>1 DEF TypeOK, AppPcs, pool, httpd, net
<1>3. Positions' /\ Contents'
  BY DEF Positions, Contents, Reasons, TypeOK, InTransition, Announcing
<1>4. Reasons' /\ Stopped' /\ Chosen'
  BY <1>1 DEF Reasons, Stopped, Publishing, AllFree, pool, httpd, net, Chosen
<1>5. Told = Told' /\ Owed' = Owed
  BY DEF Told, Owed, InTransition, Announcing
<1>6. Aside
  BY <1>1, <1>5, ToldTypes, NoneExtends DEF TypeOK, Aside, pool
<1>7. QED
  BY <1>2, <1>3, <1>4, <1>6, AsideInv

LEMMA ScanInv ==
  ASSUME IInv, Scan
  PROVE  IInv'
<1> USE DEF IInv, AppInv
<1> DEFINE s == IF required THEN AllClosing(slots) ELSE slots
           over == {i \in Slots : s[i].state # "Free" /\ (s[i].state = "Closing" \/ ~IsWebSocket(s[i].fd))}
           i0 == Least(over)
<1>1. s \in [Slots -> SlotType] /\ \A i \in Slots :
        /\ s[i].fd = slots[i].fd /\ s[i].gen = slots[i].gen
        /\ s[i].state = "Free" <=> slots[i].state = "Free"
        /\ \/ s[i] = slots[i]
           \/ required /\ slots[i].state # "Free" /\ s[i].state = "Closing"
  BY DEF AllClosing, TypeOK, SlotType
<1>2. over # {} => i0 \in over /\ i0 \in Slots
  <2>1. over \subseteq Slots /\ over \in SUBSET Nat
    BY TransportAssumption
  <2>2. QED
    BY <2>1, LeastIn
<1>3. /\ appPc = "loop" /\ recycle = "None"
      /\ UNCHANGED <<world, last, shown, recycle, status, start, required, era, generations, pool,
                     accepting, server, httpd, net, faults>>
      /\ \/ /\ over = {} /\ slots' = s
            /\ \/ appPc' = "build" /\ why' = "recovery" /\ required
               \/ appPc' = "present" /\ why' = why
         \/ /\ over # {} /\ why' = why /\ slots' = s /\ chosen' = Token(i0) /\ appPc' = "close"
            /\ IsWebSocket(s[i0].fd)
         \/ /\ over # {} /\ why' = why /\ slots' = [s EXCEPT ![i0] = FreeSlot] /\ appPc' = "present"
            /\ ~IsWebSocket(s[i0].fd)
  BY DEF Scan, GoTo
<1>4. required => \A i \in Slots : s[i].state = "Free" \/ s[i].state = "Closing"
  BY DEF AllClosing, TypeOK, SlotType
<1>5. /\ over = {} => \A i \in Slots : s[i].state # "Closing"
      /\ i0 \in over => s[i0].state # "Free" /\ (IsWebSocket(s[i0].fd) => s[i0].state = "Closing")
  OBVIOUS
<1> HIDE DEF s, over, i0
<1>6. /\ slots' \in [Slots -> SlotType] /\ \A i \in Slots : Leaves(i)
      /\ AllFree => \A i \in Slots : slots'[i].state = "Free"
  <2>1. CASE slots' = s
    BY <1>1, <2>1 DEF Leaves, AllFree
  <2>2. CASE over # {} /\ slots' = [s EXCEPT ![i0] = FreeSlot] /\ ~IsWebSocket(s[i0].fd)
    <3>1. FreeSlot \in SlotType /\ FreeSlot.state = "Free"
      BY DEF FreeSlot, SlotType
    <3>2. i0 \in Slots /\ s[i0].state # "Free" /\ slots'[i0] = FreeSlot
          /\ slots' \in [Slots -> SlotType] /\ \A i \in Slots \ {i0} : slots'[i] = s[i]
      BY <1>1, <1>2, <1>5, <2>2, <3>1
    <3>3. ~Open(i0)
      BY <1>1, <2>2, <3>2 DEF Open, IsWebSocket
    <3>4. QED
      BY <1>1, <3>1, <3>2, <3>3 DEF Leaves, AllFree
  <2>3. QED
    BY <1>3, <2>1, <2>2
<1>7. TypeOK'
  BY <1>3, <1>6 DEF TypeOK, AppPcs, Whys, pool, httpd, net
<1>8. Positions' /\ Contents'
  BY <1>3 DEF Positions, Contents, TypeOK, InTransition, Announcing
<1>9. over = {} /\ slots' = s /\ required => \A i \in Slots : slots'[i].state = "Free"
  BY <1>4, <1>5
<1>10. Reasons' /\ Stopped'
  BY <1>3, <1>6, <1>9 DEF Reasons, Stopped, Publishing, AllFree, pool, httpd, net
<1>11. Chosen'
  <2>1. SUFFICES ASSUME over # {}, slots' = s, chosen' = Token(i0), IsWebSocket(s[i0].fd), appPc' = "close"
                 PROVE  Chosen'
    BY <1>3 DEF Chosen
  <2>2. i0 \in Slots /\ s[i0].state = "Closing"
    BY <1>2, <1>5, <2>1
  <2>3. slots[i0].fd \in Fds /\ slots[i0].gen <= generations
    BY <1>1, <2>2 DEF ClientInv, NetInv, Held
  <2>4. /\ chosen'.slot = i0 /\ chosen'.gen = slots[i0].gen /\ chosen'.fd = slots[i0].fd
        /\ chosen' \in TokenType
    BY <2>1, <2>2, <2>3 DEF Token, TokenType, TypeOK, SlotType
  <2>5. QED
    BY <1>1, <1>3, <2>1, <2>2, <2>3, <2>4 DEF Chosen, Knows, Current
<1>12. Told = Told' /\ Owed' = Owed
  BY <1>3 DEF Told, Owed, InTransition, Announcing
<1>13. Aside
  BY <1>3, <1>6, <1>12, ToldTypes, NoneExtends DEF TypeOK, Aside, pool
<1>14. QED
  BY <1>7, <1>8, <1>10, <1>11, <1>13, AsideInv

LEMMA CloseChosenInv ==
  ASSUME IInv, CloseChosen
  PROVE  IInv'
<1> USE DEF IInv, AppInv
<1>1. /\ appPc = "close" /\ appPc' = "present" /\ chosen \in TokenType /\ Knows(chosen)
      /\ Current(chosen) => slots[chosen.slot].state = "Closing"
      /\ UNCHANGED <<world, last, shown, why, status, start, required, era, generations, works, starts,
                     accepting, server, httpd, net>>
      /\ recycle' = recycle \/ recycle' = "StopPending"
      /\ \/ ~IsWebSocket(chosen.fd) /\ slots' = Released(chosen) /\ queue' = queue /\ recycle' = recycle
         \/ slots' = slots /\ queue' = queue
         \/ Closes(chosen.fd) /\ slots' = ClosingRequested(chosen) /\ recycle' = recycle
  BY DEF CloseChosen, GoTo, RetryNeeded, Chosen
<1>2. /\ slots' \in [Slots -> SlotType] /\ \A i \in Slots : Leaves(i)
      /\ AllFree => \A i \in Slots : slots'[i].state = "Free"
  <2>1. chosen.slot \in Slots /\ (Current(chosen) => slots[chosen.slot].fd = chosen.fd)
    BY <1>1 DEF TokenType, Knows
  <2>2. CASE slots' = slots
    BY <2>2 DEF Leaves, TypeOK, AllFree
  <2>3. CASE ~IsWebSocket(chosen.fd) /\ slots' = Released(chosen)
    BY <2>1, <2>3, ReleasedIs DEF Leaves, AllFree, Open, IsWebSocket, Current, TypeOK
  <2>4. CASE slots' = ClosingRequested(chosen)
    BY <1>1, <2>1, <2>4, GivenUpIs DEF Leaves, AllFree, Current, TypeOK
  <2>5. QED
    BY <1>1, <2>2, <2>3, <2>4
<1>3. Extended
  BY <1>1, ClosesExtend, NoneExtends DEF TypeOK, TokenType
<1>4. TypeOK'
  BY <1>1, <1>2, <1>3 DEF TypeOK, AppPcs, Recycles, httpd, net, Extended
<1>5. Positions' /\ Contents' /\ Chosen'
  BY <1>1 DEF Positions, Contents, TypeOK, InTransition, Announcing, Chosen
<1>6. Reasons'
  BY <1>1 DEF Reasons, Publishing
<1>7. recycle \in {"RepublishPending", "RestartPending"} => queue' = queue
  <2>1. ASSUME \A fd \in Fds : sockets[fd] = "free"
        PROVE  ~IsWebSocket(chosen.fd)
    BY <1>1, <2>1 DEF IsWebSocket, TokenType
  <2>2. ~IsWebSocket(chosen.fd) => queue' = queue
    BY DEF CloseChosen
  <2>3. QED
    BY <2>1, <2>2 DEF Stopped
<1>8. Stopped'
  BY <1>1, <1>2, <1>7 DEF Stopped, AllFree, httpd, net
<1>9. Told = Told' /\ Owed' = Owed
  BY <1>1 DEF Told, Owed, InTransition, Announcing
<1>10. Aside
  BY <1>1, <1>2, <1>3, <1>9, ToldTypes DEF TypeOK, Aside
<1>11. QED
  BY <1>4, <1>5, <1>6, <1>8, <1>10, AsideInv

\* Only a client that connects may be marked as having missed a note.
LEMMA NotedIs ==
  ASSUME slots \in [Slots -> SlotType], NEW pos \in Nat
  PROVE  /\ Noted(pos) \in [Slots -> SlotType]
         /\ \A i \in Slots : LET s == Noted(pos)[i]
                             IN /\ s.state = slots[i].state /\ s.fd = slots[i].fd /\ s.gen = slots[i].gen
                                /\ s.captured = slots[i].captured
                                /\ s.state = "Connecting" /\ ~s.missed => ~slots[i].missed /\ pos <= s.captured
<1>1. \A i \in Slots : Noted(pos)[i] = IF slots[i].state = "Connecting" /\ pos > slots[i].captured
                                      THEN [slots[i] EXCEPT !.missed = TRUE] ELSE slots[i]
  BY DEF Noted
<1>2. \A r \in SlotType : [r EXCEPT !.missed = TRUE] \in SlotType
  BY DEF SlotType
<1>3. \A r \in SlotType : LET a == [r EXCEPT !.missed = TRUE]
                          IN a.state = r.state /\ a.fd = r.fd /\ a.gen = r.gen /\ a.captured = r.captured /\ a.missed
  BY DEF SlotType
<1>4. Noted(pos) \in [Slots -> SlotType] /\ \A i \in Slots : slots[i] \in SlotType /\ slots[i].captured \in Nat
  BY <1>2 DEF Noted, SlotType
<1>5. ASSUME NEW i \in Slots
      PROVE  LET s == Noted(pos)[i]
             IN /\ s.state = slots[i].state /\ s.fd = slots[i].fd /\ s.gen = slots[i].gen
                /\ s.captured = slots[i].captured
                /\ s.state = "Connecting" /\ ~s.missed => ~slots[i].missed /\ pos <= s.captured
  <2>1. CASE slots[i].state = "Connecting" /\ pos > slots[i].captured
    <3>1. Noted(pos)[i] = [slots[i] EXCEPT !.missed = TRUE]
      BY <1>1, <2>1
    <3>2. QED
      BY <1>3, <1>4, <3>1
  <2>2. CASE ~(slots[i].state = "Connecting" /\ pos > slots[i].captured)
    <3>1. Noted(pos)[i] = slots[i]
      BY <1>1, <2>2
    <3>2. QED
      BY <1>4, <2>2, <3>1
  <2>3. QED
    BY <2>1, <2>2
<1>6. QED
  BY <1>4, <1>5

\* The notification of the last position is queued.
Submitted ==
  /\ TypeOK /\ ClientInv /\ start = last /\ last # 0 /\ ~required
  /\ appPc = "submit" /\ appPc' = "loop" /\ slots' = Noted(last)
  /\ \E w \in Works : /\ ~works[w].busy /\ works' = [works EXCEPT ![w] = Notification(last)]
                      /\ queue' = Append(queue, [kind |-> "note", n |-> w])
  /\ UNCHANGED <<last, why, start, required, era, generations, starts, accepting, httpd, net>>

\* What was in the queue stays there, and the new note is behind it.
Queues(w) ==
  /\ queue' \in Seq(ItemType) /\ works' \in [Works -> WorkType]
  /\ Len(queue) \in Nat /\ DOMAIN queue = 1..Len(queue) /\ DOMAIN queue' = 1..(Len(queue) + 1)
  /\ \A k \in 1..Len(queue) : /\ queue'[k] = queue[k] /\ queue[k] # [kind |-> "note", n |-> w]
                              /\ Note(queue[k])' <=> Note(queue[k])
                              /\ Note(queue[k]) => Pos(queue[k])' = Pos(queue[k])
                              /\ Busy(queue[k])'
  /\ queue'[Len(queue) + 1] = [kind |-> "note", n |-> w]
  /\ \A k \in DOMAIN queue' : k = Len(queue) + 1 => Note(queue[k])' /\ Pos(queue[k])' = last /\ Busy(queue[k])'
  /\ Holding => /\ item # [kind |-> "note", n |-> w] /\ Busy(item)'
  /\ Sending' <=> Sending
  /\ Sending => Pos(item)' = Pos(item)

LEMMA SubmittedQueues ==
  ASSUME Submitted
  PROVE  \E w \in Works : Queues(w)
<1> USE DEF Submitted
<1>1. PICK w \in Works : /\ ~works[w].busy /\ works' = [works EXCEPT ![w] = Notification(last)]
                         /\ queue' = Append(queue, [kind |-> "note", n |-> w])
  OBVIOUS
<1> DEFINE new == [kind |-> "note", n |-> w]
<1>2. new \in ItemType /\ new.kind = "note" /\ new.n = w
  BY DEF ItemType
<1>3. /\ queue' \in Seq(ItemType) /\ Len(queue) \in Nat
      /\ DOMAIN queue = 1..Len(queue) /\ DOMAIN queue' = 1..(Len(queue) + 1)
      /\ \A k \in 1..Len(queue) : queue'[k] = queue[k]
      /\ queue'[Len(queue) + 1] = new
  BY <1>1, <1>2, Appends DEF TypeOK
<1>4. ~Busy(new)
  BY <1>1 DEF Busy
<1>5. \A k \in 1..Len(queue) : queue[k] \in ItemType /\ Busy(queue[k]) /\ queue[k] # new
  BY <1>3, <1>4, ElementOfSeq DEF TypeOK, ClientInv, QueueInv, Queued
<1>6. /\ works' \in [Works -> WorkType] /\ works'[w].busy /\ works'[w].pos = last /\ works'[w].era = era
      /\ \A v \in Works : v # w => works'[v] = works[v]
  BY <1>1 DEF TypeOK, WorkType, Notification
<1>7. \A x \in ItemType : x # new /\ Busy(x) =>
        /\ x.kind = "note" => x.n # w /\ x.n \in Works
        /\ x.kind = "start" => starts'[x.n].busy
        /\ x.kind = "note" => works'[x.n] = works[x.n] /\ works'[x.n].busy
  BY <1>6 DEF ItemType, Busy
<1>8. \A k \in 1..Len(queue) : /\ Note(queue[k])' <=> Note(queue[k])
                               /\ Note(queue[k]) => Pos(queue[k])' = Pos(queue[k])
                               /\ Busy(queue[k])'
  BY <1>3, <1>5, <1>7 DEF Note, Pos, Busy, ItemType
<1>9. \A k \in DOMAIN queue' : k = Len(queue) + 1 => Note(queue[k])' /\ Pos(queue[k])' = last /\ Busy(queue[k])'
  BY <1>3, <1>6 DEF Note, Pos, Busy
<1>10. ASSUME Holding
       PROVE  item # new /\ item \in ItemType /\ Busy(item)' /\ (Note(item)' <=> Note(item))
              /\ (Note(item) => Pos(item)' = Pos(item))
  <2>1. item \in ItemType /\ Busy(item) /\ item # new /\ item' = item
    BY <1>4, <1>10 DEF ClientInv, QueueInv, Queued, httpd
  <2>2. QED
    BY <2>1, <1>7 DEF Note, Pos, Busy, ItemType
<1>11. Sending' <=> Sending
  BY <1>10 DEF Sending, Holding, httpd
<1>12. QED
  BY <1>3, <1>5, <1>6, <1>8, <1>9, <1>10, <1>11 DEF Queues, Sending, Holding

LEMMA SubmittedInv ==
  ASSUME Submitted
  PROVE  ClientInv' /\ slots' \in [Slots -> SlotType] /\ queue' \in Seq(ItemType)
         /\ works' \in [Works -> WorkType]
<1>0. /\ TypeOK /\ ClientInv /\ start = last /\ last # 0 /\ ~required /\ ~required' /\ last \in Nat
      /\ last' = last /\ start' = start /\ era' = era /\ generations' = generations /\ starts' = starts
      /\ accepting' = accepting /\ httpPc' = httpPc /\ item' = item /\ targets' = targets
      /\ success' = success /\ sockets' = sockets /\ link' = link /\ sent' = sent
  <2>1. TypeOK /\ ClientInv /\ start = last /\ last # 0 /\ ~required
    BY DEF Submitted
  <2>2. last \in Nat
    BY <2>1 DEF TypeOK
  <2>3. /\ last' = last /\ start' = start /\ era' = era /\ generations' = generations /\ starts' = starts
        /\ accepting' = accepting /\ required' = required
    BY DEF Submitted
  <2>4. /\ httpPc' = httpPc /\ item' = item /\ targets' = targets /\ success' = success
        /\ sockets' = sockets /\ link' = link /\ sent' = sent
    BY DEF Submitted, httpd, net
  <2>5. QED
    BY <2>1, <2>2, <2>3, <2>4
<1> USE <1>0
<1>1. PICK w \in Works : Queues(w)
  BY SubmittedQueues, Zenon
<1> DEFINE new == [kind |-> "note", n |-> w]
           N == Len(queue) + 1
<1>2. /\ slots' \in [Slots -> SlotType]
      /\ \A i \in Slots : /\ slots'[i].state = slots[i].state /\ slots'[i].fd = slots[i].fd
                          /\ slots'[i].gen = slots[i].gen /\ slots'[i].captured = slots[i].captured
                          /\ slots'[i].state = "Connecting" /\ ~slots'[i].missed =>
                               ~slots[i].missed /\ last <= slots[i].captured
  BY NotedIs DEF TypeOK, Submitted
<1>3. Told = last - 1 /\ Owed = last - 1 /\ Told' = last /\ Owed' = last /\ last \in Nat
  BY DEF Told, Owed, InTransition, Announcing, Submitted
<1>4. NetInv'
  <2>1. OneSocket'
    BY DEF ClientInv, NetInv, OneSocket
  <2>2. \A token \in targets' : Knows(token)'
    <3>1. \A token \in targets : token.slot \in Slots /\ Knows(token)
      BY DEF ClientInv, NetInv, Held, TypeOK, TokenType
    <3>2. QED
      BY <1>2, <3>1 DEF Knows, Current
  <2>3. Held'
    BY <1>2, <2>2 DEF ClientInv, NetInv, Held
  <2>4. QED
    BY <2>1, <2>3 DEF NetInv
<1>5. QueueInv'
  <2>1. Queued'
    <3>1. \A k \in DOMAIN queue' : Busy(queue[k])'
      BY <1>1 DEF Queues
    <3>2. \A k, m \in DOMAIN queue' : queue'[k].kind # "close" /\ queue'[k] = queue'[m] => k = m
      BY <1>1 DEF Queues, ClientInv, QueueInv, Queued
    <3>3. Holding => item' \in ItemType /\ Busy(item)' /\ \A k \in DOMAIN queue' : queue'[k] # item'
      BY <1>1 DEF Queues, ClientInv, QueueInv, Queued
    <3>4. QED
      BY <3>1, <3>2, <3>3 DEF ClientInv, QueueInv, Queued, Holding
  <2>2. Eras'
    <3>2. PICK v \in Works : works' = [works EXCEPT ![v] = Notification(last)]
      BY DEF Submitted
    <3>3. /\ \A u \in Works : u # v => works'[u] = works[u]
          /\ works'[v].era = era /\ works'[v].pos = last
      BY <3>2 DEF TypeOK, Notification
    <3>4. QED
      BY <3>3 DEF ClientInv, QueueInv, Eras, TypeOK
  <2>3. QED
    BY <2>1, <2>2 DEF QueueInv
<1>6. /\ \A k \in 1..Len(queue) : Note(queue[k]) => Pos(queue[k]) \in Nat /\ Pos(queue[k]) < last
      /\ Sending => Pos(item) \in Nat /\ Pos(item) < last
  <2>1. \A x \in ItemType : Note(x) => Pos(x) \in Nat
    BY DEF ItemType, Note, Pos, TypeOK, WorkType
  <2>2. \A k \in 1..Len(queue) : queue[k] \in ItemType
    BY <1>1 DEF TypeOK, Queues
  <2>3. Sending => item \in ItemType /\ Note(item)
    BY DEF Sending, ClientInv, QueueInv, Queued, Holding
  <2>4. QED
    BY <1>1, <1>3, <2>1, <2>2, <2>3 DEF ClientInv, Notes, Queues
<1>7. Notes'
  <2>1. \A k, m \in DOMAIN queue' : k < m /\ Note(queue[k])' /\ Note(queue[m])' => Pos(queue[k])' < Pos(queue[m])'
    BY <1>1, <1>3, <1>6 DEF ClientInv, Notes, Queues
  <2>2. Sending' => \A k \in DOMAIN queue' : Note(queue[k])' => Pos(item)' < Pos(queue[k])'
    BY <1>1, <1>3, <1>6 DEF ClientInv, Notes, Queues
  <2>3. /\ \A k \in DOMAIN queue' : Note(queue[k])' => Pos(queue[k])' <= start' /\ Pos(queue[k])' <= Told'
        /\ Sending' => Pos(item)' <= start' /\ Pos(item)' <= Told'
    BY <1>1, <1>3, <1>6 DEF Queues
  <2>4. QED
    BY <2>1, <2>2, <2>3 DEF Notes
<1>8. ConnectInv'
  <2>1. Connects'
    BY <1>2 DEF ClientInv, ConnectInv, Connects, Taking, StartOf, Open
  <2>2. Misses'
    <3>1. SUFFICES ASSUME NEW i \in Slots, slots'[i].state = "Connecting", ~slots'[i].missed
                   PROVE  /\ Owed' <= slots'[i].captured
                          /\ \A k \in DOMAIN queue' : Note(queue[k])' =>
                               /\ Pos(queue[k])' <= slots'[i].captured
                               /\ Taking(i)' \/ (\E m \in DOMAIN queue' : m < k /\ queue'[m] = StartOf(i))
                                    => Pos(queue[k])' = slots'[i].captured
      BY DEF Misses, StartOf
    <3>2. /\ slots[i].state = "Connecting" /\ ~slots[i].missed /\ slots'[i].captured = slots[i].captured
          /\ last <= slots[i].captured /\ slots[i].captured \in Nat
      BY <1>2, <3>1 DEF TypeOK, SlotType
    <3>3. slots[i].captured = last
      BY <3>2 DEF ClientInv, ConnectInv, Connects, QueueInv, Eras, TypeOK
    <3>4. ASSUME NEW k \in 1..Len(queue), Note(queue[k])
          PROVE  /\ Pos(queue[k]) <= slots[i].captured
                 /\ Taking(i)' \/ (\E m \in DOMAIN queue' : m < k /\ queue'[m] = StartOf(i))
                      => Pos(queue[k]) = slots[i].captured
      <4>1. Taking(i)' => Taking(i)
        BY DEF Taking, StartOf
      <4>2. (\E m \in DOMAIN queue' : m < k /\ queue'[m] = StartOf(i)) =>
              \E m \in DOMAIN queue : m < k /\ queue[m] = StartOf(i)
        BY <1>1 DEF Queues
      <4>3. QED
        BY <1>1, <3>2, <3>4, <4>1, <4>2 DEF ClientInv, ConnectInv, Misses, Queues
    <3>5. QED
      BY <1>1, <1>3, <3>2, <3>3, <3>4 DEF Queues
  <2>3. Marks'
    BY <1>2 DEF ClientInv, ConnectInv, Marks, Current, TypeOK, TokenType
  <2>4. QED
    BY <2>1, <2>2, <2>3 DEF ConnectInv
<1>9. LiveInv'
  <2>1. \A i \in Slots : Live(i)' <=> Live(i)
    BY <1>2 DEF Live, Open
  <2>2. Serving' => Serving
    BY DEF Serving
  <2>3. \A i \in Slots : Awaited(i)' = Awaited(i) \cup {last}
    <3> SUFFICES ASSUME NEW i \in Slots
                 PROVE  Awaited(i)' = Awaited(i) \cup {last}
      OBVIOUS
    <3>1. Targeted(i)' <=> Targeted(i)
      BY <1>1, <1>2 DEF Targeted, Current, Queues, TypeOK, TokenType
    <3>2. {Pos(queue[k])' : k \in {m \in DOMAIN queue' : Note(queue[m])'}} =
          {Pos(queue[k]) : k \in {m \in DOMAIN queue : Note(queue[m])}} \cup {last}
      BY <1>1 DEF Queues
    <3>3. Targeted(i) => Pos(item)' = Pos(item)
      BY <1>1 DEF Queues, Targeted
    <3>4. QED
      BY <3>1, <3>2, <3>3 DEF Awaited
  <2>4. ASSUME NEW i \in Slots, sent # <<>>, Follows(i)
        PROVE  Follows(i)'
    <3>1. sent' = sent /\ sent \in Seq(Nat)
      BY DEF net, TypeOK
    <3>2. Last(sent) \in Nat /\ Len(sent) \in Nat /\ Len(sent) # 0
      BY <2>4, <3>1, LenProperties, EmptySeq, ElementOfSeq DEF Last
    <3>3. Last(sent) <= start' /\ (Len(sent) > 1 => Last(sent) <= Told')
      BY <1>3, <2>4, <3>2 DEF Follows
    <3>4. \A p \in Awaited(i)' : p > Last(sent) \/ (Len(sent) = 1 /\ p = Last(sent))
      <4>1. \A p \in Awaited(i)' : p \in Awaited(i) \/ p = last
        BY <2>3
      <4>2. last > Last(sent) \/ (Len(sent) = 1 /\ last = Last(sent))
        <5> DEFINE l == Last(sent)
        <5>1. l \in Nat /\ l <= last /\ (Len(sent) > 1 => l <= last - 1)
          BY <1>3, <2>4, <3>2 DEF Follows
        <5>2. Len(sent) > 1 \/ Len(sent) = 1
          <6>1. \A n \in Nat : n # 0 => n > 1 \/ n = 1
            OBVIOUS
          <6>2. QED
            BY <3>2, <6>1
        <5> HIDE DEF l
        <5>3. last > l \/ (Len(sent) = 1 /\ last = l)
          BY <5>1, <5>2
        <5>4. QED
          BY <5>3 DEF l
      <4>3. \A p \in Awaited(i) : p > Last(sent) \/ (Len(sent) = 1 /\ p = Last(sent))
        BY <2>4 DEF Follows
      <4>4. QED
        BY <4>1, <4>2, <4>3
    <3>5. \A p \in (Last(sent) + 1)..Owed' : p \in Awaited(i)'
      BY <1>3, <2>3, <2>4, <3>2 DEF Follows
    <3>6. QED
      BY <3>1, <3>3, <3>4, <3>5 DEF Follows
  <2>5. \A i \in Slots : Live(i)' => link' = "up" /\ (Serving' => Follows(i)')
    BY <2>1, <2>2, <2>4 DEF ClientInv, LiveInv, NetInv, OneSocket
  <2>6. ASSUME Sending', NEW token \in targets', sockets'[token.fd] = "open"
        PROVE  Live(token.slot)' /\ Current(token)'
    BY <1>1, <1>2, <2>1, <2>6 DEF ClientInv, LiveInv, TypeOK, TokenType, Current, Queues
  <2>7. QED
    BY <2>5, <2>6 DEF LiveInv
<1>10. QED
  BY <1>1, <1>2, <1>4, <1>5, <1>7, <1>8, <1>9 DEF ClientInv, Queues

LEMMA SubmitInv ==
  ASSUME IInv, Submit
  PROVE  IInv'
<1> USE DEF IInv, AppInv
<1>1. /\ appPc = "submit" /\ appPc' \in {"loop", "recover"}
      /\ UNCHANGED <<world, last, shown, recycle, retry, why, chosen, status, start, required, era,
                     generations, starts, accepting, server, httpd, net>>
      /\ \/ /\ appPc' = "loop" /\ slots' = Noted(last) /\ IdleWork # {}
            /\ works' = [works EXCEPT ![Least(IdleWork)] = Notification(last)]
            /\ queue' = Append(queue, [kind |-> "note", n |-> Least(IdleWork)])
         \/ appPc' = "recover" /\ UNCHANGED <<slots, works, queue>>
  BY DEF Submit, GoTo
<1>2. ~required /\ start = last /\ last # 0 /\ recycle = "None"
  BY <1>1 DEF Reasons, Positions, InTransition, Announcing
<1>3. Positions' /\ Contents' /\ Reasons' /\ Stopped' /\ Chosen'
  BY <1>1, <1>2 DEF Positions, Contents, Reasons, Stopped, Chosen, InTransition, Announcing, Publishing
<1>4. CASE appPc' = "loop"
  <2>1. PICK w \in IdleWork : /\ works' = [works EXCEPT ![w] = Notification(last)]
                              /\ queue' = Append(queue, [kind |-> "note", n |-> w])
    <3>1. IdleWork \in SUBSET Nat
      BY TransportAssumption DEF IdleWork
    <3>2. QED
      BY <1>1, <1>4, <3>1, LeastIn
  <2>2. w \in Works /\ ~works[w].busy
    BY DEF IdleWork
  <2>3. Submitted
    BY <1>1, <1>2, <1>4, <2>1, <2>2 DEF Submitted
  <2>4. ClientInv' /\ slots' \in [Slots -> SlotType] /\ queue' \in Seq(ItemType) /\ works' \in [Works -> WorkType]
    BY <2>3, SubmittedInv
  <2>5. TypeOK'
    BY <1>1, <2>4 DEF TypeOK, AppPcs, httpd, net
  <2>6. QED
    BY <1>3, <2>4, <2>5
<1>5. CASE appPc' = "recover"
  <2>1. UNCHANGED <<registry, pool, httpd, net, required, era>> /\ appPc' = "recover"
    BY <1>1, <1>5 DEF registry, pool
  <2>2. TypeOK'
    BY <1>1, <2>1 DEF TypeOK, AppPcs, registry, pool, httpd, net
  <2>3. Told <= Told' /\ Owed' <= Owed
    BY <1>1, <1>5 DEF Told, Owed, InTransition, Announcing, TypeOK
  <2>4. Aside
    BY <1>1, <2>1, <2>3, Apart DEF TypeOK
  <2>5. QED
    BY <1>3, <2>2, <2>4, AsideInv
<1>6. QED
  BY <1>1, <1>4, <1>5

\* The work that is queued, or taken, is busy.
LEMMA QueuedWorks ==
  ASSUME TypeOK, QueueInv
  PROVE  /\ \A k \in DOMAIN queue : queue[k] \in ItemType /\ Busy(queue[k])
         /\ Holding => item \in ItemType /\ Busy(item)
         /\ \A x \in ItemType : Busy(x) /\ x.kind = "note" => works[x.n].era <= era /\ works[x.n].era \in Nat
         /\ required => \A x \in ItemType : Busy(x) => ~Note(x)
<1>1. \A k \in DOMAIN queue : queue[k] \in ItemType
  BY DEF TypeOK
<1>2. \A x \in ItemType : x.kind = "note" => x.n \in Works
  BY DEF ItemType
<1>3. \A w \in Works : works[w].era \in Nat
  BY DEF TypeOK, WorkType
<1>4. \A x \in ItemType : Busy(x) /\ x.kind = "note" =>
        works[x.n].era <= era /\ (required => works[x.n].era < era) /\ works[x.n].era \in Nat
  BY <1>2, <1>3 DEF QueueInv, Eras, Busy
<1>5. QED
  BY <1>1, <1>4 DEF QueueInv, Queued, Note, TypeOK

LEMMA RecoverInv ==
  ASSUME IInv, Recover
  PROVE  IInv'
<1> USE DEF IInv, AppInv
<1>1. /\ appPc = "recover" /\ appPc' = "closeAll" /\ why' = "none" /\ required'
      /\ (required /\ era' = era) \/ (~required /\ era' = era + 1)
      /\ UNCHANGED <<world, last, shown, recycle, retry, chosen, status, start, accepting, server, slots,
                     generations, works, starts, queue, httpPc, item, targets, success, sockets, link, sent>>
  BY DEF Recover, GoTo, registry, pool, httpd, net
<1>2. TypeOK'
  BY <1>1 DEF TypeOK, AppPcs, Whys
<1>3. Positions' /\ Contents' /\ Reasons' /\ Stopped' /\ Chosen'
  BY <1>1 DEF Positions, Contents, Reasons, Stopped, Chosen, InTransition, Announcing, Publishing, AllFree
<1>4. NetInv'
  <2>1. \A token : Knows(token)' <=> Knows(token)
    BY <1>1 DEF Knows, Current
  <2>2. QED
    BY <1>1, <2>1 DEF ClientInv, NetInv, OneSocket, Held
<1>5. QueueInv'
  <2>1. Queued'
    <3>1. (\A k \in DOMAIN queue : Busy(queue[k])' <=> Busy(queue[k])) /\ (Busy(item)' <=> Busy(item))
      BY <1>1 DEF Busy
    <3>2. QED
      BY <1>1, <3>1 DEF ClientInv, QueueInv, Queued, Holding
  <2>2. Eras'
    <3>1. (\A w \in Works : works[w].era \in Nat) /\ (\A i \in Slots : starts[i].era \in Nat) /\ era \in Nat
      BY DEF TypeOK, WorkType, StartType
    <3>2. QED
      BY <1>1, <3>1 DEF ClientInv, QueueInv, Eras
  <2>3. QED
    BY <2>1, <2>2 DEF QueueInv
<1>6. /\ \A k \in DOMAIN queue' : ~Note(queue[k])'
      /\ Holding => ~Note(item)'
  <2>1. \A x \in ItemType : Busy(x) => ~(x.kind = "note" /\ works[x.n].era = era')
    BY <1>1, QueuedWorks DEF ClientInv, Note, TypeOK
  <2>2. QED
    BY <1>1, <2>1, QueuedWorks DEF ClientInv, Note
<1>7. ~Sending'
  BY <1>1, <1>6 DEF Sending, Holding
<1>8. Notes'
  BY <1>1, <1>6, <1>7 DEF Notes
<1>9. ConnectInv'
  <2>1. Connects'
    BY <1>1 DEF ClientInv, ConnectInv, Connects, Taking, StartOf, Open
  <2>2. Misses'
    BY <1>1 DEF Misses
  <2>3. Marks'
    BY <1>1 DEF ClientInv, ConnectInv, Marks, Current
  <2>4. QED
    BY <2>1, <2>2, <2>3 DEF ConnectInv
<1>10. LiveInv'
  BY <1>1 DEF ClientInv, LiveInv, Serving, Live, Open
<1>11. QED
  BY <1>2, <1>3, <1>4, <1>5, <1>8, <1>9, <1>10 DEF ClientInv

LEMMA TryClearInv ==
  ASSUME IInv, TryClear
  PROVE  IInv'
<1> USE DEF IInv, AppInv
<1>1. /\ appPc = "clear" /\ appPc' = "present" /\ required' = ~Clears /\ required
      /\ UNCHANGED <<world, last, shown, recycle, retry, why, chosen, status, start, era, accepting, server>>
      /\ UNCHANGED <<registry, pool, httpd, net>>
  BY DEF TryClear, GoTo, Reasons
<1>2. UNCHANGED <<slots, generations, works, starts, queue, httpPc, item, targets, success, sockets, link, sent>>
  BY <1>1 DEF registry, pool, httpd, net
<1>3. TypeOK'
  BY <1>1, <1>2 DEF TypeOK, AppPcs
<1>4. Positions' /\ Contents' /\ Reasons' /\ Stopped' /\ Chosen'
  BY <1>1, <1>2 DEF Positions, Contents, Reasons, Stopped, Chosen, InTransition, Announcing, Publishing, AllFree,
                    Clears
<1>5. CASE ~Clears
  <2>1. Told' = Told /\ Owed' = Owed
    BY <1>1 DEF Told, Owed, InTransition, Announcing
  <2>2. required' = required
    BY <1>1, <1>5 DEF TypeOK
  <2>3. /\ UNCHANGED <<registry, pool, httpd, net, required, era>>
        /\ start' = start /\ last' = last /\ accepting' = accepting
    BY <1>1, <2>2
  <2>4. Aside
    BY <2>1, <2>3, Apart, ToldTypes DEF TypeOK
  <2>5. QED
    BY <1>3, <1>4, <2>4, AsideInv
<1>6. CASE Clears
  <2>1. ~required' /\ accepting /\ \A i \in Slots : slots[i].state = "Free"
    BY <1>1, <1>6 DEF Clears
  <2>2. NetInv'
    <3>1. \A token : Knows(token)' <=> Knows(token)
      BY <1>1, <1>2 DEF Knows, Current
    <3>2. QED
      BY <1>1, <1>2, <3>1 DEF ClientInv, NetInv, OneSocket, Held
  <2>3. QueueInv'
    <3>1. (\A k \in DOMAIN queue : Busy(queue[k])' <=> Busy(queue[k])) /\ (Busy(item)' <=> Busy(item))
      BY <1>2 DEF Busy
    <3>2. QED
      BY <1>1, <1>2, <2>1, <3>1 DEF ClientInv, QueueInv, Queued, Holding, Eras
  <2>4. (\A k \in DOMAIN queue' : ~Note(queue[k])') /\ ~Sending'
    BY <1>1, <1>2, QueuedWorks DEF ClientInv, Note, Sending, Holding
  <2>5. Notes'
    BY <2>4 DEF Notes
  <2>6. ConnectInv'
    <3>1. Marks'
      BY <1>2 DEF ClientInv, ConnectInv, Marks, Current
    <3>2. Connects' /\ Misses'
      BY <1>2, <2>1 DEF Connects, Misses
    <3>3. QED
      BY <3>1, <3>2 DEF ConnectInv
  <2>7. LiveInv'
    BY <1>2, <2>1, <2>4 DEF LiveInv, Live
  <2>8. QED
    BY <1>3, <1>4, <2>2, <2>3, <2>5, <2>6, <2>7 DEF ClientInv
<1>7. QED
  BY <1>5, <1>6

\* The server has been stopped: nobody is connected, and nothing is to be done.
LEMMA Emptied ==
  ASSUME queue' = <<>>, httpPc' = "idle", targets' = {}, \A i \in Slots : slots'[i].state = "Free",
         \A fd \in Fds : sockets'[fd] = "free", link' \in {"down", "cut"}, link' = "down" => sent' = <<>>,
         Eras'
  PROVE  ClientInv'
<1>1. DOMAIN queue' = {}
  OBVIOUS
<1>2. NetInv'
  BY DEF NetInv, OneSocket, Held
<1>3. QueueInv'
  BY <1>1 DEF QueueInv, Queued, Holding
<1>4. Notes'
  BY <1>1 DEF Notes, Sending
<1>5. ConnectInv'
  BY DEF ConnectInv, Connects, Misses, Marks
<1>6. LiveInv'
  BY DEF LiveInv, Live, Sending
<1>7. QED
  BY <1>2, <1>3, <1>4, <1>5, <1>6 DEF ClientInv

LEMMA StopInv ==
  ASSUME IInv, Stop
  PROVE  IInv'
<1> USE DEF IInv, AppInv
<1>1. /\ appPc = "stop" /\ recycle = "StopPending" /\ ~accepting
      /\ UNCHANGED <<world, last, shown, retry, chosen, status, start, required, era, generations, accepting,
                     httpd, sent>>
  BY DEF Stop, Reasons
<1>2. CASE /\ httpPc = "idle" /\ GoTo("build") /\ why' = "recycle" /\ recycle' = "RepublishPending"
           /\ slots' = [i \in Slots |-> FreeSlot] /\ queue' = <<>>
           /\ works' = [w \in Works |-> NoWork] /\ starts' = [i \in Slots |-> NoStart]
           /\ sockets' = [fd \in Fds |-> "free"]
           /\ link' = IF link = "down" THEN "down" ELSE "cut"
           /\ UNCHANGED <<server, faults>>
  <2> USE <1>1, <1>2 DEF GoTo
  <2>1. TypeOK'
    <3>1. /\ slots' \in [Slots -> SlotType] /\ works' \in [Works -> WorkType] /\ starts' \in [Slots -> StartType]
          /\ sockets' \in [Fds -> {"free", "open", "gone"}] /\ link' \in {"down", "cut"}
      BY DEF FreeSlot, NoWork, NoStart, SlotType, WorkType, StartType
    <3>2. queue' \in Seq(ItemType)
      BY EmptySeq
    <3>3. QED
      BY <3>1, <3>2 DEF TypeOK, AppPcs, Whys, Recycles, httpd
  <2>2. Positions' /\ Contents' /\ Chosen'
    BY DEF Positions, Contents, Chosen, InTransition, Announcing
  <2>3. Reasons' /\ Stopped'
    BY DEF Reasons, Stopped, Publishing, AllFree, FreeSlot, httpd
  <2>4. Eras'
    BY DEF Eras, NoWork, NoStart
  <2>5. ClientInv'
    BY <2>4, Emptied DEF FreeSlot, httpd, ClientInv, QueueInv, Queued, Holding, NetInv, OneSocket, TypeOK
  <2>6. QED
    BY <2>1, <2>2, <2>3, <2>5
<1>3. CASE /\ Fault /\ server' = TRUE /\ GoTo("loop")
           /\ UNCHANGED <<why, recycle, slots, queue, works, starts, sockets, link>>
  <2> USE <1>1, <1>3 DEF GoTo
  <2>1. TypeOK'
    BY DEF TypeOK, AppPcs, httpd
  <2>2. Positions' /\ Contents' /\ Chosen' /\ Reasons' /\ Stopped'
    BY DEF Positions, Contents, Chosen, InTransition, Announcing, Reasons, Stopped, Publishing, AllFree, httpd
  <2>3. Told' = Told /\ Owed' = Owed
    BY DEF Told, Owed, InTransition, Announcing
  <2>4. Aside
    BY <2>3, Apart, ToldTypes DEF TypeOK, registry, pool, net
  <2>5. QED
    BY <2>1, <2>2, <2>4, AsideInv
<1>4. QED
  BY <1>2, <1>3 DEF Stop

LEMMA RestartInv ==
  ASSUME IInv, Restart
  PROVE  IInv'
<1> USE DEF IInv, AppInv
<1>1. /\ appPc = "restart" /\ recycle = "RestartPending"
      /\ UNCHANGED <<world, last, shown, why, chosen, status, start, required, era, registry, pool, httpd, net>>
      /\ \/ accepting' = TRUE /\ server' = TRUE /\ recycle' = "None" /\ appPc' = "present"
         \/ UNCHANGED <<accepting, server, recycle>> /\ appPc' = "loop"
  BY DEF Restart, GoTo, Reasons
<1>2. UNCHANGED <<slots, generations, works, starts, queue, httpPc, item, targets, success, sockets, link, sent>>
  BY <1>1 DEF registry, pool, httpd, net
<1>3. TypeOK'
  BY <1>1, <1>2 DEF TypeOK, AppPcs, Recycles
<1>4. Positions' /\ Contents' /\ Chosen' /\ Reasons' /\ Stopped'
  BY <1>1, <1>2 DEF Positions, Contents, Chosen, InTransition, Announcing, Reasons, Stopped, Publishing, AllFree
<1>5. queue = <<>> /\ httpPc = "idle" /\ AllFree /\ \A fd \in Fds : sockets[fd] = "free"
  BY <1>1 DEF Stopped
<1>6. Eras'
  BY <1>1, <1>2 DEF ClientInv, QueueInv, Eras
<1>7. ClientInv'
  BY <1>2, <1>5, <1>6, Emptied DEF AllFree, ClientInv, QueueInv, Queued, Holding, NetInv, OneSocket, TypeOK
<1>8. QED
  BY <1>3, <1>4, <1>7

-----------------------------------------------------------------------------
(* The HTTP task, the client and the network *)

\* The work in the queue moves up by d places.
Shifts(d) ==
  /\ d \in {0, 1} /\ queue' \in Seq(ItemType) /\ UNCHANGED <<works, era>>
  /\ \A k \in DOMAIN queue' : k \in Nat /\ k + d \in DOMAIN queue /\ queue'[k] = queue[k + d]
  /\ \A k \in DOMAIN queue : k \in Nat /\ k >= 1 /\ (k > d => k - d \in DOMAIN queue')

LEMMA ShiftedNotes ==
  ASSUME NEW d, Shifts(d)
  PROVE  \A k \in DOMAIN queue' : /\ Note(queue[k])' <=> Note(queue[k + d])
                                  /\ Pos(queue[k])' = Pos(queue[k + d])
                                  /\ queue'[k] = queue[k + d] /\ k + d \in DOMAIN queue
BY DEF Shifts, Note, Pos

LEMMA PopShifts ==
  ASSUME TypeOK, queue # <<>>, queue' = Tail(queue), UNCHANGED <<works, era>>
  PROVE  Shifts(1) /\ Head(queue) = queue[1] /\ 1 \in DOMAIN queue /\ queue[1] \in ItemType
<1>1. /\ queue' \in Seq(ItemType) /\ Len(queue) \in Nat /\ Len(queue) # 0 /\ Head(queue) = queue[1]
      /\ queue[1] \in ItemType /\ DOMAIN queue = 1..Len(queue) /\ DOMAIN queue' = 1..(Len(queue) - 1)
      /\ \A k \in 1..(Len(queue) - 1) : queue'[k] = queue[k + 1]
  BY Tails DEF TypeOK
<1>2. QED
  BY <1>1 DEF Shifts

LEMMA StaysShifts ==
  ASSUME TypeOK, UNCHANGED <<queue, works, era>>
  PROVE  Shifts(0)
<1>1. Len(queue) \in Nat /\ DOMAIN queue = 1..Len(queue) /\ queue \in Seq(ItemType)
  BY LenProperties DEF TypeOK
<1>2. QED
  BY <1>1 DEF Shifts

\* The notes stay in order, and none is lost that has not been taken.
LEMMA ShiftedOrder ==
  ASSUME Notes, NEW d, Shifts(d)
  PROVE  /\ \A k, m \in DOMAIN queue' : k < m /\ Note(queue[k])' /\ Note(queue[m])' => Pos(queue[k])' < Pos(queue[m])'
         /\ ~required => \A k \in DOMAIN queue' : Note(queue[k])' => Pos(queue[k])' <= start /\ Pos(queue[k])' <= Told
<1>1. \A k \in DOMAIN queue' : k \in Nat /\ k + d \in DOMAIN queue /\ (Note(queue[k])' <=> Note(queue[k + d]))
                               /\ Pos(queue[k])' = Pos(queue[k + d])
  BY ShiftedNotes DEF Shifts
<1>2. d \in {0, 1}
  BY DEF Shifts
<1>3. QED
  BY <1>1, <1>2 DEF Notes

LEMMA ShiftedAwaits ==
  ASSUME NEW d, Shifts(d), d = 1 => 1 \in DOMAIN queue
  PROVE  {Pos(queue[k]) : k \in {m \in DOMAIN queue : Note(queue[m])}} =
         {Pos(queue[k])' : k \in {m \in DOMAIN queue' : Note(queue[m])'}}
           \cup (IF d = 1 /\ Note(queue[1]) THEN {Pos(queue[1])} ELSE {})
<1> DEFINE before == {Pos(queue[k]) : k \in {m \in DOMAIN queue : Note(queue[m])}}
           after == {Pos(queue[k])' : k \in {m \in DOMAIN queue' : Note(queue[m])'}}
           first == IF d = 1 /\ Note(queue[1]) THEN {Pos(queue[1])} ELSE {}
<1>1. ASSUME NEW p \in before
      PROVE  p \in after \cup first
  <2>1. PICK k \in DOMAIN queue : Note(queue[k]) /\ p = Pos(queue[k])
    OBVIOUS
  <2>2. k \in Nat /\ k >= 1 /\ d \in {0, 1}
    BY DEF Shifts
  <2>3. CASE k > d
    <3>1. k - d \in DOMAIN queue' /\ (k - d) + d = k
      BY <2>2, <2>3 DEF Shifts
    <3>2. PICK m \in DOMAIN queue' : m + d = k
      BY <3>1
    <3>3. Note(queue[m])' /\ Pos(queue[m])' = p
      BY <2>1, <3>2, ShiftedNotes
    <3>4. QED
      BY <3>3
  <2>4. CASE ~(k > d)
    <3>1. d = 1 /\ k = 1
      BY <2>2, <2>4
    <3>2. QED
      BY <2>1, <3>1
  <2>5. QED
    BY <2>3, <2>4
<1>2. after \subseteq before
  BY ShiftedNotes
<1>3. first \subseteq before
  OBVIOUS
<1>4. QED
  BY <1>1, <1>2, <1>3

\* Sockets are closed, clients leave, and work that tells nobody anything is over.
Network ==
  /\ UNCHANGED <<works, era, required, start, last, appPc, why, accepting, httpPc, targets>>
  /\ Holding => UNCHANGED <<item, success, starts>>
  /\ slots' \in [Slots -> SlotType] /\ generations' \in Nat /\ generations <= generations'
  /\ starts' \in [Slots -> StartType]
  /\ sockets' \in [Fds -> {"free", "open", "gone"}]
  /\ \A fd \in Fds : sockets'[fd] = "open" => sockets[fd] = "open"
  /\ \A i \in Slots :
       \/ slots'[i] = slots[i]
       \/ slots'[i].state = "Free" /\ (slots[i].fd \in Fds => sockets'[slots[i].fd] # "open")
       \/ /\ ~Holding /\ slots'[i].state = "Closing" /\ slots[i].state # "Free"
          /\ slots'[i].fd = slots[i].fd /\ slots'[i].gen = slots[i].gen
  /\ \E d : /\ Shifts(d)
            /\ d = 1 => ~Holding /\ 1 \in DOMAIN queue /\ queue[1].kind # "note"
            /\ \A i \in Slots : d = 1 /\ queue[1] = StartOf(i) => slots'[i].state # "Connecting"
            /\ \A i \in Slots : \/ starts'[i] = starts[i]
                                \/ starts'[i] = NoStart /\ d = 1 /\ queue[1] = StartOf(i)
  /\ \/ /\ link' = link /\ sent' = sent
        /\ \A fd \in Fds : sockets[fd] = "open" => sockets'[fd] = "open"
     \/ /\ \A fd \in Fds : sockets'[fd] # "open"
        /\ link' \in {"down", "cut"} /\ (link' = "down" => sent' = <<>>)

LEMMA NetworkNet ==
  ASSUME TypeOK, NetInv, Network
  PROVE  NetInv'
<1>1. OneSocket'
  BY DEF NetInv, OneSocket, Network
<1>2. \A i \in Slots : slots'[i].state # "Free" =>
        slots[i].state # "Free" /\ slots'[i].fd = slots[i].fd /\ slots'[i].gen = slots[i].gen
  BY DEF Network
<1>3. \A fd \in Fds : sockets'[fd] = "open" => \E i \in Slots : slots'[i].state # "Free" /\ slots'[i].fd = fd
  <2>1. SUFFICES ASSUME NEW fd \in Fds, sockets'[fd] = "open"
                 PROVE  \E i \in Slots : slots'[i].state # "Free" /\ slots'[i].fd = fd
    OBVIOUS
  <2>2. PICK i \in Slots : slots[i].state # "Free" /\ slots[i].fd = fd
    BY <2>1 DEF NetInv, Held, Network
  <2>3. slots'[i].state # "Free" /\ slots'[i].fd = fd
    BY <2>1, <2>2 DEF Network
  <2>4. QED
    BY <2>3
<1>4. generations \in Nat /\ generations' \in Nat /\ generations <= generations' /\ targets' = targets
  BY DEF Network, TypeOK
<1>5. \A i \in Slots : slots[i].gen \in Nat
  BY DEF TypeOK, SlotType
<1>6. \A token \in targets' : Knows(token)'
  <2>1. SUFFICES ASSUME NEW token \in targets
                 PROVE  token.gen <= generations' /\ (Current(token)' => slots'[token.slot].fd = token.fd)
    BY <1>4 DEF Knows
  <2>2. token.slot \in Slots /\ token.gen \in Nat /\ Knows(token)
    BY DEF TypeOK, TokenType, NetInv, Held
  <2>3. QED
    BY <1>2, <1>4, <2>2 DEF Knows, Current
<1>7. Held'
  BY <1>2, <1>3, <1>4, <1>5, <1>6 DEF NetInv, Held
<1>8. QED
  BY <1>1, <1>7 DEF NetInv

LEMMA NetworkQueue ==
  ASSUME TypeOK, QueueInv, Network
  PROVE  QueueInv'
<1>1. PICK d : /\ Shifts(d)
               /\ d = 1 => ~Holding /\ 1 \in DOMAIN queue /\ queue[1].kind # "note"
               /\ \A i \in Slots : \/ starts'[i] = starts[i]
                                   \/ starts'[i] = NoStart /\ d = 1 /\ queue[1] = StartOf(i)
  BY DEF Network
<1>2. \A k \in DOMAIN queue' : /\ k \in Nat /\ k + d \in DOMAIN queue /\ queue'[k] = queue[k + d] /\ k >= 1
                               /\ d \in {0, 1}
  <2>1. \A k \in DOMAIN queue' : k >= 1
    BY <1>1, LenProperties DEF Shifts
  <2>2. QED
    BY <1>1, <2>1 DEF Shifts
<1>3. \A k \in DOMAIN queue : queue[k] \in ItemType /\ Busy(queue[k])
  BY DEF TypeOK, QueueInv, Queued
<1>4. ASSUME NEW k \in DOMAIN queue'
      PROVE  Busy(queue[k])'
  <2>1. k \in Nat /\ k >= 1 /\ k + d \in DOMAIN queue /\ queue'[k] = queue[k + d] /\ d \in {0, 1}
    BY <1>2
  <2>2. queue[k + d] \in ItemType /\ Busy(queue[k + d])
    BY <1>3, <2>1
  <2>3. queue[k + d].kind = "start" => starts'[queue[k + d].n] = starts[queue[k + d].n]
    <3>1. SUFFICES ASSUME queue[k + d].kind = "start", starts'[queue[k + d].n] # starts[queue[k + d].n]
                   PROVE  FALSE
      OBVIOUS
    <3>2. queue[k + d].n \in Slots /\ queue[k + d] = StartOf(queue[k + d].n)
      BY <2>2, <3>1 DEF ItemType, StartOf
    <3>3. d = 1 /\ queue[1] = StartOf(queue[k + d].n)
      BY <1>1, <3>1, <3>2
    <3>4. 1 \in DOMAIN queue /\ queue[1] = queue[k + d] /\ k + d # 1
      BY <1>1, <2>1, <3>2, <3>3
    <3>5. QED
      BY <2>1, <3>1, <3>4 DEF QueueInv, Queued
  <2>4. works' = works
    BY DEF Network
  <2>5. QED
    BY <2>1, <2>2, <2>3, <2>4 DEF Busy
<1>5. ASSUME NEW k \in DOMAIN queue', NEW m \in DOMAIN queue', queue'[k].kind # "close", queue'[k] = queue'[m]
      PROVE  k = m
  <2>1. k + d = m + d
    BY <1>2, <1>5 DEF QueueInv, Queued
  <2>2. QED
    BY <1>2, <2>1
<1>6. httpPc' = httpPc /\ targets' = targets /\ works' = works
      /\ (Holding => item' = item /\ starts' = starts)
  BY DEF Network
<1>7. Holding => item' \in ItemType /\ Busy(item)' /\ \A k \in DOMAIN queue' : queue'[k] # item'
  BY <1>2, <1>6 DEF QueueInv, Queued, Busy
<1>8. Queued'
  BY <1>4, <1>5, <1>6, <1>7 DEF QueueInv, Queued, Holding
<1>9. Eras'
  <2>1. \A i \in Slots : starts'[i].busy => starts'[i] = starts[i]
    BY <1>1 DEF NoStart
  <2>2. QED
    BY <2>1 DEF Network, QueueInv, Eras
<1>10. QED
  BY <1>8, <1>9 DEF QueueInv

LEMMA NetworkNotes ==
  ASSUME TypeOK, QueueInv, Notes, Network
  PROVE  Notes' /\ (Sending' <=> Sending) /\ (Sending => Pos(item)' = Pos(item)) /\ Told' = Told /\ Owed' = Owed
<1>1. PICK d : Shifts(d) /\ (d = 1 => ~Holding)
  BY DEF Network
<1>2. UNCHANGED <<httpPc, works, era, required, start>> /\ (Holding => item' = item) /\ Told' = Told /\ Owed' = Owed
  BY DEF Network, Told, Owed, InTransition, Announcing
<1>3. (Sending' <=> Sending) /\ (Sending => Pos(item)' = Pos(item))
  BY <1>2 DEF Sending, Holding, Note, Pos
<1>4. Sending => \A k \in DOMAIN queue' : Note(queue[k])' => Pos(item) < Pos(queue[k])'
  BY <1>1, ShiftedNotes DEF Notes
<1>5. Notes'
  BY <1>1, <1>2, <1>3, <1>4, ShiftedOrder DEF Notes
<1>6. QED
  BY <1>2, <1>3, <1>5

LEMMA NetworkConnects ==
  ASSUME TypeOK, NetInv, QueueInv, Notes, ConnectInv, Network
  PROVE  ConnectInv'
<1>1. PICK d : /\ Shifts(d)
               /\ \A i \in Slots : d = 1 /\ queue[1] = StartOf(i) => slots'[i].state # "Connecting"
               /\ \A i \in Slots : \/ starts'[i] = starts[i]
                                   \/ starts'[i] = NoStart /\ d = 1 /\ queue[1] = StartOf(i)
  BY DEF Network
<1>2. \A i \in Slots : slots'[i].state = "Connecting" => slots'[i] = slots[i] /\ starts'[i] = starts[i]
  BY <1>1 DEF Network
<1>3. /\ UNCHANGED <<httpPc, era, required, targets>> /\ (Holding => UNCHANGED <<item, starts, success>>)
      /\ Owed' = Owed
  BY NetworkNotes DEF Network
<1>4. \A i \in Slots : Taking(i)' <=> Taking(i)
  BY <1>3 DEF Taking, StartOf, Holding
<1>5. Connects'
  <2>1. \A i \in Slots : slots'[i].state = "Connecting" /\ Open(i)' => Open(i) /\ link' = link
    BY <1>2 DEF Open, Network, NetInv, Held
  <2>2. QED
    BY <1>2, <1>3, <1>4, <2>1 DEF ConnectInv, Connects
<1>6. Misses'
  <2>1. SUFFICES ASSUME NEW i \in Slots, ~required, slots'[i].state = "Connecting", ~slots'[i].missed,
                        NEW k \in DOMAIN queue', Note(queue[k])'
                 PROVE  /\ Pos(queue[k])' <= slots'[i].captured
                        /\ Taking(i)' \/ (\E m \in DOMAIN queue' : m < k /\ queue'[m] = StartOf(i))
                             => Pos(queue[k])' = slots'[i].captured
    <3>1. \A i \in Slots : ~required /\ slots'[i].state = "Connecting" /\ ~slots'[i].missed => Owed' <= slots'[i].captured
      BY <1>2, <1>3 DEF ConnectInv, Misses
    <3>2. QED
      BY <1>3, <3>1 DEF Misses, StartOf
  <2>2. slots'[i] = slots[i]
    BY <1>2, <2>1
  <2>3. k + d \in DOMAIN queue /\ Note(queue[k + d]) /\ Pos(queue[k])' = Pos(queue[k + d])
    BY <1>1, <2>1, ShiftedNotes
  <2>4. ASSUME NEW m \in DOMAIN queue', m < k, queue'[m] = StartOf(i)
        PROVE  \E n \in DOMAIN queue : n < k + d /\ queue[n] = StartOf(i)
    BY <1>1, <2>4 DEF Shifts
  <2>5. QED
    BY <1>4, <2>1, <2>2, <2>3, <2>4 DEF ConnectInv, Misses
<1>7. Marks'
  <2>1. ASSUME NEW token \in targets, sockets'[token.fd] = "open", Holding, Current(token)
        PROVE  Current(token)'
    <3>1. token \in TokenType /\ Knows(token)
      BY DEF TypeOK, NetInv, Held
    <3>2. token.slot \in Slots /\ token.fd \in Fds /\ slots[token.slot].state # "Free" /\ slots[token.slot].fd = token.fd
      BY <2>1, <3>1 DEF TokenType, Knows, Current
    <3>3. slots'[token.slot] = slots[token.slot]
      BY <2>1, <3>2 DEF Network
    <3>4. QED
      BY <2>1, <3>3 DEF Current
  <2>2. \A token \in targets : token.fd \in Fds
    BY DEF TypeOK, TokenType
  <2>3. \A token \in targets : sockets'[token.fd] = "open" =>
          sockets[token.fd] = "open" /\ link' = link /\ sent' = sent
    BY <2>2 DEF Network
  <2>4. QED
    BY <1>3, <2>1, <2>3 DEF ConnectInv, Marks, Holding
<1>8. QED
  BY <1>5, <1>6, <1>7 DEF ConnectInv

LEMMA NetworkLive ==
  ASSUME TypeOK, NetInv, QueueInv, Notes, LiveInv, Network
  PROVE  LiveInv'
<1>1. PICK d : /\ Shifts(d) /\ (d = 1 => ~Holding /\ 1 \in DOMAIN queue /\ queue[1].kind # "note")
  BY DEF Network
<1>2. UNCHANGED <<httpPc, required, accepting, start, targets>> /\ (Holding => item' = item)
  BY DEF Network
<1>3. /\ (Sending' <=> Sending) /\ (Sending => Pos(item)' = Pos(item)) /\ Told' = Told /\ Owed' = Owed
  BY NetworkNotes
<1>4. \A i \in Slots : Live(i)' => Live(i) /\ slots'[i] = slots[i] /\ link' = link /\ sent' = sent
  BY DEF Live, Open, Network, NetInv, Held
<1>5. {Pos(queue[k])' : k \in {m \in DOMAIN queue' : Note(queue[m])'}} =
      {Pos(queue[k]) : k \in {m \in DOMAIN queue : Note(queue[m])}}
  <2>1. ~(d = 1 /\ Note(queue[1]))
    BY <1>1 DEF Note
  <2>2. QED
    BY <1>1, <2>1, ShiftedAwaits
<1>6. ASSUME NEW i \in Slots, slots'[i] = slots[i]
      PROVE  Awaited(i)' = Awaited(i)
  <2>1. Targeted(i)' <=> Targeted(i)
    BY <1>2, <1>3, <1>6 DEF Targeted, Current
  <2>2. Targeted(i) => Pos(item)' = Pos(item)
    BY <1>3 DEF Targeted
  <2>3. QED
    BY <1>5, <2>1, <2>2 DEF Awaited
<1>7. ASSUME NEW i \in Slots, Live(i)'
      PROVE  link' = "up" /\ (Serving' => Follows(i)')
  <2>1. Live(i) /\ Awaited(i)' = Awaited(i) /\ link' = link /\ sent' = sent
    BY <1>4, <1>6, <1>7
  <2>2. Serving' <=> Serving
    BY <1>2 DEF Serving
  <2>3. Follows(i)' <=> Follows(i)
    BY <1>2, <1>3, <2>1 DEF Follows
  <2>4. QED
    BY <2>1, <2>2, <2>3 DEF LiveInv
<1>8. ASSUME ~required', Sending', NEW token \in targets', sockets'[token.fd] = "open"
      PROVE  Live(token.slot)' /\ Current(token)'
  <2>1. token \in targets /\ token \in TokenType /\ sockets[token.fd] = "open" /\ Holding /\ Knows(token)
    BY <1>2, <1>3, <1>8 DEF TypeOK, TokenType, Network, Sending, Holding, NetInv, Held
  <2>2. Live(token.slot) /\ Current(token)
    BY <1>2, <1>3, <1>8, <2>1 DEF LiveInv
  <2>3. slots[token.slot].fd = token.fd /\ token.slot \in Slots /\ token.fd \in Fds /\ slots[token.slot].state = "Live"
    BY <2>1, <2>2 DEF Knows, TokenType, Live
  <2>4. slots'[token.slot] = slots[token.slot]
    BY <1>8, <2>1, <2>3 DEF Network
  <2>5. QED
    BY <1>8, <2>2, <2>3, <2>4 DEF Live, Current, Open
<1>9. QED
  BY <1>7, <1>8 DEF LiveInv

LEMMA NetworkInv ==
  ASSUME TypeOK, ClientInv, Network
  PROVE  ClientInv'
BY NetworkNet, NetworkQueue, NetworkNotes, NetworkConnects, NetworkLive DEF ClientInv

\* What the application's task knows is not affected by the others.
Outlives(i) ==
  slots'[i].state # "Free" =>
    \/ slots'[i].gen > generations /\ ~required
    \/ /\ slots[i].state # "Free" /\ slots'[i].gen = slots[i].gen /\ slots'[i].fd = slots[i].fd
       /\ slots[i].state = "Closing" => slots'[i].state = "Closing"

LEMMA OutsideApp ==
  ASSUME TypeOK, AppInv, UNCHANGED <<app, required, accepting, server>>,
         generations' \in Nat, generations <= generations', slots' \in [Slots -> SlotType],
         \A i \in Slots : Outlives(i),
         recycle \in {"RepublishPending", "RestartPending"} => UNCHANGED <<slots, httpPc, queue, sockets>>
  PROVE  AppInv'
<1>1. /\ UNCHANGED <<world, last, shown, recycle, retry, appPc, why, chosen, status, start>>
      /\ UNCHANGED <<required, accepting, server>>
  BY DEF app
<1>2. Positions' /\ Contents'
  BY <1>1 DEF AppInv, Positions, Contents, InTransition, Announcing
<1>3. required /\ AllFree => AllFree'
  BY DEF AllFree, Outlives
<1>4. Reasons'
  BY <1>1, <1>3 DEF AppInv, Reasons, Publishing
<1>5. Stopped'
  BY <1>1 DEF AppInv, Stopped, AllFree
<1>6. Chosen'
  <2>1. SUFFICES ASSUME appPc = "close"
                 PROVE  /\ chosen.gen <= generations'
                        /\ Current(chosen)' => slots'[chosen.slot].fd = chosen.fd /\ slots'[chosen.slot].state = "Closing"
    BY <1>1 DEF AppInv, Chosen, Knows, Current
  <2>2. /\ chosen \in TokenType /\ chosen.slot \in Slots /\ chosen.gen \in Nat /\ chosen.gen <= generations
        /\ Current(chosen) => slots[chosen.slot].fd = chosen.fd /\ slots[chosen.slot].state = "Closing"
    BY <2>1 DEF AppInv, Chosen, Knows, TokenType
  <2>3. generations \in Nat /\ chosen.gen <= generations'
    BY <2>2 DEF TypeOK
  <2>4. ASSUME Current(chosen)'
        PROVE  slots'[chosen.slot].fd = chosen.fd /\ slots'[chosen.slot].state = "Closing"
    <3>1. slots'[chosen.slot].state # "Free" /\ slots'[chosen.slot].gen = chosen.gen
      BY <1>1, <2>4 DEF Current
    <3>2. Outlives(chosen.slot)
      BY <2>2
    <3>3. QED
      BY <2>2, <2>3, <3>1, <3>2 DEF Outlives, Current
  <2>5. QED
    BY <2>3, <2>4
<1>7. QED
  BY <1>2, <1>4, <1>5, <1>6 DEF AppInv

\* The same, as long as no client comes.
LEMMA NetworkApp ==
  ASSUME TypeOK, AppInv, Network, UNCHANGED <<app, required, accepting, server>>,
         recycle \in {"RepublishPending", "RestartPending"} => UNCHANGED <<slots, httpPc, queue, sockets>>
  PROVE  AppInv'
<1>1. \A i \in Slots : Outlives(i)
  BY DEF Network, Outlives
<1>2. generations' \in Nat /\ generations <= generations' /\ slots' \in [Slots -> SlotType]
  BY DEF Network
<1>3. QED
  BY <1>1, <1>2, OutsideApp

LEMMA HangupInv ==
  ASSUME IInv, Hangup
  PROVE  IInv'
<1> USE DEF IInv
<1>1. /\ link' = "down" /\ sent' = <<>> /\ sockets' = [fd \in Fds |-> IF sockets[fd] = "open" THEN "gone" ELSE sockets[fd]]
      /\ UNCHANGED <<app, required, era, registry, pool, accepting, server, httpd>>
  BY DEF Hangup
<1>2. /\ UNCHANGED <<world, last, shown, recycle, retry, appPc, why, chosen, status, start, required, era>>
      /\ UNCHANGED <<slots, generations, works, starts, queue, httpPc, item, targets, success, accepting, server>>
  BY <1>1 DEF app, registry, pool, httpd
<1>3. sockets' \in [Fds -> {"free", "open", "gone"}] /\ \A fd \in Fds : sockets'[fd] # "open"
  BY <1>1 DEF TypeOK
<1>4. TypeOK'
  BY <1>1, <1>2, <1>3, EmptySeq DEF TypeOK
<1>5. Network
  BY <1>1, <1>2, <1>3, StaysShifts DEF Network, TypeOK
<1>6. recycle \in {"RepublishPending", "RestartPending"} => sockets' = sockets
  BY <1>1 DEF AppInv, Stopped, TypeOK
<1>7. AppInv'
  BY <1>1, <1>2, <1>5, <1>6, NetworkApp
<1>8. QED
  BY <1>4, <1>5, <1>7, NetworkInv

LEMMA ReapInv ==
  ASSUME IInv, NEW fd \in Fds, Reap(fd)
  PROVE  IInv'
<1> USE DEF IInv
<1>1. /\ sockets[fd] = "gone" /\ sockets' = [sockets EXCEPT ![fd] = "free"]
      /\ UNCHANGED <<app, required, era, registry, pool, accepting, server, httpd, link, sent>>
  BY DEF Reap
<1>2. /\ UNCHANGED <<world, last, shown, recycle, retry, appPc, why, chosen, status, start, required, era>>
      /\ UNCHANGED <<slots, generations, works, starts, queue, httpPc, item, targets, success, accepting, server>>
  BY <1>1 DEF app, registry, pool, httpd
<1>3. /\ sockets' \in [Fds -> {"free", "open", "gone"}]
      /\ \A other \in Fds : sockets'[other] = "open" <=> sockets[other] = "open"
  BY <1>1 DEF TypeOK
<1>4. TypeOK'
  BY <1>1, <1>2, <1>3 DEF TypeOK
<1>5. Network
  BY <1>1, <1>2, <1>3, StaysShifts DEF Network, TypeOK
<1>6. recycle \notin {"RepublishPending", "RestartPending"}
  BY <1>1 DEF AppInv, Stopped
<1>7. AppInv'
  BY <1>1, <1>5, <1>6, NetworkApp
<1>8. QED
  BY <1>4, <1>5, <1>7, NetworkInv

LEMMA ReceiveFrameInv ==
  ASSUME IInv, NEW fd \in Fds, NEW frame \in Frames, ReceiveFrame(fd, frame)
  PROVE  IInv'
<1> USE DEF IInv
<1>1. /\ sockets[fd] = "open" /\ sockets' = [sockets EXCEPT ![fd] = "free"] /\ link' = "cut"
      /\ UNCHANGED <<app, required, era, registry, pool, accepting, server, httpd, sent>>
  BY DEF ReceiveFrame
<1>2. /\ UNCHANGED <<world, last, shown, recycle, retry, appPc, why, chosen, status, start, required, era>>
      /\ UNCHANGED <<slots, generations, works, starts, queue, httpPc, item, targets, success, accepting, server>>
  BY <1>1 DEF app, registry, pool, httpd
<1>3. sockets' \in [Fds -> {"free", "open", "gone"}] /\ \A other \in Fds : sockets'[other] # "open"
  BY <1>1 DEF TypeOK, ClientInv, NetInv, OneSocket
<1>4. TypeOK'
  BY <1>1, <1>2, <1>3 DEF TypeOK
<1>5. Network
  BY <1>1, <1>2, <1>3, StaysShifts DEF Network, TypeOK
<1>6. recycle \notin {"RepublishPending", "RestartPending"}
  BY <1>1 DEF AppInv, Stopped
<1>7. AppInv'
  BY <1>1, <1>5, <1>6, NetworkApp
<1>8. QED
  BY <1>4, <1>5, <1>7, NetworkInv

\* Finished drops what the task held.
LEMMA RunCloseInv ==
  ASSUME IInv, Run, NEW fd, Head(queue) = [kind |-> "close", n |-> fd], RunClose(fd)
  PROVE  IInv'
<1> USE DEF IInv
<1>1. /\ httpPc = "idle" /\ queue # <<>> /\ queue' = Tail(queue)
      /\ UNCHANGED <<app, required, era, generations, works, accepting, server, sent, slots, starts>>
      /\ httpPc' = "idle" /\ item' = NoItem /\ targets' = {} /\ success' = FALSE
      /\ \/ /\ sockets' = [sockets EXCEPT ![fd] = "free"]
            /\ link' = (IF sockets[fd] = "open" THEN "cut" ELSE link)
         \/ UNCHANGED <<sockets, link>>
  BY DEF Run, RunClose, Finished
<1>2. Shifts(1) /\ Head(queue) = queue[1] /\ 1 \in DOMAIN queue /\ queue[1] \in ItemType
  BY <1>1, PopShifts
<1>3. queue[1].kind = "close" /\ (\A i \in Slots : queue[1] # StartOf(i)) /\ fd \in Fds
  BY <1>2 DEF StartOf, ItemType
<1>4. targets = {} /\ ~Holding
  BY <1>1 DEF ClientInv, QueueInv, Queued, Holding
<1>5. /\ sockets' \in [Fds -> {"free", "open", "gone"}] /\ link' \in {"down", "dialing", "up", "cut"}
      /\ \A other \in Fds : sockets'[other] = "open" => sockets[other] = "open"
      /\ \/ /\ link' = link /\ sent' = sent
            /\ \A other \in Fds : sockets[other] = "open" => sockets'[other] = "open"
         \/ (\A other \in Fds : sockets'[other] # "open") /\ link' = "cut"
  BY <1>1, <1>3 DEF TypeOK, ClientInv, NetInv, OneSocket
<1>6. UNCHANGED <<world, last, shown, recycle, retry, appPc, why, chosen, status, start>>
  BY <1>1 DEF app
<1>7. TypeOK'
  BY <1>1, <1>2, <1>5, <1>6 DEF TypeOK, HttpPcs, Shifts
<1>8. Network
  <2>1. /\ UNCHANGED <<works, era, required, start, last, appPc, why, accepting, httpPc, targets>>
        /\ slots' = slots /\ starts' = starts /\ generations' = generations
    BY <1>1, <1>4, <1>6
  <2>2. /\ slots \in [Slots -> SlotType] /\ starts \in [Slots -> StartType] /\ generations \in Nat
    BY DEF TypeOK
  <2>3. QED
    BY <1>2, <1>3, <1>4, <1>5, <2>1, <2>2 DEF Network
<1>9. recycle \notin {"RepublishPending", "RestartPending"}
  BY <1>1 DEF AppInv, Stopped
<1>10. AppInv'
  BY <1>1, <1>8, <1>9, NetworkApp
<1>11. QED
  BY <1>7, <1>8, <1>10, NetworkInv

\* A start that does not count any more: the client is to be closed.
LEMMA StartDroppedInv ==
  ASSUME IInv, Run, NEW i \in Slots, Head(queue) = StartOf(i),
         slots' = Closing([slot |-> i, gen |-> starts[i].gen, fd |-> slots[i].fd, asked |-> FALSE]),
         starts' = [starts EXCEPT ![i] = NoStart], Finished, UNCHANGED <<sockets, link>>
  PROVE  IInv'
<1> USE DEF IInv
<1> DEFINE token == [slot |-> i, gen |-> starts[i].gen, fd |-> slots[i].fd, asked |-> FALSE]
<1>1. /\ httpPc = "idle" /\ queue # <<>> /\ queue' = Tail(queue)
      /\ UNCHANGED <<app, required, era, generations, works, accepting, server, sent, sockets, link>>
      /\ httpPc' = "idle" /\ item' = NoItem /\ targets' = {} /\ success' = FALSE
      /\ slots' = Closing(token) /\ starts' = [starts EXCEPT ![i] = NoStart]
  BY DEF Run, Finished
<1>2. Shifts(1) /\ Head(queue) = queue[1] /\ 1 \in DOMAIN queue
  BY <1>1, PopShifts
<1>3. queue[1] = StartOf(i) /\ queue[1].kind # "note" /\ \A j \in Slots : queue[1] = StartOf(j) => j = i
  BY <1>2 DEF StartOf
<1>4. targets = {} /\ ~Holding
  BY <1>1 DEF ClientInv, QueueInv, Queued, Holding
<1>5. /\ slots' \in [Slots -> SlotType] /\ \A j \in Slots : j # i => slots'[j] = slots[j]
      /\ Current(token) => slots'[i].state = "Closing" /\ slots'[i].fd = slots[i].fd /\ slots'[i].gen = slots[i].gen
      /\ ~Current(token) => slots' = slots
  BY <1>1, GivenUpIs DEF TypeOK
<1>6. Current(token) <=> slots[i].state # "Free" /\ slots[i].gen = starts[i].gen
  BY DEF Current
<1> HIDE DEF token
<1>7. slots'[i].state # "Connecting"
  BY <1>5, <1>6 DEF ClientInv, ConnectInv, Connects
<1>8. starts' \in [Slots -> StartType] /\ \A j \in Slots : starts'[j] = starts[j] \/ (j = i /\ starts'[j] = NoStart)
  <2>1. NoStart \in StartType
    BY DEF NoStart, StartType
  <2>2. QED
    BY <1>1, <2>1 DEF TypeOK
<1>9. UNCHANGED <<world, last, shown, recycle, retry, appPc, why, chosen, status, start>>
  BY <1>1 DEF app
<1>10. TypeOK'
  BY <1>1, <1>2, <1>5, <1>8, <1>9 DEF TypeOK, HttpPcs, Shifts
<1>11. Network
  <2>1. /\ UNCHANGED <<works, era, required, start, last, appPc, why, accepting, httpPc, targets>>
        /\ sockets' = sockets /\ link' = link /\ sent' = sent /\ generations' = generations
    BY <1>1, <1>4, <1>9
  <2>2. sockets \in [Fds -> {"free", "open", "gone"}] /\ generations \in Nat
    BY DEF TypeOK
  <2>3. \A j \in Slots : \/ slots'[j] = slots[j]
                         \/ /\ ~Holding /\ slots'[j].state = "Closing" /\ slots[j].state # "Free"
                            /\ slots'[j].fd = slots[j].fd /\ slots'[j].gen = slots[j].gen
    BY <1>4, <1>5, <1>6
  <2>4. \E d : /\ Shifts(d)
               /\ d = 1 => ~Holding /\ 1 \in DOMAIN queue /\ queue[1].kind # "note"
               /\ \A j \in Slots : d = 1 /\ queue[1] = StartOf(j) => slots'[j].state # "Connecting"
               /\ \A j \in Slots : \/ starts'[j] = starts[j]
                                   \/ starts'[j] = NoStart /\ d = 1 /\ queue[1] = StartOf(j)
    <3> WITNESS 1
    <3>1. QED
      BY <1>2, <1>3, <1>4, <1>7, <1>8
  <2>5. generations' \in Nat /\ generations <= generations' /\ sockets' \in [Fds -> {"free", "open", "gone"}]
    BY <2>1, <2>2
  <2>6. QED
    BY <1>4, <1>5, <1>8, <2>1, <2>3, <2>4, <2>5 DEF Network
<1>12. recycle \notin {"RepublishPending", "RestartPending"}
  BY <1>1 DEF AppInv, Stopped
<1>13. AppInv'
  BY <1>1, <1>11, <1>12, NetworkApp
<1>14. QED
  BY <1>10, <1>11, <1>13, NetworkInv

\* Work that is taken, for those that are to be told of it.
Takes ==
  /\ httpPc = "idle" /\ httpPc' \in {"marker", "fan"} /\ queue # <<>> /\ queue' = Tail(queue) /\ item' = Head(queue)
  /\ item'.kind = (IF httpPc' = "marker" THEN "start" ELSE "note")
  /\ UNCHANGED <<app, required, era, generations, works, accepting, server, sent, slots, starts, success, sockets, link>>
  /\ \A token \in targets' : \E i \in Slots, b \in BOOLEAN :
       slots[i].state # "Free" /\ token = [slot |-> i, gen |-> slots[i].gen, fd |-> slots[i].fd, asked |-> b]
  /\ \A token, other \in targets' : token.slot = other.slot => token = other

LEMMA TakesInv ==
  ASSUME IInv, Takes
  PROVE  /\ TypeOK' /\ AppInv' /\ NetInv' /\ QueueInv' /\ Notes'
         /\ Shifts(1) /\ 1 \in DOMAIN queue /\ item' = queue[1] /\ queue[1] \in ItemType
         /\ (Sending' <=> httpPc' = "fan" /\ Note(queue[1]))
         /\ Pos(item)' = Pos(queue[1]) /\ Told' = Told /\ Owed' = Owed /\ Connects' /\ Misses'
         /\ targets' \subseteq TokenType /\ \A token \in targets' : Current(token)'
<1> USE DEF IInv
<1>1. /\ httpPc = "idle" /\ httpPc' \in {"marker", "fan"} /\ queue # <<>> /\ queue' = Tail(queue) /\ item' = Head(queue)
      /\ UNCHANGED <<app, required, era, generations, works, accepting, server, sent, slots, starts, success, sockets, link>>
  BY DEF Takes
<1>2. Shifts(1) /\ item' = queue[1] /\ 1 \in DOMAIN queue /\ queue[1] \in ItemType
  BY <1>1, PopShifts
<1>3. UNCHANGED <<world, last, shown, recycle, retry, appPc, why, chosen, status, start>>
  BY <1>1 DEF app
<1>4. ASSUME NEW token \in targets'
      PROVE  /\ token \in TokenType /\ slots[token.slot].state # "Free" /\ token.gen = slots[token.slot].gen
             /\ token.fd = slots[token.slot].fd /\ token.gen <= generations
  <2>1. PICK i \in Slots, b \in BOOLEAN :
          token = [slot |-> i, gen |-> slots[i].gen, fd |-> slots[i].fd, asked |-> b] /\ slots[i].state # "Free"
    BY DEF Takes
  <2>2. slots[i].fd \in Fds /\ slots[i].gen <= generations /\ slots[i].gen \in Nat
    BY <2>1 DEF ClientInv, NetInv, Held, TypeOK, SlotType
  <2>3. QED
    BY <2>1, <2>2 DEF TokenType
<1>5. TypeOK'
  BY <1>1, <1>2, <1>3, <1>4 DEF TypeOK, HttpPcs, Shifts
<1>6. AppInv'
  <2>1. recycle \notin {"RepublishPending", "RestartPending"}
    BY <1>1 DEF AppInv, Stopped
  <2>2. \A i \in Slots : Outlives(i)
    BY <1>1 DEF Outlives
  <2>3. generations' \in Nat /\ generations <= generations' /\ slots' \in [Slots -> SlotType]
    BY <1>1 DEF TypeOK
  <2>4. QED
    BY <1>1, <2>1, <2>2, <2>3, OutsideApp
<1>7. NetInv'
  <2>1. OneSocket'
    BY <1>1 DEF ClientInv, NetInv, OneSocket
  <2>2. \A token \in targets' : Knows(token)'
    BY <1>1, <1>4 DEF Knows, Current
  <2>3. Held'
    BY <1>1, <2>2 DEF ClientInv, NetInv, Held
  <2>4. QED
    BY <2>1, <2>3 DEF NetInv
<1>8. \A k \in DOMAIN queue' : k \in Nat /\ k >= 1 /\ k + 1 \in DOMAIN queue /\ k + 1 # 1 /\ queue'[k] = queue[k + 1]
  <2>1. \A k \in DOMAIN queue' : k >= 1
    BY <1>2, LenProperties DEF Shifts
  <2>2. QED
    BY <1>2, <2>1 DEF Shifts
<1>9. QueueInv'
  <2>1. ASSUME NEW x
        PROVE  Busy(x)' <=> Busy(x)
    BY <1>1 DEF Busy
  <2>2. \A k \in DOMAIN queue' : Busy(queue[k])'
    BY <1>1, <1>8 DEF ClientInv, QueueInv, Queued, Busy
  <2>3. ASSUME NEW k \in DOMAIN queue', NEW m \in DOMAIN queue', queue'[k].kind # "close", queue'[k] = queue'[m]
        PROVE  k = m
    <3>1. k + 1 = m + 1
      BY <1>8, <2>3 DEF ClientInv, QueueInv, Queued
    <3>2. QED
      BY <1>8, <3>1
  <2>4. Busy(item)'
    BY <1>1, <1>2 DEF ClientInv, QueueInv, Queued, Busy
  <2>5. item'.kind # "close"
    BY DEF Takes
  <2>6. \A k \in DOMAIN queue' : queue'[k] # item'
    BY <1>2, <1>8, <2>5 DEF ClientInv, QueueInv, Queued
  <2>7. Queued'
    BY <1>1, <1>2, <2>2, <2>3, <2>4, <2>6 DEF Queued, Holding, Takes
  <2>8. Eras'
    BY <1>1, <1>3 DEF ClientInv, QueueInv, Eras
  <2>9. QED
    BY <2>7, <2>8 DEF QueueInv
<1>10. /\ Sending' <=> httpPc' = "fan" /\ Note(queue[1])
       /\ Pos(item)' = Pos(queue[1]) /\ Told' = Told /\ Owed' = Owed
  BY <1>1, <1>2, <1>3 DEF Sending, Note, Pos, Told, Owed, InTransition, Announcing
<1>11. \A k \in DOMAIN queue' : (Note(queue[k])' <=> Note(queue[k + 1])) /\ Pos(queue[k])' = Pos(queue[k + 1])
  BY <1>2, ShiftedNotes
<1>12. Notes'
  <2>1. /\ \A k, m \in DOMAIN queue' : k < m /\ Note(queue[k])' /\ Note(queue[m])' => Pos(queue[k])' < Pos(queue[m])'
        /\ ~required => \A k \in DOMAIN queue' : Note(queue[k])' => Pos(queue[k])' <= start /\ Pos(queue[k])' <= Told
    BY <1>2, ShiftedOrder DEF ClientInv
  <2>2. Sending' => \A k \in DOMAIN queue' : Note(queue[k])' => Pos(item)' < Pos(queue[k])'
    <3>1. \A k \in DOMAIN queue' : 1 < k + 1
      BY <1>8
    <3>2. QED
      BY <1>2, <1>8, <1>10, <1>11, <3>1 DEF ClientInv, Notes
  <2>3. ~required /\ Sending' => Pos(item)' <= start' /\ Pos(item)' <= Told'
    BY <1>2, <1>3, <1>10 DEF ClientInv, Notes
  <2>4. QED
    BY <1>1, <1>3, <1>10, <2>1, <2>2, <2>3 DEF Notes
<1>13. Connects'
  BY <1>1 DEF ClientInv, ConnectInv, Connects, Open
<1>14. Misses'
  <2>1. SUFFICES ASSUME NEW i \in Slots, ~required, slots[i].state = "Connecting", ~slots[i].missed
                 PROVE  /\ Owed' <= slots[i].captured
                        /\ \A k \in DOMAIN queue' : Note(queue[k])' =>
                             /\ Pos(queue[k])' <= slots[i].captured
                             /\ Taking(i)' \/ (\E m \in DOMAIN queue' : m < k /\ queue'[m] = StartOf(i))
                                  => Pos(queue[k])' = slots[i].captured
    BY <1>1 DEF Misses, StartOf
  <2>2. ASSUME NEW k \in DOMAIN queue', Taking(i)' \/ \E m \in DOMAIN queue' : m < k /\ queue'[m] = StartOf(i)
        PROVE  \E m \in DOMAIN queue : m < k + 1 /\ queue[m] = StartOf(i)
    <3>1. CASE Taking(i)'
      <4>1. 1 \in DOMAIN queue /\ 1 < k + 1 /\ queue[1] = StartOf(i)
        BY <1>2, <1>8, <3>1 DEF Taking, StartOf
      <4>2. QED
        BY <4>1
    <3>2. ASSUME NEW m \in DOMAIN queue', m < k, queue'[m] = StartOf(i)
          PROVE  \E n \in DOMAIN queue : n < k + 1 /\ queue[n] = StartOf(i)
      BY <1>8, <3>2
    <3>3. QED
      BY <2>2, <3>1, <3>2
  <2>3. QED
    BY <1>8, <1>10, <1>11, <2>1, <2>2 DEF ClientInv, ConnectInv, Misses
<1>15. \A token \in targets' : Current(token)'
  BY <1>1, <1>4 DEF Current
<1>16. QED
  BY <1>2, <1>4, <1>5, <1>6, <1>7, <1>9, <1>10, <1>12, <1>13, <1>14, <1>15

LEMMA StartTakenInv ==
  ASSUME IInv, Takes, httpPc' = "marker", NEW i \in Slots, Head(queue) = StartOf(i), slots[i].state = "Connecting",
         targets' = {[slot |-> i, gen |-> starts[i].gen, fd |-> slots[i].fd, asked |-> FALSE]}
  PROVE  IInv'
<1> USE DEF IInv
<1> DEFINE token == [slot |-> i, gen |-> starts[i].gen, fd |-> slots[i].fd, asked |-> FALSE]
<1>1. /\ UNCHANGED <<slots, starts, sockets, link, sent, required, accepting, start, works, era>>
      /\ httpPc = "idle" /\ item' = StartOf(i)
  BY DEF Takes, app
<1>2. Marks'
  <2>1. targets' = {token} /\ token.slot = i /\ token.gen = starts[i].gen /\ token.fd = slots[i].fd /\ item'.n = i
    BY <1>1 DEF StartOf
  <2>2. \A t \in targets' : Current(t)'
    BY TakesInv
  <2>3. sockets[slots[i].fd] = "open" => link = "dialing"
    BY <1>1 DEF ClientInv, ConnectInv, Connects, Open
  <2> HIDE DEF token
  <2>4. QED
    BY <1>1, <2>1, <2>2, <2>3 DEF Marks
<1>3. LiveInv'
  <2>1. ~Sending /\ ~Sending' /\ Shifts(1) /\ 1 \in DOMAIN queue /\ ~Note(queue[1]) /\ Told' = Told /\ Owed' = Owed
    <3>1. queue[1] = StartOf(i)
      BY <1>1, TakesInv
    <3>2. QED
      BY <1>1, <3>1, TakesInv DEF Sending, Note, StartOf
  <2>2. \A j \in Slots : Awaited(j)' = Awaited(j)
    BY <2>1, ShiftedAwaits DEF Awaited, Targeted
  <2>3. \A j \in Slots : (Live(j)' <=> Live(j)) /\ (Serving' => Serving)
    BY <1>1 DEF Live, Open, Serving
  <2>4. ASSUME NEW j \in Slots
        PROVE  Follows(j)' <=> Follows(j)
    BY <1>1, <2>1, <2>2 DEF Follows
  <2>5. QED
    BY <1>1, <2>1, <2>3, <2>4 DEF ClientInv, LiveInv
<1>4. QED
  BY <1>2, <1>3, TakesInv DEF ClientInv, ConnectInv

LEMMA NoteTakenInv ==
  ASSUME IInv, Takes, httpPc' = "fan", Head(queue).kind = "note",
         targets' = IF accepting /\ server /\ Accepts(works[Head(queue).n].era)
                      THEN {Token(i) : i \in {j \in Slots : slots[j].state = "Live"}} ELSE {}
  PROVE  IInv'
<1> USE DEF IInv
<1>1. /\ UNCHANGED <<slots, starts, sockets, link, sent, required, accepting, works, era, start>>
      /\ httpPc = "idle" /\ item' = Head(queue)
  BY DEF Takes, app
<1>2. Marks'
  BY DEF Marks
<1>3. Shifts(1) /\ 1 \in DOMAIN queue /\ Told' = Told /\ Owed' = Owed /\ (Sending' <=> Note(queue[1]))
      /\ Pos(item)' = Pos(queue[1]) /\ item' = queue[1]
  BY TakesInv
<1>4. Sending' /\ ~required /\ accepting => targets' = {Token(i) : i \in {j \in Slots : slots[j].state = "Live"}}
  BY <1>1, <1>3 DEF Accepts, Note, AppInv, Stopped
<1>5. \A token \in targets' : slots[token.slot].state = "Live" /\ token.slot \in Slots /\ slots[token.slot].fd = token.fd
  BY DEF Token
<1>6. Serving' => Serving /\ accepting /\ ~required
  BY <1>1 DEF Serving
<1>7. ASSUME NEW i \in Slots, Live(i), Serving'
      PROVE  Awaited(i)' = Awaited(i)
  <2>1. ~Targeted(i)
    BY <1>1 DEF Targeted, Sending
  <2>2. Targeted(i)' <=> Note(queue[1])
    <3>1. ASSUME Note(queue[1])
          PROVE  \E token \in targets' : token.slot = i /\ Current(token)'
      <4>1. Token(i) \in targets' /\ Token(i).slot = i
        BY <1>3, <1>4, <1>6, <1>7, <3>1 DEF Live, Token
      <4>2. \A token \in targets' : Current(token)'
        BY TakesInv
      <4>3. QED
        BY <4>1, <4>2
    <3>2. QED
      BY <1>3, <3>1 DEF Targeted
  <2>3. {Pos(queue[k]) : k \in {m \in DOMAIN queue : Note(queue[m])}} =
         {Pos(queue[k])' : k \in {m \in DOMAIN queue' : Note(queue[m])'}}
           \cup (IF Note(queue[1]) THEN {Pos(queue[1])} ELSE {})
    BY <1>3, ShiftedAwaits
  <2>4. QED
    BY <1>3, <2>1, <2>2, <2>3 DEF Awaited
<1>8. \A i \in Slots : Live(i)' <=> Live(i)
  BY <1>1 DEF Live, Open
<1>9. ASSUME NEW i \in Slots, Live(i), Serving'
      PROVE  Follows(i)'
  <2>1. Awaited(i)' = Awaited(i) /\ Follows(i)
    BY <1>6, <1>7, <1>9 DEF ClientInv, LiveInv
  <2>2. QED
    BY <1>1, <1>3, <2>1 DEF Follows
<1>10. \A token \in targets' : sockets'[token.fd] = "open" => Live(token.slot)' /\ Current(token)'
  BY <1>1, <1>5, TakesInv DEF Live, Open
<1>11. LiveInv'
  BY <1>1, <1>8, <1>9, <1>10 DEF ClientInv, LiveInv
<1>12. QED
  BY <1>2, <1>11, TakesInv DEF ClientInv, ConnectInv

LEMMA RunInv ==
  ASSUME IInv, Run
  PROVE  IInv'
<1>1. /\ httpPc = "idle" /\ queue # <<>> /\ queue' = Tail(queue) /\ Head(queue) \in ItemType
      /\ UNCHANGED <<app, required, era, generations, works, accepting, server, sent>>
  BY Tails DEF Run, IInv, TypeOK
<1>2. CASE Head(queue).kind = "close" /\ RunClose(Head(queue).n)
  <2>1. Head(queue) = [kind |-> "close", n |-> Head(queue).n]
    BY <1>1, <1>2 DEF ItemType
  <2>2. QED
    BY <1>2, <2>1, RunCloseInv
<1>3. CASE Head(queue).kind = "start" /\ RunStart(Head(queue).n)
  <2>1. PICK i \in Slots : Head(queue) = StartOf(i) /\ RunStart(i)
    BY <1>1, <1>3 DEF ItemType, StartOf
  <2> DEFINE token == [slot |-> i, gen |-> starts[i].gen, fd |-> slots[i].fd, asked |-> FALSE]
  <2>2. CASE slots' = Closing(token) /\ starts' = [starts EXCEPT ![i] = NoStart] /\ Finished
    BY <2>1, <2>2, StartDroppedInv DEF RunStart
  <2>3. CASE /\ Current(token) /\ slots[i].state = "Connecting"
             /\ httpPc' = "marker" /\ item' = Head(queue) /\ targets' = {token}
             /\ UNCHANGED <<slots, starts, success, sockets, link>>
    <3>1. slots[i].gen = starts[i].gen
      BY <2>3 DEF Current
    <3>2. token = [slot |-> i, gen |-> slots[i].gen, fd |-> slots[i].fd, asked |-> FALSE] /\ targets' = {token}
      BY <2>3, <3>1
    <3> HIDE DEF token
    <3>3. /\ \A t \in targets' : \E j \in Slots, b \in BOOLEAN :
               slots[j].state # "Free" /\ t = [slot |-> j, gen |-> slots[j].gen, fd |-> slots[j].fd, asked |-> b]
          /\ \A t, other \in targets' : t.slot = other.slot => t = other
      <4>1. slots[i].state # "Free"
        BY <2>3
      <4>2. QED
        BY <3>2, <4>1
    <3>4. Takes
      BY <1>1, <2>1, <2>3, <3>3 DEF Takes, StartOf
    <3> USE DEF token
    <3>5. QED
      BY <2>1, <2>3, <3>4, StartTakenInv
  <2>4. QED
    BY <2>1, <2>2, <2>3 DEF RunStart
<1>4. CASE Head(queue).kind = "note" /\ RunNote(Head(queue).n)
  <2>1. \A token \in targets' : \E i \in Slots : slots[i].state = "Live" /\ token = Token(i)
    BY <1>4 DEF RunNote
  <2>2. \A i \in Slots : slots[i].closing \in BOOLEAN
    BY DEF IInv, TypeOK, SlotType
  <2>3. \A token \in targets' : \E i \in Slots, b \in BOOLEAN :
          slots[i].state # "Free" /\ token = [slot |-> i, gen |-> slots[i].gen, fd |-> slots[i].fd, asked |-> b]
    BY <2>1, <2>2 DEF Token
  <2>4. \A token, other \in targets' : token.slot = other.slot => token = other
    BY <2>1 DEF Token
  <2>5. Takes
    BY <1>1, <1>4, <2>3, <2>4 DEF Takes, RunNote
  <2>6. QED
    BY <1>4, <2>5, NoteTakenInv DEF RunNote
<1>5. QED
  BY <1>2, <1>3, <1>4 DEF Run

\* The position of the start is not before what a client must be told next.
LEMMA OwedIsStarted ==
  ASSUME TypeOK, AppInv, ~required
  PROVE  Owed <= start
BY DEF AppInv, Positions, Owed, InTransition, Announcing, TypeOK, StatusType, Reasons

\* A client gets the place i; it is the only one that is connected.
LEMMA AdmittedInv ==
  ASSUME TypeOK, AppInv, ClientInv, httpPc = "idle", link = "down", ~required, NEW fd \in Fds, NEW i \in Slots,
         ~starts[i].busy, generations' = generations + 1,
         slots' \in [Slots -> SlotType],
         slots'[i] = [state |-> "Connecting", fd |-> fd, gen |-> generations', captured |-> start,
                      missed |-> FALSE, closing |-> FALSE],
         \A j \in Slots : j # i => /\ slots'[j] = slots[j] \/ slots'[j].state = "Free"
                                   /\ slots'[j].state # "Free" => slots'[j].fd # fd,
         starts' = [starts EXCEPT ![i] = [busy |-> TRUE, gen |-> generations', pos |-> start, era |-> era]],
         queue' = Append(queue, StartOf(i)), link' = "dialing", sockets' = [sockets EXCEPT ![fd] = "open"],
         sent' = <<>>, UNCHANGED <<last, start, appPc, why, required, era, works, accepting, httpd>>
  PROVE  ClientInv'
<1>1. UNCHANGED <<httpPc, item, targets, success>>
  BY DEF httpd
<1>2. ~Holding /\ ~Holding' /\ targets = {} /\ targets' = {} /\ ~Sending /\ ~Sending'
  BY <1>1 DEF Holding, Sending, ClientInv, QueueInv, Queued
<1>3. \A other \in Fds : sockets[other] # "open" /\ (sockets'[other] = "open" <=> other = fd)
  BY DEF ClientInv, NetInv, OneSocket, TypeOK
<1>4. generations \in Nat /\ start \in Nat /\ era \in Nat /\ (\A j \in Slots : slots[j].gen \in Nat)
  BY DEF TypeOK, SlotType
<1>5. NetInv'
  <2>1. OneSocket'
    BY <1>3 DEF OneSocket
  <2>2. \A j \in Slots : slots'[j].state # "Free" =>
          slots'[j].fd \in Fds /\ slots'[j].gen <= generations' /\
          \A k \in Slots : slots'[k].state # "Free" /\ slots'[j].fd = slots'[k].fd => j = k
    <3>1. \A j \in Slots : slots'[j].state # "Free" /\ j # i => slots'[j] = slots[j] /\ slots[j].state # "Free"
      OBVIOUS
    <3>2. \A j \in Slots : slots[j].state # "Free" =>
            slots[j].fd \in Fds /\ slots[j].gen <= generations /\
            \A k \in Slots : slots[k].state # "Free" /\ slots[j].fd = slots[k].fd => j = k
      BY DEF ClientInv, NetInv, Held
    <3>3. slots'[i].fd = fd /\ slots'[i].gen = generations'
      OBVIOUS
    <3>4. QED
      BY <1>4, <3>1, <3>2, <3>3
  <2>3. Held'
    BY <1>2, <1>3, <2>2 DEF Held
  <2>4. QED
    BY <2>1, <2>3 DEF NetInv
<1> DEFINE N == Len(queue)
<1>6. /\ queue' \in Seq(ItemType) /\ N \in Nat /\ DOMAIN queue = 1..N /\ DOMAIN queue' = 1..(N + 1)
      /\ \A k \in 1..N : queue'[k] = queue[k] /\ queue[k] \in ItemType
      /\ queue'[N + 1] = StartOf(i)
  <2>1. StartOf(i) \in ItemType
    BY DEF StartOf, ItemType
  <2>2. QED
    BY <2>1, Appends, ElementOfSeq DEF TypeOK
<1> HIDE DEF N
<1>7. \A k \in 1..N : Busy(queue[k]) /\ queue[k] # StartOf(i)
  <2>1. ~Busy(StartOf(i))
    BY DEF Busy, StartOf
  <2>2. \A k \in 1..N : Busy(queue[k])
    BY <1>6 DEF ClientInv, QueueInv, Queued
  <2>3. QED
    BY <2>1, <2>2
<1>8. /\ starts'[i].busy /\ starts'[i].gen = generations' /\ starts'[i].pos = start /\ starts'[i].era = era
      /\ \A j \in Slots : j # i => starts'[j] = starts[j]
  BY DEF TypeOK
<1>9. QueueInv'
  <2>1. \A x \in ItemType : Busy(x) \/ x = StartOf(i) => Busy(x)'
    <3>1. works' = works
      OBVIOUS
    <3>2. \A x \in ItemType : x.kind = "start" => x.n \in Slots
      BY DEF ItemType
    <3>3. QED
      BY <1>8, <3>1, <3>2 DEF Busy, StartOf
  <2>2. \A k \in DOMAIN queue' : Busy(queue[k])'
    <3>1. \A k \in DOMAIN queue' : k \in 1..N \/ k = N + 1
      BY <1>6
    <3>2. \A k \in DOMAIN queue' : queue'[k] \in ItemType /\ (Busy(queue'[k]) \/ queue'[k] = StartOf(i))
      BY <1>6, <1>7, <3>1 DEF StartOf, ItemType
    <3>3. QED
      BY <2>1, <3>2 DEF Busy
  <2>3. \A k, m \in DOMAIN queue' : queue'[k].kind # "close" /\ queue'[k] = queue'[m] => k = m
    BY <1>6, <1>7 DEF ClientInv, QueueInv, Queued
  <2>4. Queued'
    BY <1>1, <1>2, <2>2, <2>3 DEF Queued, Holding
  <2>5. Eras'
    BY <1>4, <1>8 DEF ClientInv, QueueInv, Eras
  <2>6. QED
    BY <2>4, <2>5 DEF QueueInv
<1>10. /\ \A k \in 1..N : (Note(queue[k])' <=> Note(queue[k])) /\ Pos(queue[k])' = Pos(queue[k])
       /\ \A k \in DOMAIN queue' : Note(queue[k])' => k \in 1..N
  <2>1. \A k \in 1..N : (Note(queue[k])' <=> Note(queue[k])) /\ Pos(queue[k])' = Pos(queue[k])
    BY <1>6 DEF Note, Pos
  <2>2. \A k \in DOMAIN queue' : queue'[k].kind = "note" => k \in 1..N
    BY <1>6 DEF StartOf
  <2>3. QED
    BY <2>1, <2>2 DEF Note
<1>11. Told' = Told /\ Owed' = Owed /\ Owed <= start
  BY OwedIsStarted DEF Told, Owed, InTransition, Announcing
<1>12. Notes'
  BY <1>2, <1>6, <1>10, <1>11 DEF ClientInv, Notes
<1>13. Connects'
  <2>1. \A j \in Slots : slots'[j].state = "Connecting" /\ j # i => slots'[j] = slots[j] /\ starts'[j] = starts[j] /\ ~Open(j)'
    BY <1>3, <1>5, <1>8 DEF Open, NetInv, Held
  <2>2. slots'[i].captured = start /\ slots'[i].gen = generations'
    OBVIOUS
  <2>3. QED
    BY <1>8, <2>1, <2>2 DEF ClientInv, ConnectInv, Connects
<1>14. Misses'
  <2>1. SUFFICES ASSUME NEW j \in Slots, slots'[j].state = "Connecting", ~slots'[j].missed
                 PROVE  /\ Owed' <= slots'[j].captured
                        /\ \A k \in DOMAIN queue' : Note(queue[k])' =>
                             /\ Pos(queue[k])' <= slots'[j].captured
                             /\ Taking(j)' \/ (\E m \in DOMAIN queue' : m < k /\ queue'[m] = StartOf(j))
                                  => Pos(queue[k])' = slots'[j].captured
    BY DEF Misses, StartOf
  <2>2. ~Taking(j)'
    BY <1>1 DEF Taking
  <2>3. \A k \in 1..N : (\E m \in DOMAIN queue' : m < k /\ queue'[m] = StartOf(j)) =>
                          \E m \in DOMAIN queue : m < k /\ queue[m] = StartOf(j)
    BY <1>6
  <2>4. CASE j = i
    <3>1. \A k \in 1..N : Note(queue[k]) => Pos(queue[k]) <= start
      BY <1>6 DEF ClientInv, Notes
    <3>2. \A k \in 1..N : ~\E m \in DOMAIN queue' : m < k /\ queue'[m] = StartOf(i)
      BY <1>6, <1>7
    <3>3. slots'[j].captured = start
      BY <2>4
    <3>4. QED
      BY <1>10, <1>11, <2>2, <2>4, <3>1, <3>2, <3>3
  <2>5. CASE j # i
    <3>1. slots'[j] = slots[j]
      BY <2>1, <2>5
    <3>2. QED
      BY <1>6, <1>10, <1>11, <2>1, <2>2, <2>3, <3>1 DEF ClientInv, ConnectInv, Misses
  <2>6. QED
    BY <2>4, <2>5
<1>15. Marks'
  BY <1>1, <1>2 DEF Marks
<1>16. LiveInv'
  <2>1. \A j \in Slots : ~Live(j)'
    BY <1>3, <1>5 DEF Live, Open, NetInv, Held
  <2>2. QED
    BY <1>2, <2>1 DEF LiveInv
<1>17. QED
  BY <1>5, <1>9, <1>12, <1>13, <1>14, <1>15, <1>16 DEF ClientInv, ConnectInv

LEMMA HandshakeInv ==
  ASSUME IInv, Handshake
  PROVE  IInv'
<1> USE DEF IInv
<1>1. PICK fd \in Fds : sockets[fd] = "free" /\ Admit(fd)
  BY DEF Handshake
<1>2. /\ httpPc = "idle" /\ recycle \notin {"RepublishPending", "RestartPending"} /\ link = "down" /\ sent' = <<>>
      /\ UNCHANGED <<app, required, era, works, accepting, server, httpd>>
  BY DEF Handshake
<1>3. /\ UNCHANGED <<world, last, shown, recycle, retry, appPc, why, chosen, status, start>>
      /\ UNCHANGED <<httpPc, item, targets, success>>
  BY <1>2 DEF app, httpd
<1> DEFINE kept == [i \in Slots |-> IF slots[i].fd = fd THEN FreeSlot ELSE slots[i]]
           open == {i \in Slots : kept[i].state = "Free"}
           i0 == Least(open)
           admits == accepting /\ ~required /\ open # {} /\ ~starts[i0].busy
           fresh == [state |-> "Connecting", fd |-> fd, gen |-> generations', captured |-> start,
                     missed |-> FALSE, closing |-> FALSE]
           begun == [busy |-> TRUE, gen |-> generations', pos |-> start, era |-> era]
<1>4. \/ /\ admits /\ generations' = generations + 1 /\ slots' = [kept EXCEPT ![i0] = fresh]
         /\ starts' = [starts EXCEPT ![i0] = begun] /\ queue' = Append(queue, StartOf(i0))
         /\ link' = "dialing" /\ sockets' = [sockets EXCEPT ![fd] = "open"]
      \/ /\ slots' \in {kept, slots} /\ generations' \in {generations, generations + 1}
         /\ link' = "cut" /\ UNCHANGED <<starts, queue, sockets>>
  BY <1>1 DEF Admit, StartOf
<1>5. /\ kept \in [Slots -> SlotType]
      /\ \A j \in Slots : /\ kept[j] = slots[j] \/ kept[j].state = "Free"
                          /\ kept[j].state # "Free" => kept[j].fd # fd
  <2>1. FreeSlot \in SlotType /\ FreeSlot.state = "Free"
    BY DEF FreeSlot, SlotType
  <2>2. QED
    BY <2>1 DEF TypeOK
<1>6. admits => i0 \in Slots /\ ~starts[i0].busy /\ ~required
  <2>1. open \in SUBSET Nat
    BY TransportAssumption
  <2>2. open # {} => i0 \in open
    BY <2>1, LeastIn
  <2>3. QED
    BY <2>2
<1>7. \A other \in Fds : sockets[other] # "open"
  BY <1>2 DEF ClientInv, NetInv, OneSocket
<1>8. CASE /\ admits /\ generations' = generations + 1 /\ slots' = [kept EXCEPT ![i0] = fresh]
           /\ starts' = [starts EXCEPT ![i0] = begun] /\ queue' = Append(queue, StartOf(i0))
           /\ link' = "dialing" /\ sockets' = [sockets EXCEPT ![fd] = "open"]
  <2>1. fresh \in SlotType /\ begun \in StartType /\ generations' \in Nat /\ generations' > generations
        /\ fresh.gen = generations'
    <3>1. generations' \in Nat /\ generations' > generations /\ fd \in Nat /\ start \in Nat /\ era \in Nat
      <4>1. generations' = generations + 1 /\ generations \in Nat /\ start \in Nat /\ era \in Nat
        BY <1>8 DEF TypeOK
      <4>2. QED
        BY <4>1, TransportAssumption
    <3>2. QED
      BY <3>1 DEF SlotType, StartType
  <2>2. PICK i \in Slots : i = i0 /\ ~starts[i].busy /\ ~required
    BY <1>6, <1>8
  <2> HIDE DEF kept, i0, fresh, begun, open, admits
  <2>3. /\ slots' \in [Slots -> SlotType] /\ slots'[i] = fresh
        /\ \A j \in Slots : j # i => slots'[j] = kept[j]
    BY <1>5, <1>8, <2>1, <2>2
  <2>4. \A j \in Slots : j # i => /\ slots'[j] = slots[j] \/ slots'[j].state = "Free"
                                  /\ slots'[j].state # "Free" => slots'[j].fd # fd
    BY <1>5, <2>3
  <2>5. ClientInv'
    <3>1. starts' = [starts EXCEPT ![i] = [busy |-> TRUE, gen |-> generations', pos |-> start, era |-> era]]
      BY <1>8, <2>2 DEF begun
    <3>2. slots'[i] = [state |-> "Connecting", fd |-> fd, gen |-> generations', captured |-> start,
                       missed |-> FALSE, closing |-> FALSE]
      BY <2>3 DEF fresh
    <3>3. /\ queue' = Append(queue, StartOf(i)) /\ link' = "dialing" /\ sockets' = [sockets EXCEPT ![fd] = "open"]
          /\ generations' = generations + 1
      BY <1>8, <2>2
    <3>4. UNCHANGED <<last, start, appPc, why, required, era, works, accepting, httpd>>
      BY <1>2, <1>3
    <3>5. QED
      BY <1>2, <2>2, <2>3, <2>4, <3>1, <3>2, <3>3, <3>4, AdmittedInv
  <2>6. TypeOK'
    <3>1. starts' \in [Slots -> StartType] /\ sockets' \in [Fds -> {"free", "open", "gone"}]
      BY <1>8, <2>1, <2>2 DEF TypeOK
    <3>2. StartOf(i) \in ItemType
      BY DEF StartOf, ItemType
    <3>3. queue' \in Seq(ItemType)
      BY <1>8, <2>2, <3>2, Appends DEF TypeOK
    <3>4. QED
      BY <1>2, <1>3, <1>8, <2>1, <2>3, <3>1, <3>3, EmptySeq DEF TypeOK
  <2>7. \A j \in Slots : Outlives(j)
    BY <2>1, <2>2, <2>3, <2>4 DEF Outlives
  <2>8. AppInv'
    BY <1>2, <2>1, <2>3, <2>7, OutsideApp DEF TypeOK
  <2>9. QED
    BY <2>5, <2>6, <2>8
<1>9. CASE /\ slots' \in {kept, slots} /\ generations' \in {generations, generations + 1}
           /\ link' = "cut" /\ UNCHANGED <<starts, queue, sockets>>
  <2>1. /\ slots' \in [Slots -> SlotType]
        /\ \A j \in Slots : slots'[j] = slots[j] \/ slots'[j].state = "Free"
    BY <1>5, <1>9 DEF TypeOK
  <2>2. generations' \in Nat /\ generations <= generations'
    BY <1>9 DEF TypeOK
  <2> HIDE DEF kept, i0, fresh, begun, open, admits
  <2>3. TypeOK'
    BY <1>2, <1>3, <1>9, <2>1, <2>2, EmptySeq DEF TypeOK
  <2>4. Network
    BY <1>2, <1>3, <1>7, <1>9, <2>1, <2>2, StaysShifts DEF Network, TypeOK
  <2>5. AppInv'
    BY <1>2, <2>4, NetworkApp
  <2>6. QED
    BY <2>3, <2>4, <2>5, NetworkInv
<1>10. QED
  BY <1>4, <1>8, <1>9

LEMMA LastIs ==
  /\ sent \in Seq(Nat) /\ sent # <<>> => Last(sent) \in Nat /\ Len(sent) \in Nat /\ Len(sent) # 0
  /\ \A p \in Nat : sent \in Seq(Nat) => /\ Append(sent, p) \in Seq(Nat) /\ Append(sent, p) # <<>>
                                        /\ Len(Append(sent, p)) = Len(sent) + 1 /\ Last(Append(sent, p)) = p
  /\ \A p \in Nat : sent = <<>> => Append(sent, p) = <<p>> /\ Last(<<p>>) = p /\ Len(<<p>>) = 1
<1>1. ASSUME sent \in Seq(Nat), sent # <<>>
      PROVE  Last(sent) \in Nat /\ Len(sent) \in Nat /\ Len(sent) # 0
  BY <1>1, LenProperties, EmptySeq, ElementOfSeq DEF Last
<1>2. ASSUME NEW p \in Nat, sent \in Seq(Nat)
      PROVE  /\ Append(sent, p) \in Seq(Nat) /\ Append(sent, p) # <<>>
             /\ Len(Append(sent, p)) = Len(sent) + 1 /\ Last(Append(sent, p)) = p
  <2>1. /\ Append(sent, p) \in Seq(Nat) /\ Len(Append(sent, p)) = Len(sent) + 1 /\ Len(sent) \in Nat
        /\ Append(sent, p)[Len(sent) + 1] = p
    BY <1>2, AppendProperties, LenProperties
  <2>2. Append(sent, p) # <<>>
    BY <2>1, EmptySeq
  <2>3. QED
    BY <2>1, <2>2 DEF Last
<1>3. \A p \in Nat : sent = <<>> => Append(sent, p) = <<p>> /\ Last(<<p>>) = p /\ Len(<<p>>) = 1
  BY DEF Last
<1>4. QED
  BY <1>1, <1>2, <1>3

\* What the registry and the queue promise is not affected by what is sent.
LEMMA SendMarkerInv ==
  ASSUME IInv, SendMarker
  PROVE  IInv'
<1> USE DEF IInv
<1>1. PICK token \in targets :
        /\ httpPc = "marker" /\ httpPc' = "settle"
        /\ UNCHANGED <<app, required, era, registry, pool, accepting, server, item, targets, sockets>>
        /\ \/ /\ success' = TRUE /\ sockets[token.fd] = "open"
              /\ sent' = Append(sent, starts[item.n].pos) /\ link' = "up"
           \/ success' = TRUE /\ sockets[token.fd] # "open" /\ UNCHANGED <<sent, link>>
           \/ success' = FALSE /\ UNCHANGED <<sent, link>>
  BY DEF SendMarker, Sends, SendFails
<1>2. /\ UNCHANGED <<world, last, shown, recycle, retry, appPc, why, chosen, status, start, required, era>>
      /\ UNCHANGED <<slots, generations, works, starts, queue, accepting, server, item, targets, sockets>>
  BY <1>1 DEF app, registry, pool
<1>3. /\ targets = {token} /\ token.slot = item.n /\ token.gen = starts[item.n].gen
      /\ item = StartOf(item.n) /\ item.n \in Slots /\ item \in ItemType
      /\ token \in TokenType /\ Knows(token)
      /\ sockets[token.fd] = "open" => Current(token) /\ link = "dialing"
      /\ starts[item.n].pos \in Nat
  <2>1. targets = {token} /\ token.slot = item.n /\ token.gen = starts[item.n].gen
        /\ (sockets[token.fd] = "open" => Current(token) /\ link = "dialing")
    BY <1>1 DEF ClientInv, ConnectInv, Marks
  <2>2. item \in ItemType /\ item.kind = "start"
    BY <1>1 DEF ClientInv, QueueInv, Queued, Holding
  <2>3. item = StartOf(item.n) /\ item.n \in Slots
    BY <2>2 DEF ItemType, StartOf
  <2>4. token \in TokenType /\ Knows(token) /\ starts[item.n].pos \in Nat
    BY <2>3 DEF TypeOK, StartType, ClientInv, NetInv, Held
  <2>5. QED
    BY <2>1, <2>2, <2>3, <2>4
<1>4. /\ sockets[token.fd] = "open" => sent = <<>> /\ Append(sent, starts[item.n].pos) = <<starts[item.n].pos>>
      /\ Append(sent, starts[item.n].pos) \in Seq(Nat) /\ Append(sent, starts[item.n].pos) # <<>>
  BY <1>3, LastIs DEF ClientInv, NetInv, OneSocket, TypeOK
<1>5. TypeOK'
  BY <1>1, <1>2, <1>4 DEF TypeOK, HttpPcs
<1>6. AppInv'
  <2>1. recycle \notin {"RepublishPending", "RestartPending"}
    BY <1>1 DEF AppInv, Stopped
  <2>2. (\A i \in Slots : Outlives(i)) /\ generations' \in Nat /\ generations <= generations'
        /\ slots' \in [Slots -> SlotType]
    BY <1>2 DEF Outlives, TypeOK
  <2>3. QED
    BY <1>1, <2>1, <2>2, OutsideApp
<1>7. NetInv'
  <2>1. token.fd \in Fds
    BY <1>3 DEF TokenType
  <2>2. OneSocket'
    BY <1>1, <1>2, <1>3, <1>4, <2>1 DEF ClientInv, NetInv, OneSocket
  <2>3. Held'
    BY <1>2 DEF ClientInv, NetInv, Held, Knows, Current
  <2>4. QED
    BY <2>2, <2>3 DEF NetInv
<1>8. QueueInv'
  <2>1. \A x : Busy(x)' <=> Busy(x)
    BY <1>2 DEF Busy
  <2>2. Queued'
    BY <1>1, <1>2, <1>3, <2>1 DEF ClientInv, QueueInv, Queued, Holding, Busy
  <2>3. Eras'
    BY <1>2 DEF ClientInv, QueueInv, Eras
  <2>4. QED
    BY <2>2, <2>3 DEF QueueInv
<1>9. /\ ~Sending /\ ~Sending' /\ Told' = Told /\ Owed' = Owed
      /\ \A k \in DOMAIN queue : (Note(queue[k])' <=> Note(queue[k])) /\ Pos(queue[k])' = Pos(queue[k])
  BY <1>1, <1>2 DEF Sending, Told, Owed, InTransition, Announcing, Note, Pos
<1>10. Notes'
  BY <1>2, <1>9 DEF ClientInv, Notes
<1>11. Connects'
  <2>1. \A i \in Slots : slots[i].state = "Connecting" /\ Open(i) => link = "dialing"
    BY <1>1 DEF ClientInv, ConnectInv, Connects
  <2>2. ASSUME sockets[token.fd] = "open", NEW i \in Slots, slots[i].state = "Connecting", Open(i)
        PROVE  Taking(i)'
    <3>1. slots[i].fd = token.fd
      BY <1>3, <2>2 DEF ClientInv, NetInv, OneSocket, Held, Open, TokenType
    <3>2. i = token.slot
      BY <1>3, <2>2, <3>1 DEF ClientInv, NetInv, Held, Knows, TokenType, Current
    <3>3. QED
      BY <1>1, <1>2, <1>3, <3>2 DEF Taking, StartOf
  <2>3. QED
    BY <1>1, <1>2, <2>1, <2>2 DEF ClientInv, ConnectInv, Connects, Open
<1>12. Misses'
  <2>1. \A i \in Slots : Taking(i)' <=> Taking(i)
    BY <1>1, <1>2 DEF Taking, StartOf
  <2>2. QED
    BY <1>2, <1>9, <2>1 DEF ClientInv, ConnectInv, Misses, StartOf
<1>13. Marks'
  <2>1. Current(token)' <=> Current(token)
    BY <1>2 DEF Current
  <2>2. QED
    BY <1>1, <1>2, <1>3, <1>4, <2>1 DEF Marks
<1>14. LiveInv'
  <2>1. \A i \in Slots : Live(i)' => Live(i)
    BY <1>2 DEF Live, Open
  <2>2. \A i \in Slots : Live(i) => UNCHANGED <<sent, link>>
    BY <1>1, <1>3 DEF ClientInv, LiveInv
  <2>3. \A i \in Slots : Awaited(i)' = Awaited(i)
    BY <1>2, <1>9 DEF Awaited, Targeted
  <2>4. Serving' => Serving
    BY <1>1, <1>2 DEF Serving
  <2>5. ASSUME NEW i \in Slots, Live(i)'
        PROVE  link' = "up" /\ (Serving' => Follows(i)')
    BY <1>2, <1>9, <2>1, <2>2, <2>3, <2>4, <2>5 DEF ClientInv, LiveInv, Follows
  <2>6. QED
    BY <1>9, <2>5 DEF LiveInv
<1>15. QED
  BY <1>5, <1>6, <1>7, <1>8, <1>10, <1>11, <1>12, <1>13, <1>14 DEF ClientInv, ConnectInv

LEMMA ExtendedNotes ==
  ASSUME Extended, UNCHANGED <<works, era>>
  PROVE  /\ \A k \in DOMAIN queue' : Note(queue[k])' <=> k \in DOMAIN queue /\ Note(queue[k])
         /\ \A k \in DOMAIN queue : /\ queue'[k] = queue[k] /\ k \in DOMAIN queue'
                                    /\ Note(queue[k])' <=> Note(queue[k])
                                    /\ Pos(queue[k])' = Pos(queue[k])
         /\ {Pos(queue[k])' : k \in {m \in DOMAIN queue' : Note(queue[m])'}} =
            {Pos(queue[k]) : k \in {m \in DOMAIN queue : Note(queue[m])}}
<1>1. \A k \in DOMAIN queue' : (k \in DOMAIN queue /\ queue'[k] = queue[k]) \/ queue'[k].kind = "close"
  BY DEF Extended
<1>2. \A k \in DOMAIN queue : queue'[k] = queue[k] /\ k \in DOMAIN queue' /\ Pos(queue[k])' = Pos(queue[k])
  BY DEF Pos, Extended
<1>3. \A k \in DOMAIN queue : Note(queue[k])' <=> Note(queue[k])
  BY <1>2 DEF Note
<1>4. \A k \in DOMAIN queue' : Note(queue[k])' <=> k \in DOMAIN queue /\ Note(queue[k])
  BY <1>1, <1>3 DEF Note
<1>5. QED
  BY <1>2, <1>3, <1>4

\* The client whose marker was sent is live, or it is to be closed.
Settled(i) ==
  \/ /\ slots' = [slots EXCEPT ![i].state = "Live"] /\ slots[i].state = "Connecting" /\ ~slots[i].missed /\ success
  \/ /\ slots'[i].state # "Connecting" /\ (slots'[i].state = "Live" => slots'[i] = slots[i])
     /\ slots'[i].state # "Free" => slots[i].state # "Free" /\ slots'[i].fd = slots[i].fd /\ slots'[i].gen = slots[i].gen
     /\ slots[i].state = "Closing" /\ slots'[i].state # "Free" => slots'[i].state = "Closing"
     /\ slots[i].state # "Free" /\ slots'[i].state = "Free" => ~Open(i)

LEMMA SettledIs ==
  ASSUME IInv, Settle
  PROVE  \E i \in Slots :
           /\ item = StartOf(i) /\ starts[i].busy /\ starts' = [starts EXCEPT ![i] = NoStart]
           /\ \E token \in targets : targets = {token} /\ token.slot = i /\ Knows(token) /\ token \in TokenType
                                     /\ (slots'[i].state = "Live" /\ slots'[i] # slots[i] => Current(token))
           /\ slots' \in [Slots -> SlotType] /\ (\A j \in Slots : j # i => slots'[j] = slots[j])
           /\ Settled(i) /\ Extended
<1> USE DEF IInv
<1>1. PICK token \in targets :
        /\ httpPc = "settle" /\ starts' = [starts EXCEPT ![item.n] = NoStart]
        /\ \/ /\ success /\ Current(token) /\ MarkerHolds(slots[token.slot])
              /\ slots' = [slots EXCEPT ![token.slot].state = "Live"] /\ queue' = queue
           \/ CloseClient(token)
           \/ ~IsWebSocket(token.fd) /\ slots' = Released(token) /\ queue' = queue
  BY DEF Settle
<1>2. /\ targets = {token} /\ token.slot = item.n /\ token.gen = starts[item.n].gen
      /\ item \in ItemType /\ item.kind = "start" /\ Busy(item) /\ token \in TokenType /\ Knows(token)
  BY <1>1 DEF ClientInv, ConnectInv, Marks, QueueInv, Queued, Holding, NetInv, Held, TypeOK
<1>3. PICK i \in Slots : item = StartOf(i) /\ i = item.n
  BY <1>2 DEF ItemType, StartOf
<1>4. starts[i].busy /\ token.slot = i /\ token.gen = starts[i].gen /\ token.fd \in Fds
  BY <1>2, <1>3 DEF Busy, StartOf, TokenType
<1>5. /\ Current(token) <=> slots[i].state # "Free" /\ slots[i].gen = starts[i].gen
      /\ slots[i].state = "Connecting" => Current(token)
      /\ Current(token) => slots[i].fd = token.fd
  BY <1>2, <1>4 DEF Current, Knows, ClientInv, ConnectInv, Connects
<1>6. Extended
  BY <1>1, <1>4, ClosesExtend, NoneExtends DEF CloseClient, TypeOK
<1>7. CASE /\ success /\ Current(token) /\ MarkerHolds(slots[token.slot])
           /\ slots' = [slots EXCEPT ![token.slot].state = "Live"] /\ queue' = queue
  <2>1. slots' \in [Slots -> SlotType] /\ \A j \in Slots : j # i => slots'[j] = slots[j]
    BY <1>4, <1>7 DEF TypeOK, SlotType
  <2>2. Settled(i)
    BY <1>4, <1>7 DEF Settled, MarkerHolds
  <2>3. QED
    BY <1>1, <1>2, <1>3, <1>4, <1>6, <1>7, <2>1, <2>2
<1>8. CASE CloseClient(token)
  <2>1. slots' \in {Closing(token), ClosingRequested(token)}
    BY <1>8 DEF CloseClient
  <2>2. /\ slots' \in [Slots -> SlotType] /\ (~Current(token) => slots' = slots)
        /\ \A j \in Slots : j # i => slots'[j] = slots[j]
        /\ Current(token) => slots'[i].state = "Closing" /\ slots'[i].fd = slots[i].fd /\ slots'[i].gen = slots[i].gen
    BY <1>4, <2>1, GivenUpIs DEF TypeOK
  <2>3. Settled(i) /\ ~(slots'[i].state = "Live" /\ slots'[i] # slots[i])
    BY <1>5, <2>2 DEF Settled
  <2>4. QED
    BY <1>1, <1>2, <1>3, <1>4, <1>6, <2>2, <2>3
<1>9. CASE ~IsWebSocket(token.fd) /\ slots' = Released(token) /\ queue' = queue
  <2>1. /\ slots' \in [Slots -> SlotType] /\ (~Current(token) => slots' = slots)
        /\ \A j \in Slots : j # i => slots'[j] = slots[j]
        /\ Current(token) => slots'[i].state = "Free"
    BY <1>4, <1>9, ReleasedIs DEF TypeOK
  <2>2. Current(token) => ~Open(i)
    BY <1>5, <1>9 DEF Open, IsWebSocket
  <2>3. Settled(i) /\ ~(slots'[i].state = "Live" /\ slots'[i] # slots[i])
    BY <1>5, <2>1, <2>2 DEF Settled
  <2>4. QED
    BY <1>1, <1>2, <1>3, <1>4, <1>6, <2>1, <2>3
<1>10. QED
  BY <1>1, <1>7, <1>8, <1>9

LEMMA SettleInv ==
  ASSUME IInv, Settle
  PROVE  IInv'
<1> USE DEF IInv
<1>1. PICK i \in Slots :
        /\ item = StartOf(i) /\ starts[i].busy /\ starts' = [starts EXCEPT ![i] = NoStart]
        /\ \E token \in targets : targets = {token} /\ token.slot = i /\ Knows(token) /\ token \in TokenType
                                  /\ (slots'[i].state = "Live" /\ slots'[i] # slots[i] => Current(token))
        /\ slots' \in [Slots -> SlotType] /\ (\A j \in Slots : j # i => slots'[j] = slots[j])
        /\ Settled(i) /\ Extended
  BY SettledIs, Zenon
<1>2. /\ httpPc = "settle" /\ httpPc' = "idle" /\ item' = NoItem /\ targets' = {} /\ success' = FALSE
      /\ UNCHANGED <<app, required, era, generations, works, accepting, server, net>>
  BY DEF Settle, Finished
<1>3. /\ UNCHANGED <<world, last, shown, recycle, retry, appPc, why, chosen, status, start>>
      /\ UNCHANGED <<sockets, link, sent>>
  BY <1>2 DEF app, net
<1>4. /\ slots'[i].state # "Connecting"
      /\ slots'[i].state # "Free" => slots[i].state # "Free" /\ slots'[i].fd = slots[i].fd /\ slots'[i].gen = slots[i].gen
      /\ slots[i].state = "Closing" /\ slots'[i].state # "Free" => slots'[i].state = "Closing"
      /\ slots[i].state # "Free" /\ slots'[i].state = "Free" => ~Open(i)
      /\ slots'[i].state = "Live" => \/ slots'[i] = slots[i]
                                     \/ slots[i].state = "Connecting" /\ ~slots[i].missed /\ success
  <2>1. CASE slots' = [slots EXCEPT ![i].state = "Live"] /\ slots[i].state = "Connecting" /\ ~slots[i].missed /\ success
    <3>1. \A r \in SlotType : LET a == [r EXCEPT !.state = "Live"]
                              IN a.state = "Live" /\ a.fd = r.fd /\ a.gen = r.gen
      BY DEF SlotType
    <3>2. slots'[i] = [slots[i] EXCEPT !.state = "Live"] /\ slots[i] \in SlotType
      BY <2>1 DEF TypeOK
    <3>3. slots'[i].state = "Live" /\ slots'[i].fd = slots[i].fd /\ slots'[i].gen = slots[i].gen
      BY <3>1, <3>2
    <3>4. QED
      BY <2>1, <3>3
  <2>2. QED
    BY <1>1, <2>1 DEF Settled
<1>5. \A j \in Slots : slots'[j].state # "Free" =>
        slots[j].state # "Free" /\ slots'[j].fd = slots[j].fd /\ slots'[j].gen = slots[j].gen
  BY <1>1, <1>4
<1>6. starts' \in [Slots -> StartType] /\ ~starts'[i].busy /\ \A j \in Slots : j # i => starts'[j] = starts[j]
  <2>1. NoStart \in StartType /\ ~NoStart.busy
    BY DEF NoStart, StartType
  <2>2. QED
    BY <1>1, <2>1 DEF TypeOK
<1>7. TypeOK'
  BY <1>1, <1>2, <1>3, <1>6 DEF TypeOK, HttpPcs, Extended
<1>8. AppInv'
  <2>1. recycle \notin {"RepublishPending", "RestartPending"}
    BY <1>2 DEF AppInv, Stopped
  <2>2. \A j \in Slots : Outlives(j)
    BY <1>1, <1>4 DEF Outlives
  <2>3. generations' \in Nat /\ generations <= generations'
    BY <1>2 DEF TypeOK
  <2>4. QED
    BY <1>1, <1>2, <2>1, <2>2, <2>3, OutsideApp
<1>9. NetInv'
  <2>1. OneSocket'
    BY <1>3 DEF ClientInv, NetInv, OneSocket
  <2>2. \A fd \in Fds : sockets[fd] = "open" => \E j \in Slots : slots'[j].state # "Free" /\ slots'[j].fd = fd
    <3>1. SUFFICES ASSUME NEW fd \in Fds, sockets[fd] = "open"
                   PROVE  \E j \in Slots : slots'[j].state # "Free" /\ slots'[j].fd = fd
      OBVIOUS
    <3>2. PICK j \in Slots : slots[j].state # "Free" /\ slots[j].fd = fd
      BY <3>1 DEF ClientInv, NetInv, Held
    <3>3. slots'[j].state # "Free"
      BY <1>1, <1>4, <3>1, <3>2 DEF Open
    <3>4. QED
      BY <1>5, <3>2, <3>3
  <2>3. Held'
    BY <1>2, <1>3, <1>5, <2>2 DEF ClientInv, NetInv, Held
  <2>4. QED
    BY <2>1, <2>3 DEF NetInv
<1>10. \A k \in DOMAIN queue' : (k \in DOMAIN queue /\ queue'[k] = queue[k]) \/ queue'[k].kind = "close"
  BY <1>1 DEF Extended
<1>11. QueueInv'
  <2>1. \A x \in ItemType : Busy(x) /\ x # item => Busy(x)'
    <3>1. works' = works /\ \A x \in ItemType : x.kind = "start" => x.n \in Slots /\ x = StartOf(x.n)
      BY <1>2 DEF ItemType, StartOf
    <3>2. QED
      BY <1>1, <1>6, <3>1 DEF Busy, StartOf
  <2>2. \A k \in DOMAIN queue : queue[k] \in ItemType /\ Busy(queue[k]) /\ queue[k] # item
    BY <1>2 DEF ClientInv, QueueInv, Queued, Holding, TypeOK
  <2>3. ASSUME NEW k \in DOMAIN queue'
        PROVE  Busy(queue[k])'
    BY <1>10, <2>1, <2>2 DEF Busy
  <2>4. \A k, m \in DOMAIN queue' : queue'[k].kind # "close" /\ queue'[k] = queue'[m] => k = m
    BY <1>10 DEF ClientInv, QueueInv, Queued
  <2>5. Queued'
    BY <1>2, <2>3, <2>4 DEF Queued, Holding
  <2>6. Eras'
    BY <1>1, <1>2, <1>3, <1>6 DEF ClientInv, QueueInv, Eras
  <2>7. QED
    BY <2>5, <2>6 DEF QueueInv
<1>12. /\ ~Sending /\ ~Sending' /\ Told' = Told /\ Owed' = Owed
  BY <1>2, <1>3 DEF Sending, Told, Owed, InTransition, Announcing
<1>13. Notes'
  BY <1>1, <1>2, <1>3, <1>12, ExtendedNotes DEF ClientInv, Notes
<1>14. \A j \in Slots : slots'[j].state = "Connecting" => j # i /\ slots'[j] = slots[j] /\ starts'[j] = starts[j] /\ ~Taking(j)
  BY <1>1, <1>4, <1>6 DEF Taking, StartOf
<1>15. Connects'
  BY <1>2, <1>3, <1>14 DEF ClientInv, ConnectInv, Connects, Open
<1>16. Misses'
  <2>1. SUFFICES ASSUME NEW j \in Slots, ~required, slots'[j].state = "Connecting", ~slots'[j].missed
                 PROVE  /\ Owed' <= slots'[j].captured
                        /\ \A k \in DOMAIN queue' : Note(queue[k])' =>
                             /\ Pos(queue[k])' <= slots'[j].captured
                             /\ Taking(j)' \/ (\E m \in DOMAIN queue' : m < k /\ queue'[m] = StartOf(j))
                                  => Pos(queue[k])' = slots'[j].captured
    BY <1>2 DEF Misses, StartOf
  <2>2. slots'[j] = slots[j] /\ ~Taking(j)'
    BY <1>2, <1>14, <2>1 DEF Taking
  <2>3. \A k \in DOMAIN queue : (\E m \in DOMAIN queue' : m < k /\ queue'[m] = StartOf(j)) =>
                                  \E m \in DOMAIN queue : m < k /\ queue[m] = StartOf(j)
    BY <1>10 DEF StartOf
  <2>4. QED
    BY <1>1, <1>2, <1>12, <2>1, <2>2, <2>3, ExtendedNotes DEF ClientInv, ConnectInv, Misses
<1>17. Marks'
  BY <1>2 DEF Marks
<1>18. LiveInv'
  <2>1. Serving' => Serving /\ ~required
    BY <1>2 DEF Serving
  <2>2. \A j \in Slots : Awaited(j)' = {Pos(queue[k]) : k \in {m \in DOMAIN queue : Note(queue[m])}}
    BY <1>1, <1>2, <1>12, ExtendedNotes DEF Awaited, Targeted
  <2>3. \A j \in Slots : Awaited(j)' = Awaited(j)
    BY <1>12, <2>2 DEF Awaited, Targeted
  <2>4. ASSUME NEW j \in Slots, Live(j)', slots'[j] = slots[j]
        PROVE  link' = "up" /\ (Serving' => Follows(j)')
    <3>1. Live(j)
      BY <1>3, <2>4 DEF Live, Open
    <3>2. Follows(j)' <=> Follows(j)
      BY <1>3, <1>12, <2>3 DEF Follows
    <3>3. QED
      BY <1>3, <2>1, <3>1, <3>2 DEF ClientInv, LiveInv
  <2>5. ASSUME Live(i)', slots'[i] # slots[i]
        PROVE  link' = "up" /\ (Serving' => Follows(i)')
    <3>1. slots[i].state = "Connecting" /\ ~slots[i].missed /\ success /\ Open(i)
      BY <1>3, <1>4, <1>5, <2>5 DEF Live, Open
    <3>2. PICK token \in targets : Current(token) /\ token.slot = i /\ Knows(token)
      BY <1>1, <2>5 DEF Live
    <3>3. sockets[token.fd] = "open" /\ item.n = i
      BY <1>1, <3>1, <3>2 DEF Knows, Open, StartOf
    <3>4. link = "up" /\ sent = <<starts[i].pos>>
      BY <1>2, <3>1, <3>2, <3>3 DEF ClientInv, ConnectInv, Marks
    <3>5. starts[i].pos = slots[i].captured /\ slots[i].captured \in Nat /\ slots[i].captured <= start
      BY <1>1, <3>1 DEF ClientInv, ConnectInv, Connects, QueueInv, Eras, TypeOK, SlotType
    <3>6. Last(sent) = slots[i].captured /\ Len(sent) = 1 /\ sent' = sent
      BY <1>3, <3>4, <3>5 DEF Last
    <3>7. ASSUME Serving'
          PROVE  Follows(i)'
      <4>1. Owed <= slots[i].captured /\ Owed \in Int
        BY <2>1, <3>1, <3>7, ToldTypes DEF ClientInv, ConnectInv, Misses, TypeOK
      <4>2. \A p \in Awaited(i)' : p = slots[i].captured
        <5>1. Taking(i)
          BY <1>1, <1>2 DEF Taking
        <5>2. \A k \in DOMAIN queue : Note(queue[k]) => Pos(queue[k]) = slots[i].captured
          BY <2>1, <3>1, <3>7, <5>1 DEF ClientInv, ConnectInv, Misses
        <5>3. QED
          BY <2>2, <5>2
      <4>3. \A p \in (slots[i].captured + 1)..Owed : FALSE
        BY <3>5, <4>1
      <4>4. start' = start /\ Owed' = Owed
        BY <1>3, <1>12
      <4>5. Last(sent') = slots[i].captured /\ Len(sent') = 1 /\ ~(1 > 1)
        BY <3>6
      <4>6. Last(sent') <= start' /\ ~(Len(sent') > 1)
        BY <3>5, <4>4, <4>5
      <4>7. \A p \in Awaited(i)' : Len(sent') = 1 /\ p = Last(sent')
        BY <4>2, <4>5
      <4>8. \A p \in (Last(sent') + 1)..Owed' : FALSE
        BY <4>3, <4>4, <4>5
      <4>9. QED
        BY <4>6, <4>7, <4>8 DEF Follows
    <3>8. QED
      BY <1>3, <3>4, <3>7
  <2>6. QED
    BY <1>1, <1>12, <2>4, <2>5 DEF LiveInv
<1>19. QED
  BY <1>7, <1>8, <1>9, <1>11, <1>13, <1>15, <1>16, <1>17, <1>18 DEF ClientInv, ConnectInv

\* A client is told, or it is given up.
FansOut(token) ==
  /\ token \in targets /\ targets' = targets \ {token} /\ token \in TokenType /\ Knows(token)
  /\ httpPc = "fan" /\ ~required /\ Sending /\ item \in ItemType /\ Pos(item) \in Nat
  /\ UNCHANGED <<app, required, era, generations, works, starts, accepting, server, httpPc, item, success, sockets, link>>
  /\ slots' \in [Slots -> SlotType] /\ (\A j \in Slots : j # token.slot => slots'[j] = slots[j]) /\ Extended
  /\ \/ slots'[token.slot] = slots[token.slot]
     \/ /\ Current(token) /\ slots'[token.slot].state = "Closing"
        /\ slots'[token.slot].fd = slots[token.slot].fd /\ slots'[token.slot].gen = slots[token.slot].gen
     \/ Current(token) /\ slots'[token.slot].state = "Free" /\ ~Open(token.slot)
  /\ \/ sent' = Append(sent, Pos(item)) /\ sockets[token.fd] = "open" /\ slots' = slots
     \/ sent' = sent /\ (Current(token) /\ slots'[token.slot] = slots[token.slot] =>
                           sockets[token.fd] # "open" \/ slots[token.slot].state = "Closing")

LEMMA FansOutIs ==
  ASSUME IInv, FanOut
  PROVE  \E token \in targets : FansOut(token)
<1> USE DEF IInv
<1>1. PICK token \in targets :
        /\ targets' = targets \ {token}
        /\ \/ /\ sent' = Append(sent, Pos(item)) /\ sockets[token.fd] = "open" /\ UNCHANGED <<slots, queue>>
           \/ sent' = sent /\ sockets[token.fd] # "open" /\ UNCHANGED <<slots, queue>>
           \/ sent' = sent /\ CloseClient(token)
           \/ sent' = sent /\ ~IsWebSocket(token.fd) /\ slots' = Released(token) /\ queue' = queue
  BY DEF FanOut, Sends, SendFails, Pos
<1>2. /\ httpPc = "fan" /\ ~required /\ works[item.n].era = era
      /\ UNCHANGED <<app, required, era, generations, works, starts, accepting, server, httpPc, item, success, sockets, link>>
  BY DEF FanOut, Accepts
<1>3. /\ token \in TokenType /\ Knows(token) /\ token.slot \in Slots /\ token.fd \in Fds
      /\ Current(token) => slots[token.slot].fd = token.fd
  BY DEF TypeOK, TokenType, ClientInv, NetInv, Held, Knows
<1>4. item \in ItemType /\ item.kind = "note" /\ item.n \in Works
  BY <1>2 DEF ClientInv, QueueInv, Queued, Holding, ItemType
<1>5. Sending /\ Pos(item) \in Nat
  BY <1>2, <1>4 DEF Sending, Note, Pos, TypeOK, WorkType
<1>6. Extended
  BY <1>1, <1>3, ClosesExtend, NoneExtends DEF CloseClient, TypeOK
<1>7. CASE /\ UNCHANGED <<slots, queue>>
           /\ \/ sent' = Append(sent, Pos(item)) /\ sockets[token.fd] = "open"
              \/ sent' = sent /\ sockets[token.fd] # "open"
  <2>1. slots' \in [Slots -> SlotType] /\ \A j \in Slots : slots'[j] = slots[j]
    BY <1>7 DEF TypeOK
  <2>2. FansOut(token)
    BY <1>1, <1>2, <1>3, <1>4, <1>5, <1>6, <1>7, <2>1 DEF FansOut
  <2>3. QED
    BY <2>2
<1>8. CASE sent' = sent /\ CloseClient(token)
  <2>1. slots' \in {Closing(token), ClosingRequested(token)}
    BY <1>8 DEF CloseClient
  <2>2. /\ slots' \in [Slots -> SlotType] /\ (~Current(token) => slots' = slots)
        /\ \A j \in Slots : j # token.slot => slots'[j] = slots[j]
        /\ Current(token) => /\ slots'[token.slot].state = "Closing" /\ slots'[token.slot].fd = slots[token.slot].fd
                             /\ slots'[token.slot].gen = slots[token.slot].gen
    BY <1>3, <2>1, GivenUpIs DEF TypeOK
  <2>3. QED
    BY <1>1, <1>2, <1>3, <1>4, <1>5, <1>6, <1>8, <2>2 DEF FansOut
<1>9. CASE sent' = sent /\ ~IsWebSocket(token.fd) /\ slots' = Released(token) /\ queue' = queue
  <2>1. /\ slots' \in [Slots -> SlotType] /\ (~Current(token) => slots' = slots)
        /\ \A j \in Slots : j # token.slot => slots'[j] = slots[j]
        /\ Current(token) => slots'[token.slot].state = "Free"
    BY <1>3, <1>9, ReleasedIs DEF TypeOK
  <2>2. sockets[token.fd] # "open" /\ (Current(token) => ~Open(token.slot))
    BY <1>3, <1>9 DEF Open, IsWebSocket
  <2>3. QED
    BY <1>1, <1>2, <1>3, <1>4, <1>5, <1>6, <1>9, <2>1, <2>2 DEF FansOut
<1>10. QED
  BY <1>1, <1>7, <1>8, <1>9

LEMMA FanOutInv ==
  ASSUME IInv, FanOut
  PROVE  IInv'
<1> USE DEF IInv
<1>1. PICK token \in targets : FansOut(token)
  BY FansOutIs, Zenon
<1> DEFINE i == token.slot
<1>2. /\ targets' = targets \ {token} /\ token \in TokenType /\ Knows(token) /\ i \in Slots /\ token.fd \in Fds
      /\ httpPc = "fan" /\ ~required /\ Sending /\ item \in ItemType /\ Pos(item) \in Nat
      /\ UNCHANGED <<app, required, era, generations, works, starts, accepting, server, httpPc, item, success, sockets, link>>
      /\ slots' \in [Slots -> SlotType] /\ (\A j \in Slots : j # i => slots'[j] = slots[j]) /\ Extended
      /\ \/ slots'[i] = slots[i]
         \/ Current(token) /\ slots'[i].state = "Closing" /\ slots'[i].fd = slots[i].fd /\ slots'[i].gen = slots[i].gen
         \/ Current(token) /\ slots'[i].state = "Free" /\ ~Open(i)
  BY <1>1 DEF FansOut, TokenType
<1>3. \/ sent' = Append(sent, Pos(item)) /\ sockets[token.fd] = "open" /\ slots' = slots
      \/ sent' = sent /\ (Current(token) /\ slots'[i] = slots[i] =>
                            sockets[token.fd] # "open" \/ slots[i].state = "Closing")
  BY <1>1 DEF FansOut
<1> HIDE DEF i
<1>4. UNCHANGED <<world, last, shown, recycle, retry, appPc, why, chosen, status, start>>
  BY <1>2 DEF app
<1>5. Current(token) => slots[i].state # "Free" /\ slots[i].fd = token.fd
  BY <1>2 DEF Current, Knows, i
<1>6. \A j \in Slots : slots'[j].state # "Free" =>
        slots[j].state # "Free" /\ slots'[j].fd = slots[j].fd /\ slots'[j].gen = slots[j].gen
  BY <1>2, <1>5
<1>7. sent' \in Seq(Nat) /\ (sent' # sent => sent' # <<>> /\ link = "up" /\ Live(i) /\ Current(token))
  <2>1. sockets[token.fd] = "open" => Live(i) /\ Current(token) /\ link = "up"
    BY <1>2 DEF ClientInv, LiveInv, i
  <2>2. sent \in Seq(Nat) /\ Append(sent, Pos(item)) \in Seq(Nat) /\ Append(sent, Pos(item)) # <<>>
    BY <1>2, LastIs DEF TypeOK
  <2>3. QED
    BY <1>3, <2>1, <2>2
<1>8. TypeOK'
  BY <1>2, <1>4, <1>7 DEF TypeOK, Extended
<1>9. AppInv'
  <2>1. recycle \notin {"RepublishPending", "RestartPending"}
    BY <1>2 DEF AppInv, Stopped
  <2>2. \A j \in Slots : Outlives(j)
    BY <1>2, <1>5, <1>6 DEF Outlives
  <2>3. generations' \in Nat /\ generations <= generations'
    BY <1>2 DEF TypeOK
  <2>4. QED
    BY <1>2, <2>1, <2>2, <2>3, OutsideApp
<1>10. NetInv'
  <2>1. OneSocket'
    BY <1>2, <1>7 DEF ClientInv, NetInv, OneSocket
  <2>2. \A fd \in Fds : sockets[fd] = "open" => \E j \in Slots : slots'[j].state # "Free" /\ slots'[j].fd = fd
    <3>1. SUFFICES ASSUME NEW fd \in Fds, sockets[fd] = "open"
                   PROVE  \E j \in Slots : slots'[j].state # "Free" /\ slots'[j].fd = fd
      OBVIOUS
    <3>2. PICK j \in Slots : slots[j].state # "Free" /\ slots[j].fd = fd
      BY <3>1 DEF ClientInv, NetInv, Held
    <3>3. slots'[j].state # "Free"
      BY <1>2, <3>1, <3>2 DEF Open
    <3>4. QED
      BY <1>6, <3>2, <3>3
  <2>3. \A t \in targets' : Knows(t)'
    <3>1. SUFFICES ASSUME NEW t \in targets
                   PROVE  Knows(t)'
      BY <1>2
    <3>2. t.slot \in Slots /\ Knows(t)
      BY DEF TypeOK, TokenType, ClientInv, NetInv, Held
    <3>3. QED
      BY <1>2, <1>6, <3>2 DEF Knows, Current
  <2>4. Held'
    BY <1>2, <1>6, <2>2, <2>3 DEF ClientInv, NetInv, Held
  <2>5. QED
    BY <2>1, <2>4 DEF NetInv
<1>11. \A k \in DOMAIN queue' : (k \in DOMAIN queue /\ queue'[k] = queue[k]) \/ queue'[k].kind = "close"
  BY <1>2 DEF Extended
<1>12. QueueInv'
  <2>1. \A k \in DOMAIN queue' : Busy(queue[k])'
    BY <1>2, <1>11 DEF ClientInv, QueueInv, Queued, Busy
  <2>2. \A k, m \in DOMAIN queue' : queue'[k].kind # "close" /\ queue'[k] = queue'[m] => k = m
    BY <1>11 DEF ClientInv, QueueInv, Queued
  <2>3. item.kind = "note" /\ Busy(item)' /\ \A k \in DOMAIN queue' : queue'[k] # item
    BY <1>2, <1>11 DEF ClientInv, QueueInv, Queued, Busy, Holding
  <2>4. Queued'
    BY <1>2, <2>1, <2>2, <2>3 DEF ClientInv, QueueInv, Queued, Holding
  <2>5. Eras'
    BY <1>2, <1>4 DEF ClientInv, QueueInv, Eras
  <2>6. QED
    BY <2>4, <2>5 DEF QueueInv
<1>13. /\ Sending' /\ Told' = Told /\ Owed' = Owed /\ Pos(item)' = Pos(item)
  BY <1>2, <1>4 DEF Sending, Told, Owed, InTransition, Announcing, Note, Pos
<1>14. Notes'
  BY <1>2, <1>4, <1>13, ExtendedNotes DEF ClientInv, Notes
<1>15. ConnectInv'
  <2>1. \A j \in Slots : slots'[j].state = "Connecting" => slots'[j] = slots[j]
    BY <1>2
  <2>2. Connects'
    BY <1>2, <2>1 DEF ClientInv, ConnectInv, Connects, Open
  <2>3. Misses'
    <3>1. SUFFICES ASSUME NEW j \in Slots, slots'[j].state = "Connecting", ~slots'[j].missed
                   PROVE  /\ Owed' <= slots'[j].captured
                          /\ \A k \in DOMAIN queue' : Note(queue[k])' =>
                               /\ Pos(queue[k])' <= slots'[j].captured
                               /\ Taking(j)' \/ (\E m \in DOMAIN queue' : m < k /\ queue'[m] = StartOf(j))
                                    => Pos(queue[k])' = slots'[j].captured
      BY <1>2 DEF Misses, StartOf
    <3>2. slots'[j] = slots[j] /\ ~Taking(j)'
      BY <1>2, <2>1, <3>1 DEF Taking
    <3>3. \A k \in DOMAIN queue : (\E m \in DOMAIN queue' : m < k /\ queue'[m] = StartOf(j)) =>
                                    \E m \in DOMAIN queue : m < k /\ queue[m] = StartOf(j)
      BY <1>11 DEF StartOf
    <3>4. QED
      BY <1>2, <1>13, <3>1, <3>2, <3>3, ExtendedNotes DEF ClientInv, ConnectInv, Misses
  <2>4. Marks'
    BY <1>2 DEF Marks
  <2>5. QED
    BY <2>2, <2>3, <2>4 DEF ConnectInv
<1>16. LiveInv'
  <2> DEFINE queued == {Pos(queue[k]) : k \in {m \in DOMAIN queue : Note(queue[m])}}
  <2>1. \A j \in Slots : Awaited(j)' = queued \cup (IF Targeted(j)' THEN {Pos(item)} ELSE {})
    BY <1>2, <1>13, ExtendedNotes DEF Awaited
  <2>2. \A j \in Slots : Awaited(j) = queued \cup (IF Targeted(j) THEN {Pos(item)} ELSE {})
    BY DEF Awaited
  <2> HIDE DEF queued
  <2>3. \A t \in targets : t \in targets' => t.slot # i /\ t.slot \in Slots
    BY <1>2 DEF ClientInv, QueueInv, Queued, i, TypeOK, TokenType
  <2>4. ~Targeted(i)'
    BY <1>2, <2>3 DEF Targeted
  <2>5. \A j \in Slots : j # i => (Targeted(j)' <=> Targeted(j))
    BY <1>2, <1>13 DEF Targeted, Current, i
  <2>6. Serving /\ start' = start
    BY <1>2, <1>4 DEF Serving
  <2>7. \A j \in Slots : Live(j)' => Live(j) /\ slots'[j] = slots[j] /\ Follows(j) /\ link = "up" /\ link' = link
    BY <1>2, <1>6, <2>6 DEF Live, Open, ClientInv, LiveInv
  <2>8. ASSUME NEW j \in Slots, Live(j)', sent' = sent
        PROVE  Follows(j)'
    <3>1. CASE j = i
      <4>1. ~(Current(token) /\ sent' # Append(sent, Pos(item)))
        BY <1>2, <1>3, <1>5, <2>7, <2>8, <3>1 DEF Live, Open
      <4>2. sent' # Append(sent, Pos(item))
        <5>1. sent \in Seq(Nat) /\ Len(sent) \in Nat /\ Len(Append(sent, Pos(item))) = Len(sent) + 1
          BY <1>2, LastIs, LenProperties DEF TypeOK
        <5>2. Len(Append(sent, Pos(item))) # Len(sent)
          BY <5>1
        <5>3. QED
          BY <2>8, <5>2
      <4>3. ~Current(token)
        BY <4>1, <4>2
      <4>4. ~Targeted(i)
        BY <4>3, <1>2 DEF Targeted, ClientInv, QueueInv, Queued, i
      <4>5. Awaited(j)' = Awaited(j)
        BY <2>1, <2>2, <2>4, <3>1, <4>4
      <4>6. QED
        BY <1>13, <2>6, <2>7, <2>8, <4>5 DEF Follows
    <3>2. CASE j # i
      <4>1. Awaited(j)' = Awaited(j)
        BY <2>1, <2>2, <2>5, <3>2
      <4>2. QED
        BY <1>13, <2>6, <2>7, <2>8, <4>1 DEF Follows
    <3>3. QED
      BY <3>1, <3>2
  <2>9. ASSUME NEW j \in Slots, Live(j)', sent' # sent
        PROVE  Follows(j)'
    <3>1. sockets[token.fd] = "open" /\ sent' = Append(sent, Pos(item)) /\ Live(i) /\ Current(token)
      BY <1>3, <1>7, <2>9
    <3>2. slots[j].fd = token.fd
      BY <1>2, <1>6, <2>7, <2>9, <3>1 DEF ClientInv, NetInv, OneSocket, Held, Live, Open
    <3>3. j = i
      BY <1>2, <1>5, <2>7, <2>9, <3>1, <3>2 DEF ClientInv, NetInv, Held, Live
    <3>4. Follows(i) /\ Targeted(i)
      BY <1>2, <2>7, <2>9, <3>1, <3>3 DEF Targeted, i
    <3>5. /\ sent # <<>> /\ sent \in Seq(Nat) /\ Last(sent) \in Nat /\ Last(sent') = Pos(item)
          /\ Len(sent') = Len(sent) + 1 /\ Len(sent) \in Nat /\ Len(sent) # 0
      BY <1>2, <2>7, <2>9, <3>1, LastIs DEF ClientInv, NetInv, OneSocket, TypeOK
    <3>6. Pos(item) <= start /\ Pos(item) <= Told /\ \A p \in queued : Pos(item) < p
      BY <1>2 DEF ClientInv, Notes, queued
    <3>7. Awaited(i)' = queued /\ Awaited(i) = queued \cup {Pos(item)}
      BY <1>2, <2>1, <2>2, <2>4, <3>4
    <3>8. Last(sent) <= Pos(item)
      <4>1. Pos(item) > Last(sent) \/ Pos(item) = Last(sent)
        BY <3>4, <3>7 DEF Follows
      <4>2. \A l, p \in Nat : p > l \/ p = l => l <= p
        OBVIOUS
      <4>3. QED
        BY <1>2, <3>5, <4>1, <4>2
    <3>9. Owed \in Int
      BY ToldTypes DEF TypeOK
    <3>10. \A p \in (Last(sent') + 1)..Owed' : p \in Awaited(i)'
      <4>1. SUFFICES ASSUME NEW p \in (Pos(item) + 1)..Owed
                     PROVE  p \in queued
        BY <1>13, <3>5, <3>7
      <4>2. p \in (Last(sent) + 1)..Owed /\ p # Pos(item)
        BY <1>2, <3>5, <3>8, <3>9
      <4>3. QED
        BY <3>4, <3>7, <4>2 DEF Follows
    <3>11. \A p \in Awaited(i)' : p > Last(sent')
      <4>1. \A p \in queued : p > Pos(item)
        <5>1. ASSUME NEW p \in queued
              PROVE  p > Pos(item)
          BY <3>6
        <5>2. QED
          BY <5>1
      <4>2. QED
        BY <3>5, <3>7, <4>1
    <3>12. Last(sent') <= start' /\ Last(sent') <= Told'
      BY <1>13, <2>6, <3>5, <3>6
    <3>13. QED
      BY <3>3, <3>10, <3>11, <3>12 DEF Follows
  <2>10. ASSUME NEW t \in targets', sockets'[t.fd] = "open"
         PROVE  Live(t.slot)' /\ Current(t)'
    <3>1. t \in targets /\ t.slot # i /\ t.slot \in Slots
      BY <1>2, <2>3, <2>10
    <3>2. Live(t.slot) /\ Current(t)
      BY <1>2, <2>10, <3>1 DEF ClientInv, LiveInv
    <3>3. QED
      BY <1>2, <3>1, <3>2 DEF Live, Current, Open
  <2>11. QED
    BY <2>7, <2>8, <2>9, <2>10 DEF LiveInv
<1>17. QED
  BY <1>8, <1>9, <1>10, <1>12, <1>14, <1>15, <1>16 DEF ClientInv

LEMMA FanDoneInv ==
  ASSUME IInv, FanDone
  PROVE  IInv'
<1> USE DEF IInv
<1>1. /\ httpPc = "fan" /\ httpPc' = "idle" /\ item' = NoItem /\ targets' = {} /\ success' = FALSE
      /\ targets = {} \/ ~Accepts(works[item.n].era)
      /\ works' = [works EXCEPT ![item.n] = NoWork]
      /\ UNCHANGED <<app, required, era, registry, starts, queue, accepting, server, net>>
  BY DEF FanDone, Finished
<1>2. /\ UNCHANGED <<world, last, shown, recycle, retry, appPc, why, chosen, status, start>>
      /\ UNCHANGED <<slots, generations, sockets, link, sent>>
  BY <1>1 DEF app, registry, net
<1>3. PICK w \in Works : item = [kind |-> "note", n |-> w] /\ item \in ItemType
  BY <1>1 DEF ClientInv, QueueInv, Queued, Holding, ItemType
<1>4. works' \in [Works -> WorkType] /\ ~works'[w].busy /\ \A v \in Works : v # w => works'[v] = works[v]
  <2>1. NoWork \in WorkType /\ ~NoWork.busy
    BY DEF NoWork, WorkType
  <2>2. works' = [works EXCEPT ![w] = NoWork]
    BY <1>1, <1>3
  <2>3. QED
    BY <2>1, <2>2 DEF TypeOK
<1>5. TypeOK'
  BY <1>1, <1>2, <1>4 DEF TypeOK, HttpPcs
<1>6. AppInv'
  <2>1. recycle \notin {"RepublishPending", "RestartPending"}
    BY <1>1 DEF AppInv, Stopped
  <2>2. (\A i \in Slots : Outlives(i)) /\ generations' \in Nat /\ generations <= generations'
        /\ slots' \in [Slots -> SlotType]
    BY <1>2 DEF Outlives, TypeOK
  <2>3. QED
    BY <1>1, <2>1, <2>2, OutsideApp
<1>7. NetInv'
  BY <1>1, <1>2 DEF ClientInv, NetInv, OneSocket, Held
<1>8. \A k \in DOMAIN queue : queue[k] \in ItemType /\ queue[k] # item /\ Busy(queue[k])
  BY <1>1 DEF TypeOK, ClientInv, QueueInv, Queued, Holding
<1>9. \A k \in DOMAIN queue : queue[k].kind = "note" => works'[queue[k].n] = works[queue[k].n]
  <2>1. \A x \in ItemType : x.kind = "note" => x.n \in Works /\ x = [kind |-> "note", n |-> x.n]
    BY DEF ItemType
  <2>2. QED
    BY <1>3, <1>4, <1>8, <2>1
<1>10. /\ \A k \in DOMAIN queue : (Note(queue[k])' <=> Note(queue[k])) /\ Busy(queue[k])'
       /\ \A k \in DOMAIN queue : Note(queue[k]) => Pos(queue[k])' = Pos(queue[k])
  BY <1>1, <1>8, <1>9 DEF Note, Pos, Busy
<1>11. QueueInv'
  <2>1. Queued'
    BY <1>1, <1>10 DEF ClientInv, QueueInv, Queued, Holding
  <2>2. Eras'
    BY <1>1, <1>2, <1>4 DEF ClientInv, QueueInv, Eras
  <2>3. QED
    BY <2>1, <2>2 DEF QueueInv
<1>12. ~Sending' /\ Told' = Told /\ Owed' = Owed
  BY <1>1, <1>2 DEF Sending, Told, Owed, InTransition, Announcing
<1>13. Notes'
  BY <1>1, <1>2, <1>10, <1>12 DEF ClientInv, Notes
<1>14. ConnectInv'
  <2>1. \A i \in Slots : ~Taking(i) /\ ~Taking(i)'
    BY <1>1 DEF Taking
  <2>2. Connects'
    BY <1>1, <1>2 DEF ClientInv, ConnectInv, Connects, Open
  <2>3. Misses'
    BY <1>1, <1>2, <1>10, <1>12, <2>1 DEF ClientInv, ConnectInv, Misses, StartOf
  <2>4. Marks'
    BY <1>1 DEF Marks
  <2>5. QED
    BY <2>2, <2>3, <2>4 DEF ConnectInv
<1>15. LiveInv'
  <2>1. Serving' => Serving /\ ~required
    BY <1>1 DEF Serving
  <2>2. \A i \in Slots : ~required => ~Targeted(i) /\ ~Targeted(i)'
    BY <1>1, <1>12 DEF Targeted, Sending, Note, Accepts
  <2>3. {Pos(queue[k])' : k \in {m \in DOMAIN queue' : Note(queue[m])'}} =
        {Pos(queue[k]) : k \in {m \in DOMAIN queue : Note(queue[m])}}
    BY <1>1, <1>10
  <2>4. \A i \in Slots : ~required => Awaited(i)' = Awaited(i)
    BY <2>2, <2>3 DEF Awaited
  <2>5. ASSUME NEW i \in Slots, Live(i)'
        PROVE  link' = "up" /\ (Serving' => Follows(i)')
    <3>1. Live(i)
      BY <1>2, <2>5 DEF Live, Open
    <3>2. ~required => (Follows(i)' <=> Follows(i))
      BY <1>2, <1>12, <2>4 DEF Follows
    <3>3. QED
      BY <1>2, <2>1, <3>1, <3>2 DEF ClientInv, LiveInv
  <2>6. QED
    BY <1>12, <2>5 DEF LiveInv
<1>16. QED
  BY <1>5, <1>6, <1>7, <1>11, <1>13, <1>14, <1>15 DEF ClientInv

LEMMA InitInv == Init => IInv
<1> SUFFICES ASSUME Init PROVE IInv
  OBVIOUS
<1> USE DEF Init
<1>1. TypeOK
  <2>1. /\ slots \in [Slots -> SlotType] /\ starts \in [Slots -> StartType] /\ works \in [Works -> WorkType]
        /\ sockets \in [Fds -> {"free", "open", "gone"}] /\ status \in StatusType
    BY DEF FreeSlot, NoStart, NoWork, SlotType, StartType, WorkType, StatusType, BeforeFirst
  <2>2. queue \in Seq(ItemType) /\ sent \in Seq(Nat)
    BY EmptySeq
  <2>3. QED
    BY <2>1, <2>2 DEF TypeOK, Recycles, AppPcs, Whys, HttpPcs, BeforeFirst
<1>2. AppInv
  BY TransportAssumption
     DEF AppInv, Positions, Contents, Reasons, Stopped, Chosen, InTransition, Announcing, Publishing, BeforeFirst
<1>3. /\ \A i \in Slots : slots[i].state = "Free" /\ ~starts[i].busy
      /\ (\A w \in Works : ~works[w].busy) /\ \A fd \in Fds : sockets[fd] = "free"
  BY DEF FreeSlot, NoStart, NoWork
<1>4. DOMAIN queue = {}
  OBVIOUS
<1>5. NetInv
  BY <1>3 DEF NetInv, OneSocket, Held
<1>6. QueueInv
  BY <1>3, <1>4 DEF QueueInv, Queued, Holding, Eras
<1>7. Notes /\ ConnectInv /\ LiveInv
  BY <1>3, <1>4 DEF Notes, Sending, ConnectInv, Connects, Misses, Marks, LiveInv, Live
<1>8. QED
  BY <1>1, <1>2, <1>5, <1>6, <1>7 DEF IInv, ClientInv

LEMMA StepInv == IInv /\ [Next]_vars => IInv'
<1> SUFFICES ASSUME IInv, [Next]_vars PROVE IInv'
  OBVIOUS
<1>1. CASE App
  BY <1>1, RecycleInv, ScanInv, CloseChosenInv, PresentInv, BuildInv, PublishInv, PublishStartInv, SubmitInv,
     RecoverInv, CloseAllInv, TryClearInv, StopInv, RestartInv DEF App
<1>2. CASE TenSeconds
  BY <1>2, TenSecondsInv
<1>3. CASE Handshake
  BY <1>3, HandshakeInv
<1>4. CASE Http
  BY <1>4, RunInv, SendMarkerInv, SettleInv, FanOutInv, FanDoneInv DEF Http
<1>5. CASE Hangup
  BY <1>5, HangupInv
<1>6. CASE \E fd \in Fds : Reap(fd) \/ \E frame \in Frames : ReceiveFrame(fd, frame)
  BY <1>6, ReapInv, ReceiveFrameInv
<1>7. CASE UNCHANGED vars
  <2>1. /\ UNCHANGED <<world, last, shown, recycle, retry, appPc, why, chosen, status, start, required, era>>
        /\ UNCHANGED <<slots, generations, works, starts, queue, accepting, server, httpPc, item, targets, success>>
        /\ UNCHANGED <<sockets, link, sent>>
    BY <1>7 DEF vars, app, registry, pool, httpd, net
  <2>2. TypeOK'
    BY <2>1 DEF IInv, TypeOK
  <2>3. Network
    BY <2>1, StaysShifts DEF IInv, TypeOK, Network
  <2>4. AppInv'
    BY <1>7, <2>1, <2>3, NetworkApp DEF IInv, vars
  <2>5. QED
    BY <2>2, <2>3, <2>4, NetworkInv DEF IInv
<1>8. QED
  BY <1>1, <1>2, <1>3, <1>4, <1>5, <1>6, <1>7 DEF Next

(***************************************************************************)
(* What the device says, and what it has told its client, agree with what   *)
(* waits in its queue, whatever fails and in whatever order its two tasks    *)
(* and the network take their steps (LumaRealtime, EspIdfWebTransport,       *)
(* RealtimeResync.h).                                                      *)
(***************************************************************************)
THEOREM TransportInvariant == Spec => []IInv
<1>1. QED
  BY InitInv, StepInv, PTL DEF Spec

-----------------------------------------------------------------------------
(* What the client sees: each step is one that RealtimeStream allows, or a  *)
(* stuttering one                                                          *)

StreamStep == Stream!Device \/ Stream!Dial \/ Stream!Hangup

\* The positions of a sequence, as the client sees them
LEMMA NumberedIs ==
  ASSUME NEW s \in Seq(Nat), NEW m, m = [k \in DOMAIN s |-> Numbered(s[k])]
  PROVE  /\ Len(m) = Len(s) /\ m \in Seq(Nat \X Nat)
         /\ s # <<>> => /\ Stream!Last(m) = Numbered(Last(s)) /\ m[1] = Numbered(s[1])
                        /\ Last(s) \in Nat /\ s[1] \in Nat /\ Len(s) \in Nat /\ Len(s) # 0
<1>1. Len(s) \in Nat /\ DOMAIN s = 1..Len(s) /\ \A k \in 1..Len(s) : s[k] \in Nat
  BY LenProperties, ElementOfSeq
<1>2. m \in [1..Len(s) -> Nat \X Nat]
  BY <1>1 DEF Numbered
<1>3. m \in Seq(Nat \X Nat)
  BY <1>1, <1>2, SeqDef
<1>4. Len(m) \in Nat /\ DOMAIN m = 1..Len(m)
  BY <1>3, LenProperties
<1>5. DOMAIN m = 1..Len(s)
  BY <1>2
<1>6. Len(m) = Len(s)
  BY <1>1, <1>4, <1>5
<1>7. s # <<>> => Len(s) # 0
  BY EmptySeq
<1>8. QED
  BY <1>1, <1>3, <1>6, <1>7 DEF Last, Stream!Last

LEMMA NumberedAppend ==
  ASSUME NEW s \in Seq(Nat), NEW p \in Nat, NEW m, m = [k \in DOMAIN s |-> Numbered(s[k])]
  PROVE  [k \in DOMAIN Append(s, p) |-> Numbered(Append(s, p)[k])] = Append(m, Numbered(p))
<1> DEFINE n == [k \in DOMAIN Append(s, p) |-> Numbered(Append(s, p)[k])]
<1>1. m \in Seq(Nat \X Nat) /\ Len(m) = Len(s) /\ Numbered(p) \in Nat \X Nat
  BY NumberedIs DEF Numbered
<1>2. /\ Append(m, Numbered(p)) \in Seq(Nat \X Nat) /\ Len(m) \in Nat
      /\ DOMAIN m = 1..Len(m) /\ DOMAIN Append(m, Numbered(p)) = 1..(Len(m) + 1)
      /\ \A k \in 1..Len(m) : Append(m, Numbered(p))[k] = m[k]
      /\ Append(m, Numbered(p))[Len(m) + 1] = Numbered(p)
  BY <1>1, Appends
<1>3. /\ Append(s, p) \in Seq(Nat) /\ DOMAIN s = 1..Len(s) /\ DOMAIN Append(s, p) = 1..(Len(s) + 1)
      /\ \A k \in 1..Len(s) : Append(s, p)[k] = s[k]
      /\ Append(s, p)[Len(s) + 1] = p
  BY Appends
<1>4. DOMAIN n = DOMAIN Append(m, Numbered(p))
  BY <1>1, <1>2, <1>3
<1>5. \A k \in 1..(Len(s) + 1) : n[k] = Append(m, Numbered(p))[k]
  <2>1. SUFFICES ASSUME NEW k \in 1..(Len(s) + 1)
                 PROVE  n[k] = Append(m, Numbered(p))[k]
    OBVIOUS
  <2>2. CASE k \in 1..Len(s)
    BY <1>1, <1>2, <1>3, <2>2
  <2>3. CASE k = Len(s) + 1
    BY <1>1, <1>2, <1>3, <2>3
  <2>4. QED
    BY <1>1, <1>2, <2>2, <2>3
<1>6. Len(n) = Len(Append(m, Numbered(p))) /\ n \in Seq(Nat \X Nat)
  BY <1>1, <1>3, NumberedIs, AppendProperties
<1>7. QED
  BY <1>1, <1>2, <1>3, <1>5, <1>6, SeqEqual

\* The status may be withheld or served at any time.
LEMMA Served ==
  ASSUME UNCHANGED <<status.pos, status.content, link, sent>>
  PROVE  StreamStep
BY DEF StreamStep, Stream!Device, Stream!Serve

LEMMA CutIs ==
  ASSUME link \in {"dialing", "up"}, link' = "cut",
         UNCHANGED <<status, required, accepting, sent>>
  PROVE  StreamStep
BY DEF StreamStep, Stream!Device, Stream!Cut

\* Nobody follows while the stream is repaired.
LEMMA NobodyFollows ==
  ASSUME IInv, AllFree
  PROVE  link # "up"
BY DEF IInv, AllFree, ClientInv, NetInv, OneSocket, Held

\* The position changes with what is published at it, or nobody follows.
LEMMA PublishIs ==
  ASSUME IInv, Publish
  PROVE  StreamStep
<1> USE DEF IInv
<1>1. /\ appPc = "publish" /\ status' = [ok |-> TRUE, pos |-> last, content |-> world]
      /\ UNCHANGED <<link, sent>>
  BY DEF Publish, Pending, net
<1>2. /\ status.pos \in Nat /\ status.content \in Nat /\ last \in Nat /\ world \in Nat /\ start \in Nat
      /\ status.pos <= last /\ last <= status.pos + 1 /\ last <= world /\ world <= MaxChanges
      /\ status.content <= world /\ ~status.ok
  BY <1>1 DEF TypeOK, StatusType, AppInv, Positions, Contents
<1>3. MaxChanges \in Nat
  BY TransportAssumption
<1> DEFINE said == [at |-> Numbered(last), content |-> world]
<1>4. said \in [at : (1..1) \X (0..MaxChanges), content : 0..MaxChanges]
  BY <1>2, <1>3 DEF Numbered
<1>5. CASE last = status.pos + 1
  <2>1. Stream!Serve
    BY <1>1, <1>2, <1>4, <1>5 DEF Stream!Serve, Stream!At, Stream!Status, Stream!Later, Numbered
  <2>2. QED
    BY <2>1 DEF StreamStep, Stream!Device
<1>6. CASE last = status.pos
  <2>1. CASE link # "up"
    <3>1. Stream!Serve
      BY <1>1, <1>2, <1>4, <1>6, <2>1 DEF Stream!Serve, Stream!At, Stream!Status, Numbered
    <3>2. QED
      BY <3>1 DEF StreamStep, Stream!Device
  <2>2. CASE link = "up"
    <3>1. ~AllFree
      BY <2>2, NobodyFollows
    <3>2. why \notin {"none", "recovery", "recycle"}
      BY <1>1, <3>1 DEF AppInv, Reasons, Publishing, Stopped
    <3>3. why # "transition"
      BY <1>1, <1>2, <1>6 DEF AppInv, Positions, InTransition, Announcing
    <3>4. why = "restamp"
      BY <3>2, <3>3 DEF TypeOK, Whys
    <3>5. world = status.content
      BY <1>1, <3>4 DEF AppInv, Contents
    <3>6. QED
      BY <1>1, <1>6, <3>5, Served
  <2>3. QED
    BY <2>1, <2>2
<1>7. QED
  BY <1>2, <1>5, <1>6

LEMMA StopIs ==
  ASSUME IInv, Stop
  PROVE  StreamStep
<1>1. UNCHANGED <<status, required, accepting, sent>>
  BY DEF Stop
<1>2. link' \in {link, "cut"}
  BY DEF Stop
<1>3. link' = link \/ (link \in {"dialing", "up"} /\ link' = "cut")
  BY <1>2 DEF IInv, TypeOK, Stop
<1>4. QED
  BY <1>1, <1>3, Served, CutIs

LEMMA HandshakeIs ==
  ASSUME Handshake
  PROVE  StreamStep
<1>1. link = "down" /\ sent' = <<>> /\ UNCHANGED <<status, required, accepting>>
  BY DEF Handshake, app
<1>2. link' \in {"dialing", "cut"}
  BY DEF Handshake, Admit
<1>3. DOMAIN sent' = {} /\ DOMAIN <<>> = {}
  BY <1>1
<1>4. [k \in DOMAIN sent' |-> Numbered(sent'[k])] = <<>>
  BY <1>3
<1>5. QED
  BY <1>1, <1>2, <1>4 DEF StreamStep, Stream!Dial

LEMMA HangupIs ==
  ASSUME Hangup
  PROVE  StreamStep
<1>1. link # "down" /\ link' = "down" /\ sent' = <<>> /\ UNCHANGED <<status, required, accepting>>
  BY DEF Hangup, app
<1>2. DOMAIN sent' = {} /\ DOMAIN <<>> = {}
  BY <1>1
<1>3. [k \in DOMAIN sent' |-> Numbered(sent'[k])] = <<>>
  BY <1>2
<1>4. QED
  BY <1>1, <1>3 DEF StreamStep, Stream!Hangup

LEMMA RunIs ==
  ASSUME IInv, Run
  PROVE  StreamStep
<1>1. UNCHANGED <<status, required, accepting, sent>>
  BY DEF Run, app
<1>2. \/ link' = link
      \/ link' = "cut" /\ sockets[Head(queue).n] = "open" /\ Head(queue).kind = "close"
  BY DEF Run, RunClose, RunStart, RunNote
<1>3. CASE link' = "cut" /\ sockets[Head(queue).n] = "open" /\ Head(queue).kind = "close"
  <2>1. Head(queue) \in ItemType
    BY Tails DEF Run, IInv, TypeOK
  <2>2. Head(queue).n \in Fds
    BY <1>3, <2>1 DEF ItemType
  <2>3. link \in {"dialing", "up"}
    BY <1>3, <2>2 DEF IInv, ClientInv, NetInv, OneSocket
  <2>4. QED
    BY <1>1, <1>3, <2>3, CutIs
<1>4. QED
  BY <1>1, <1>2, <1>3, Served

LEMMA ReceiveFrameIs ==
  ASSUME IInv, NEW fd \in Fds, NEW frame \in Frames, ReceiveFrame(fd, frame)
  PROVE  StreamStep
<1>1. sockets[fd] = "open" /\ link' = "cut" /\ UNCHANGED <<status, required, accepting, sent>>
  BY DEF ReceiveFrame, app
<1>2. link \in {"dialing", "up"}
  BY <1>1 DEF IInv, ClientInv, NetInv, OneSocket
<1>3. QED
  BY <1>1, <1>2, CutIs

\* The StreamStart is a position that was published.
LEMMA SendMarkerIs ==
  ASSUME IInv, SendMarker
  PROVE  StreamStep
<1> USE DEF IInv
<1>1. PICK token \in targets :
        /\ httpPc = "marker" /\ UNCHANGED <<status, required, accepting>>
        /\ \/ sockets[token.fd] = "open" /\ sent' = Append(sent, starts[item.n].pos) /\ link' = "up"
           \/ UNCHANGED <<sent, link>>
  BY DEF SendMarker, Sends, SendFails, app
<1>2. CASE UNCHANGED <<sent, link>>
  BY <1>1, <1>2, Served
<1>3. CASE sockets[token.fd] = "open" /\ sent' = Append(sent, starts[item.n].pos) /\ link' = "up"
  <2>1. link = "dialing"
    BY <1>1, <1>3 DEF ClientInv, ConnectInv, Marks
  <2>2. item \in ItemType /\ item.kind = "start" /\ Busy(item)
    BY <1>1 DEF ClientInv, QueueInv, Queued, Holding
  <2>3. item.n \in Slots /\ starts[item.n].busy
    BY <2>2 DEF ItemType, Busy
  <2>4. starts[item.n].pos \in Nat /\ starts[item.n].pos <= start
    BY <2>3 DEF TypeOK, StartType, ClientInv, QueueInv, Eras
  <2>5. starts[item.n].pos \in 0..status.pos
    BY <2>4 DEF TypeOK, StatusType, AppInv, Positions
  <2>6. sent = <<>>
    BY <2>1 DEF ClientInv, NetInv, OneSocket
  <2>7. sent' = <<starts[item.n].pos>>
    BY <1>3, <2>4, <2>6, LastIs
  <2>8. [k \in DOMAIN sent' |-> Numbered(sent'[k])] = <<Numbered(starts[item.n].pos)>>
    BY <2>7
  <2>9. Stream!Start
    BY <1>1, <1>3, <2>1, <2>5, <2>8 DEF Stream!Start, Numbered
  <2>10. QED
    BY <2>9 DEF StreamStep, Stream!Device
<1>4. QED
  BY <1>1, <1>2, <1>3

LEMMA NextPosition ==
  \A l, p \in Nat : \A o \in Int :
    p > l /\ p <= o + 1 => p = l + 1 \/ (l + 1 \in (l + 1)..o /\ l + 1 < p)
OBVIOUS

\* A client that is live is told of the position after the last, or of the StreamStart's.
LEMMA FanOutIs ==
  ASSUME IInv, FanOut
  PROVE  StreamStep
<1> USE DEF IInv
<1>1. PICK token \in targets : FansOut(token)
  BY FansOutIs, Zenon
<1> DEFINE i == token.slot
           p == Pos(item)
           m == [k \in DOMAIN sent |-> Numbered(sent[k])]
<1>2. /\ token \in TokenType /\ i \in Slots /\ httpPc = "fan" /\ ~required /\ Sending
      /\ item \in ItemType /\ p \in Nat /\ UNCHANGED <<status, required, accepting, link>>
      /\ \/ sent' = Append(sent, p) /\ sockets[token.fd] = "open"
         \/ sent' = sent
  BY <1>1 DEF FansOut, TokenType, app
<1>3. CASE sent' = sent
  BY <1>2, <1>3, Served
<1>4. CASE sent' = Append(sent, p) /\ sockets[token.fd] = "open"
  <2>1. Live(i) /\ Current(token)
    BY <1>2, <1>4 DEF ClientInv, LiveInv
  <2>2. link = "up" /\ Follows(i)
    BY <1>2, <2>1 DEF ClientInv, LiveInv, Serving
  <2>3. p \in Awaited(i) /\ Targeted(i)
    BY <1>2, <2>1 DEF Awaited, Targeted
  <2>4. /\ sent \in Seq(Nat) /\ sent # <<>> /\ Len(m) = Len(sent) /\ Stream!Last(m) = Numbered(Last(sent))
        /\ m[1] = Numbered(sent[1]) /\ Last(sent) \in Nat /\ sent[1] \in Nat
        /\ [k \in DOMAIN sent' |-> Numbered(sent'[k])] = Append(m, Numbered(p))
    <3>1. sent \in Seq(Nat) /\ sent # <<>>
      BY <2>2 DEF TypeOK, ClientInv, NetInv, OneSocket
    <3>2. QED
      BY <1>2, <1>4, <3>1, NumberedIs, NumberedAppend
  <2>5. p <= start /\ p <= Told /\ p # 0 /\ start <= status.pos
    <3>1. p <= start /\ p <= Told
      BY <1>2 DEF ClientInv, Notes
    <3>2. item.kind = "note" /\ item.n \in Works /\ works[item.n].busy
      BY <1>2 DEF ClientInv, QueueInv, Queued, Holding, Busy, ItemType
    <3>3. p # 0
      BY <3>2 DEF ClientInv, QueueInv, Eras, Pos
    <3>4. QED
      BY <3>1, <3>3 DEF AppInv, Positions
  <2>6. CASE Len(sent) = 1 /\ p = Last(sent)
    <3>1. sent[1] = p
      BY <2>6 DEF Last
    <3>2. m[1] = Numbered(p) /\ m[1][2] > 0
      BY <1>2, <2>4, <2>5, <3>1 DEF Numbered
    <3>3. Stream!FeedAgain
      BY <1>2, <2>2, <2>4, <2>6, <3>2 DEF Stream!FeedAgain
    <3>4. QED
      BY <3>3 DEF StreamStep, Stream!Device
  <2>7. CASE p > Last(sent)
    <3>1. Owed \in Int /\ p <= Owed + 1
      BY <1>2, <2>5 DEF Owed, Told, TypeOK
    <3>2. \A q \in Awaited(i) : p <= q
      <4>1. \A k \in DOMAIN queue : Note(queue[k]) => p < Pos(queue[k])
        BY <1>2 DEF ClientInv, Notes
      <4>2. \A k \in DOMAIN queue : Note(queue[k]) => Pos(queue[k]) \in Nat
        BY ElementOfSeq, LenProperties DEF TypeOK, Note, Pos, ItemType, WorkType
      <4>3. QED
        BY <1>2, <4>1, <4>2 DEF Awaited
    <3>3. p = Last(sent) + 1
      <4>1. CASE Last(sent) + 1 \in (Last(sent) + 1)..Owed /\ Last(sent) + 1 < p
        <5>1. Last(sent) + 1 \in Awaited(i)
          BY <2>2, <4>1 DEF Follows
        <5>2. QED
          BY <1>2, <2>4, <3>2, <4>1, <5>1
      <4>2. QED
        BY <1>2, <2>4, <2>7, <3>1, <4>1, NextPosition
    <3>4. Stream!Later(Stream!Last(m)) = Numbered(p)
      BY <2>4, <3>3 DEF Stream!Later, Numbered
    <3>5. Stream!Last(m) # Numbered(status.pos)
      <4>1. status.pos \in Nat /\ start \in Nat
        BY DEF TypeOK, StatusType
      <4>2. Last(sent) # status.pos
        BY <1>2, <2>4, <2>5, <2>7, <4>1
      <4>3. QED
        BY <2>4, <4>2 DEF Numbered
    <3>6. Stream!FeedNext
      BY <1>2, <2>2, <2>4, <3>4, <3>5 DEF Stream!FeedNext, Stream!Behind
    <3>7. QED
      BY <3>6 DEF StreamStep, Stream!Device
  <2>8. QED
    BY <2>2, <2>3, <2>6, <2>7 DEF Follows
<1>5. QED
  BY <1>2, <1>3, <1>4

LEMMA StreamSteps == IInv /\ [Next]_vars => [StreamStep]_(Stream!stream)
<1> SUFFICES ASSUME IInv, [Next]_vars PROVE [StreamStep]_(Stream!stream)
  OBVIOUS
<1>1. CASE Recycle \/ Scan \/ CloseChosen \/ Build \/ PublishStart \/ Submit \/ Recover \/ CloseAll
           \/ TryClear \/ Restart \/ Present
  <2>1. UNCHANGED <<link, sent>>
    BY <1>1 DEF Recycle, Scan, CloseChosen, Build, PublishStart, Submit, Recover, CloseAll, TryClear,
                Restart, Present, net
  <2>2. status' \in {status, Invalidated}
    BY <1>1 DEF Recycle, Scan, CloseChosen, Build, PublishStart, Submit, Recover, CloseAll, TryClear,
                Restart, Present, InvalidateAndBuild
  <2>3. UNCHANGED <<status.pos, status.content>>
    BY <2>2 DEF Invalidated, IInv, TypeOK, StatusType
  <2>4. QED
    BY <2>1, <2>3, Served
<1>2. CASE Publish \/ Stop \/ Handshake \/ Hangup \/ Run \/ SendMarker \/ FanOut
  BY <1>2, PublishIs, StopIs, HandshakeIs, HangupIs, RunIs, SendMarkerIs, FanOutIs
<1>3. CASE TenSeconds \/ Settle \/ FanDone \/ (\E fd \in Fds : Reap(fd)) \/ UNCHANGED vars
  <2>1. UNCHANGED <<status, link, sent>>
    BY <1>3 DEF TenSeconds, Settle, FanDone, Reap, vars, app, net
  <2>2. QED
    BY <2>1, Served
<1>4. CASE \E fd \in Fds : \E frame \in Frames : ReceiveFrame(fd, frame)
  BY <1>4, ReceiveFrameIs
<1>5. QED
  BY <1>1, <1>2, <1>3, <1>4 DEF Next, App, Http

(***************************************************************************)
(* The safety of StreamSpec: whatever fails, a link carries its StreamStart *)
(* and then every position after it, in order, or is cut; what is served at *)
(* a position changes only with the position, or while nobody follows       *)
(* (RealtimeResync.h, LumaRealtime, EspIdfWebTransport).                    *)
(***************************************************************************)
THEOREM StreamIsKept ==
  Spec => Stream!StreamInit /\ [][Stream!Device \/ Stream!Dial \/ Stream!Hangup]_(Stream!stream)
<1>1. Init => Stream!StreamInit
  <2> SUFFICES ASSUME Init PROVE Stream!StreamInit
    OBVIOUS
  <2>1. sent = <<>> /\ DOMAIN <<>> = {}
    BY DEF Init
  <2>2. [k \in DOMAIN sent |-> Numbered(sent[k])] = <<>>
    BY <2>1
  <2>3. QED
    BY <2>2 DEF Init, Stream!StreamInit, Numbered, BeforeFirst
<1>2. IInv /\ [Next]_vars => [Stream!Device \/ Stream!Dial \/ Stream!Hangup]_(Stream!stream)
  BY StreamSteps DEF StreamStep
<1>3. QED
  BY <1>1, <1>2, TransportInvariant, PTL DEF Spec
=============================================================================
