---------------------------- MODULE RealtimeTransport ----------------------------
(***************************************************************************)
(* The device's side of the realtime stream of aquaOne Luma.  The           *)
(* application's task (LumaRealtime, RealtimeCohortPublisher) publishes the *)
(* status and its position, submits notifications, and repairs the stream   *)
(* after a failure.  The HTTP task (EspIdfWebTransport over ESP-IDF's       *)
(* server) takes handshakes and runs the queued work one item at a time.    *)
(* They share the client registry, the recovery state and the work pool; a  *)
(* step is what one task does under the transport's mutex, or without it.   *)
(*                                                                         *)
(* Outside of it: one client, which dials again after each connection, and  *)
(* whose former sockets may still be open on the device.                    *)
(***************************************************************************)
EXTENDS Naturals, Sequences, SequencesExt

CONSTANTS Slots, Works, Fds,   \* places of the registry, the work pool, socket descriptors
          MaxChanges,          \* bound: semantic changes of the status
          MaxDials,            \* bound: clients admitted
          MaxFaults            \* bound: calls that fail
ASSUME TransportAssumption ==
  /\ Slots \subseteq Nat \ {0} /\ Works \subseteq Nat \ {0} /\ Fds \subseteq Nat \ {0}
  /\ MaxChanges \in Nat /\ MaxDials \in Nat /\ MaxFaults \in Nat

VARIABLES
  world,      \* what the status says, last time it was built: the number of changes
  \* LumaRealtime: the sequencer, lastPublished_, recyclePhase_, retryNeeded_, where the loop is,
  \* why it publishes, and the slot it has chosen to close
  last, shown, recycle, retry, appPc, why, chosen,
  \* published: PublishedSnapshot (ok: available_) and streamStartState_
  status, start,
  \* EspIdfWebTransport: recovery, registry, generations, pool and queue of work, server
  required, era, slots, generations, works, starts, queue, accepting, server,
  \* the HTTP task: where it is, its item, the clients still to be served, if the last send worked
  httpPc, item, targets, success,
  \* the sockets (gone: the peer has left) and the client's connection
  sockets, link, sent, faults

app == <<world, last, shown, recycle, retry, appPc, why, chosen, status, start>>
registry == <<slots, generations>>
pool == <<works, starts, queue>>
httpd == <<httpPc, item, targets, success>>
net == <<sockets, link, sent>>
vars == <<app, required, era, registry, pool, accepting, server, httpd, net, faults>>

Least(S) == CHOOSE n \in S : \A m \in S : n <= m
Nobody == [slot |-> 0, gen |-> 0, fd |-> 0, asked |-> FALSE]
\* A free slot keeps its generation, which nothing reads.
FreeSlot == [state |-> "Free", fd |-> 0, gen |-> 0, captured |-> 0,
             missed |-> FALSE, closing |-> FALSE]
NoStart == [busy |-> FALSE, gen |-> 0, pos |-> 0, era |-> 0]
NoWork == [busy |-> FALSE, pos |-> 0, era |-> 0]
NoItem == [kind |-> "none", n |-> 0]
\* RealtimeStreamPosition: the numbers are the sequence, which starts at 1.
BeforeFirst == 0
Fault == faults < MaxFaults /\ faults' = faults + 1

Init ==
  /\ world = 0 /\ last = BeforeFirst /\ shown = 0 /\ recycle = "None" /\ retry = "no"
  /\ appPc = "loop" /\ why = "none" /\ chosen = Nobody
  /\ status = [ok |-> TRUE, pos |-> BeforeFirst, content |-> 0] /\ start = BeforeFirst
  /\ required = FALSE /\ era = 1
  /\ slots = [i \in Slots |-> FreeSlot] /\ generations = 0
  /\ works = [w \in Works |-> NoWork] /\ starts = [i \in Slots |-> NoStart] /\ queue = <<>>
  /\ accepting = TRUE /\ server = TRUE
  /\ httpPc = "idle" /\ item = NoItem /\ targets = {} /\ success = FALSE
  /\ sockets = [fd \in Fds |-> "free"] /\ link = "down" /\ sent = <<>>
  /\ faults = 0

-----------------------------------------------------------------------------
(* RealtimeRecoveryState and RealtimeClientRegistry                         *)

\* RealtimeClientToken, the descriptor read with it, and closeRequested
Token(i) == [slot |-> i, gen |-> slots[i].gen, fd |-> slots[i].fd, asked |-> slots[i].closing]
Current(token) == slots[token.slot].state # "Free" /\ slots[token.slot].gen = token.gen
Closing(token) ==
  IF Current(token) THEN [slots EXCEPT ![token.slot].state = "Closing"] ELSE slots
Released(token) ==
  IF Current(token) THEN [slots EXCEPT ![token.slot] = FreeSlot] ELSE slots
\* markerFailed or sendFailed, then markCloseRequested unless the close could not be queued
ClosingRequested(token) ==
  IF Current(token) THEN [slots EXCEPT ![token.slot].state = "Closing",
                                       ![token.slot].closing = TRUE]
                    ELSE slots
\* mutant: a recovery leaves the clients connected
NoneClosing(s) == s
AllClosing(s) == [i \in Slots |-> IF s[i].state = "Free" THEN s[i]
                                  ELSE [s[i] EXCEPT !.state = "Closing"]]
Noted(pos) == [i \in Slots |-> IF slots[i].state = "Connecting" /\ pos > slots[i].captured
                               THEN [slots[i] EXCEPT !.missed = TRUE] ELSE slots[i]]
Accepts(captured) == ~required /\ captured = era
IsWebSocket(fd) == sockets[fd] # "free"

-----------------------------------------------------------------------------
(* The application's task                                                   *)

GoTo(pc) == appPc' = pc
\* advanceRecycle: a recycle in progress comes first.
Recycle ==
  /\ appPc = "loop"
  /\ \/ /\ recycle = "StopPending" /\ GoTo("stop") /\ UNCHANGED why
        /\ accepting' = FALSE /\ server' = FALSE
     \/ recycle = "RepublishPending" /\ GoTo("build") /\ why' = "recycle" /\ UNCHANGED <<accepting, server>>
     \/ recycle = "RestartPending" /\ GoTo("restart") /\ UNCHANGED <<why, accepting, server>>
  /\ UNCHANGED <<world, last, shown, recycle, retry, chosen, status, start,
                 required, era, registry, pool, httpd, net, faults>>

\* serviceRealtimeRecovery, under the mutex: the first slot that is over or to be closed.
Scan ==
  /\ appPc = "loop" /\ recycle = "None"
  /\ LET s == IF required THEN AllClosing(slots) ELSE slots
         over == {i \in Slots : /\ s[i].state # "Free"
                                /\ s[i].state = "Closing" \/ ~IsWebSocket(s[i].fd)}
     IN IF over = {}
          THEN /\ slots' = s /\ retry' = "no" /\ UNCHANGED chosen
               /\ IF required /\ accepting THEN GoTo("build") /\ why' = "recovery"
                                           ELSE GoTo("present") /\ UNCHANGED why
          ELSE LET i == Least(over)
               IN /\ UNCHANGED why
                  /\ IF IsWebSocket(s[i].fd)
                       THEN slots' = s /\ chosen' = Token(i) /\ GoTo("close") /\ UNCHANGED retry
                       ELSE /\ slots' = [s EXCEPT ![i] = FreeSlot]
                            /\ retry' = "no" /\ GoTo("present") /\ UNCHANGED chosen
  /\ UNCHANGED <<world, last, shown, recycle, status, start, required, era, generations, pool,
                 accepting, server, httpd, net, faults>>

Closes(fd) == queue' = Append(queue, [kind |-> "close", n |-> fd])
\* mutant: the server is not recycled
RetryForever == retry' = (IF retry = "no" THEN "yes" ELSE retry) /\ UNCHANGED <<recycle, slots, queue>>
\* After ten seconds of RetryNeeded the server is recycled.
RetryNeeded ==
  /\ retry' = (IF retry = "no" THEN "yes" ELSE retry)
  /\ recycle' = (IF retry = "long" THEN "StopPending" ELSE recycle)
  /\ UNCHANGED <<slots, queue>>
\* The mutex was released: the socket may have been closed, or be another client's.
CloseChosen ==
  /\ appPc = "close" /\ GoTo("present") /\ chosen' = Nobody
  /\ IF ~IsWebSocket(chosen.fd)
       THEN slots' = Released(chosen) /\ retry' = "no" /\ UNCHANGED <<recycle, queue, faults>>
       ELSE \/ chosen.asked /\ RetryNeeded /\ UNCHANGED faults
            \/ /\ ~chosen.asked
               /\ \/ /\ Closes(chosen.fd) /\ slots' = ClosingRequested(chosen)
                     /\ retry' = "no" /\ UNCHANGED <<recycle, faults>>
                  \/ Fault /\ RetryNeeded
  /\ UNCHANGED <<world, last, shown, why, status, start, required, era, generations, works, starts,
                 accepting, server, httpd, net>>
TenSeconds ==
  /\ retry = "yes" /\ retry' = "long"
  /\ UNCHANGED <<world, last, shown, recycle, appPc, why, chosen, status, start, required, era,
                 registry, pool, accepting, server, httpd, net, faults>>

\* publishAt: invalidate and build; publish; the stream's start; the notification.
Invalidated == [status EXCEPT !.ok = FALSE]
InvalidateAndBuild(now) ==
  /\ world' = now /\ status' = Invalidated
  /\ \/ GoTo("publish") /\ UNCHANGED faults
     \/ Fault /\ GoTo("recover")
\* sameSemanticStatus, compared with the status that was last published coherently
Changed(now) == now # shown
RememberCoherent == shown' = world
\* publishTransition, and republishCurrentCohort at the current position
PublishesTransition(now) == Changed(now) /\ last' = last + 1 /\ why' = "transition"
RepublishesCurrent(now) == ~Changed(now) /\ last' = last /\ why' = "restamp"
Worlds == {world, world + 1} \cap 0..MaxChanges
\* update: a changed status gets the next position, another one is published again.
Present ==
  /\ appPc = "present"
  /\ \/ /\ recycle # "None" \/ required
        /\ GoTo("loop") /\ UNCHANGED <<world, last, why, status, faults>>
     \/ /\ recycle = "None" /\ ~required
        /\ \/ \E now \in Worlds :
                /\ InvalidateAndBuild(now)
                /\ PublishesTransition(now) \/ RepublishesCurrent(now)
           \/ Fault /\ status' = Invalidated /\ GoTo("recover") /\ UNCHANGED <<world, last, why>>
  /\ UNCHANGED <<shown, recycle, retry, chosen, start, required, era, registry, pool,
                 accepting, server, httpd, net>>
Build ==
  /\ appPc = "build" /\ \E now \in Worlds : InvalidateAndBuild(now)
  /\ UNCHANGED <<last, shown, recycle, retry, why, chosen, start, required, era, registry,
                 pool, accepting, server, httpd, net>>
\* What buildResource put into pending_
Pending == [ok |-> TRUE, pos |-> last, content |-> world]
Publish ==
  /\ appPc = "publish" /\ status' = Pending /\ GoTo("start")
  /\ UNCHANGED <<world, last, shown, recycle, retry, why, chosen, start, required, era, registry,
                 pool, accepting, server, httpd, net, faults>>
\* RealtimeStreamStartState
StreamStart == last
\* The end of publishAt, and how its caller goes on
AfterPublication ==
  \/ why = "transition" /\ GoTo("submit") /\ UNCHANGED recycle
  \/ why = "restamp" /\ GoTo("loop") /\ UNCHANGED recycle
  \/ why = "recovery" /\ GoTo("clear") /\ UNCHANGED recycle
  \/ why = "recycle" /\ GoTo("restart") /\ recycle' = "RestartPending"
PublishStart ==
  /\ appPc = "start" /\ start' = StreamStart /\ RememberCoherent /\ AfterPublication
  /\ why' = "none"
  /\ UNCHANGED <<world, last, retry, chosen, status, required, era, registry, pool,
                 accepting, server, httpd, net, faults>>

\* notify: what a notification tells is its position.
Notification(position) == [busy |-> TRUE, pos |-> position, era |-> era]
IdleWork == {w \in Works : ~works[w].busy}
\* publishRealtime.  The pool may be full, and the queue may refuse.
Submit ==
  /\ appPc = "submit"
  /\ LET idle == IdleWork
     IN \/ /\ idle # {} /\ GoTo("loop") /\ slots' = Noted(last)
           /\ works' = [works EXCEPT ![Least(idle)] = Notification(last)]
           /\ queue' = Append(queue, [kind |-> "note", n |-> Least(idle)])
           /\ UNCHANGED faults
        \/ idle = {} /\ GoTo("recover") /\ UNCHANGED <<slots, works, queue, faults>>
        \/ Fault /\ GoTo("recover") /\ UNCHANGED <<slots, works, queue>>
  /\ UNCHANGED <<world, last, shown, recycle, retry, why, chosen, status, start, required, era,
                 generations, starts, accepting, server, httpd, net>>

\* requestRealtimeRecovery: the flag without the mutex, then the registry with it.
Recover ==
  /\ appPc = "recover" /\ GoTo("closeAll") /\ why' = "none"
  /\ required' = TRUE /\ era' = IF required THEN era ELSE era + 1
  /\ UNCHANGED <<world, last, shown, recycle, retry, chosen, status, start, registry, pool,
                 accepting, server, httpd, net, faults>>
CloseAll ==
  /\ appPc = "closeAll" /\ GoTo("loop") /\ slots' = AllClosing(slots)
  /\ UNCHANGED <<world, last, shown, recycle, retry, why, chosen, status, start, required, era,
                 generations, pool, accepting, server, httpd, net, faults>>
Clears == accepting /\ start = last /\ \A i \in Slots : slots[i].state = "Free"
TryClear ==
  /\ appPc = "clear" /\ GoTo("present")
  /\ required' = ~Clears
  /\ UNCHANGED <<world, last, shown, recycle, retry, why, chosen, status, start, era, registry,
                 pool, accepting, server, httpd, net, faults>>

\* tryStop waits for the HTTP task; when it fails the handle is kept.
Stop ==
  /\ appPc = "stop"
  /\ \/ /\ httpPc = "idle" /\ GoTo("build") /\ why' = "recycle" /\ recycle' = "RepublishPending"
        /\ slots' = [i \in Slots |-> FreeSlot] /\ queue' = <<>>
        /\ works' = [w \in Works |-> NoWork] /\ starts' = [i \in Slots |-> NoStart]
        /\ sockets' = [fd \in Fds |-> "free"]
        /\ link' = IF link = "down" THEN "down" ELSE "cut"
        /\ UNCHANGED <<server, faults>>
     \/ /\ Fault /\ server' = TRUE /\ GoTo("loop")
        /\ UNCHANGED <<why, recycle, slots, queue, works, starts, sockets, link>>
  /\ UNCHANGED <<world, last, shown, retry, chosen, status, start, required, era, generations,
                 accepting, httpd, sent>>
Restart ==
  /\ appPc = "restart"
  /\ \/ accepting' = TRUE /\ server' = TRUE /\ recycle' = "None" /\ retry' = "no" /\ UNCHANGED faults
     \/ Fault /\ UNCHANGED <<accepting, server, recycle, retry>>
  /\ GoTo(IF recycle' = "None" THEN "present" ELSE "loop")
  /\ UNCHANGED <<world, last, shown, why, chosen, status, start, required, era, registry, pool,
                 httpd, net>>

App == Recycle \/ Scan \/ CloseChosen \/ Present \/ Build \/ Publish \/ PublishStart \/ Submit
       \/ Recover \/ CloseAll \/ TryClear \/ Stop \/ Restart

-----------------------------------------------------------------------------
(* The HTTP task                                                            *)

\* The client connects: realtimeDispatch, GET.  A new handshake on a descriptor drops its former slot.
Admit(fd) ==
  LET kept == [i \in Slots |-> IF slots[i].fd = fd THEN FreeSlot ELSE slots[i]]
      open == {i \in Slots : kept[i].state = "Free"}
      i == Least(open)
      admits == accepting /\ ~required /\ open # {} /\ ~starts[i].busy
  IN \/ /\ admits
        /\ generations' = generations + 1
        /\ slots' = [kept EXCEPT ![i] = [state |-> "Connecting", fd |-> fd, gen |-> generations',
                                         captured |-> start, missed |-> FALSE, closing |-> FALSE]]
        /\ starts' = [starts EXCEPT ![i] = [busy |-> TRUE, gen |-> generations', pos |-> start, era |-> era]]
        /\ queue' = Append(queue, [kind |-> "start", n |-> i])
        /\ link' = "dialing" /\ sockets' = [sockets EXCEPT ![fd] = "open"]
        /\ UNCHANGED faults
     \/ /\ ~admits
        /\ slots' = (IF accepting /\ ~required THEN kept ELSE slots)
        /\ link' = "cut" /\ UNCHANGED <<generations, starts, queue, sockets, faults>>
     \/ /\ admits /\ Fault                            \* the marker cannot be queued
        /\ slots' = kept /\ generations' = generations + 1
        /\ link' = "cut" /\ UNCHANGED <<starts, queue, sockets>>
\* lwIP gives a connection the lowest free descriptor.
Handshake ==
  /\ httpPc = "idle" /\ recycle \notin {"RepublishPending", "RestartPending"}
  /\ link = "down" /\ generations < MaxDials /\ sent' = <<>>
  /\ \E fd \in Fds : /\ sockets[fd] = "free" /\ \A lower \in Fds : lower < fd => sockets[lower] # "free"
                   /\ Admit(fd)
  /\ UNCHANGED <<app, required, era, works, accepting, server, httpd>>

Finished == httpPc' = "idle" /\ item' = NoItem /\ targets' = {} /\ success' = FALSE
\* httpd_sess_close, which may also never come.
RunClose(fd) ==
  /\ \/ /\ sockets' = [sockets EXCEPT ![fd] = "free"]
        /\ link' = (IF sockets[fd] = "open" THEN "cut" ELSE link) /\ UNCHANGED faults
     \/ Fault /\ UNCHANGED <<sockets, link>>
  /\ Finished /\ UNCHANGED <<slots, starts>>
\* streamStartWork, before the marker is sent
RunStart(i) ==
  LET w == starts[i]
      token == [slot |-> i, gen |-> w.gen, fd |-> slots[i].fd, asked |-> FALSE]
  IN /\ IF /\ accepting /\ server /\ Accepts(w.era) /\ Current(token)
           /\ slots[i].state = "Connecting" /\ ~slots[i].missed
          THEN /\ httpPc' = "marker" /\ item' = Head(queue) /\ targets' = {token}
               /\ UNCHANGED <<slots, starts, success>>
          ELSE slots' = Closing(token) /\ starts' = [starts EXCEPT ![i] = NoStart] /\ Finished
     /\ UNCHANGED <<sockets, link, faults>>
\* realtimeWork: the live clients, unless a recovery came in between
RunNote(w) ==
  /\ httpPc' = "fan" /\ item' = Head(queue)
  /\ targets' = IF accepting /\ server /\ Accepts(works[w].era)
                  THEN {Token(i) : i \in {j \in Slots : slots[j].state = "Live"}} ELSE {}
  /\ UNCHANGED <<slots, starts, success, sockets, link, faults>>
Run ==
  /\ httpPc = "idle" /\ queue # <<>> /\ queue' = Tail(queue)
  /\ LET n == Head(queue).n
     IN \/ Head(queue).kind = "close" /\ RunClose(n)
        \/ Head(queue).kind = "start" /\ RunStart(n)
        \/ Head(queue).kind = "note" /\ RunNote(n)
  /\ UNCHANGED <<app, required, era, generations, works, accepting, server, sent>>

\* httpd_ws_send_frame_async: a socket whose peer has left may take a frame.
Sends(fd, frame) ==
  /\ sockets[fd] = "open" => sent' = Append(sent, frame)
  /\ sockets[fd] # "open" => sent' = sent
  /\ UNCHANGED faults
SendFails(fd) == /\ UNCHANGED sent
                 /\ IF sockets[fd] = "open" THEN Fault ELSE UNCHANGED faults
\* A client that cannot be served is closed; the request to close may be refused.
CloseClient(token) ==
  \/ Closes(token.fd) /\ slots' = ClosingRequested(token)
  \/ faults < MaxFaults /\ slots' = Closing(token) /\ UNCHANGED queue

SendMarker ==
  \E token \in targets :
     /\ httpPc = "marker" /\ httpPc' = "settle"
     /\ \/ /\ IsWebSocket(token.fd) /\ Sends(token.fd, starts[item.n].pos) /\ success' = TRUE
           /\ link' = (IF sockets[token.fd] = "open" THEN "up" ELSE link)
        \/ SendFails(token.fd) /\ success' = FALSE /\ UNCHANGED link
     /\ UNCHANGED <<app, required, era, registry, pool, accepting, server, item, targets,
                    sockets>>
MarkerHolds(s) == s.state = "Connecting" /\ ~s.missed
Settle ==
  \E token \in targets :
     /\ httpPc = "settle" /\ Finished
     /\ starts' = [starts EXCEPT ![item.n] = NoStart]
     /\ IF /\ success /\ Accepts(starts[item.n].era)
           /\ Current(token) /\ MarkerHolds(slots[token.slot])
          THEN slots' = [slots EXCEPT ![token.slot].state = "Live"] /\ UNCHANGED queue
          ELSE IF IsWebSocket(token.fd) THEN CloseClient(token)
               ELSE slots' = Released(token) /\ UNCHANGED queue
     /\ UNCHANGED <<app, required, era, generations, works, accepting, server, net, faults>>

\* The clients are served in the order of their places.
FanOut ==
  /\ httpPc = "fan" /\ Accepts(works[item.n].era)
  /\ \E token \in targets :
       /\ \A other \in targets : token.slot <= other.slot
       /\ \/ /\ IsWebSocket(token.fd) /\ Sends(token.fd, works[item.n].pos)
             /\ UNCHANGED <<slots, queue>>
          \/ IsWebSocket(token.fd) /\ SendFails(token.fd) /\ CloseClient(token)
          \/ ~IsWebSocket(token.fd) /\ slots' = Released(token) /\ UNCHANGED <<queue, sent, faults>>
       /\ targets' = targets \ {token}
  /\ UNCHANGED <<app, required, era, generations, works, starts, accepting, server, httpPc, item,
                 success, sockets, link>>
FanDone ==
  /\ httpPc = "fan"
  /\ targets = {} \/ ~Accepts(works[item.n].era)
  /\ Finished /\ works' = [works EXCEPT ![item.n] = NoWork]
  /\ UNCHANGED <<app, required, era, registry, starts, queue, accepting, server, net, faults>>

Http == Run \/ SendMarker \/ Settle \/ FanOut \/ FanDone

-----------------------------------------------------------------------------
(* The client and the network                                               *)

\* The client closes its connection, or gives it up after the network has failed.
Hangup ==
  /\ link # "down" /\ link' = "down" /\ sent' = <<>>
  /\ sockets' = [fd \in Fds |-> IF sockets[fd] = "open" THEN "gone" ELSE sockets[fd]]
  /\ UNCHANGED <<app, required, era, registry, pool, accepting, server, httpd, faults>>
\* realtimeDispatch of what the client sends: a control frame that is answered changes nothing,
\* and the session of any other is over, as is that of a Close.
Frames == {"ping", "pong", "close", "malformed", "text"}
Handled(frame) == frame \in {"ping", "pong"}
ReceiveFrame(fd, frame) ==
  /\ httpPc = "idle" /\ sockets[fd] = "open" /\ ~Handled(frame)
  /\ sockets' = [sockets EXCEPT ![fd] = "free"] /\ link' = "cut"
  /\ UNCHANGED <<app, required, era, registry, pool, accepting, server, httpd, sent, faults>>
\* The HTTP task finds that the peer has left.
Reap(fd) ==
  /\ httpPc = "idle" /\ sockets[fd] = "gone" /\ sockets' = [sockets EXCEPT ![fd] = "free"]
  /\ UNCHANGED <<app, required, era, registry, pool, accepting, server, httpd, link, sent, faults>>

Next == \/ App \/ TenSeconds \/ Handshake \/ Http \/ Hangup
        \/ \E fd \in Fds : Reap(fd) \/ \E frame \in Frames : ReceiveFrame(fd, frame)
Fairness == WF_vars(App) /\ WF_vars(Http) /\ WF_vars(TenSeconds)
Spec == Init /\ [][Next]_vars /\ Fairness

-----------------------------------------------------------------------------

(***************************************************************************)
(* A client that is to be closed leaves its place: serviceRealtimeRecovery  *)
(* closes it, or the server is recycled, until the place is free or taken   *)
(* by another client (RealtimeClientRegistry, LumaRealtime::advanceRecycle).*)
(***************************************************************************)
PlacesReturn == \A i \in Slots : []<>(slots[i].state # "Closing")

(***************************************************************************)
(* The transport keeps what RealtimeStream promises, whatever fails: a link *)
(* carries every position after its StreamStart or is cut, the status       *)
(* changes with its position, and it becomes available again (LumaRealtime, *)
(* RealtimeResync.h, EspIdfWebTransport).                                   *)
(***************************************************************************)
Numbered(p) == <<1, p>>
Stream == INSTANCE RealtimeStream WITH
  MaxContent <- MaxChanges, MaxPosition <- MaxChanges, MaxRuntimes <- 1,
  status <- [at |-> Numbered(status.pos), content |-> status.content],
  available <- status.ok /\ ~required /\ accepting,
  sent <- [k \in DOMAIN sent |-> Numbered(sent[k])]
StreamSpec == Stream!StreamSpec
=============================================================================
