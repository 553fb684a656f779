-------------------------------- MODULE WebServer --------------------------------
(***************************************************************************)
(* The HTTP server of aquaOne Core: the table of routes that a product      *)
(* composes (NativeWebService, EspIdfWebTransport, HttpRouteRegistry), its   *)
(* start and stop by the application's task, and the exchanges that the     *)
(* HTTP task of ESP-IDF serves meanwhile, one at a time.  The HTTP task      *)
(* exists from httpd_start on, before a handler is installed, and until      *)
(* httpd_stop has waited for its callback to return.                        *)
(*                                                                         *)
(* ESP-IDF's server is external: after a callback that returns ESP_OK it     *)
(* reads what is left of the body and keeps the session, after another it    *)
(* closes the session; a control message comes before the next request.     *)
(* A path stands for a path with its method; a length counts pieces.        *)
(***************************************************************************)
EXTENDS Naturals, FiniteSets

CONSTANTS CorePaths,     \* "/" is one of them
          ProductPaths,
          MaxRoutes,     \* HttpRouteRegistry::MAX_ROUTES
          MaxPages,      \* MAX_PAGE_PROVIDERS
          Capacity,      \* HTTP_NORMAL_BODY_CAPACITY
          MaxLength,     \* bound: Content-Length
          MaxCalls,      \* bound: calls that compose the product's table
          Recycles       \* the product recycles the server (LumaRealtime)
ASSUME WebAssumption ==
  /\ "/" \in CorePaths /\ CorePaths \cap ProductPaths = {}
  /\ {MaxRoutes, MaxPages, Capacity, MaxLength, MaxCalls} \subseteq Nat /\ Recycles \in BOOLEAN

VARIABLES
  \* HttpRouteRegistry; EspIdfWebTransport: registrationFailed_, the realtime path, server_, accepting_
  routes, notFound, frozen, broken, socket, handle, accepting,
  \* NativeWebService: state_, its three flags, rootPage_
  state, closed, failed, registered, root,
  \* the application's task: where it is, why it stops the server, calls made, recyclePhase_
  appPc, why, made, recycle,
  mutex,                  \* the task that holds realtimeMutex_
  \* the HTTP task: it exists, it is told to stop, its handlers, where it is
  alive, told, installed, httpPc,
  \* the exchange: what it is for, bytes not yet read, IdfResponseWriter, the body's events, its session
  target, unread, writer, stream, session

table == <<routes, notFound, frozen, socket>>
service == <<state, closed, failed, registered, root>>
server == <<broken, handle, accepting>>
app == <<appPc, why, made, recycle>>
exchange == <<httpPc, target, unread, writer, stream, session>>
vars == <<table, service, server, app, mutex, alive, told, installed, exchange>>

Page(p) == [kind |-> "page", path |-> p, limit |-> 0]
Action(p) == [kind |-> "action", path |-> p, limit |-> Capacity]
Stream(p) == [kind |-> "stream", path |-> p, limit |-> MaxLength - 1]
Core(p) == [kind |-> "core", path |-> p, limit |-> 0]
Socket(p) == [kind |-> "socket", path |-> p, limit |-> 0]
Nothing == [kind |-> "none", path |-> "", limit |-> 0]     \* no handler has the path
NoSocket == ""

Init ==
  /\ routes = {} /\ notFound = FALSE /\ frozen = FALSE /\ socket = NoSocket
  /\ broken = FALSE /\ handle = FALSE /\ accepting = FALSE
  /\ state = "Stopped" /\ closed = FALSE /\ failed = FALSE /\ registered = FALSE /\ root = FALSE
  /\ appPc = "compose" /\ why = "none" /\ made = 0 /\ recycle = "None"
  /\ mutex = "free"
  /\ alive = FALSE /\ told = FALSE /\ installed = {}
  /\ httpPc = "idle" /\ target = Nothing /\ unread = 0 /\ writer = "none" /\ stream = "none"
  /\ session = "closed"

-----------------------------------------------------------------------------
(* The table of routes                                                      *)

\* HttpRouteRegistry::addRoute and addStreamingRoute; their arguments are valid
Accepts(r) ==
  /\ ~frozen /\ Cardinality(routes) < MaxRoutes
  /\ \A q \in routes : q.path # r.path
\* EspIdfWebTransport::addRoute
TransportAccepts(r) == ~broken /\ ~handle /\ socket # r.path /\ Accepts(r)
Delegated(r) ==
  IF TransportAccepts(r) THEN routes' = routes \cup {r} /\ UNCHANGED failed
                         ELSE failed' = TRUE /\ UNCHANGED routes

Open == ~closed /\ ~failed

AddRoute(p) ==
  /\ Open /\ p \notin CorePaths /\ Delegated(Action(p))
  /\ UNCHANGED <<broken, socket, root>>
AddPage(p) ==
  /\ Open
  /\ \/ /\ p = "/" /\ ~root /\ root' = TRUE /\ UNCHANGED <<routes, failed>>
     \/ /\ p \notin CorePaths /\ Cardinality({r \in routes : r.kind = "page"}) < MaxPages
        /\ Delegated(Page(p)) /\ UNCHANGED root
  /\ UNCHANGED <<broken, socket>>
\* The transport itself takes the streams: a path of the Core's ends every composition.
AddStream(p) ==
  /\ ~broken /\ ~handle /\ ~frozen
  /\ IF p \in CorePaths THEN broken' = TRUE /\ UNCHANGED routes
     ELSE socket # p /\ Accepts(Stream(p)) /\ routes' = routes \cup {Stream(p)} /\ UNCHANGED broken
  /\ UNCHANGED <<failed, socket, root>>
SetSocket(p) ==
  /\ ~broken /\ ~handle /\ ~frozen /\ socket = NoSocket
  /\ \A r \in routes : r.path # p
  /\ socket' = p
  /\ UNCHANGED <<routes, failed, broken, root>>

\* A product composes its table before begin(); a call that comes later is for the guards above.
Compose ==
  /\ appPc \in {"compose", "loop"} /\ made < MaxCalls /\ made' = made + 1
  /\ \E p \in CorePaths \cup ProductPaths :
       AddRoute(p) \/ AddPage(p) \/ AddStream(p) \/ SetSocket(p)
  /\ UNCHANGED <<notFound, frozen, state, closed, registered, handle, accepting, appPc, why, recycle,
                 mutex, alive, told, installed, exchange>>

-----------------------------------------------------------------------------
(* NativeWebService::begin, EspIdfWebTransport::begin and tryStop            *)

GoTo(pc) == appPc' = pc
\* A product begins once; a recycle begins again until the server runs.
Begin ==
  /\ \/ appPc = "compose"
     \/ appPc = "loop" /\ recycle = "RestartPending"
  /\ closed' = TRUE
  /\ IF state = "Running" THEN GoTo("stop") /\ why' = "begin" ELSE GoTo("register") /\ UNCHANGED why
  /\ UNCHANGED <<table, server, state, failed, registered, root, made, recycle, mutex, alive, told,
                 installed, exchange>>

CoreRoutes == {Core(p) : p \in CorePaths}
CoreFits ==
  /\ ~broken /\ ~frozen /\ socket \notin CorePaths
  /\ Cardinality(routes \cup CoreRoutes) <= MaxRoutes
Fails == state' = "Failed" /\ GoTo("loop")
\* registerRoutes(): it cannot take back the routes before the refused one.
Register ==
  /\ appPc = "register"
  /\ \/ registered /\ GoTo("start") /\ UNCHANGED <<routes, notFound, state, failed, registered>>
     \/ /\ ~registered /\ ~failed /\ CoreFits
        /\ routes' = routes \cup CoreRoutes /\ notFound' = TRUE /\ registered' = TRUE /\ GoTo("start")
        /\ UNCHANGED <<state, failed>>
     \/ /\ ~registered /\ (failed \/ ~CoreFits)
        /\ \E some \in SUBSET CoreRoutes :
             /\ some # {} => ~failed /\ ~broken /\ Cardinality(routes \cup some) <= MaxRoutes
             /\ routes' = routes \cup some
        /\ failed' = TRUE /\ Fails /\ UNCHANGED <<notFound, registered>>
  /\ UNCHANGED <<frozen, socket, server, closed, root, why, made, recycle, mutex, alive, told,
                 installed, exchange>>

\* httpd_start: from here on the HTTP task takes requests.
Start ==
  /\ appPc = "start"
  /\ \/ ~broken /\ ~handle /\ handle' = TRUE /\ alive' = TRUE /\ GoTo("install") /\ UNCHANGED why
     \/ GoTo("stop") /\ why' = "failed" /\ UNCHANGED <<handle, alive>>
  /\ UNCHANGED <<table, service, broken, accepting, made, recycle, mutex, told, installed, exchange>>

Wanted == routes \cup (IF socket = NoSocket THEN {} ELSE {Socket(socket)})
\* A handler, and at last the one for unknown paths; a failure is final.
Install ==
  /\ appPc = "install"
  /\ \/ /\ \E r \in Wanted \ installed : installed' = installed \cup {r}
        /\ UNCHANGED <<frozen, broken, accepting, appPc, why>>
     \/ /\ broken' = TRUE /\ frozen' = TRUE /\ GoTo("stop") /\ why' = "failed"
        /\ UNCHANGED <<accepting, installed>>
     \/ /\ installed = Wanted /\ frozen' = TRUE /\ accepting' = TRUE /\ GoTo("started")
        /\ UNCHANGED <<broken, installed, why>>
  /\ UNCHANGED <<routes, notFound, socket, service, handle, made, recycle, mutex, alive, told, exchange>>
Started ==
  /\ appPc = "started" /\ state' = "Running" /\ GoTo("loop") /\ recycle' = "None"
  /\ UNCHANGED <<table, closed, failed, registered, root, server, why, made, mutex, alive, told,
                 installed, exchange>>

\* advanceRecycle: a stop that fails is tried again.
Recycle ==
  /\ Recycles /\ appPc = "loop" /\ recycle # "RestartPending"
  /\ recycle = "StopPending" \/ accepting
  /\ recycle' = "StopPending" /\ GoTo("stop") /\ why' = "recycle"
  /\ UNCHANGED <<table, service, server, made, mutex, alive, told, installed, exchange>>

Stop ==
  /\ appPc = "stop" /\ mutex = "free" /\ mutex' = "app"
  /\ accepting' = FALSE /\ GoTo("unlock")
  /\ UNCHANGED <<table, service, broken, handle, why, made, recycle, alive, told, installed, exchange>>
\* mutant: httpd_stop is called with the mutex held
KeepsMutex == UNCHANGED mutex
ReleasesMutex == mutex' = "free"
\* httpd_stop waits for the task, or cannot reach it.  stop() then gives up the device, tryStop() not.
AskToStop ==
  /\ appPc = "unlock" /\ ReleasesMutex
  /\ \/ ~handle /\ GoTo("stopped") /\ UNCHANGED told
     \/ handle /\ told' = TRUE /\ GoTo("stopping")
     \/ handle /\ GoTo(IF why = "recycle" THEN "loop" ELSE "aborted") /\ UNCHANGED told
  /\ UNCHANGED <<table, service, server, why, made, recycle, alive, installed, exchange>>
TaskGone ==
  /\ appPc = "stopping" /\ ~alive
  /\ handle' = FALSE /\ told' = FALSE /\ GoTo("stopped")
  /\ UNCHANGED <<table, service, broken, accepting, why, made, recycle, mutex, alive, installed, exchange>>
Stopped ==
  /\ appPc = "stopped"
  /\ CASE why = "begin" -> GoTo("register") /\ state' = "Stopped" /\ UNCHANGED recycle
       [] why = "failed" -> Fails /\ UNCHANGED recycle
       [] why = "recycle" -> GoTo("loop") /\ recycle' = "RestartPending" /\ UNCHANGED state
  /\ UNCHANGED <<table, closed, failed, registered, root, server, why, made, mutex, alive, told,
                 installed, exchange>>

StopSteps == Stop \/ AskToStop \/ TaskGone \/ Stopped
App == Compose \/ Begin \/ Register \/ Start \/ Install \/ Started \/ Recycle \/ StopSteps

-----------------------------------------------------------------------------
(* The HTTP task                                                            *)

Serves == appPc # "aborted" /\ UNCHANGED <<table, service, server, app, alive, told, installed>>
\* The callback returns: ESP-IDF closes the session, or keeps it and reads the rest of the body.
Returns(ok) ==
  /\ session' = IF ok THEN "kept" ELSE "closed"
  /\ httpPc' = IF ok /\ unread' > 0 THEN "purge" ELSE "idle"
\* A response sent in one call, and what the callback returns for it
Sends == \E ok \in BOOLEAN : writer' = (IF ok THEN "ended" ELSE "failed") /\ Returns(ok)
Handles(pc) == httpPc' = pc /\ UNCHANGED session

\* mutant: requests are served as soon as the task exists
AsSoonAsAlive(r, length) ==
  stream' = "none" /\ writer' = "none" /\ Handles(IF length > r.limit THEN "drain" ELSE "body")
\* dispatch(): 503 without the body, an oversize one is drained or not read at all.
DispatchNormal(r, length) ==
  /\ stream' = "none"
  /\ \/ ~accepting /\ Sends
     \/ /\ accepting /\ length > r.limit /\ length > Capacity + 1
        /\ Returns(FALSE) /\ writer' = "none"
     \/ /\ accepting /\ writer' = "none"
        /\ \/ length > r.limit /\ length <= Capacity + 1 /\ Handles("drain")
           \/ length <= r.limit /\ Handles("body")
\* streamDispatch() and the start of receiveStream(): 413 with nothing read.
DispatchStream(r, length) ==
  \/ ~accepting /\ Returns(FALSE) /\ writer' = "none" /\ stream' = "none"
  \/ accepting /\ length > r.limit /\ Returns(FALSE) /\ writer' = "ended" /\ stream' = "none"
  \/ accepting /\ length <= r.limit /\ writer' = "none" /\ stream' = "open" /\ Handles("stream")
\* notFound(), or the server's own answer before it is installed
DispatchUnknown(length) ==
  /\ stream' = "none"
  /\ \/ length # 0 /\ writer' = "ended" /\ Returns(FALSE)
     \/ length = 0 /\ Sends
\* ESP-IDF answers an upgrade before the handler runs, and nobody a plain GET.  The length is not read.
DispatchSocket ==
  /\ stream' = "none"
  /\ \/ writer' = "failed" /\ Returns(FALSE)
     \/ writer' \in {"ended", "none"} /\ Handles("handshake")

Dispatch ==
  /\ alive /\ ~told /\ httpPc = "idle"
  /\ \E length \in 0..MaxLength :
       /\ unread' = length
       /\ \/ \E r \in installed :
               /\ target' = r
               /\ CASE r.kind = "stream" -> DispatchStream(r, length)
                    [] r.kind = "socket" -> DispatchSocket
                    [] OTHER -> DispatchNormal(r, length)
          \/ target' = Nothing /\ DispatchUnknown(length)
  /\ UNCHANGED mutex /\ Serves

\* realtimeDispatch() waits for the mutex; RealtimeTransport has what it does with it.
Handshake ==
  /\ httpPc = "handshake" /\ mutex = "free"
  /\ UNCHANGED unread /\ \E ok \in BOOLEAN : (ok => accepting) /\ Returns(ok)
  /\ UNCHANGED <<target, writer, stream, mutex>> /\ Serves

\* httpd_req_recv gives some bytes, or fails: the peer has gone, or is silent for too long.
Receives == \E n \in 1..unread : unread' = unread - n
Drain ==
  /\ httpPc = "drain"
  /\ \/ unread > 0 /\ Receives /\ UNCHANGED <<httpPc, writer, session>>
     \/ unread > 0 /\ UNCHANGED <<unread, writer>> /\ Returns(FALSE)
     \/ unread = 0 /\ UNCHANGED unread /\ Sends
  /\ UNCHANGED <<target, stream, mutex>> /\ Serves

\* An action is left with the application, if its request is good and the bridge has room.
Body ==
  /\ httpPc = "body"
  /\ \/ unread > 0 /\ Receives /\ UNCHANGED <<httpPc, writer, session>>
     \/ unread > 0 /\ UNCHANGED unread /\ writer' = "ended" /\ Returns(FALSE)
     \/ unread = 0 /\ UNCHANGED <<unread, writer>> /\ Handles("answer")
     \/ unread = 0 /\ target.kind = "action" /\ UNCHANGED <<unread, writer>> /\ Handles("wait")
  /\ UNCHANGED <<target, stream, mutex>> /\ Serves

\* The application's loop executes the action; the route waits a second at most.
Executed == httpPc = "wait" /\ appPc = "loop" /\ Handles("answer")
TimedOut == httpPc = "wait" /\ Handles("answer")
Answered ==
  /\ Executed \/ TimedOut
  /\ UNCHANGED <<target, unread, writer, stream, mutex>> /\ Serves

\* The handler of the route: status and type, the pieces, the end.  Each send may fail.
Answer ==
  /\ httpPc = "answer"
  /\ writer' \in CASE writer = "none" -> {"started", "unstarted"}
                   [] writer = "started" -> {"ended", "failed"}
                   [] OTHER -> {writer}
  /\ httpPc' = IF writer' = "started" THEN "answer" ELSE "finish"
  /\ UNCHANGED <<target, unread, stream, session, mutex>> /\ Serves

\* mutant: a response that was cut short is reported as sent
AlwaysSent == Returns(TRUE) /\ UNCHANGED writer
\* IdfResponseWriter::finish; httpd_resp_send_500 for a handler that has not answered
Finished ==
  IF writer \in {"none", "unstarted"} THEN Sends
                                      ELSE Returns(writer = "ended") /\ UNCHANGED writer
Finish ==
  /\ httpPc = "finish" /\ UNCHANGED unread /\ Finished
  /\ UNCHANGED <<target, stream, mutex>> /\ Serves

\* The handler of a body event takes it, or answers and stops: the body is then aborted.
Continues(pc) == Handles(pc) /\ UNCHANGED <<writer, stream>>
StopsStream ==
  /\ stream' = "aborted" /\ writer' \in {"ended", "failed"}
  /\ IF unread' = 0 THEN Handles("finish") ELSE Returns(FALSE)
AbortsStream == stream' = "aborted" /\ UNCHANGED writer /\ Returns(FALSE)
\* receiveStream(): BodyStart, the pieces, BodyEnd
StreamStart ==
  /\ httpPc = "stream" /\ UNCHANGED unread
  /\ Continues("receive") \/ StopsStream
  /\ UNCHANGED <<target, mutex>> /\ Serves
StreamData ==
  /\ httpPc = "receive" /\ unread > 0
  /\ \/ accepting /\ Receives /\ (Continues("receive") \/ StopsStream)
     \/ ~accepting /\ (Receives \/ UNCHANGED unread) /\ AbortsStream
     \/ UNCHANGED unread /\ AbortsStream
  /\ UNCHANGED <<target, mutex>> /\ Serves
StreamEnd ==
  /\ httpPc = "receive" /\ unread = 0 /\ UNCHANGED unread
  /\ \/ /\ accepting /\ stream' = "ended"
        /\ writer' \in {"ended", "failed"} /\ Handles("finish")
     \/ accepting /\ StopsStream
     \/ ~accepting /\ AbortsStream
  /\ UNCHANGED <<target, mutex>> /\ Serves

\* ESP-IDF reads the rest of a body, and closes the session if it cannot.
Purge ==
  /\ httpPc = "purge"
  /\ \/ Receives /\ httpPc' = (IF unread' = 0 THEN "idle" ELSE "purge") /\ UNCHANGED session
     \/ UNCHANGED unread /\ httpPc' = "idle" /\ session' = "closed"
  /\ UNCHANGED <<target, writer, stream, mutex>> /\ Serves
\* The task takes the message of httpd_stop between two requests.
Exit ==
  /\ alive /\ told /\ httpPc = "idle"
  /\ alive' = FALSE /\ installed' = {}
  /\ UNCHANGED <<table, service, server, app, mutex, told, exchange>>

Callback == \/ Handshake \/ Drain \/ Body \/ Answered \/ Answer \/ Finish
            \/ StreamStart \/ StreamData \/ StreamEnd \/ Purge \/ Exit
Next == App \/ Dispatch \/ Callback

\* The scheduler runs both tasks; receives, sends and waits end by their timeouts.
Fairness == WF_vars(Callback) /\ WF_vars(StopSteps)
Spec == Init /\ [][Next]_vars /\ Fairness

-----------------------------------------------------------------------------
(* Properties                                                               *)

\* EspIdfWebTransport::begin, NativeWebService::begin: the server's task runs while its table is being
\* installed, and one failed start may leave parts of it behind.  A handler of the product or of the
\* Core runs only under the whole table, with each route of the Core, and a start that failed leaves no
\* task that still holds the table.
TableServed ==
  /\ httpPc \in {"body", "drain", "wait", "answer", "finish", "stream", "receive"} =>
       installed = Wanted /\ CoreRoutes \subseteq installed /\ notFound
  /\ state = "Failed" /\ appPc = "loop" => ~alive

\* dispatch, streamDispatch, notFound, IdfResponseWriter::finish: however an exchange ends, its session
\* goes on only after a whole response and a body read to its end, so that no byte of it is taken for a
\* request.  While the transport accepts requests, no callback leaves a body to the server's unbounded
\* purge (one left before may still be read), and a stream that was begun has been told its end or its
\* abort.  Realtime requests are excepted, save that their bodies too are read to the end:
\* realtimeDispatch answers a plain GET with nothing and succeeds without looking for a body.
Realtime(r) == r.kind = "socket"
ExchangesClean ==
  [][ /\ session' = "kept" /\ httpPc' \in {"idle", "purge"} => writer' = "ended" \/ Realtime(target')
      /\ session' = "kept" /\ httpPc' = "idle" => unread' = 0
      /\ httpPc # "purge" /\ httpPc' = "purge" => ~accepting \/ Realtime(target)
      /\ httpPc' = "idle" => stream' # "open" ]_vars

\* tryStop: httpd_stop waits for a callback that may itself wait for the application's task, for the
\* mutex or for the peer; none of these waits is for ever, so the loop goes on.
StopReturns == appPc = "stopping" ~> appPc # "stopping"
==============================================================================
