--------------------------- MODULE WebServerProofs ---------------------------
(***************************************************************************)
(* The table and the exchanges of the HTTP server, for every set of paths,  *)
(* every limit and any number of calls.  The table rests on which step may   *)
(* move it: once requests are accepted it is frozen, and before the server   *)
(* is started again its task has gone.  An exchange is a matter of the HTTP  *)
(* task alone, but that only a transport that does not accept requests may   *)
(* leave a body to the server.                                               *)
(***************************************************************************)
EXTENDS WebServer, TLAPS

Handling == {"body", "drain", "wait", "answer", "finish", "stream", "receive"}
Stopping == {"stop", "unlock", "stopping", "stopped"}

\* What is frozen is registered, and what is registered holds the routes of the Core.
FrozenInv ==
  /\ frozen => registered
  /\ registered => CoreRoutes \subseteq routes /\ notFound
  /\ appPc \in {"start", "install"} => registered

\* Who has the server's task, and when it may exist.
TaskInv ==
  /\ ~handle => ~accepting /\ ~alive
  /\ appPc \in {"compose", "register", "start", "install", "unlock", "stopping", "stopped"} => ~accepting
  /\ appPc \in {"compose", "register", "start", "stopped"} => ~alive
  /\ told => appPc = "stopping"
  /\ appPc = "install" => handle
  /\ appPc \in Stopping => why \in {"begin", "failed", "recycle"}

\* A start that failed has left no task, and a stop for a recycle brings none back.
FailedInv ==
  /\ appPc = "loop" => state \in {"Running", "Failed"}
  /\ appPc \in Stopping /\ why = "recycle" => state \in {"Running", "Failed"}
  /\ state = "Failed" /\ (appPc = "loop" \/ (appPc \in Stopping /\ why = "recycle"))
       => ~alive /\ ~accepting

\* Requests are accepted, and handlers run, under the whole table, which is frozen.
ServedInv ==
  /\ accepting => frozen /\ installed = Wanted
  /\ httpPc \in Handling => frozen /\ installed = Wanted /\ alive /\ appPc # "install"

TableInv == FrozenInv /\ TaskInv /\ FailedInv /\ ServedInv

LEMMA TableInit == Init => TableInv
BY DEF Init, TableInv, FrozenInv, TaskInv, FailedInv, ServedInv, Handling, Stopping

LEMMA TableEnough == TableInv => TableServed
BY DEF TableInv, FrozenInv, TaskInv, FailedInv, ServedInv, TableServed, Handling, Wanted

\* A step of the HTTP task begins to handle a request only if it accepts requests.
LEMMA DispatchHandles ==
  ASSUME Dispatch
  PROVE  Serves /\ alive /\ (httpPc' \in Handling => accepting)
<1>1. PICK length \in 0..MaxLength :
        \/ \E r \in installed :
             CASE r.kind = "stream" -> DispatchStream(r, length)
               [] r.kind = "socket" -> DispatchSocket
               [] OTHER -> DispatchNormal(r, length)
        \/ DispatchUnknown(length)
  BY DEF Dispatch
<1>2. ASSUME NEW r, DispatchStream(r, length)
      PROVE  httpPc' \in Handling => accepting
  BY <1>2 DEF DispatchStream, Returns, Handles, Handling
<1>3. ASSUME NEW r, DispatchNormal(r, length)
      PROVE  httpPc' \in Handling => accepting
  BY <1>3 DEF DispatchNormal, Sends, Returns, Handles, Handling
<1>4. DispatchSocket \/ DispatchUnknown(length) => httpPc' \notin Handling
  BY DEF DispatchSocket, DispatchUnknown, Sends, Returns, Handles, Handling
<1> QED
  BY <1>1, <1>2, <1>3, <1>4 DEF Dispatch

\* The steps of a callback but for the end of the task.
Goes == \/ Handshake \/ Drain \/ Body \/ Answered \/ Answer \/ Finish
        \/ StreamStart \/ StreamData \/ StreamEnd \/ Purge

LEMMA CallbackHandles ==
  ASSUME Goes
  PROVE  Serves /\ (httpPc' \in Handling => httpPc \in Handling)
<1>1. CASE Handshake
  BY <1>1 DEF Handshake, Returns, Handling
<1>2. CASE Purge
  BY <1>2 DEF Purge, Handling
<1>3. CASE Drain \/ Body \/ Answered \/ Answer \/ Finish
  BY <1>3 DEF Drain, Body, Answered, Executed, TimedOut, Answer, Finish, Handling
<1>4. CASE StreamStart \/ StreamData \/ StreamEnd
  BY <1>4 DEF StreamStart, StreamData, StreamEnd, Handling
<1> QED
  BY <1>1, <1>2, <1>3, <1>4 DEF Goes

LEMMA ServesKeepsTable ==
  ASSUME TableInv, Serves, httpPc' \in Handling => httpPc \in Handling \/ (accepting /\ alive)
  PROVE  TableInv'
<1>1. UNCHANGED <<routes, notFound, frozen, socket, state, registered, handle, accepting, appPc, why,
                  alive, told, installed>>
  BY DEF Serves, table, service, server, app
<1>2. UNCHANGED Wanted
  BY <1>1 DEF Wanted
<1>3. FrozenInv' /\ TaskInv' /\ FailedInv'
  BY <1>1 DEF TableInv, FrozenInv, TaskInv, FailedInv, Stopping
<1>4. ServedInv'
  BY <1>1, <1>2 DEF TableInv, TaskInv, ServedInv
<1> QED
  BY <1>3, <1>4 DEF TableInv

\* The table is frozen: nothing composes it any more.
LEMMA ComposeFrozen ==
  ASSUME Compose
  PROVE  /\ frozen => UNCHANGED <<routes, socket>>
         /\ routes \subseteq routes'
         /\ UNCHANGED <<notFound, frozen, state, registered, handle, accepting, appPc, why, alive, told,
                        installed, exchange>>
<1>1. PICK p \in CorePaths \cup ProductPaths :
        AddRoute(p) \/ AddPage(p) \/ AddStream(p) \/ SetSocket(p)
  BY DEF Compose
<1>2. CASE AddRoute(p)
  BY <1>2 DEF Compose, AddRoute, Delegated, TransportAccepts, Accepts
<1>3. CASE AddPage(p)
  BY <1>3 DEF Compose, AddPage, Delegated, TransportAccepts, Accepts
<1>4. CASE AddStream(p) \/ SetSocket(p)
  BY <1>4 DEF Compose, AddStream, SetSocket
<1> QED
  BY <1>1, <1>2, <1>3, <1>4

LEMMA ComposeKeepsTable ==
  ASSUME TableInv, Compose
  PROVE  TableInv'
<1>1. /\ frozen => UNCHANGED <<routes, socket>>
      /\ routes \subseteq routes'
      /\ UNCHANGED <<notFound, frozen, state, registered, handle, accepting, appPc, why, alive, told,
                     installed, httpPc>>
  BY ComposeFrozen DEF exchange
<1>2. frozen => UNCHANGED Wanted
  BY <1>1 DEF Wanted
<1>3. FrozenInv' /\ TaskInv' /\ FailedInv'
  BY <1>1 DEF TableInv, FrozenInv, TaskInv, FailedInv, Stopping
<1>4. ServedInv'
  BY <1>1, <1>2 DEF TableInv, ServedInv
<1> QED
  BY <1>3, <1>4 DEF TableInv

LEMMA StartKeepsTable ==
  ASSUME TableInv, Begin \/ Register \/ Start \/ Started
  PROVE  TableInv'
<1>1. CASE Begin
  <2>1. UNCHANGED <<routes, notFound, frozen, socket, state, registered, handle, accepting, alive, told,
                    installed, httpPc>>
    BY <1>1 DEF Begin, table, server, exchange
  <2>2. appPc \in {"compose", "loop"} /\ IF state = "Running" THEN appPc' = "stop" /\ why' = "begin"
                                         ELSE appPc' = "register" /\ why' = why
    BY <1>1 DEF Begin, GoTo
  <2>3. FrozenInv' /\ TaskInv' /\ FailedInv'
    BY <2>1, <2>2 DEF TableInv, FrozenInv, TaskInv, FailedInv, Stopping
  <2>4. ServedInv'
    BY <2>1, <2>2 DEF TableInv, ServedInv, Wanted
  <2> QED
    BY <2>3, <2>4 DEF TableInv
<1>2. CASE Register
  <2>1. UNCHANGED <<frozen, socket, handle, accepting, why, alive, told, installed, httpPc>>
    BY <1>2 DEF Register, server, exchange
  <2>2. appPc = "register" /\ routes \subseteq routes' /\ (registered => UNCHANGED routes)
        /\ \/ registered' /\ appPc' = "start" /\ UNCHANGED state
              /\ (~registered => CoreRoutes \subseteq routes' /\ notFound')
              /\ (registered => UNCHANGED notFound)
           \/ ~registered' /\ ~registered /\ appPc' = "loop" /\ state' = "Failed"
    <3>1. CASE registered
      BY <1>2, <3>1 DEF Register, GoTo
    <3>2. CASE ~registered /\ routes' = routes \cup CoreRoutes /\ notFound' = TRUE /\ registered' = TRUE
               /\ appPc' = "start" /\ state' = state
      BY <1>2, <3>2 DEF Register
    <3>3. CASE ~registered /\ (\E some \in SUBSET CoreRoutes : routes' = routes \cup some)
               /\ registered' = registered /\ appPc' = "loop" /\ state' = "Failed"
      BY <1>2, <3>3 DEF Register
    <3> QED
      BY <1>2, <3>1, <3>2, <3>3 DEF Register, GoTo, Fails
  <2>3. ~accepting /\ ~alive /\ ~told
    BY <2>2 DEF TableInv, TaskInv
  <2>4. FrozenInv'
    BY <2>1, <2>2 DEF TableInv, FrozenInv
  <2>5. TaskInv' /\ FailedInv'
    BY <2>1, <2>2, <2>3 DEF TableInv, TaskInv, FailedInv, Stopping
  <2>6. ServedInv'
    BY <2>1, <2>3 DEF TableInv, ServedInv
  <2> QED
    BY <2>4, <2>5, <2>6 DEF TableInv
<1>3. CASE Start
  <2>1. UNCHANGED <<routes, notFound, frozen, socket, state, registered, accepting, told, installed,
                    httpPc>>
    BY <1>3 DEF Start, table, service, exchange
  <2>2. appPc = "start"
        /\ \/ handle' /\ alive' /\ appPc' = "install" /\ why' = why
           \/ appPc' = "stop" /\ why' = "failed" /\ UNCHANGED <<handle, alive>>
    BY <1>3 DEF Start, GoTo
  <2>3. ~accepting /\ ~alive /\ ~told /\ registered
    BY <2>2 DEF TableInv, TaskInv, FrozenInv
  <2>4. FrozenInv' /\ TaskInv' /\ FailedInv'
    BY <2>1, <2>2, <2>3 DEF TableInv, FrozenInv, TaskInv, FailedInv, Stopping
  <2>5. ServedInv'
    BY <2>1, <2>3 DEF TableInv, ServedInv
  <2> QED
    BY <2>4, <2>5 DEF TableInv
<1>4. CASE Started
  <2>1. UNCHANGED <<routes, notFound, frozen, socket, registered, handle, accepting, why, alive, told,
                    installed, httpPc>> /\ appPc = "started" /\ appPc' = "loop" /\ state' = "Running"
    BY <1>4 DEF Started, GoTo, table, server, exchange
  <2>2. FrozenInv' /\ TaskInv' /\ FailedInv'
    BY <2>1 DEF TableInv, FrozenInv, TaskInv, FailedInv, Stopping
  <2>3. ServedInv'
    BY <2>1 DEF TableInv, ServedInv, Wanted
  <2> QED
    BY <2>2, <2>3 DEF TableInv
<1> QED
  BY <1>1, <1>2, <1>3, <1>4

LEMMA InstallKeepsTable ==
  ASSUME TableInv, Install
  PROVE  TableInv'
<1>1. UNCHANGED <<routes, notFound, socket, state, registered, handle, alive, told, httpPc>>
      /\ appPc = "install"
  BY DEF Install, service, exchange
<1>2. ~accepting /\ ~told /\ registered /\ httpPc \notin Handling /\ UNCHANGED Wanted
  BY <1>1 DEF TableInv, TaskInv, FrozenInv, ServedInv, Wanted
<1>3. CASE \E r \in Wanted \ installed : installed' = installed \cup {r}
           /\ UNCHANGED <<frozen, broken, accepting, appPc, why>>
  <2>1. FrozenInv' /\ TaskInv' /\ FailedInv'
    BY <1>1, <1>3 DEF TableInv, FrozenInv, TaskInv, FailedInv, Stopping
  <2>2. ServedInv'
    BY <1>1, <1>2, <1>3 DEF ServedInv
  <2> QED
    BY <2>1, <2>2 DEF TableInv
<1>4. CASE frozen' = TRUE /\ appPc' = "stop" /\ why' = "failed" /\ UNCHANGED <<accepting, installed>>
  <2>1. FrozenInv' /\ TaskInv' /\ FailedInv'
    BY <1>1, <1>2, <1>4 DEF TableInv, FrozenInv, TaskInv, FailedInv, Stopping
  <2>2. ServedInv'
    BY <1>1, <1>2, <1>4 DEF ServedInv
  <2> QED
    BY <2>1, <2>2 DEF TableInv
<1>5. CASE installed = Wanted /\ frozen' = TRUE /\ accepting' = TRUE /\ appPc' = "started"
           /\ UNCHANGED <<installed, why>>
  <2>1. handle
    BY <1>1 DEF TableInv, TaskInv
  <2>2. FrozenInv' /\ TaskInv' /\ FailedInv'
    BY <1>1, <1>2, <1>5, <2>1 DEF TableInv, FrozenInv, TaskInv, FailedInv, Stopping
  <2>3. ServedInv'
    BY <1>1, <1>2, <1>5 DEF ServedInv
  <2> QED
    BY <2>2, <2>3 DEF TableInv
<1> QED
  BY <1>3, <1>4, <1>5 DEF Install, GoTo

\* The end of a stop, for each of its reasons.
LEMMA StoppedEnds ==
  ASSUME TableInv, Stopped
  PROVE  /\ ~accepting /\ ~alive /\ ~told
         /\ UNCHANGED <<routes, notFound, frozen, socket, registered, handle, accepting, alive, told,
                        installed, httpPc, why>>
         /\ \/ appPc' = "register"
            \/ appPc' = "loop" /\ state' = "Failed"
            \/ appPc' = "loop" /\ state' = state /\ state \in {"Running", "Failed"}
<1>1. ~accepting /\ ~alive /\ ~told /\ why \in {"begin", "failed", "recycle"}
  BY DEF TableInv, TaskInv, Stopped, Stopping
<1>2. UNCHANGED <<routes, notFound, frozen, socket, registered, handle, accepting, alive, told,
                  installed, httpPc, why>>
  BY DEF Stopped, table, server, exchange
<1>3. CASE why = "begin"
  BY <1>1, <1>2, <1>3 DEF Stopped, GoTo
<1>4. CASE why = "failed"
  BY <1>1, <1>2, <1>4 DEF Stopped, Fails, GoTo
<1>5. CASE why = "recycle"
  <2>1. state \in {"Running", "Failed"}
    BY <1>5 DEF TableInv, FailedInv, Stopped, Stopping
  <2> QED
    BY <1>1, <1>2, <1>5, <2>1 DEF Stopped, GoTo
<1> QED
  BY <1>1, <1>3, <1>4, <1>5

LEMMA StopKeepsTable ==
  ASSUME TableInv, Recycle \/ StopSteps
  PROVE  TableInv'
<1>1. CASE Stopped
  <2>1. FrozenInv' /\ TaskInv' /\ FailedInv'
    BY <1>1, StoppedEnds DEF TableInv, FrozenInv, TaskInv, FailedInv, Stopping
  <2>2. ServedInv'
    BY <1>1, StoppedEnds DEF TableInv, ServedInv, Wanted
  <2> QED
    BY <2>1, <2>2 DEF TableInv
<1>2. CASE Recycle \/ Stop \/ AskToStop \/ TaskGone
  <2>1. UNCHANGED <<routes, notFound, frozen, socket, state, registered, alive, installed, httpPc>>
        /\ UNCHANGED Wanted
    BY <1>2 DEF Recycle, Stop, AskToStop, TaskGone, table, service, exchange, Wanted
  <2>2. appPc' \in Stopping \cup {"loop", "aborted"}
    BY <1>2 DEF Recycle, Stop, AskToStop, TaskGone, GoTo, Stopping
  <2>3. accepting' => accepting
    BY <1>2 DEF Recycle, Stop, AskToStop, TaskGone, server
  <2>4. FrozenInv' /\ ServedInv'
    BY <2>1, <2>2, <2>3 DEF TableInv, FrozenInv, ServedInv, Stopping
  <2>5. TaskInv'
    <3>1. CASE Recycle \/ Stop
      BY <2>1, <3>1 DEF TableInv, TaskInv, Recycle, Stop, GoTo, server, Stopping
    <3>2. CASE AskToStop
      BY <2>1, <3>2 DEF TableInv, TaskInv, AskToStop, GoTo, server, Stopping
    <3>3. CASE TaskGone
      BY <2>1, <3>3 DEF TableInv, TaskInv, TaskGone, GoTo, server, Stopping
    <3> QED
      BY <1>2, <3>1, <3>2, <3>3
  <2>6. FailedInv'
    <3>1. CASE Recycle
      BY <2>1, <3>1 DEF TableInv, FailedInv, Recycle, GoTo, Stopping, server
    <3>2. CASE Stop \/ TaskGone
      BY <2>1, <2>3, <3>2 DEF TableInv, FailedInv, Stop, TaskGone, GoTo, Stopping, server
    <3>3. CASE AskToStop
      BY <2>1, <2>3, <3>3 DEF TableInv, FailedInv, AskToStop, GoTo, Stopping, server
    <3> QED
      BY <1>2, <3>1, <3>2, <3>3
  <2> QED
    BY <2>4, <2>5, <2>6 DEF TableInv
<1> QED
  BY <1>1, <1>2 DEF StopSteps

LEMMA ExitKeepsTable ==
  ASSUME TableInv, Exit
  PROVE  TableInv'
<1>1. UNCHANGED <<routes, notFound, frozen, socket, state, registered, handle, accepting, appPc, why,
                  told, httpPc>> /\ told /\ httpPc = "idle" /\ alive' = FALSE
  BY DEF Exit, table, service, server, app, exchange
<1>2. ~accepting
  BY <1>1 DEF TableInv, TaskInv
<1>3. FrozenInv' /\ TaskInv' /\ FailedInv'
  BY <1>1 DEF TableInv, FrozenInv, TaskInv, FailedInv, Stopping
<1>4. ServedInv'
  BY <1>1, <1>2 DEF ServedInv, Handling
<1> QED
  BY <1>3, <1>4 DEF TableInv

LEMMA TableNext ==
  ASSUME TableInv, [Next]_vars
  PROVE  TableInv'
<1>1. CASE UNCHANGED vars
  BY <1>1 DEF vars, table, service, server, app, exchange, TableInv, FrozenInv, TaskInv, FailedInv,
              ServedInv, Wanted
<1>2. CASE App
  BY <1>2, ComposeKeepsTable, StartKeepsTable, InstallKeepsTable, StopKeepsTable DEF App
<1>3. CASE Dispatch
  BY <1>3, DispatchHandles, ServesKeepsTable
<1>4. CASE Goes
  BY <1>4, CallbackHandles, ServesKeepsTable
<1>5. CASE Exit
  BY <1>5, ExitKeepsTable
<1> QED
  BY <1>1, <1>2, <1>3, <1>4, <1>5 DEF Next, Callback, Goes

\* However its start and its restarts fail, the server answers no request from a part of its
\* table, and a start that failed leaves no task behind (EspIdfWebTransport, NativeWebService).
THEOREM TableAlwaysServed == Spec => []TableServed
<1>1. Init => TableInv
  BY TableInit
<1>2. TableInv /\ [Next]_vars => TableInv'
  BY TableNext
<1>3. TableInv => TableServed
  BY TableEnough
<1> QED
  BY <1>1, <1>2, <1>3, PTL DEF Spec

-----------------------------------------------------------------------------
(* Exchanges                                                                *)

\* What a handler has answered was read to its end, and a stream is open only while it is received.
ExchangeInv ==
  /\ unread \in Nat
  /\ httpPc \in {"wait", "answer", "finish"} => unread = 0
  /\ httpPc = "handshake" => Realtime(target)
  /\ session = "kept" /\ httpPc \in {"idle", "purge"} => writer = "ended" \/ Realtime(target)
  /\ session = "kept" /\ httpPc = "idle" => unread = 0
  /\ stream = "open" => httpPc \in {"stream", "receive"}

Clean ==
  /\ session' = "kept" /\ httpPc' \in {"idle", "purge"} => writer' = "ended" \/ Realtime(target')
  /\ session' = "kept" /\ httpPc' = "idle" => unread' = 0
  /\ httpPc # "purge" /\ httpPc' = "purge" => ~accepting \/ Realtime(target)
  /\ httpPc' = "idle" => stream' # "open"

LEMMA Received ==
  ASSUME unread \in Nat, Receives
  PROVE  unread' \in Nat
<1>1. PICK n \in 1..unread : unread' = unread - n
  BY DEF Receives
<1> QED
  BY <1>1

LEMMA KeptExchange ==
  ASSUME ExchangeInv, UNCHANGED exchange
  PROVE  ExchangeInv' /\ Clean
BY DEF ExchangeInv, Clean, exchange

LEMMA DispatchClean ==
  ASSUME ExchangeInv, Dispatch
  PROVE  ExchangeInv' /\ Clean
<1>1. PICK length \in 0..MaxLength :
        /\ unread' = length
        /\ \/ \E r \in installed :
                /\ target' = r
                /\ CASE r.kind = "stream" -> DispatchStream(r, length)
                     [] r.kind = "socket" -> DispatchSocket
                     [] OTHER -> DispatchNormal(r, length)
           \/ DispatchUnknown(length)
  BY DEF Dispatch
<1>2. httpPc = "idle" /\ unread' \in Nat
  BY <1>1, WebAssumption DEF Dispatch
<1>3. ASSUME NEW r, DispatchStream(r, length)
      PROVE  ExchangeInv' /\ Clean
  BY <1>1, <1>2, <1>3 DEF DispatchStream, Returns, Handles, ExchangeInv, Clean
<1>4. ASSUME NEW r, DispatchNormal(r, length)
      PROVE  ExchangeInv' /\ Clean
  <2>1. CASE ~accepting /\ Sends
    BY <1>1, <1>2, <1>4, <2>1 DEF DispatchNormal, Sends, Returns, ExchangeInv, Clean
  <2>2. CASE Returns(FALSE) /\ writer' = "none"
    BY <1>1, <1>2, <1>4, <2>2 DEF DispatchNormal, Returns, ExchangeInv, Clean
  <2>3. CASE Handles("drain") \/ Handles("body")
    BY <1>1, <1>2, <1>4, <2>3 DEF DispatchNormal, Handles, ExchangeInv, Clean
  <2> QED
    BY <1>4, <2>1, <2>2, <2>3 DEF DispatchNormal
<1>5. CASE DispatchSocket /\ Realtime(target')
  BY <1>1, <1>2, <1>5 DEF DispatchSocket, Handles, Returns, ExchangeInv, Clean
<1>6. CASE DispatchUnknown(length)
  BY <1>1, <1>2, <1>6 DEF DispatchUnknown, Sends, Returns, ExchangeInv, Clean
<1> QED
  BY <1>1, <1>3, <1>4, <1>5, <1>6 DEF Realtime

LEMMA ReceiveClean ==
  ASSUME ExchangeInv, Handshake \/ Drain \/ Body \/ Purge
  PROVE  ExchangeInv' /\ Clean
<1>1. CASE Handshake
  BY <1>1 DEF Handshake, Returns, ExchangeInv, Clean
<1>2. ASSUME httpPc \in {"drain", "body"}, Receives,
             UNCHANGED <<httpPc, writer, session, stream, target>>
      PROVE  ExchangeInv' /\ Clean
  BY <1>2, Received DEF ExchangeInv, Clean
<1>3. CASE Drain
  <2>1. CASE Receives /\ UNCHANGED <<httpPc, writer, session>>
    BY <1>2, <1>3, <2>1 DEF Drain
  <2>2. CASE UNCHANGED unread /\ Returns(FALSE)
    BY <1>3, <2>2 DEF Drain, Returns, ExchangeInv, Clean
  <2>3. CASE unread = 0 /\ UNCHANGED unread /\ Sends
    BY <1>3, <2>3 DEF Drain, Sends, Returns, ExchangeInv, Clean
  <2> QED
    BY <1>3, <2>1, <2>2, <2>3 DEF Drain
<1>4. CASE Body
  <2>1. CASE Receives /\ UNCHANGED <<httpPc, writer, session>>
    BY <1>2, <1>4, <2>1 DEF Body
  <2>2. CASE UNCHANGED unread /\ Returns(FALSE)
    BY <1>4, <2>2 DEF Body, Returns, ExchangeInv, Clean
  <2>3. CASE unread = 0 /\ UNCHANGED unread /\ (Handles("answer") \/ Handles("wait"))
    BY <1>4, <2>3 DEF Body, Handles, ExchangeInv, Clean
  <2> QED
    BY <1>4, <2>1, <2>2, <2>3 DEF Body
<1>5. CASE Purge
  <2>1. CASE Receives /\ httpPc' = (IF unread' = 0 THEN "idle" ELSE "purge") /\ UNCHANGED session
    <3>1. unread' \in Nat
      BY <2>1, Received DEF ExchangeInv
    <3> QED
      BY <1>5, <2>1, <3>1 DEF Purge, ExchangeInv, Clean
  <2>2. CASE UNCHANGED unread /\ httpPc' = "idle" /\ session' = "closed"
    BY <1>5, <2>2 DEF Purge, ExchangeInv, Clean
  <2> QED
    BY <1>5, <2>1, <2>2 DEF Purge
<1> QED
  BY <1>1, <1>3, <1>4, <1>5

LEMMA AnswerClean ==
  ASSUME ExchangeInv, Answered \/ Answer \/ Finish
  PROVE  ExchangeInv' /\ Clean
<1>1. CASE Answered
  BY <1>1 DEF Answered, Executed, TimedOut, Handles, ExchangeInv, Clean
<1>2. CASE Answer
  <2>1. httpPc = "answer" /\ httpPc' \in {"answer", "finish"}
        /\ UNCHANGED <<unread, stream, session, target>>
    BY <1>2 DEF Answer
  <2> QED
    BY <2>1 DEF ExchangeInv, Clean
<1>3. CASE Finish
  <2>1. httpPc = "finish" /\ unread = 0 /\ UNCHANGED <<unread, stream>>
    BY <1>3 DEF Finish, ExchangeInv
  <2>2. CASE Sends
    BY <2>1, <2>2 DEF Sends, Returns, ExchangeInv, Clean
  <2>3. CASE Returns(writer = "ended") /\ UNCHANGED writer
    BY <2>1, <2>3 DEF Returns, ExchangeInv, Clean
  <2> QED
    BY <1>3, <2>2, <2>3 DEF Finish, Finished
<1> QED
  BY <1>1, <1>2, <1>3

LEMMA StreamClean ==
  ASSUME ExchangeInv, StreamStart \/ StreamData \/ StreamEnd
  PROVE  ExchangeInv' /\ Clean
<1>1. httpPc \in {"stream", "receive"} /\ unread' \in Nat
  BY Received DEF StreamStart, StreamData, StreamEnd, ExchangeInv
<1>2. CASE Continues("receive")
  BY <1>1, <1>2 DEF Continues, Handles, ExchangeInv, Clean
<1>3. CASE StopsStream
  BY <1>1, <1>3 DEF StopsStream, Handles, Returns, ExchangeInv, Clean
<1>4. CASE AbortsStream
  BY <1>1, <1>4 DEF AbortsStream, Returns, ExchangeInv, Clean
<1>5. CASE unread = 0 /\ UNCHANGED unread /\ stream' = "ended" /\ Handles("finish")
  BY <1>1, <1>5 DEF Handles, ExchangeInv, Clean
<1> QED
  BY <1>2, <1>3, <1>4, <1>5 DEF StreamStart, StreamData, StreamEnd

LEMMA ExchangeNext ==
  ASSUME ExchangeInv, [Next]_vars
  PROVE  ExchangeInv' /\ Clean
<1>1. CASE UNCHANGED vars
  BY <1>1, KeptExchange DEF vars
<1>2. CASE App
  <2>1. UNCHANGED exchange
    BY <1>2 DEF App, Compose, Begin, Register, Start, Install, Started, Recycle, StopSteps, Stop,
                AskToStop, TaskGone, Stopped
  <2> QED
    BY <2>1, KeptExchange
<1>3. CASE Exit
  BY <1>3, KeptExchange DEF Exit
<1> QED
  BY <1>1, <1>2, <1>3, DispatchClean, ReceiveClean, AnswerClean, StreamClean DEF Next, Callback

\* However receives, sends and handlers fail, what a client has sent of one request is never read as
\* another; nor is it left to ESP-IDF while requests are accepted, realtimeDispatch apart (dispatch,
\* streamDispatch, notFound).
THEOREM ExchangesAlwaysClean == Spec => ExchangesClean
<1>1. Init => ExchangeInv
  BY DEF Init, ExchangeInv
<1>2. ExchangeInv /\ [Next]_vars => ExchangeInv' /\ Clean
  BY ExchangeNext
<1>3. ExchangeInv /\ [Next]_vars =>
        [ /\ session' = "kept" /\ httpPc' \in {"idle", "purge"} => writer' = "ended" \/ Realtime(target')
          /\ session' = "kept" /\ httpPc' = "idle" => unread' = 0
          /\ httpPc # "purge" /\ httpPc' = "purge" => ~accepting \/ Realtime(target)
          /\ httpPc' = "idle" => stream' # "open" ]_vars
  BY <1>2 DEF Clean
<1> QED
  BY <1>1, <1>2, <1>3, PTL DEF Spec, ExchangesClean
==============================================================================
