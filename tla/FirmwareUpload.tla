----------------------------- MODULE FirmwareUpload -----------------------------
(***************************************************************************)
(* Firmware upload of aquaOne Doser.  The HTTP task runs one request at a   *)
(* time (DoserNativeOtaRoute); it hands each piece of work to the           *)
(* application's loop through a bridge with one slot, and waits.  The loop  *)
(* (DoserOtaApplication, main.cpp) writes the flash, holds back the pumps,  *)
(* and restarts the device.  A step is what happens between two critical    *)
(* sections of the bridge.                                                  *)
(*                                                                         *)
(* A wait may time out, a client stop and a flash operation fail at any     *)
(* time.  The bridge's mutex is taken with portMAX_DELAY and never refused. *)
(***************************************************************************)
EXTENDS Naturals, Sequences

CONSTANTS Sizes,          \* X-Firmware-Size, in parts of at most 1024 bytes
          MaxSessions     \* bound: sessions admitted
ASSUME UploadAssumption == Sizes \subseteq Nat \ {0} /\ MaxSessions \in Nat \ {0}

Generations == 1..MaxSessions
NoGeneration == 0

VARIABLES
  \* StreamingUploadBridge
  active, last, slot, command, data, result, cancel, attached,
  \* DoserNativeOtaRoute: where the request is, generation_, the operation, fileBytes_, firmwareSize_
  routePc, token, op, sent, size,
  \* DoserOtaApplication: where the loop is, its members, and the operation in hand
  appPc, state, generation, expected, received, begun, guard, armed, taken, outcome, closing,
  \* The device: a pump is on; what is in the other partition; the restart; time since the end
  pumping, image, asked, restart, late,
  told       \* history: what each session's client was answered

bridge == <<active, last, slot, command, data, result, cancel, attached>>
route == <<routePc, token, op, sent, size, told>>
update == <<state, generation, expected, received, begun, guard, armed>>
work == <<taken, outcome, closing>>
device == <<pumping, image, asked, restart, late>>
otaVars == <<bridge, route, appPc, update, work, device>>

NoUpload == [kind |-> "arm", gen |-> NoGeneration, size |-> 0]
OtaInit ==
  /\ active = NoGeneration /\ last = 0 /\ slot = "Free" /\ command = NoUpload /\ data = <<0, 0>>
  /\ result = "ok" /\ cancel = FALSE /\ attached = FALSE
  /\ routePc = "idle" /\ token = NoGeneration /\ op = "start" /\ sent = 0 /\ size = 0
  /\ appPc = "take" /\ state = "Idle" /\ generation = NoGeneration /\ expected = 0 /\ received = 0
  /\ begun = FALSE /\ guard = FALSE /\ armed = FALSE
  /\ taken = NoUpload /\ outcome = "ok" /\ closing = NoGeneration
  /\ pumping \in BOOLEAN /\ image = <<>> /\ asked = FALSE /\ restart = "none" /\ late = FALSE
  /\ told = [g \in Generations |-> "none"]

Cancelled(g) == active = g /\ cancel

-----------------------------------------------------------------------------
(* The HTTP task: DoserNativeOtaRoute over HttpStreamingReceive             *)

Answer(text) == told' = IF token = NoGeneration THEN told ELSE [told EXCEPT ![token] = text]

\* start(): a request with good headers is let in while no session is active.
Request(n) ==
  /\ routePc = "idle" /\ active = NoGeneration /\ last < MaxSessions
  /\ routePc' = "body" /\ token' = NoGeneration /\ sent' = 0 /\ size' = n
  /\ UNCHANGED <<bridge, op, told, appPc, update, work, device>>

\* The parser's next event.  A part too many, or too few at the end, is an error.
FileHeader == token = NoGeneration /\ routePc' = "admit" /\ UNCHANGED <<op, told>>
FileData ==
  /\ token # NoGeneration /\ sent < size
  /\ routePc' = "submit" /\ op' = "chunk" /\ UNCHANGED told
FileEnd ==
  /\ token # NoGeneration /\ sent = size
  /\ routePc' = "submit" /\ op' = "end" /\ UNCHANGED told
\* The client or the connection fails, the body is malformed, or ten minutes have passed.
Broken == routePc' = "close" /\ Answer("refused") /\ UNCHANGED op
Receive ==
  /\ routePc = "body"
  /\ FileHeader \/ FileData \/ FileEnd \/ Broken
  /\ UNCHANGED <<bridge, token, sent, size, appPc, update, work, device>>

\* admitSession: Exhausted, at 2^64 sessions, is left out.
AdmitSession ==
  /\ routePc = "admit"
  /\ IF active = NoGeneration /\ slot = "Free"
       THEN /\ last' = last + 1 /\ active' = last' /\ cancel' = FALSE
            /\ token' = last' /\ routePc' = "submit" /\ op' = "start"
       ELSE routePc' = "close" /\ UNCHANGED <<last, active, cancel, token, op>>
  /\ UNCHANGED <<slot, command, data, result, attached, sent, size, told, appPc, update, work, device>>

Accepts == token = active /\ ~cancel /\ slot = "Free"
Expires == op # "arm"               \* the last operation has no deadline of its own
Submit ==
  /\ routePc = "submit"
  /\ \/ /\ Accepts
        /\ command' = [kind |-> op, gen |-> token, size |-> IF op = "start" THEN size ELSE 0]
        /\ data' = IF op = "chunk" THEN <<token, sent + 1>> ELSE data
        /\ slot' = "Queued" /\ attached' = TRUE /\ routePc' = "wait" /\ UNCHANGED told
     \/ /\ ~Accepts \/ Expires
        /\ IF op = "arm" THEN routePc' = "idle" /\ UNCHANGED told
                         ELSE routePc' = "close" /\ Answer("refused")
        /\ UNCHANGED <<command, data, slot, attached>>
  /\ UNCHANGED <<active, last, result, cancel, token, op, sent, size, appPc, update, work, device>>

\* The result of the operation is there.
Goes(next) == routePc' = next /\ UNCHANGED <<op, told>>
Collect ==
  /\ routePc = "wait" /\ slot = "Completed"
  /\ slot' = "Free" /\ attached' = FALSE
  /\ sent' = IF op = "chunk" /\ result = "ok" THEN sent + 1 ELSE sent
  /\ \/ op = "arm" /\ Goes("idle")
     \/ op \in {"start", "chunk"} /\ result = "ok" /\ Goes("body")
     \/ op # "arm" /\ result # "ok" /\ routePc' = "close" /\ Answer("refused") /\ UNCHANGED op
     \* the answer 200 is sent and the restart asked for, or it cannot be sent
     \/ op = "end" /\ result = "ok" /\ Answer("ok") /\ routePc' = "submit" /\ op' = "arm"
     \/ op = "end" /\ result = "ok" /\ Goes("idle")
  /\ UNCHANGED <<active, last, command, data, result, cancel, token, size, appPc, update, work, device>>

\* mutant: a late END is answered like a late chunk
TimeoutIsFailure(kind) == "refused"
TimeoutAnswer(kind) == IF kind = "end" THEN "unknown" ELSE "refused"
TimeOut ==
  /\ routePc = "wait" /\ slot # "Completed"
  /\ attached' = FALSE /\ cancel' = (cancel \/ command.kind # "arm")
  /\ IF op = "arm" THEN routePc' = "idle" /\ UNCHANGED told
                   ELSE routePc' = "close" /\ Answer(TimeoutAnswer(op))
  /\ UNCHANGED <<active, last, slot, command, data, result, token, op, sent, size,
                 appPc, update, work, device>>

\* requestCancel, which every failure calls; a session that is over is left alone.
Close ==
  /\ routePc = "close"
  /\ cancel' = (cancel \/ (token # NoGeneration /\ token = active))
  /\ routePc' = "idle"
  /\ UNCHANGED <<active, last, slot, command, data, result, attached, token, op, sent, size, told,
                 appPc, update, work, device>>

\* POST /api/restart leaves its request with the application, which may see it much later.
AskRestart ==
  /\ routePc = "idle" /\ ~asked /\ asked' = TRUE
  /\ UNCHANGED <<bridge, route, appPc, update, work, pumping, image, restart, late>>

Http == Receive \/ AdmitSession \/ Submit \/ Collect \/ TimeOut \/ Close

-----------------------------------------------------------------------------
(* The application's loop                                                   *)

Cleanup ==
  /\ begun' = FALSE /\ guard' = FALSE /\ armed' = FALSE
  /\ image' = IF begun THEN <<>> ELSE image
  /\ expected' = 0 /\ received' = 0 /\ state' = "Idle" /\ generation' = NoGeneration

Take ==
  /\ appPc = "take"
  /\ IF slot = "Queued"
       THEN slot' = "Processing" /\ taken' = command /\ appPc' = "work"
       ELSE appPc' = "cancel" /\ UNCHANGED <<slot, taken>>
  /\ UNCHANGED <<active, last, command, data, result, cancel, attached, route, update,
                 outcome, closing, device>>

\* An operation that ends here with result r; one that has changed nothing; one that failed.
Ends(r) == outcome' = r /\ appPc' = "complete"
Refuses == Ends("error") /\ UNCHANGED <<update, pumping, image, restart, late>>
Fails == Ends("error") /\ Cleanup /\ UNCHANGED <<pumping, restart, late>>
Valid == taken.gen = generation

Start ==
  /\ taken.kind = "start"
  /\ \/ Refuses           \* the partition may be too small, the operation invalid
     \/ /\ state = "Idle" /\ restart = "none"
        /\ pumping' = FALSE           \* stopPumps(), then setOtaInProgress(true)
        /\ UNCHANGED <<restart, late>>
        /\ \/ /\ state' = "Starting" /\ generation' = taken.gen /\ expected' = taken.size
              /\ received' = 0 /\ begun' = TRUE /\ guard' = TRUE /\ armed' = armed
              /\ image' = <<>> /\ appPc' = "recheck" /\ UNCHANGED outcome
           \/ Ends("error") /\ Cleanup       \* Update.begin fails

\* The bytes are read from the bridge's buffer, outside of its lock.
Chunk ==
  /\ taken.kind = "chunk"
  /\ IF ~Valid \/ state # "Receiving" THEN Refuses
     ELSE \/ /\ received < expected
             /\ image' = Append(image, data) /\ received' = received + 1
             /\ appPc' = "recheck"
             /\ UNCHANGED <<state, generation, expected, begun, guard, armed, outcome,
                            pumping, restart, late>>
          \/ Fails                            \* too long, or Update.write fails

End ==
  /\ taken.kind = "end"
  /\ IF ~Valid \/ state # "Receiving" THEN Refuses
     ELSE \/ /\ received = expected
             /\ begun' = FALSE /\ state' = "Succeeded" /\ late' = FALSE /\ Ends("ok")
             /\ UNCHANGED <<generation, expected, received, guard, armed, pumping, image, restart>>
          \/ Fails                            \* parts are missing, or Update.end fails

\* scheduleOtaRestart leaves a restart that is pending as it is.
Scheduled == IF restart = "none" THEN "pending" ELSE restart
ArmRestart ==
  /\ taken.kind = "arm"
  /\ IF ~Valid \/ state # "Succeeded" THEN Refuses
     ELSE /\ armed' = TRUE /\ restart' = (IF armed THEN restart ELSE Scheduled) /\ Ends("ok")
          /\ UNCHANGED <<state, generation, expected, received, begun, guard, pumping, image, late>>

\* execute, unless the session was cancelled before.
Work ==
  /\ appPc = "work"
  /\ IF Cancelled(taken.gen) /\ taken.kind # "arm" THEN Fails
     ELSE Start \/ Chunk \/ End \/ ArmRestart
  /\ UNCHANGED <<bridge, route, taken, closing, asked>>

\* The second look at the flag, after the flash operation.
Recheck ==
  /\ appPc = "recheck"
  /\ IF Cancelled(taken.gen) THEN Fails
     ELSE /\ Ends("ok") /\ state' = "Receiving"
          /\ UNCHANGED <<generation, expected, received, begun, guard, armed,
                         pumping, image, restart, late>>
  /\ UNCHANGED <<bridge, route, taken, closing, asked>>

Complete ==
  /\ appPc = "complete"
  /\ IF slot = "Processing" /\ command.gen = taken.gen /\ command.kind = taken.kind
       THEN IF attached THEN slot' = "Completed" /\ result' = outcome
                        ELSE slot' = "Free" /\ UNCHANGED result
       ELSE UNCHANGED <<slot, result>>
  /\ closing' = taken.gen
  /\ appPc' = IF state = "Idle" THEN "release" ELSE "web"
  /\ UNCHANGED <<active, last, command, data, cancel, attached, route, update, taken, outcome, device>>

\* No operation waits: a session may have been cancelled between two.
\* mutant: a session that was admitted and never started is overlooked
OnlyStarted == IF generation # NoGeneration /\ state # "Succeeded" THEN {generation} ELSE {}
Doomed == IF generation # NoGeneration /\ state # "Succeeded" THEN {generation}
          ELSE IF active # NoGeneration /\ state = "Idle" THEN {active} ELSE {}
Abandon ==
  /\ appPc = "cancel"
  /\ \/ \E g \in Doomed :
          /\ Cancelled(g) /\ closing' = g /\ appPc' = "release"
          /\ IF generation # NoGeneration THEN Cleanup ELSE UNCHANGED <<update, image>>
     \/ (\A g \in Doomed : ~Cancelled(g)) /\ appPc' = "web" /\ UNCHANGED <<closing, update, image>>
  /\ UNCHANGED <<bridge, route, taken, outcome, pumping, asked, restart, late>>

Release ==
  /\ appPc = "release" /\ appPc' = "web"
  /\ IF active = closing /\ slot \notin {"Processing", "Queued"}
       THEN active' = NoGeneration /\ cancel' = FALSE
       ELSE UNCHANGED <<active, cancel>>
  /\ UNCHANGED <<last, slot, command, data, result, attached, route, update, work, device>>

\* DoserWebApplication::processOne, then the scheduler's loop.
\* mutant: a restart is granted whatever goes on
GrantsAlways == TRUE
Grants == active = NoGeneration
Web ==
  /\ appPc = "web" /\ appPc' = "finish"
  /\ asked' = FALSE /\ restart' = IF asked /\ Grants THEN "pending" ELSE restart
  /\ pumping' \in IF guard THEN {FALSE} ELSE BOOLEAN
  /\ UNCHANGED <<bridge, route, update, work, image, late>>

\* blocksMqttService, MqttManager::loop, serviceRestartWatchdog and serviceRestart.
\* mutant: MQTT is held back only after the upload
BlocksAtEnd == state = "Succeeded"
Blocks == active # NoGeneration \/ state = "Succeeded"
RestartDone == restart' = "done" /\ pumping' = FALSE /\ UNCHANGED armed
Finish ==
  /\ appPc = "finish" /\ appPc' = "take"
  /\ \/ ~Blocks /\ RestartDone                \* the restart command of MQTT
     \/ /\ pumping' \in IF Blocks THEN {pumping} ELSE {pumping, TRUE}        \* a manual dose
        /\ restart # "due"
        /\ IF state = "Succeeded" /\ ~armed /\ late
             THEN armed' = TRUE /\ restart' = Scheduled ELSE UNCHANGED <<armed, restart>>
     \/ restart = "due" /\ RestartDone
  /\ UNCHANGED <<bridge, route, state, generation, expected, received, begun, guard, work,
                 image, asked, late>>

App == Take \/ Work \/ Recheck \/ Complete \/ Abandon \/ Release \/ Web \/ Finish

\* A second after a restart was scheduled; half a minute after the image was finished.
RestartTime ==
  /\ restart = "pending" /\ restart' = "due"
  /\ UNCHANGED <<bridge, route, appPc, update, work, pumping, image, asked, late>>
WatchdogTime ==
  /\ state = "Succeeded" /\ ~late /\ late' = TRUE
  /\ UNCHANGED <<bridge, route, appPc, update, work, pumping, image, asked, restart>>

\* A restart ends the behaviour; the device starts from OtaInit.
Running == restart # "done"
OtaNext ==
  /\ Running
  /\ (\E n \in Sizes : Request(n)) \/ Http \/ AskRestart \/ App \/ RestartTime \/ WatchdogTime
Fairness == /\ WF_otaVars(Running /\ Http) /\ WF_otaVars(Running /\ App)
            /\ WF_otaVars(Running /\ RestartTime) /\ WF_otaVars(Running /\ WatchdogTime)
OtaSpec == OtaInit /\ [][OtaNext]_otaVars /\ Fairness

-----------------------------------------------------------------------------
(***************************************************************************)
(* No pump runs and the scheduler is held back from the moment the flash is *)
(* opened until the session is over or the device restarts: neither the     *)
(* scheduler nor a message over MQTT starts one (main.cpp, blocksMqttService*)
(* and setOtaInProgress).                                                   *)
(***************************************************************************)
NoDoseWhileWriting == begun \/ state = "Succeeded" => guard /\ ~pumping

(***************************************************************************)
(* The answers of DoserNativeOtaRoute are true: 200 means that the image of *)
(* this session will be booted, a refusal that it will not; only a late END *)
(* is "Update outcome unknown".                                             *)
(***************************************************************************)
Chosen(g) == state = "Succeeded" /\ generation = g
AnswersTrue == \A g \in Generations : /\ told[g] = "ok" => Chosen(g)
                                      /\ told[g] = "refused" => ~Chosen(g)

(***************************************************************************)
(* Every session comes to an end, whatever the client does: the pumps, the  *)
(* MQTT service and the next upload are free again, or the device restarts. *)
(***************************************************************************)
SessionEnds == active # NoGeneration ~> (active = NoGeneration /\ ~guard) \/ ~Running

(***************************************************************************)
(* DoserOtaApplication and DoserNativeOtaRoute keep what FirmwareUpdate     *)
(* promises: one upload, every part once and in order, no restart while it  *)
(* is being written, and a restart after it was chosen.                     *)
(***************************************************************************)
Update == INSTANCE FirmwareUpdate WITH
  Uploads <- Generations,
  phase <- IF ~Running THEN "restarted" ELSE IF begun THEN "writing"
           ELSE IF state = "Succeeded" THEN "chosen" ELSE "idle",
  upload <- IF begun \/ state = "Succeeded"
              THEN [i \in 1..expected |-> <<generation, i>>] ELSE <<>>
UpdateSpec == Update!Spec
=============================================================================
