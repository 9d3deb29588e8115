-------------------------- MODULE OperatorGateway ---------------------------
(***************************************************************************)
(* web_zone_server between the operator's pages (WebSocket) and the nodes: *)
(* requests served by threads, the service calls they make with their      *)
(* timeouts, and the cached states the pages are shown.                    *)
(*                                                                         *)
(* A message is served by a thread of its own (asyncio.to_thread), which   *)
(* goes on when its page is gone. The callbacks of the subscriptions run   *)
(* one at a time. A step is one section under _lock, one request sent, one *)
(* publication or one end of a wait. Of nav_command_server, zones_manager  *)
(* and the camera only what they answer and publish is here: they may      *)
(* refuse a request, serve it late, or serve it after the gateway gave it  *)
(* up.                                                                     *)
(*                                                                         *)
(* Abstractions: poses, speeds, events and alerts are left out, so is what *)
(* is only relayed (goals, cancel, brake, snapshots are the op "relay").   *)
(***************************************************************************)
EXTENDS Naturals, Sequences

CONSTANTS
  Tasks,       \* threads that serve messages
  Docs,        \* zones documents
  NoZones,     \* the empty one
  MaxRequests, \* bound: messages
  MaxQueue     \* bound: telemetry, and manual commands, on their way

VARIABLES
  cache,     \* _manual_control.enabled, _zones_geojson, _camera_status.ok
  nav,       \* is nav_command_server in manual mode?
  zones,     \* the document of zones_manager
  telemetry, \* NavTelemetry.manual_enabled, on its way
  teleop,    \* number of manual commands on their way
  task,      \* what each thread is doing
  late,      \* requests given up that are still to be served
  asks,      \* messages so far
  asked,     \* history: was manual mode asked for since all was quiet?
  unsure     \* history: the zones shown may not be those in force

outside == <<nav, zones>>
channels == <<telemetry, teleop, late>>
history == <<asks, asked, unsure>>
vars == <<cache, outside, channels, task, history>>

ServiceCallsMutant ==
  [setManualMode |-> <<"manualMode", "navState">>,
   setZones |-> <<"setGeojson">>,
   reloadZones |-> <<"reload", "zonesState">>,
   bootstrap |-> <<"zonesState", "navState", "cameraStatus">>,
   camera |-> <<"camera">>, cameraStatus |-> <<"cameraStatus">>,
   relay |-> <<"relay">>]
ServiceCalls ==
  [setManualMode |-> <<"manualMode", "navState">>,
   setZones |-> <<"setGeojson", "zonesState">>,
   reloadZones |-> <<"reload", "zonesState">>,
   bootstrap |-> <<"zonesState", "navState", "cameraStatus">>,
   camera |-> <<"camera">>, cameraStatus |-> <<"cameraStatus">>,
   relay |-> <<"relay">>]
Changes == {"manualMode", "setGeojson", "reload"}
AllOps == DOMAIN ServiceCalls \cup {"setManualCmd"}
ZoneOps == {"setZones", "reloadZones", "bootstrap"}
Values == BOOLEAN \cup Docs

(* pc: "idle", "call" and "wait" for a service, "gate" and "publish"       *)
(* for a manual command. resp: "none", "sent", "refused" or "ok". alone    *)
(* (history): no other request on the zones was served meanwhile.          *)
IdleTask == [op |-> "relay", arg |-> FALSE, pc |-> "idle", step |-> 1,
             resp |-> "none", value |-> FALSE, alone |-> TRUE]

Init ==
  /\ zones \in Docs /\ nav \in BOOLEAN
  /\ cache = [manual |-> FALSE, zones |-> NoZones, camera |-> FALSE]
  /\ telemetry = <<>> /\ teleop = 0 /\ late = {} /\ asks = 0
  /\ task = [t \in Tasks |-> IdleTask]
  /\ asked = TRUE /\ unsure = TRUE

At(t, l) == task[t].pc = l
Service(t) == ServiceCalls[task[t].op][task[t].step]
Goto(t, l) == task' = [task EXCEPT ![t].pc = l]
Answer(t) == task' = [task EXCEPT ![t] = IdleTask]
OnZones(t) == ~At(t, "idle") /\ task[t].op \in ZoneOps
Alone(tasks, alone) ==
  [u \in Tasks |-> [tasks[u] EXCEPT !.alone = alone /\ @]]

-----------------------------------------------------------------------------
(* A message from a page. One with missing or bad parameters, or an op     *)
(* that is not known, is answered with an error and changes nothing.       *)
Request(t, op, arg) ==
  /\ At(t, "idle") /\ asks < MaxRequests
  /\ asks' = asks + 1
  /\ task' = Alone([task EXCEPT ![t] =
       [op |-> op, arg |-> arg, step |-> 1, resp |-> "none", value |-> FALSE,
        alone |-> TRUE, pc |-> IF op = "setManualCmd" THEN "gate" ELSE "call"]],
       op \notin ZoneOps \/ \A u \in Tasks : ~OnZones(u))
  /\ asked' = (asked \/ (op = "setManualMode" /\ arg = TRUE))
  /\ UNCHANGED <<cache, outside, channels, unsure>>

SetZones(t) == \E d \in Docs : Request(t, "setZones", d)
ReloadZones(t) == Request(t, "reloadZones", FALSE) \* a page connects, too
SetManualMode(t) == \E b \in BOOLEAN : Request(t, "setManualMode", b)
SetManualCmd(t) == Request(t, "setManualCmd", FALSE)
Relay(t) == Request(t, "relay", FALSE)
Camera(t) == \E op \in {"camera", "cameraStatus"} : Request(t, op, FALSE)
Bootstrap(t) == asks = 0 /\ Request(t, "bootstrap", FALSE)

HandleMessage(t) ==
  \/ SetZones(t) \/ ReloadZones(t) \/ SetManualMode(t) \/ SetManualCmd(t)
  \/ Relay(t) \/ Camera(t) \/ Bootstrap(t)

-----------------------------------------------------------------------------
(* _call_service: the service is missing, or is waited for until a timeout. *)
Call(t) ==
  /\ At(t, "call")
  /\ task' = [task EXCEPT ![t].pc = "wait", ![t].resp = "sent"]
  /\ UNCHANGED <<cache, outside, channels, history>>

(* The next call of the operation, or its answer.                          *)
Onward(t) ==
  IF task[t].step < Len(ServiceCalls[task[t].op])
  THEN task' = [task EXCEPT ![t].pc = "call", ![t].step = @ + 1,
                            ![t].resp = "none", ![t].value = FALSE]
  ELSE Answer(t)

(* A failed call ends the operation with an error; at start the next state *)
(* is asked for. What refreshes the cache after a change is the last call: *)
(* that it fails is not reported for a mode or for zones that were set.    *)
Failed(t) == IF task[t].op = "bootstrap" THEN Onward(t) ELSE Answer(t)
Doubt(t) == unsure' = (unsure \/ (OnZones(t) /\ task[t].step > 1))

Unavailable(t) ==
  /\ At(t, "call")
  /\ Failed(t) /\ Doubt(t)
  /\ UNCHANGED <<cache, outside, channels, asks, asked>>

Timeout(t) ==
  /\ At(t, "wait") /\ task[t].resp = "sent"
  /\ late' = IF Service(t) \in Changes
             THEN late \cup {[service |-> Service(t), arg |-> task[t].arg]}
             ELSE late
  /\ Failed(t) /\ Doubt(t)
  /\ UNCHANGED <<cache, outside, telemetry, teleop, asks, asked>>

-----------------------------------------------------------------------------
(* The nodes: what a request does to them, and what they answer. The new   *)
(* document is the one of zones_manager as soon as its mask is written,    *)
(* also when load_map or the costmap clear has failed and the answer is an *)
(* error; a document that cannot be read or saved changes nothing. What is *)
(* on the disk may have been edited.                                       *)
Effect(service, arg, ok, value) ==
  CASE service \in {"setGeojson", "reload"} ->
         /\ \/ zones' \in IF service = "reload" THEN Docs ELSE {arg}
            \/ ~ok /\ UNCHANGED zones
         /\ value = FALSE /\ UNCHANGED nav
    [] service = "manualMode" ->
         ok /\ nav' = arg /\ value = arg /\ UNCHANGED zones
    [] service = "navState" -> ok /\ value = nav /\ UNCHANGED outside
    [] service = "zonesState" -> ok /\ value = zones /\ UNCHANGED outside
    [] OTHER -> value \in {ok, FALSE} /\ UNCHANGED outside

Serve(t) ==
  /\ At(t, "wait") /\ task[t].resp = "sent"
  /\ \E v \in Values, ok \in BOOLEAN :
       /\ Effect(Service(t), task[t].arg, ok, v)
       /\ task' = [task EXCEPT ![t].resp = IF ok THEN "ok" ELSE "refused",
                               ![t].value = v]
       /\ unsure' = (unsure \/ (~ok /\ zones' # zones))
  /\ UNCHANGED <<cache, channels, asks, asked>>

ServeLate(r) ==
  /\ r \in late
  /\ late' = late \ {r}
  /\ \E v \in Values, ok \in BOOLEAN : Effect(r.service, r.arg, ok, v)
  /\ unsure' = (unsure \/ r.service # "manualMode")
  /\ task' = Alone(task, r.service = "manualMode")
  /\ UNCHANGED <<cache, telemetry, teleop, asks, asked>>

NavPublishesTelemetry ==
  /\ Len(telemetry) < MaxQueue
  /\ telemetry' = Append(telemetry, nav)
  /\ UNCHANGED <<cache, outside, teleop, late, task, history>>

(* nav_command_server takes over on any manual command.                    *)
NavTakesTeleop ==
  /\ teleop > 0
  /\ teleop' = teleop - 1 /\ nav' = TRUE
  /\ UNCHANGED <<cache, zones, telemetry, late, task, history>>

-----------------------------------------------------------------------------
(* The thread takes the response: _update_nav_state, _update_zones_state,  *)
(* and the camera status.                                                  *)
TakeResponse(t) ==
  /\ At(t, "wait") /\ task[t].resp = "ok"
  /\ cache' = CASE Service(t) = "navState" ->
                     [cache EXCEPT !.manual = task[t].value]
                [] Service(t) = "zonesState" ->
                     [cache EXCEPT !.zones = task[t].value]
                [] Service(t) = "camera" -> [cache EXCEPT !.camera = TRUE]
                [] Service(t) = "cameraStatus" ->
                     [cache EXCEPT !.camera = task[t].value]
                [] OTHER -> cache
  /\ Onward(t)
  /\ unsure' = IF Service(t) = "zonesState" THEN ~task[t].alone ELSE unsure
  /\ UNCHANGED <<outside, channels, asks, asked>>

TakeRefusal(t) ==
  /\ At(t, "wait") /\ task[t].resp = "refused"
  /\ cache' = IF Service(t) = "camera" THEN [cache EXCEPT !.camera = FALSE]
              ELSE cache
  /\ Failed(t) /\ Doubt(t)
  /\ UNCHANGED <<outside, channels, asks, asked>>

-----------------------------------------------------------------------------
(* set_manual_cmd: the cached mode is read under the lock, and the command *)
(* is published after it.                                                  *)
GateMutant(t) == At(t, "gate") /\ Goto(t, "publish")
Gate(t) ==
  /\ At(t, "gate")
  /\ IF cache.manual THEN Goto(t, "publish") ELSE Answer(t)

CheckManual(t) ==
  /\ Gate(t)
  /\ UNCHANGED <<cache, outside, channels, history>>

PublishTeleop(t) ==
  /\ At(t, "publish") /\ teleop < MaxQueue
  /\ teleop' = teleop + 1
  /\ Answer(t) \* the command is noted in the cache: speeds only
  /\ UNCHANGED <<cache, outside, telemetry, late, history>>

(* _on_nav_telemetry: the mode is taken over whatever it was.              *)
OnNavTelemetryMutant ==
  /\ telemetry # <<>>
  /\ telemetry' = Tail(telemetry)
  /\ cache' = [cache EXCEPT !.manual = @ /\ Head(telemetry)]
  /\ UNCHANGED <<outside, teleop, late, task, history>>
OnNavTelemetry ==
  /\ telemetry # <<>>
  /\ telemetry' = Tail(telemetry)
  /\ cache' = [cache EXCEPT !.manual = Head(telemetry)]
  /\ UNCHANGED <<outside, teleop, late, task, history>>

(* Nothing that could enter manual mode is on its way.                     *)
Quiet ==
  /\ ~nav /\ ~cache.manual
  /\ teleop = 0 /\ \A i \in DOMAIN telemetry : ~telemetry[i]
  /\ late = {} /\ \A t \in Tasks : At(t, "idle")

SettlesQuiet ==
  /\ asked /\ Quiet
  /\ asked' = FALSE
  /\ UNCHANGED <<cache, outside, channels, task, asks, unsure>>

TaskStep(t) == \/ Call(t) \/ Unavailable(t) \/ Timeout(t) \/ TakeResponse(t)
               \/ TakeRefusal(t) \/ CheckManual(t) \/ PublishTeleop(t)
Next ==
  \/ \E t \in Tasks : HandleMessage(t) \/ TaskStep(t) \/ Serve(t)
  \/ \E r \in late : ServeLate(r)
  \/ NavPublishesTelemetry \/ NavTakesTeleop \/ OnNavTelemetry
  \/ SettlesQuiet

Spec == Init /\ [][Next]_vars

(* Threads and callbacks run; nav_command_server publishes telemetry from  *)
(* a timer and takes the messages sent to it.                              *)
Fairness ==
  /\ \A t \in Tasks : WF_vars(TaskStep(t))
  /\ WF_vars(NavPublishesTelemetry) /\ WF_vars(NavTakesTeleop)
  /\ WF_vars(OnNavTelemetry)
LiveSpec == Spec /\ Fairness

-----------------------------------------------------------------------------
TypeOK ==
  /\ cache \in [manual : BOOLEAN, zones : Docs, camera : BOOLEAN]
  /\ nav \in BOOLEAN /\ zones \in Docs
  /\ telemetry \in Seq(BOOLEAN) /\ Len(telemetry) <= MaxQueue
  /\ teleop \in 0..MaxQueue /\ asks \in 0..MaxRequests
  /\ late \subseteq [service : Changes, arg : Values]
  /\ task \in [Tasks -> [op : AllOps, arg : Values,
                         pc : {"idle", "call", "wait", "gate", "publish"},
                         step : 1..3, value : Values, alone : BOOLEAN,
                         resp : {"none", "sent", "refused", "ok"}]]
  /\ asked \in BOOLEAN /\ unsure \in BOOLEAN

(* Once manual mode is off and nothing that was made under it is still on  *)
(* its way (commands past the gate, telemetry, requests given up), only a  *)
(* request to enter it brings it back: set_manual_cmd is gated on a cached *)
(* mode, and nav_command_server takes over on any command it is sent.      *)
ManualOnlyOnRequest == ~asked => ~nav /\ teleop = 0

(* The zones the pages are shown are those zones_manager has, unless       *)
(* requests overlapped, one was served after its timeout, the refresh      *)
(* after a change failed (which set_zones_geojson does not report), or     *)
(* zones_manager answered with an error to zones it had taken over (the    *)
(* gateway then asks for no refresh). The next request on the zones that   *)
(* is answered alone ends the exception, whatever went before.             *)
ShownZonesAreInForce ==
  ~unsure /\ (\A t \in Tasks : ~OnZones(t)) => cache.zones = zones

(* When the pages stop asking, the mode they are shown, which manual       *)
(* commands are gated on, becomes that of nav_command_server for good: no  *)
(* answer of get_state that was overtaken by telemetry stays in the cache. *)
CachedModeSettles == <>[](cache.manual = nav)
=============================================================================
