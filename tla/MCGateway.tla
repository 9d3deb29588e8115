----------------------------- MODULE MCGateway ------------------------------
(* The nodes around navigation, in parts that share no state: the          *)
(* gateway's recordings, its manual control, its zones, its camera; the    *)
(* datum; the replanned goal poses; the readers of framed streams; and the *)
(* RTK status. A behaviour runs one of them.                               *)
EXTENDS Naturals, Sequences

CONSTANTS Tasks, Recordings, NoRecording, Docs, NoZones, MaxRequests, MaxQueue,
          Fixes, Retries, Goals, None,
          Count, Size, Disguised, FalseLength, MaxBuffer

VARIABLES part, stored, process, job, waiters, lastError, overlapped,
          cache, nav, zones, telemetry, teleop, task, late, asks, asked,
          unsure,
          gps, rtk, current, pending, yaw, datum, op, lock, navsat,
          lateFixes, edge, lateSet,
          posed, handle, active, replan, ignore, cancel, goal, told,
          wrongHold, overtaken,
          reader, link, phase, next, buffer, delivered, garbled, damaged,
          breaks, fooled,
          solution, gpsFix, raw, assist, rtcm, consumer, status

recorderVars == <<stored, process, job, waiters, lastError, overlapped>>
gatewayVars == <<cache, nav, zones, telemetry, teleop, task, late, asks,
                 asked, unsure>>
datumVars == <<gps, rtk, current, pending, yaw, datum, op, lock, navsat,
               lateFixes, edge, lateSet>>
followVars == <<posed, handle, active, replan, ignore, cancel, goal, told,
                wrongHold, overtaken>>
streamVars == <<reader, link, phase, next, buffer, delivered, garbled,
                damaged, breaks, fooled>>
statusVars == <<solution, gpsFix, raw, assist, rtcm, consumer, status>>
vars == <<part, recorderVars, gatewayVars, datumVars, followVars, streamVars,
          statusVars>>

R == INSTANCE RosbagRecorder
G == INSTANCE OperatorGateway
D == INSTANCE DatumSetter WITH late <- lateFixes
F == INSTANCE FollowPathReplan
S == INSTANCE FrameStreams
K == INSTANCE RtkStatus WITH gps <- gpsFix

Parts == {"recorder", "manual", "zones", "camera", "datum", "follow",
          "streams", "status"}

(* The parts that do not run keep one initial state.                       *)
Init ==
  /\ part \in Parts
  /\ R!Init /\ G!Init /\ D!Init /\ F!Init /\ S!Init /\ K!Init
  /\ part \notin {"manual", "zones", "camera"} => ~nav /\ zones = NoZones
  /\ part # "streams" => reader = "esp"

Recorder(A) ==
  part = "recorder" /\ A
  /\ UNCHANGED <<part, gatewayVars, datumVars, followVars, streamVars,
                 statusVars>>
(* The pages that are open ask for some of the operations.                 *)
Pages(ops, A) ==
  /\ A
  /\ \A t \in Tasks : task'[t].pc # "idle" => task'[t].op \in ops
  /\ UNCHANGED <<part, recorderVars, datumVars, followVars, streamVars,
                 statusVars>>
Manual(A) == part = "manual" /\ Pages({"setManualMode", "setManualCmd"}, A)
Zones(A) ==
  part = "zones" /\ Pages({"setZones", "reloadZones", "bootstrap"}, A)
Camera(A) == part = "camera" /\ Pages({"bootstrap", "camera", "relay"}, A)
Datum(A) ==
  part = "datum" /\ A
  /\ UNCHANGED <<part, recorderVars, gatewayVars, followVars, streamVars,
                 statusVars>>
Follow(A) ==
  part = "follow" /\ A
  /\ UNCHANGED <<part, recorderVars, gatewayVars, datumVars, streamVars,
                 statusVars>>
Streams(A) ==
  part = "streams" /\ A
  /\ UNCHANGED <<part, recorderVars, gatewayVars, datumVars, followVars,
                 statusVars>>
Status(A) ==
  part = "status" /\ A
  /\ UNCHANGED <<part, recorderVars, gatewayVars, datumVars, followVars,
                 streamVars>>

Next ==
  \/ Recorder(R!Next) \/ Manual(G!Next) \/ Zones(G!Next)
  \/ Camera(G!Next) \/ Datum(D!Next) \/ Follow(F!Next) \/ Streams(S!Next)
  \/ Status(K!Next)

Spec == Init /\ [][Next]_vars

(* The fairness of each module, for the part that runs.                    *)
Fairness ==
  /\ \A t \in Tasks : /\ WF_vars(Recorder(R!TaskStep(t)))
                      /\ WF_vars(Manual(G!TaskStep(t)))
  /\ \A r \in Recordings : WF_vars(Recorder(R!Waiter(r)))
  /\ WF_vars(Manual(G!NavPublishesTelemetry))
  /\ WF_vars(Manual(G!NavTakesTeleop))
  /\ WF_vars(Manual(G!OnNavTelemetry))
  /\ WF_vars(Datum(D!CheckYaw))
  /\ \A c \in D!Callbacks : WF_vars(Datum(D!OpStep(c)))
  /\ WF_vars(Status(K!PublishDiagnostics)) /\ WF_vars(Status(K!OnGps))
  /\ WF_vars(Status(K!RawSettles)) /\ WF_vars(Status(K!AssistEnds))
LiveSpec == Spec /\ Fairness

(* A recording that runs can be stopped (see RosbagRecorder).              *)
RunningIsReachable == R!RunningIsReachable

(* A recording that ended is forgotten (see RosbagRecorder).               *)
EndedIsForgotten == part = "recorder" => R!EndedIsForgotten

(* Manual mode comes back on request only (see OperatorGateway).           *)
ManualOnlyOnRequest == G!ManualOnlyOnRequest

(* The zones shown are those in force (see OperatorGateway).               *)
ShownZonesAreInForce == G!ShownZonesAreInForce

(* The mode shown settles (see OperatorGateway).                           *)
CachedModeSettles == part = "manual" => G!CachedModeSettles

(* An RTK edge stays pending until the datum is set (see DatumSetter).     *)
EdgeIsKept == D!EdgeIsKept

(* The datum reported is the one in use (see DatumSetter).                 *)
DatumAgrees == D!DatumAgrees

(* Whoever sets the datum gives the lock back (see DatumSetter).           *)
LockIsReleased == part = "datum" => D!LockIsReleased

(* stop_hold spares a goal that runs (see FollowPathReplan).               *)
HoldSparesRunningGoal == F!HoldSparesRunningGoal

(* Frames that arrive whole are found, and no others (see FrameStreams).   *)
FramesAreFound == S!FramesAreFound

(* RTK that is lost is not claimed for ever (see RtkStatus).               *)
RtkClaimEnds == part = "status" => K!RtkClaimEnds
=============================================================================
