-------------------------- MODULE NavCommandServer --------------------------
(***************************************************************************)
(* nav_command_server: the node that turns goal, cancel, brake and manual  *)
(* requests, Nav2's velocity stream and the collision monitor into the one *)
(* command stream /cmd_vel_final.                                          *)
(*                                                                         *)
(* The node runs in a MultiThreadedExecutor with NumThreads threads:       *)
(*   "svc"   the services, one at a time (MutuallyExclusive group);        *)
(*   "sub"   the subscriptions and the watchdog timer, one at a time (the  *)
(*           node's default group);                                        *)
(*   g       the result callback of goal g (reentrant group).              *)
(* A step of a thread is one section under _lock, one publication, or one  *)
(* wait for a Nav2 answer: between two of them any other thread may run.   *)
(* Nav2 (the action servers and the velocity they produce) is external.    *)
(*                                                                         *)
(* Abstractions: a velocity is "zero", "move" (nonzero) or "brake" (zero   *)
(* with brake_pct 100); telemetry, events and failure codes are left out;  *)
(* which poses a loop segment holds is left out.                           *)
(***************************************************************************)
EXTENDS Naturals, FiniteSets

CONSTANTS
  Goals,              \* action goals Nav2 can ever be sent (bound)
  None,               \* no goal
  NumThreads,         \* threads of the executor
  BrakeCount,         \* brake_publish_count
  MaxPendingBrakes,   \* bound on brake messages queued in daemon threads
  ForwardWithoutGoal, \* forward_cmd_vel_safe_without_goal
  OtherClients,       \* do goals of other Nav2 clients (RViz) also drive?
  Requests            \* the requests the clients of this instance make

ASSUME NoneAssumption == None \notin Goals
ASSUME ThreadNames == {"svc", "sub"} \cap (Goals \cup {None}) = {}
ASSUME CountsAssumption ==
  /\ NumThreads \in Nat \ {0} /\ BrakeCount \in Nat \ {0}
  /\ MaxPendingBrakes \in Nat
ASSUME FlagsAssumption == /\ ForwardWithoutGoal \in BOOLEAN
                          /\ OtherClients \in BOOLEAN

VARIABLES
  nav,           \* the tracked goal and the loop configuration
  man,           \* manual mode and the last manual command
  ext,           \* _external_nav_active; "unknown" when never set or too old
  collision,     \* _collision_stop_active
  job,           \* what each thread of the executor is doing
  pendingBrakes, \* brake messages the nav_cmd_brake_seq threads still owe
  out,           \* the last message on /cmd_vel_final
  nav2,          \* state of each goal in Nav2
  cancelReq,     \* goals with a cancel request Nav2 has not handled
  watched,       \* goals whose result callback is registered, not yet run
  safeMsg,       \* a nonzero /cmd_vel_safe message is queued
  statusMsg,     \* the goal status message that is queued
  cancelled,     \* history: cancel_goal was called after the last set_goal
  lateAuto,      \* history: Nav2 velocities published since manual takeover
  overtaken      \* history: a set_goal failed while a loop was restarting

nav2Vars == <<nav2, cancelReq, watched>>
msgVars  == <<safeMsg, statusMsg>>
history  == <<cancelled, lateAuto, overtaken>>
vars == <<nav, man, ext, collision, job, pendingBrakes, out,
          nav2Vars, msgVars, history>>

-----------------------------------------------------------------------------
Threads == {"svc", "sub"} \cup Goals
Velocities == {"zero", "move", "brake"}
Final == {"succeeded", "failed"}            \* ABORTED and CANCELED: "failed"
Live == {"executing", "canceling"}

Operations == {"none", "setGoal", "cancel", "brake", "manual", "velocity",
               "collision", "teleop", "watchdog", "result"}
Labels == {"idle", "hasGoal", "detach", "cancelWait", "cancelDone", "reset",
           "send", "sendWait", "sendDone", "watch", "loopConfig", "restarted",
           "cancelPublish", "braking", "takeover", "takeoverDetach",
           "manualStop", "teleopCmd", "publish", "watchdogStop",
           "watchdogMark"}
Job == [op : Operations, pc : Labels, goal : Goals \cup {None},
        cmd : Velocities, flag : BOOLEAN, left : 0..BrakeCount]
Tracking == [active : BOOLEAN, mode : {"idle", "loop", "point_to_point"},
             handle : Goals \cup {None}, loopOn : BOOLEAN, plan : BOOLEAN]
Manual == [on : BOOLEAN, cmd : Velocities, sent : BOOLEAN,
           age : {"none", "fresh", "stale"}]
GoalStates == {"none", "sent", "rejected"} \cup Live \cup Final

IdleJob == [op |-> "none", pc |-> "idle", goal |-> None, cmd |-> "zero",
            flag |-> FALSE, left |-> 0]
NoGoal == [active |-> FALSE, mode |-> "idle", handle |-> None,
           loopOn |-> FALSE, plan |-> FALSE]
NoManualCmd == [on |-> FALSE, cmd |-> "zero", age |-> "none", sent |-> FALSE]

Init ==
  /\ nav = NoGoal /\ man = NoManualCmd
  /\ ext = "unknown" /\ collision = FALSE
  /\ job = [t \in Threads |-> IdleJob]
  /\ pendingBrakes = 0 /\ out = "zero"
  /\ nav2 = [g \in Goals |-> "none"]
  /\ cancelReq = {} /\ watched = {}
  /\ safeMsg = FALSE /\ statusMsg = "none"
  /\ cancelled = FALSE /\ lateAuto = 0 /\ overtaken = FALSE

-----------------------------------------------------------------------------
(* Threads: a callback starts when its group is idle and a thread is free; *)
(* an answer of Nav2 is taken from the middleware by a free thread too,    *)
(* which may be busy again when the callback that polls for it looks.      *)
ThreadFree == Cardinality({t \in Threads : job[t].pc # "idle"}) < NumThreads
At(t, l) == job[t].pc = l
NewJob(op, l) == [IdleJob EXCEPT !.op = op, !.pc = l]
Start(t, j) == At(t, "idle") /\ ThreadFree /\ job' = [job EXCEPT ![t] = j]
Goto(t, l) == job' = [job EXCEPT ![t].pc = l]
Finish(t) == job' = [job EXCEPT ![t] = IdleJob]
Brake(t) == job' = [job EXCEPT ![t].pc = "braking", ![t].left = BrakeCount]

(* Definitions whose name ends in Mutant are plausible mistakes, each put   *)
(* in the place of the definition it changes to test a property.           *)
GoalActive == nav.active \/ ext = "active"
ForwardingMutant == GoalActive \/ ForwardWithoutGoal
Forwarding == ~man.on /\ (GoalActive \/ ForwardWithoutGoal)
RequestCancel(h) == cancelReq' = cancelReq \cup ({h} \ {None})

-----------------------------------------------------------------------------
(* Service set_goal_ll                                                     *)
SetGoal(loop) ==
  /\ (IF loop THEN "setLoop" ELSE "setGoal") \in Requests
  /\ \E g \in Goals : nav2[g] = "none"
  /\ ~man.on
  /\ Start("svc", [NewJob("setGoal", "hasGoal") EXCEPT !.flag = loop])
  /\ cancelled' = FALSE
  /\ UNCHANGED <<nav, man, ext, collision, pendingBrakes, out, nav2Vars,
                 msgVars, lateAuto, overtaken>>

HasGoal ==
  /\ At("svc", "hasGoal")
  /\ Goto("svc", IF nav.handle = None THEN "reset" ELSE "detach")
  /\ UNCHANGED <<nav, man, ext, collision, pendingBrakes, out, nav2Vars,
                 msgVars, history>>

(* cancel_current_goal as called by set_goal and by brake                  *)
AfterCancel(ok) ==
  IF job["svc"].op = "brake" THEN Brake("svc")
  ELSE IF ok THEN Goto("svc", "reset") ELSE Finish("svc")

(* _detach_goal_handle_locked                                *)
DetachedKeepsLoopMutant == [nav EXCEPT !.active = FALSE, !.mode = "idle",
                                       !.handle = None]
DetachedStaysActiveMutant == [NoGoal EXCEPT !.active = nav.active]
Detached == NoGoal

Detach ==
  /\ At("svc", "detach")
  /\ nav' = Detached
  /\ RequestCancel(nav.handle)
  /\ IF nav.handle = None THEN AfterCancel(FALSE)
     ELSE job' = [job EXCEPT !["svc"].pc = "cancelWait",
                             !["svc"].goal = nav.handle]
  /\ UNCHANGED <<man, ext, collision, pendingBrakes, out, nav2, watched,
                 msgVars, history>>

CancelAnswered ==
  /\ At("svc", "cancelWait")
  /\ ThreadFree /\ job["svc"].goal \notin cancelReq
  /\ Goto("svc", "cancelDone")
  /\ UNCHANGED <<nav, man, ext, collision, pendingBrakes, out, nav2Vars,
                 msgVars, history>>

CancelAcked ==
  /\ At("svc", "cancelDone")
  /\ AfterCancel(TRUE)
  /\ UNCHANGED <<nav, man, ext, collision, pendingBrakes, out, nav2Vars,
                 msgVars, history>>

CancelTimeout ==
  /\ At("svc", "cancelWait")
  /\ AfterCancel(FALSE)
  /\ UNCHANGED <<nav, man, ext, collision, pendingBrakes, out, nav2Vars,
                 msgVars, history>>

(* The waypoints are converted, one call of fromLL after the other; it may *)
(* fail, and so may its retries, its second service and the approximation. *)
Convert == Goto("svc", "send") \/ Finish("svc")

(* The bookkeeping is reset before the conversion.                         *)
ResetMutant ==
  /\ At("svc", "reset")
  /\ nav' = [NoGoal EXCEPT !.handle = nav.handle, !.plan = nav.plan]
  /\ overtaken' = FALSE
  /\ Convert
  /\ UNCHANGED <<man, ext, collision, pendingBrakes, out, nav2Vars, msgVars,
                 cancelled, lateAuto>>
Reset ==
  /\ At("svc", "reset")
  /\ nav' = [NoGoal EXCEPT !.handle = nav.handle]
  /\ overtaken' = FALSE
  /\ Convert
  /\ UNCHANGED <<man, ext, collision, pendingBrakes, out, nav2Vars, msgVars,
                 cancelled, lateAuto>>

-----------------------------------------------------------------------------
(* Sending a goal, from set_goal ("svc") or from a loop's result callback  *)
Restarting(g) == job[g].op = "result" /\ job[g].pc \in
                   {"send", "sendWait", "sendDone", "watch", "restarted"}

SendFailed(t) ==
  IF t = "svc"
  THEN /\ nav' = [nav EXCEPT !.active = FALSE, !.mode = "idle"]
       /\ overtaken' = (overtaken \/ \E g \in Goals : Restarting(g))
       /\ Finish(t)
  ELSE /\ job' = [job EXCEPT ![t].pc = "restarted", ![t].flag = FALSE]
       /\ UNCHANGED <<nav, overtaken>>

Send(t) ==
  /\ At(t, "send")
  /\ \E g \in Goals :
       /\ nav2[g] = "none"
       /\ nav2' = [nav2 EXCEPT ![g] = "sent"]
       /\ job' = [job EXCEPT ![t].pc = "sendWait", ![t].goal = g]
  /\ UNCHANGED <<nav, man, ext, collision, pendingBrakes, out, cancelReq,
                 watched, msgVars, history>>

(* No action server, no answer within 5 s, or the goal was rejected.       *)
NotSent(t) ==
  /\ At(t, "send") \/ At(t, "sendWait")
  /\ SendFailed(t)
  /\ UNCHANGED <<man, ext, collision, pendingBrakes, out, nav2Vars, msgVars,
                 cancelled, lateAuto>>

(* One waypoint is sent by FollowWaypoints, more by NavigateThroughPoses:  *)
(* the goal that either accepts is adopted in the same way.                *)
Adopted(g, loop) ==
  [nav EXCEPT !.active = TRUE, !.handle = g, !.loopOn = loop,
              !.mode = IF loop THEN "loop" ELSE "point_to_point"]

Answered(t) ==
  /\ At(t, "sendWait")
  /\ ThreadFree /\ nav2[job[t].goal] \in Live \cup Final
  /\ Goto(t, "sendDone")
  /\ UNCHANGED <<nav, man, ext, collision, pendingBrakes, out, nav2Vars,
                 msgVars, history>>

Accepted(t) ==
  /\ At(t, "sendDone")
  /\ nav' = Adopted(job[t].goal, job[t].flag)
  /\ Goto(t, "watch")
  /\ UNCHANGED <<man, ext, collision, pendingBrakes, out, nav2Vars, msgVars,
                 history>>

(* The result is asked for once the goal is adopted, without the lock.     *)
Watches(t) ==
  /\ At(t, "watch")
  /\ watched' = watched \cup {job[t].goal}
  /\ IF t # "svc" THEN Goto(t, "restarted")
     ELSE IF job[t].flag THEN Goto(t, "loopConfig") ELSE Finish(t)
  /\ UNCHANGED <<nav, man, ext, collision, pendingBrakes, out, nav2,
                 cancelReq, msgVars, history>>

LoopConfig ==
  /\ At("svc", "loopConfig")
  /\ nav' = [nav EXCEPT !.loopOn = TRUE, !.plan = TRUE]
  /\ Finish("svc")
  /\ UNCHANGED <<man, ext, collision, pendingBrakes, out, nav2Vars, msgVars,
                 history>>

-----------------------------------------------------------------------------
(* The result callback of goal g: it never asks whether g is the goal the  *)
(* node tracks now.                                                        *)
WithoutHandleMutant(n) == n
WithoutHandle(n) == [n EXCEPT !.handle = None]

Restarts(g) == /\ nav.mode = "loop" /\ nav2[g] = "succeeded" /\ nav.loopOn
               /\ ~man.on /\ nav.plan

Result(g) ==
  /\ g \in watched /\ nav2[g] \in Final
  /\ At(g, "idle") /\ ThreadFree
  /\ watched' = watched \ {g}
  /\ IF Restarts(g)
     THEN /\ nav' = WithoutHandle(nav)
          /\ job' = [job EXCEPT ![g] =
                       [NewJob("result", "send") EXCEPT !.flag = TRUE]]
     ELSE /\ nav' = IF nav.mode = "loop" THEN NoGoal
                    ELSE [WithoutHandle(nav) EXCEPT !.active = FALSE,
                                                    !.mode = "idle"]
          /\ IF /\ ~man.on
                /\ \/ nav.mode = "loop" /\ nav2[g] # "succeeded"
                   \/ nav.mode = "point_to_point"
             THEN job' = [job EXCEPT ![g] =
                     [NewJob("result", "braking") EXCEPT !.left = BrakeCount]]
             ELSE UNCHANGED job
  /\ UNCHANGED <<man, ext, collision, pendingBrakes, out, nav2, cancelReq,
                 msgVars, history>>

StillLoopingMutant(g) == nav.loopOn /\ ~man.on
StillLooping(g) == job[g].flag /\ nav.loopOn /\ ~man.on

Restarted(g) ==
  /\ At(g, "restarted")
  /\ IF StillLooping(g)
     THEN /\ nav' = [nav EXCEPT !.active = TRUE, !.mode = "loop"]
          /\ Finish(g)
     ELSE /\ nav' = [NoGoal EXCEPT !.handle = nav.handle]
          /\ IF man.on THEN Finish(g) ELSE Brake(g)
  /\ UNCHANGED <<man, ext, collision, pendingBrakes, out, nav2Vars, msgVars,
                 history>>

-----------------------------------------------------------------------------
(* Services cancel_goal and brake                                          *)
CancelGoal ==
  /\ "cancel" \in Requests
  /\ pendingBrakes + BrakeCount - 1 <= MaxPendingBrakes
  /\ Start("svc", [NewJob("cancel", "cancelPublish") EXCEPT
                     !.goal = nav.handle, !.flag = man.on])
  /\ nav' = Detached
  /\ cancelled' = TRUE
  /\ UNCHANGED <<man, ext, collision, pendingBrakes, out, nav2Vars, msgVars,
                 lateAuto, overtaken>>

CancelPublish ==
  /\ At("svc", "cancelPublish")
  /\ IF job["svc"].flag THEN UNCHANGED <<out, pendingBrakes>>
     ELSE /\ out' = "brake"
          /\ pendingBrakes' = pendingBrakes + BrakeCount - 1
  /\ RequestCancel(job["svc"].goal)
  /\ Finish("svc")
  /\ UNCHANGED <<nav, man, ext, collision, nav2, watched, msgVars, history>>

(* A message of a nav_cmd_brake_seq thread.                                *)
AsyncBrakeMutant ==
  /\ pendingBrakes' = pendingBrakes - 1
  /\ out' = "brake"
  /\ UNCHANGED <<nav, man, ext, collision, job, nav2Vars, msgVars, history>>
AsyncBrake ==
  /\ pendingBrakes > 0
  /\ pendingBrakes' = pendingBrakes - 1
  /\ out' = "brake"
  /\ UNCHANGED <<nav, man, ext, collision, job, nav2Vars, msgVars, history>>

BrakeService ==
  /\ "brake" \in Requests
  /\ Start("svc",
       IF nav.handle # None THEN NewJob("brake", "detach")
       ELSE [NewJob("brake", "braking") EXCEPT !.left = BrakeCount])
  /\ nav' = [nav EXCEPT !.active = FALSE, !.mode = "idle"]
  /\ UNCHANGED <<man, ext, collision, pendingBrakes, out, nav2Vars, msgVars,
                 history>>

(* One of the messages of _publish_brake_sequence, in the thread itself.   *)
Braking(t) ==
  /\ At(t, "braking")
  /\ out' = "brake"
  /\ IF job[t].left = 1 THEN Finish(t)
     ELSE job' = [job EXCEPT ![t].left = @ - 1]
  /\ UNCHANGED <<nav, man, ext, collision, pendingBrakes, nav2Vars, msgVars,
                 history>>

-----------------------------------------------------------------------------
(* Manual mode: service set_manual_mode, and takeover by a teleop message  *)
TakeOver(t) ==
  /\ man' = [NoManualCmd EXCEPT !.on = TRUE]
  /\ nav' = [nav EXCEPT !.active = FALSE, !.mode = "idle"]
  /\ lateAuto' = 0

ManualOn ==
  /\ "manual" \in Requests
  /\ TakeOver("svc")
  /\ Start("svc", NewJob("manual", IF nav.handle = None THEN "manualStop"
                                   ELSE "takeoverDetach"))
  /\ UNCHANGED <<ext, collision, pendingBrakes, out, nav2Vars, msgVars,
                 cancelled, overtaken>>

TeleopTakeOver ==
  /\ At("sub", "takeover")
  /\ TakeOver("sub")
  /\ Goto("sub", IF nav.handle = None THEN "manualStop" ELSE "takeoverDetach")
  /\ UNCHANGED <<ext, collision, pendingBrakes, out, nav2Vars, msgVars,
                 cancelled, overtaken>>

TakeOverDetach(t) ==
  /\ At(t, "takeoverDetach")
  /\ nav' = Detached
  /\ RequestCancel(nav.handle)
  /\ Goto(t, "manualStop")
  /\ UNCHANGED <<man, ext, collision, pendingBrakes, out, nav2, watched,
                 msgVars, history>>

ManualOff ==
  /\ "manual" \in Requests
  /\ man' = NoManualCmd
  /\ Start("svc", NewJob("manual", "manualStop"))
  /\ UNCHANGED <<nav, ext, collision, pendingBrakes, out, nav2Vars, msgVars,
                 history>>

ManualStop(t) ==
  /\ At(t, "manualStop")
  /\ out' = "zero"
  /\ IF t = "sub" THEN Goto(t, "teleopCmd") ELSE Finish(t)
  /\ UNCHANGED <<nav, man, ext, collision, pendingBrakes, nav2Vars, msgVars,
                 history>>

Teleop(v) ==
  /\ "teleop" \in Requests
  /\ Start("sub", [NewJob("teleop", IF man.on THEN "teleopCmd" ELSE "takeover")
                   EXCEPT !.cmd = v])
  /\ UNCHANGED <<nav, man, ext, collision, pendingBrakes, out, nav2Vars,
                 msgVars, history>>

CommandedMutant(v) == [man EXCEPT !.cmd = v, !.age = "fresh"]
Commanded(v) == [man EXCEPT !.cmd = v, !.age = "fresh", !.sent = FALSE]

TeleopCmdMutant ==
  /\ At("sub", "teleopCmd")
  /\ man' = Commanded(job["sub"].cmd)
  /\ Goto("sub", "publish")
  /\ UNCHANGED <<nav, ext, collision, pendingBrakes, out, nav2Vars, msgVars,
                 history>>
TeleopCmd ==
  /\ At("sub", "teleopCmd")
  /\ IF man.on
     THEN /\ man' = Commanded(job["sub"].cmd)
          /\ Goto("sub", "publish")
     ELSE UNCHANGED man /\ Finish("sub")
  /\ UNCHANGED <<nav, ext, collision, pendingBrakes, out, nav2Vars, msgVars,
                 history>>

(* The manual watchdog: 10 Hz timer, manual_cmd_timeout_s.                 *)
CommandAges ==
  /\ man.age = "fresh"
  /\ man' = [man EXCEPT !.age = "stale"]
  /\ UNCHANGED <<nav, ext, collision, job, pendingBrakes, out, nav2Vars,
                 msgVars, history>>

Watchdog ==
  /\ man.on /\ man.age # "fresh" /\ ~man.sent
  /\ Start("sub", NewJob("watchdog", "watchdogStop"))
  /\ UNCHANGED <<nav, man, ext, collision, pendingBrakes, out, nav2Vars,
                 msgVars, history>>

WatchdogStop ==
  /\ At("sub", "watchdogStop")
  /\ out' = "zero"
  /\ Goto("sub", "watchdogMark")
  /\ UNCHANGED <<nav, man, ext, collision, pendingBrakes, nav2Vars, msgVars,
                 history>>

WatchdogMark ==
  /\ At("sub", "watchdogMark")
  /\ man' = [man EXCEPT !.cmd = "zero", !.sent = TRUE]
  /\ Finish("sub")
  /\ UNCHANGED <<nav, ext, collision, pendingBrakes, out, nav2Vars, msgVars,
                 history>>

-----------------------------------------------------------------------------
(* Subscriptions: /cmd_vel_safe, collision monitor, goal status            *)
CmdVelSafe ==
  /\ safeMsg /\ safeMsg' = FALSE
  /\ IF Forwarding
     THEN Start("sub", [NewJob("velocity", "publish") EXCEPT
                          !.cmd = IF collision THEN "brake" ELSE "move"])
     ELSE At("sub", "idle") /\ ThreadFree /\ UNCHANGED job
  /\ UNCHANGED <<nav, man, ext, collision, pendingBrakes, out, nav2Vars,
                 statusMsg, history>>

(* The publication that ends _on_cmd_vel_safe and set_manual_cmd.          *)
Publish ==
  /\ At("sub", "publish")
  /\ out' = job["sub"].cmd
  /\ lateAuto' = IF /\ job["sub"].op = "velocity" /\ man.on
                    /\ job["sub"].cmd = "move" /\ lateAuto < 2
                 THEN lateAuto + 1 ELSE lateAuto
  /\ Finish("sub")
  /\ UNCHANGED <<nav, man, ext, collision, pendingBrakes, nav2Vars, msgVars,
                 cancelled, overtaken>>

CollisionState(stop) ==
  /\ "collision" \in Requests
  /\ collision' = stop
  /\ IF ~man.on /\ GoalActive /\ stop
     THEN Start("sub", [NewJob("collision", "braking") EXCEPT
                          !.left = BrakeCount])
     ELSE At("sub", "idle") /\ ThreadFree /\ UNCHANGED job
  /\ UNCHANGED <<nav, man, ext, pendingBrakes, out, nav2Vars, msgVars, history>>

ExternalStatus ==
  /\ statusMsg # "none"
  /\ At("sub", "idle") /\ ThreadFree
  /\ ext' = statusMsg /\ statusMsg' = "none"
  /\ UNCHANGED <<nav, man, collision, job, pendingBrakes, out, nav2Vars,
                 safeMsg, history>>

(* No status message for external_nav_status_timeout_s.                    *)
ExternalAges ==
  /\ ext = "active" /\ ext' = "unknown"
  /\ UNCHANGED <<nav, man, collision, job, pendingBrakes, out, nav2Vars,
                 msgVars, history>>

-----------------------------------------------------------------------------
(* Nav2, external: it accepts or rejects a goal, handles cancel requests,  *)
(* ends goals, and publishes velocities and goal status.                   *)
Driving == OtherClients \/ \E g \in Goals : nav2[g] \in Live

Nav2Answers(g, s) ==
  /\ nav2[g] = "sent"
  /\ nav2' = [nav2 EXCEPT ![g] = s]
  /\ UNCHANGED <<nav, man, ext, collision, job, pendingBrakes, out, cancelReq,
                 watched, msgVars, history>>

Nav2Cancels(g) ==
  /\ g \in cancelReq /\ nav2[g] # "sent"
  /\ cancelReq' = cancelReq \ {g}
  /\ nav2' = [nav2 EXCEPT ![g] = IF @ = "executing" THEN "canceling" ELSE @]
  /\ UNCHANGED <<nav, man, ext, collision, job, pendingBrakes, out, watched,
                 msgVars, history>>

Nav2Ends(g, s) ==
  /\ nav2[g] \in Live
  /\ nav2' = [nav2 EXCEPT ![g] = s]
  /\ UNCHANGED <<nav, man, ext, collision, job, pendingBrakes, out, cancelReq,
                 watched, msgVars, history>>

Nav2Drives ==
  /\ Driving /\ ~safeMsg /\ safeMsg' = TRUE
  /\ UNCHANGED <<nav, man, ext, collision, job, pendingBrakes, out, nav2Vars,
                 statusMsg, history>>

(* Each action server publishes the status of its own goals only: an       *)
(* "inactive" message may come from another server than the active one.    *)
Nav2Status(s) ==
  /\ "status" \in Requests
  /\ s = "active" => Driving
  /\ statusMsg' = s
  /\ UNCHANGED <<nav, man, ext, collision, job, pendingBrakes, out, nav2Vars,
                 safeMsg, history>>

-----------------------------------------------------------------------------
(* What a thread does once its callback runs: it always gets on.           *)
Sends(t) == Send(t) \/ NotSent(t) \/ Answered(t) \/ Accepted(t) \/ Watches(t)
SvcStep == \/ HasGoal \/ Detach \/ CancelAnswered \/ CancelAcked
           \/ CancelTimeout \/ Reset \/ LoopConfig \/ CancelPublish
           \/ TakeOverDetach("svc") \/ ManualStop("svc")
           \/ Braking("svc") \/ Sends("svc")
SubStep == \/ TeleopTakeOver \/ TakeOverDetach("sub") \/ ManualStop("sub")
           \/ TeleopCmd \/ Publish \/ WatchdogStop \/ WatchdogMark
           \/ Braking("sub")
ResultStep(g) == Sends(g) \/ Restarted(g) \/ Braking(g)

Requested == \/ \E loop \in BOOLEAN : SetGoal(loop)
             \/ CancelGoal \/ BrakeService \/ ManualOn \/ ManualOff
             \/ \E v \in Velocities : Teleop(v)
             \/ \E stop \in BOOLEAN : CollisionState(stop)

Nav2 == \/ \E g \in Goals :
             \/ \E s \in {"executing", "rejected"} : Nav2Answers(g, s)
             \/ Nav2Cancels(g)
             \/ \E s \in Final : Nav2Ends(g, s)
        \/ Nav2Drives
        \/ \E s \in {"active", "inactive"} : Nav2Status(s)

Next == \/ SvcStep \/ SubStep \/ \E g \in Goals : ResultStep(g) \/ Result(g)
        \/ Requested \/ AsyncBrake \/ CommandAges \/ Watchdog
        \/ CmdVelSafe \/ ExternalStatus \/ ExternalAges
        \/ Nav2

Spec == Init /\ [][Next]_vars

(* Threads run, daemon threads publish, and the executor takes timers      *)
(* before subscriptions, so the watchdog is not shut out by them.          *)
ThreadFairness == /\ WF_vars(SvcStep) /\ WF_vars(SubStep)
                  /\ \A g \in Goals : WF_vars(ResultStep(g))
                  /\ WF_vars(AsyncBrake) /\ WF_vars(CommandAges)
                  /\ SF_vars(Watchdog)
LiveSpec == Spec /\ ThreadFairness

(* Nav2 answers, handles cancels and ends its goals; the executor takes    *)
(* the results.                                                            *)
Nav2Fairness == \A g \in Goals :
  /\ WF_vars(\E s \in {"executing", "rejected"} : Nav2Answers(g, s))
  /\ WF_vars(Nav2Cancels(g)) /\ WF_vars(\E s \in Final : Nav2Ends(g, s))
  /\ SF_vars(Result(g))
Nav2LiveSpec == LiveSpec /\ Nav2Fairness

-----------------------------------------------------------------------------
TypeOK ==
  /\ nav \in Tracking /\ man \in Manual
  /\ ext \in {"unknown", "active", "inactive"} /\ collision \in BOOLEAN
  /\ job \in [Threads -> Job]
  /\ pendingBrakes \in Nat /\ out \in Velocities
  /\ nav2 \in [Goals -> GoalStates]
  /\ cancelReq \subseteq Goals /\ watched \subseteq Goals
  /\ safeMsg \in BOOLEAN /\ statusMsg \in {"none", "active", "inactive"}
  /\ cancelled \in BOOLEAN /\ lateAuto \in 0..2 /\ overtaken \in BOOLEAN

(* Once the watchdog has stopped the robot in manual mode, no callback     *)
(* that was already running can set it in motion again: only a new teleop  *)
(* message can (set_manual_cmd clears _manual_watchdog_stop_sent).         *)
WatchdogStopHolds == man.on /\ man.sent => out # "move"

(* When set_manual_mode or a teleop message takes over, at most the one    *)
(* velocity of Nav2 that _on_cmd_vel_safe was about to publish still goes  *)
(* out, although the check and the publication are not atomic.             *)
AtMostOneLateVelocity == lateAuto <= 1

(* The goal that the node would cancel is one whose result is still to     *)
(* come, or is about to be asked for by the thread that adopted it: the    *)
(* handle never dangles after its result was consumed.                     *)
TrackedGoalIsWatched ==
  nav.handle # None =>
    \/ nav.handle \in watched
    \/ \E t \in {"svc"} \cup Goals :
         At(t, "watch") /\ job[t].goal = nav.handle

(* While the node counts itself as navigating (and so forwards Nav2's      *)
(* velocities), it has a goal it can cancel, or a loop restart that will   *)
(* give it one is on its way. One order of events breaks this, and only    *)
(* that one: a set_goal_ll that began and failed while a loop restart was  *)
(* under way, because it drops the mode and keeps the loop of the segment. *)
NavigatingHasAGoal ==
  nav.active => \/ nav.handle # None \/ overtaken
                \/ \E g \in Goals : Restarting(g)

(* The list of loop waypoints exists only while looping is on, so a        *)
(* point-to-point goal can never be restarted from the plan of a loop that *)
(* came before it, whatever late result arrives.                           *)
PlanOnlyWhileLooping == nav.plan => nav.loopOn

(* After cancel_goal no result decides to start another loop segment until *)
(* set_goal is called again.                                               *)
CancelEndsLoop ==
  [][\A g \in Goals : At(g, "idle") /\ job'[g].pc = "send" => ~cancelled]_vars

(* The node is a drive authority: whatever its threads do between the      *)
(* check of a command and its publication, a command that moves the robot  *)
(* was taken from the party in charge, and the watchdog's stop stands.     *)
Charge == IF man.on THEN "operator"
          ELSE IF Forwarding /\ ~collision THEN "nav2" ELSE "nobody"
Held == IF ~(At("sub", "publish") /\ job["sub"].cmd = "move") THEN "none"
        ELSE IF job["sub"].op = "velocity" THEN "nav2" ELSE "operator"
Authority == INSTANCE DriveAuthority
               WITH charge <- Charge, held <- Held, stopped <- man.on /\ man.sent
IsDriveAuthority == Authority!Spec

(* A manual command that is not refreshed is replaced by a stop: teleop    *)
(* silence in manual mode ends in a robot that is not commanded to move.   *)
ManualTimeoutStops ==
  man.on /\ man.age # "fresh" ~> ~man.on \/ man.age = "fresh" \/ out # "move"

(* A goal the node tracks does not stay tracked for ever: it ends, is      *)
(* replaced or is given up, and a lost answer cannot keep its thread.      *)
TrackedGoalSettles ==
  \A g \in Goals : nav.handle = g ~> nav.handle # g

(* After cancel_goal no velocity of Nav2 is taken for forwarding in auto   *)
(* mode until set_goal is called: "al cancelar un goal el robot queda en   *)
(* stop", and the comment of _on_cancel_goal, "to prevent any leftover     *)
(* velocity".                                                              *)
NoVelocityAfterCancel ==
  [][cancelled /\ At("sub", "idle") /\ job'["sub"].op = "velocity"
       => job'["sub"].cmd # "move"]_vars

(* Stated by the comment on the callback groups: clients are reentrant "to *)
(* avoid deadlocks when a service callback waits for a client future". A   *)
(* service that waits finds a thread to take its answer, if not now then   *)
(* when a callback that is not itself waiting ends.                        *)
Waits(t) == job[t].pc \in {"cancelWait", "sendWait"}
WaitingServiceCanBeServed ==
  Waits("svc") => \/ ThreadFree
                  \/ \E t \in Threads : ~At(t, "idle") /\ ~Waits(t)

(* Stated by the error of set_goal_ll, "manual control enabled; disable    *)
(* manual mode to send goals".                                             *)
NoGoalAdoptedInManual ==
  [][man.on => nav'.handle \in {None, nav.handle}]_vars
=============================================================================
