----------------------- MODULE NavCommandServer_proofs -----------------------
(* Safety of NavCommandServer for every set of goals, number of threads,   *)
(* length of the brake sequence and mix of requests.                       *)
EXTENDS NavCommandServer, FiniteSetTheorems, TLAPS

(***************************************************************************)
(* Types. A thread that brakes has a message left to publish, and a thread *)
(* that waits for a goal response waits for a goal.                        *)
(***************************************************************************)
JobOK(j) == /\ j.pc = "braking" => j.left # 0
            /\ j.pc \in {"sendWait", "sendDone", "watch"} => j.goal \in Goals
GoodJob == {j \in Job : JobOK(j)}
TypeInv == TypeOK /\ job \in [Threads -> GoodJob]

LEMMA LabelNames ==
  /\ "idle" \in Labels /\ "hasGoal" \in Labels /\ "detach" \in Labels
  /\ "cancelWait" \in Labels /\ "cancelDone" \in Labels
  /\ "reset" \in Labels /\ "send" \in Labels
  /\ "sendWait" \in Labels /\ "sendDone" \in Labels
  /\ "watch" \in Labels /\ "loopConfig" \in Labels
  /\ "restarted" \in Labels /\ "cancelPublish" \in Labels
  /\ "braking" \in Labels /\ "takeover" \in Labels
  /\ "takeoverDetach" \in Labels /\ "manualStop" \in Labels
  /\ "teleopCmd" \in Labels /\ "publish" \in Labels
  /\ "watchdogStop" \in Labels /\ "watchdogMark" \in Labels
BY DEF Labels

LEMMA OperationNames ==
  /\ "none" \in Operations /\ "setGoal" \in Operations
  /\ "cancel" \in Operations /\ "brake" \in Operations
  /\ "manual" \in Operations /\ "velocity" \in Operations
  /\ "collision" \in Operations /\ "teleop" \in Operations
  /\ "watchdog" \in Operations /\ "result" \in Operations
BY DEF Operations

LEMMA IdleJobType == IdleJob \in GoodJob
<1>1. IdleJob \in Job
  BY LabelNames, OperationNames, CountsAssumption DEF IdleJob, Job, Velocities
<1>2. JobOK(IdleJob)
  BY DEF IdleJob, JobOK
<1> QED
  BY <1>1, <1>2 DEF GoodJob

LEMMA BrakeCountType == BrakeCount \in 0..BrakeCount /\ BrakeCount # 0
BY CountsAssumption

(* What the operators on jobs do to the type of job.                       *)
LEMMA GotoType ==
  ASSUME job \in [Threads -> GoodJob], NEW t \in Threads, NEW l \in Labels,
         l # "braking", Goto(t, l),
         \/ l \notin {"sendWait", "sendDone", "watch"}
         \/ job[t].goal \in Goals
  PROVE  job' \in [Threads -> GoodJob]
<1> DEFINE j == [job[t] EXCEPT !.pc = l]
<1>1. job[t] \in GoodJob
  OBVIOUS
<1>2. j \in GoodJob
  BY <1>1 DEF GoodJob, Job, JobOK
<1>3. job' = [job EXCEPT ![t] = j]
  BY DEF Goto
<1> QED
  BY <1>2, <1>3

LEMMA FinishType ==
  ASSUME job \in [Threads -> GoodJob], NEW t \in Threads, Finish(t)
  PROVE  job' \in [Threads -> GoodJob]
BY IdleJobType DEF Finish

LEMMA StartType ==
  ASSUME job \in [Threads -> GoodJob], NEW t \in Threads, NEW j \in GoodJob,
         Start(t, j)
  PROVE  job' \in [Threads -> GoodJob]
BY DEF Start

LEMMA BrakeType ==
  ASSUME job \in [Threads -> GoodJob], NEW t \in Threads, Brake(t)
  PROVE  job' \in [Threads -> GoodJob]
<1> DEFINE j == [job[t] EXCEPT !.pc = "braking", !.left = BrakeCount]
<1>1. job[t] \in GoodJob
  OBVIOUS
<1>2. j \in GoodJob
  BY <1>1, LabelNames, BrakeCountType DEF GoodJob, Job, JobOK
<1>3. job' = [job EXCEPT ![t] = j]
  BY DEF Brake
<1> QED
  BY <1>2, <1>3

(* A fresh job, and a fresh job with one or two fields set.                *)
LEMMA NewJobType ==
  ASSUME NEW op \in Operations, NEW l \in Labels,
         l \notin {"braking", "sendWait", "sendDone", "watch"}
  PROVE  /\ NewJob(op, l) \in GoodJob
         /\ \A f \in BOOLEAN : [NewJob(op, l) EXCEPT !.flag = f] \in GoodJob
         /\ \A v \in Velocities : [NewJob(op, l) EXCEPT !.cmd = v] \in GoodJob
         /\ \A g \in Goals \cup {None}, f \in BOOLEAN :
              [NewJob(op, l) EXCEPT !.goal = g, !.flag = f] \in GoodJob
BY IdleJobType DEF NewJob, GoodJob, Job, JobOK

LEMMA NewBrakeType ==
  ASSUME NEW op \in Operations
  PROVE  [NewJob(op, "braking") EXCEPT !.left = BrakeCount] \in GoodJob
BY IdleJobType, LabelNames, BrakeCountType
   DEF NewJob, GoodJob, Job, JobOK

LEMMA GoodJobs == job \in [Threads -> GoodJob] => job \in [Threads -> Job]
BY DEF GoodJob

LEMMA InitTypes == Init => TypeInv
<1> SUFFICES ASSUME Init PROVE TypeInv
  OBVIOUS
<1>1. job \in [Threads -> GoodJob]
  BY IdleJobType DEF Init
<1>2. job \in [Threads -> Job]
  BY <1>1, GoodJobs
<1>3. nav \in Tracking /\ man \in Manual
  BY DEF Init, NoGoal, NoManualCmd, Tracking, Manual, Velocities
<1>4. nav2 \in [Goals -> GoalStates]
  BY DEF Init, GoalStates
<1>5. pendingBrakes \in Nat /\ lateAuto \in 0..2
  BY CountsAssumption DEF Init
<1> QED
  BY <1>1, <1>2, <1>3, <1>4, <1>5 DEF Init, TypeInv, TypeOK, Velocities


(* The steps that a service, a subscription and a result callback share.   *)
LEMMA SharedJobStep ==
  ASSUME TypeInv, NEW t \in Threads,
         \/ TakeOverDetach(t) \/ ManualStop(t) \/ Braking(t)
         \/ Sends(t)
  PROVE  job' \in [Threads -> GoodJob]
<1>j. job \in [Threads -> GoodJob] /\ job[t] \in GoodJob
  BY DEF TypeInv
<1>1. CASE TakeOverDetach(t) \/ ManualStop(t)
  BY <1>j, <1>1, GotoType, FinishType, LabelNames DEF TakeOverDetach, ManualStop
<1>2. CASE Braking(t)
  <2>1. CASE job[t].left = 1
    BY <1>j, <1>2, <2>1, FinishType DEF Braking
  <2>2. CASE job[t].left # 1
    <3> DEFINE j == [job[t] EXCEPT !.left = @ - 1]
    <3>1. j \in GoodJob
      <4>1. job[t].left \in 0..BrakeCount /\ job[t].left # 0
        BY <1>j, <1>2 DEF GoodJob, Job, JobOK, Braking, At
      <4>2. job[t].left - 1 \in 0..BrakeCount /\ job[t].left - 1 # 0
        BY <2>2, <4>1, CountsAssumption
      <4> QED
        BY <1>j, <4>2 DEF GoodJob, Job, JobOK
    <3>2. job' = [job EXCEPT ![t] = j]
      BY <1>2, <2>2 DEF Braking
    <3> QED
      BY <1>j, <3>1, <3>2
  <2> QED
    BY <2>1, <2>2
<1>3. CASE Send(t)
  <2>1. PICK g \in Goals : job' = [job EXCEPT ![t].pc = "sendWait",
                                              ![t].goal = g]
    BY <1>3 DEF Send
  <2> DEFINE j == [job[t] EXCEPT !.pc = "sendWait", !.goal = g]
  <2>2. j \in GoodJob
    BY <1>j, LabelNames DEF GoodJob, Job, JobOK
  <2>3. job' = [job EXCEPT ![t] = j]
    BY <2>1
  <2> QED
    BY <1>j, <2>2, <2>3
<1>4. CASE NotSent(t)
  <2>1. CASE t = "svc"
    BY <1>j, <1>4, <2>1, FinishType DEF NotSent, SendFailed
  <2>2. CASE t # "svc"
    <3> DEFINE j == [job[t] EXCEPT !.pc = "restarted", !.flag = FALSE]
    <3>1. j \in GoodJob
      BY <1>j, LabelNames DEF GoodJob, Job, JobOK
    <3>2. job' = [job EXCEPT ![t] = j]
      BY <1>4, <2>2 DEF NotSent, SendFailed
    <3> QED
      BY <1>j, <3>1, <3>2
  <2> QED
    BY <2>1, <2>2
<1>5. CASE Answered(t) \/ Accepted(t) \/ Watches(t)
  <2>1. job[t].goal \in Goals
    BY <1>j, <1>5 DEF GoodJob, Job, JobOK, Answered, Accepted, Watches, At
  <2> QED
    BY <1>j, <1>5, <2>1, GotoType, FinishType, LabelNames
    DEF Answered, Accepted, Watches
<1> QED
  BY <1>1, <1>2, <1>3, <1>4, <1>5 DEF Sends

(* The requests start a callback.                                          *)
LEMMA RequestedJobStep ==
  ASSUME TypeInv, Requested
  PROVE  job' \in [Threads -> GoodJob]
<1>j. job \in [Threads -> GoodJob]
  BY DEF TypeInv
<1>t. "svc" \in Threads /\ "sub" \in Threads
  BY DEF Threads
<1>1. ASSUME NEW loop \in BOOLEAN, SetGoal(loop)
      PROVE  job' \in [Threads -> GoodJob]
  <2>1. [NewJob("setGoal", "hasGoal") EXCEPT !.flag = loop] \in GoodJob
    BY NewJobType, LabelNames, OperationNames
  <2> QED
    BY <1>j, <1>t, <1>1, <2>1, StartType DEF SetGoal
<1>2. CASE CancelGoal
  <2>1. nav.handle \in Goals \cup {None} /\ man.on \in BOOLEAN
    BY DEF TypeInv, TypeOK, Tracking, Manual
  <2>2. [NewJob("cancel", "cancelPublish") EXCEPT !.goal = nav.handle,
                                                  !.flag = man.on] \in GoodJob
    BY <2>1, NewJobType, LabelNames, OperationNames
  <2> QED
    BY <1>j, <1>t, <1>2, <2>2, StartType DEF CancelGoal
<1>3. CASE BrakeService
  <2>1. /\ NewJob("brake", "detach") \in GoodJob
        /\ [NewJob("brake", "braking") EXCEPT !.left = BrakeCount] \in GoodJob
    BY NewJobType, NewBrakeType, LabelNames, OperationNames
  <2> QED
    BY <1>j, <1>t, <1>3, <2>1, StartType DEF BrakeService
<1>4. CASE ManualOn \/ ManualOff
  <2>1. /\ NewJob("manual", "manualStop") \in GoodJob
        /\ NewJob("manual", "takeoverDetach") \in GoodJob
    BY NewJobType, LabelNames, OperationNames
  <2> QED
    BY <1>j, <1>t, <1>4, <2>1, StartType DEF ManualOn, ManualOff
<1>5. ASSUME NEW v \in Velocities, Teleop(v)
      PROVE  job' \in [Threads -> GoodJob]
  <2>1. /\ [NewJob("teleop", "teleopCmd") EXCEPT !.cmd = v] \in GoodJob
        /\ [NewJob("teleop", "takeover") EXCEPT !.cmd = v] \in GoodJob
    BY NewJobType, LabelNames, OperationNames
  <2> QED
    BY <1>j, <1>t, <1>5, <2>1, StartType DEF Teleop
<1>6. ASSUME NEW stop \in BOOLEAN, CollisionState(stop)
      PROVE  job' \in [Threads -> GoodJob]
  <2>1. [NewJob("collision", "braking") EXCEPT !.left = BrakeCount] \in GoodJob
    BY NewBrakeType, OperationNames
  <2> QED
    BY <1>j, <1>t, <1>6, <2>1, StartType DEF CollisionState
<1> QED
  BY <1>1, <1>2, <1>3, <1>4, <1>5, <1>6 DEF Requested

(* Every step leaves every thread with a well-typed job.                   *)
LEMMA JobStep ==
  ASSUME TypeInv, [Next]_vars
  PROVE  job' \in [Threads -> GoodJob]
<1>j. job \in [Threads -> GoodJob]
  BY DEF TypeInv
<1>t. "svc" \in Threads /\ "sub" \in Threads /\ Goals \subseteq Threads
  BY DEF Threads
<1>1. CASE SvcStep
  <2>1. CASE HasGoal \/ Reset \/ LoopConfig \/ CancelPublish
    BY <1>j, <1>t, <2>1, GotoType, FinishType, LabelNames
    DEF HasGoal, Reset, Convert, LoopConfig, CancelPublish
  <2>2. CASE CancelAnswered \/ CancelAcked \/ CancelTimeout
    BY <1>j, <1>t, <2>2, GotoType, FinishType, BrakeType, LabelNames
    DEF CancelAnswered, CancelAcked, CancelTimeout, AfterCancel
  <2>3. CASE Detach
    <3>1. CASE nav.handle = None
      BY <1>j, <1>t, <2>3, <3>1, GotoType, FinishType, BrakeType, LabelNames
      DEF Detach, AfterCancel
    <3>2. CASE nav.handle # None
      <4> DEFINE j == [job["svc"] EXCEPT !.pc = "cancelWait",
                                         !.goal = nav.handle]
      <4>1. nav.handle \in Goals \cup {None}
        BY DEF TypeInv, TypeOK, Tracking
      <4>0. job["svc"] \in GoodJob
        BY <1>j, <1>t
      <4>2. j \in GoodJob
        BY <4>0, <4>1, LabelNames DEF GoodJob, Job, JobOK
      <4>3. job' = [job EXCEPT !["svc"] = j]
        BY <2>3, <3>2 DEF Detach
      <4> QED
        BY <1>j, <4>2, <4>3
    <3> QED
      BY <3>1, <3>2
  <2>4. CASE \E t \in {"svc"} : \/ TakeOverDetach(t) \/ ManualStop(t)
                                \/ Braking(t) \/ Sends(t)
    BY <2>4, <1>t, SharedJobStep
  <2> QED
    BY <1>1, <2>1, <2>2, <2>3, <2>4 DEF SvcStep
<1>2. CASE SubStep
  <2>1. CASE TeleopTakeOver \/ TeleopCmd \/ Publish
    BY <1>j, <1>t, <2>1, GotoType, FinishType, LabelNames
    DEF TeleopTakeOver, TeleopCmd, Publish
  <2>2. CASE WatchdogStop \/ WatchdogMark
    BY <1>j, <1>t, <2>2, GotoType, FinishType, LabelNames
    DEF WatchdogStop, WatchdogMark
  <2>3. CASE \E t \in {"sub"} : TakeOverDetach(t) \/ ManualStop(t)
                                \/ Braking(t)
    BY <2>3, <1>t, SharedJobStep
  <2> QED
    BY <1>2, <2>1, <2>2, <2>3 DEF SubStep
<1>3. ASSUME NEW g \in Goals, ResultStep(g) PROVE job' \in [Threads -> GoodJob]
  <2>1. CASE Restarted(g)
    BY <1>j, <1>t, <2>1, FinishType, BrakeType DEF Restarted
  <2>2. CASE Sends(g) \/ Braking(g)
    BY <2>2, <1>t, SharedJobStep
  <2> QED
    BY <1>3, <2>1, <2>2 DEF ResultStep
<1>4. ASSUME NEW g \in Goals, Result(g) PROVE job' \in [Threads -> GoodJob]
  <2>1. [NewJob("result", "send") EXCEPT !.flag = TRUE] \in GoodJob
    BY NewJobType, LabelNames, OperationNames
  <2>2. [NewJob("result", "braking") EXCEPT !.left = BrakeCount] \in GoodJob
    BY NewBrakeType, OperationNames
  <2> QED
    BY <1>j, <1>t, <1>4, <2>1, <2>2 DEF Result
<1>5. CASE Requested
  BY <1>5, RequestedJobStep
<1>6. CASE AsyncBrake \/ CommandAges \/ ExternalAges \/ ExternalStatus \/ Nav2
  <2>1. job' = job
    BY <1>6 DEF AsyncBrake, CommandAges, ExternalAges, ExternalStatus, Nav2,
       Nav2Answers, Nav2Cancels, Nav2Ends, Nav2Drives, Nav2Status
  <2> QED
    BY <1>j, <2>1
<1>7. CASE Watchdog
  <2>1. NewJob("watchdog", "watchdogStop") \in GoodJob
    BY NewJobType, LabelNames, OperationNames
  <2> QED
    BY <1>j, <1>t, <1>7, <2>1, StartType DEF Watchdog
<1>8. CASE CmdVelSafe
  <2>1. \A v \in Velocities :
          [NewJob("velocity", "publish") EXCEPT !.cmd = v] \in GoodJob
    BY NewJobType, LabelNames, OperationNames
  <2>2. "brake" \in Velocities /\ "move" \in Velocities
    BY DEF Velocities
  <2> QED
    BY <1>j, <1>t, <1>8, <2>1, <2>2, StartType DEF CmdVelSafe
<1>9. CASE UNCHANGED vars
  BY <1>j, <1>9 DEF vars
<1> QED
  BY <1>1, <1>2, <1>3, <1>4, <1>5, <1>6, <1>7, <1>8, <1>9 DEF Next

(* Every step keeps the types of the other variables.                      *)
LEMMA NavTypes ==
  ASSUME nav \in Tracking
  PROVE  /\ NoGoal \in Tracking /\ Detached \in Tracking
         /\ [NoGoal EXCEPT !.handle = nav.handle] \in Tracking
         /\ [nav EXCEPT !.active = FALSE, !.mode = "idle"] \in Tracking
         /\ [nav EXCEPT !.active = TRUE, !.mode = "loop"] \in Tracking
         /\ [nav EXCEPT !.loopOn = TRUE, !.plan = TRUE] \in Tracking
         /\ WithoutHandle(nav) \in Tracking
         /\ [WithoutHandle(nav) EXCEPT !.active = FALSE, !.mode = "idle"]
              \in Tracking
         /\ nav.handle \in Goals \cup {None}
         /\ \A g \in Goals, f \in BOOLEAN :
              [nav EXCEPT !.active = TRUE, !.handle = g, !.loopOn = f,
                          !.mode = IF f THEN "loop" ELSE "point_to_point"]
                \in Tracking
BY DEF NoGoal, Detached, WithoutHandle, Tracking

LEMMA ManTypes ==
  ASSUME man \in Manual
  PROVE  /\ NoManualCmd \in Manual
         /\ [man EXCEPT !.age = "stale"] \in Manual
         /\ [man EXCEPT !.cmd = "zero", !.sent = TRUE] \in Manual
         /\ \A v \in Velocities : Commanded(v) \in Manual
BY DEF NoManualCmd, Commanded, Manual, Velocities

LEMMA TakeOverTypes ==
  ASSUME nav \in Tracking, NEW t, TakeOver(t)
  PROVE  nav' \in Tracking /\ man' \in Manual /\ lateAuto' \in 0..2
<1>1. nav' \in Tracking
  BY NavTypes DEF TakeOver
<1>2. man' \in Manual
  BY DEF TakeOver, NoManualCmd, Manual, Velocities
<1>3. lateAuto' \in 0..2
  BY DEF TakeOver
<1> QED
  BY <1>1, <1>2, <1>3

LEMMA GoalStateNames ==
  {"none", "sent", "rejected", "executing", "canceling"} \cup Final
    \subseteq GoalStates
BY DEF GoalStates, Live, Final

LEMMA VelocityNames ==
  "zero" \in Velocities /\ "move" \in Velocities /\ "brake" \in Velocities
BY DEF Velocities

LEMMA SharedTypes ==
  ASSUME TypeInv, NEW t \in Threads,
         \/ TakeOverDetach(t) \/ ManualStop(t) \/ Braking(t)
         \/ Sends(t)
  PROVE  TypeOK'
<1>1. job' \in [Threads -> Job]
  BY SharedJobStep DEF GoodJob
<1>2. TypeOK
  BY DEF TypeInv
<1>3. job[t] \in GoodJob
  BY DEF TypeInv
<1> USE <1>1, <1>2, NavTypes, GoalStateNames, VelocityNames
    DEF TypeOK, nav2Vars, msgVars, history
<1>4. CASE TakeOverDetach(t)
  BY <1>4 DEF TakeOverDetach, RequestCancel
<1>5. CASE ManualStop(t) \/ Braking(t)
  BY <1>5 DEF ManualStop, Braking
<1>6. CASE Send(t)
  BY <1>6 DEF Send
<1>7. CASE NotSent(t)
  <2>1. (overtaken \/ \E g \in Goals : Restarting(g)) \in BOOLEAN
    BY DEF Restarting
  <2> QED
    BY <1>7, <2>1 DEF NotSent, SendFailed
<1>8. CASE Answered(t) \/ Accepted(t) \/ Watches(t)
  <2>1. job[t].goal \in Goals /\ job[t].flag \in BOOLEAN
    BY <1>3, <1>8 DEF GoodJob, Job, JobOK, Answered, Accepted, Watches, At
  <2>2. CASE Answered(t)
    BY <2>2 DEF Answered
  <2>3. CASE Accepted(t)
    BY <2>1, <2>3 DEF Accepted, Adopted
  <2>4. CASE Watches(t)
    BY <2>1, <2>4 DEF Watches
  <2> QED
    BY <1>8, <2>2, <2>3, <2>4
<1> QED
  BY <1>4, <1>5, <1>6, <1>7, <1>8 DEF Sends

LEMMA OtherTypes ==
  ASSUME TypeInv, [Next]_vars
  PROVE  TypeOK'
<1>1. job' \in [Threads -> Job]
  BY JobStep DEF GoodJob
<1>2. TypeOK
  BY DEF TypeInv
<1>3. /\ job["svc"].goal \in Goals \cup {None}
      /\ job["sub"].cmd \in Velocities
  BY <1>2 DEF TypeOK, Threads, Job
<1>4. "svc" \in Threads /\ "sub" \in Threads /\ Goals \subseteq Threads
  BY DEF Threads
<1>5. CASE \E t \in Threads : \/ TakeOverDetach(t) \/ ManualStop(t)
                             \/ Braking(t) \/ Sends(t)
  BY <1>5, SharedTypes
<1> USE <1>1, <1>2 DEF TypeOK, nav2Vars, msgVars, history
<1>6. CASE \/ HasGoal \/ Detach \/ CancelAnswered \/ CancelAcked
           \/ CancelTimeout \/ Reset \/ LoopConfig \/ CancelPublish
  <2>1. CASE HasGoal \/ CancelAnswered \/ CancelAcked \/ CancelTimeout
    BY <2>1 DEF HasGoal, CancelAnswered, CancelAcked, CancelTimeout
  <2>2. CASE Detach
    BY <2>2, NavTypes DEF Detach, RequestCancel
  <2>3. CASE Reset \/ LoopConfig
    BY <2>3, NavTypes DEF Reset, Convert, LoopConfig
  <2>4. CASE CancelPublish
    <3>1. pendingBrakes + BrakeCount - 1 \in Nat
      BY CountsAssumption
    <3> QED
      BY <1>3, <2>4, <3>1, VelocityNames DEF CancelPublish, RequestCancel
  <2> QED
    BY <1>6, <2>1, <2>2, <2>3, <2>4
<1>7. CASE TeleopTakeOver \/ TeleopCmd \/ Publish \/ WatchdogStop \/ WatchdogMark
  <2>1. CASE TeleopTakeOver
    BY <2>1, TakeOverTypes DEF TeleopTakeOver
  <2>2. CASE TeleopCmd
    BY <1>3, <2>2, ManTypes DEF TeleopCmd
  <2>4. CASE Publish
    <3>1. lateAuto' \in 0..2
      BY <2>4 DEF Publish
    <3> QED
      BY <1>3, <2>4, <3>1 DEF Publish
  <2>3. CASE WatchdogStop \/ WatchdogMark
    BY <2>3, ManTypes, VelocityNames DEF WatchdogStop, WatchdogMark
  <2> QED
    BY <1>7, <2>1, <2>2, <2>3, <2>4
<1>8. ASSUME NEW g \in Goals, Restarted(g) PROVE TypeOK'
  BY <1>8, NavTypes DEF Restarted
<1>9. ASSUME NEW g \in Goals, Result(g) PROVE TypeOK'
  BY <1>9, NavTypes DEF Result
<1>10. CASE Requested
  <2>1. CASE \E loop \in BOOLEAN : SetGoal(loop)
    BY <2>1 DEF SetGoal
  <2>2. CASE CancelGoal \/ BrakeService
    BY <2>2, NavTypes DEF CancelGoal, BrakeService
  <2>3. CASE ManualOn
    BY <2>3, TakeOverTypes DEF ManualOn
  <2>6. CASE ManualOff
    BY <2>6, ManTypes DEF ManualOff
  <2>4. CASE \E v \in Velocities : Teleop(v)
    BY <2>4 DEF Teleop
  <2>5. CASE \E stop \in BOOLEAN : CollisionState(stop)
    BY <2>5 DEF CollisionState
  <2> QED
    BY <1>10, <2>1, <2>2, <2>3, <2>4, <2>5, <2>6 DEF Requested
<1>11. CASE Nav2
  <2>1. ASSUME NEW g \in Goals, NEW s \in {"executing", "rejected"},
               Nav2Answers(g, s)
        PROVE  TypeOK'
    BY <2>1, GoalStateNames DEF Nav2Answers
  <2>2. ASSUME NEW g \in Goals, Nav2Cancels(g) PROVE TypeOK'
    BY <2>2, GoalStateNames DEF Nav2Cancels
  <2>3. ASSUME NEW g \in Goals, NEW s \in Final, Nav2Ends(g, s) PROVE TypeOK'
    BY <2>3, GoalStateNames DEF Nav2Ends
  <2>4. CASE Nav2Drives \/ \E s \in {"active", "inactive"} : Nav2Status(s)
    BY <2>4 DEF Nav2Drives, Nav2Status
  <2> QED
    BY <1>11, <2>1, <2>2, <2>3, <2>4 DEF Nav2
<1>12. CASE \/ AsyncBrake \/ CommandAges \/ Watchdog \/ CmdVelSafe
            \/ ExternalStatus \/ ExternalAges
  <2>1. CASE AsyncBrake
    BY <2>1, VelocityNames DEF AsyncBrake
  <2>4. CASE CommandAges
    BY <2>4, ManTypes DEF CommandAges
  <2>2. CASE Watchdog \/ CmdVelSafe
    BY <2>2 DEF Watchdog, CmdVelSafe
  <2>3. CASE ExternalStatus \/ ExternalAges
    BY <2>3 DEF ExternalStatus, ExternalAges
  <2> QED
    BY <1>12, <2>1, <2>2, <2>3, <2>4
<1>13. CASE UNCHANGED vars
  BY <1>13 DEF vars
<1> QED
  BY <1>4, <1>5, <1>6, <1>7, <1>8, <1>9, <1>10, <1>11, <1>12, <1>13
  DEF Next, SvcStep, SubStep, ResultStep

LEMMA NextTypes == TypeInv /\ [Next]_vars => TypeInv'
BY JobStep, OtherTypes DEF TypeInv

(* Every reachable state is well typed.                                    *)
THEOREM TypeCorrect == Spec => []TypeOK
<1>1. Spec => []TypeInv
  BY InitTypes, NextTypes, PTL DEF Spec
<1>2. TypeInv => TypeOK
  BY DEF TypeInv
<1> QED
  BY <1>1, <1>2, PTL

(***************************************************************************)
(* Manual mode. WatchdogStopHolds and AtMostOneLateVelocity are not        *)
(* inductive: what matters is what the subscription thread is about to do. *)
(* It never holds a publication while the stop of the watchdog stands, it  *)
(* marks that stop only while the output is still, and it holds at most    *)
(* one velocity of Nav2 when manual mode comes on.                         *)
(***************************************************************************)
ManualInv ==
  /\ WatchdogStopHolds
  /\ At("sub", "publish") => ~(man.on /\ man.sent)
  /\ At("sub", "watchdogMark") => out # "move"
  /\ job["sub"].op = "velocity" => At("sub", "publish")
  /\ AtMostOneLateVelocity
  /\ At("sub", "publish") /\ job["sub"].op = "velocity" /\ man.on
       => lateAuto = 0

(* A step that is not the subscription thread's own: it may stop the robot *)
(* and switch manual mode, and it sets nothing in motion.                  *)
Quiet == /\ job'["sub"] = job["sub"]
         /\ out' # "move" \/ out' = out
         /\ \/ /\ man'.on = man.on /\ man'.sent = man.sent
               /\ lateAuto' = lateAuto
            \/ ~man'.on /\ lateAuto' = lateAuto
            \/ ~man'.sent /\ lateAuto' = 0

LEMMA QuietKeepsManualInv == ManualInv /\ Quiet => ManualInv'
BY DEF ManualInv, Quiet, At, WatchdogStopHolds, AtMostOneLateVelocity

LEMMA OtherThreadsQuiet ==
  ASSUME TypeInv, NEW t \in Threads \ {"sub"},
         \/ TakeOverDetach(t) \/ ManualStop(t) \/ Braking(t)
         \/ Sends(t) \/ Restarted(t) \/ Result(t)
  PROVE  Quiet
<1>1. job \in [Threads -> GoodJob] /\ t # "sub" /\ "sub" \in Threads
  BY DEF TypeInv, Threads
<1> USE <1>1 DEF Quiet, history, Goto, Finish, Brake
<1>2. CASE TakeOverDetach(t) \/ ManualStop(t) \/ Braking(t)
  BY <1>2 DEF TakeOverDetach, ManualStop, Braking
<1>3. CASE Send(t) \/ NotSent(t)
  BY <1>3 DEF Send, NotSent, SendFailed
<1>4. CASE Answered(t) \/ Accepted(t) \/ Watches(t)
  BY <1>4 DEF Answered, Accepted, Watches
<1>5. CASE Restarted(t) \/ Result(t)
  BY <1>5 DEF Restarted, Result
<1> QED
  BY <1>2, <1>3, <1>4, <1>5 DEF Sends

LEMMA SvcQuiet ==
  ASSUME TypeInv,
         \/ HasGoal \/ Detach \/ CancelAnswered \/ CancelAcked
         \/ CancelTimeout \/ Reset \/ LoopConfig \/ CancelPublish
         \/ CancelGoal \/ BrakeService \/ ManualOn \/ ManualOff
         \/ \E loop \in BOOLEAN : SetGoal(loop)
  PROVE  Quiet
<1>1. job \in [Threads -> GoodJob] /\ "sub" \in Threads
  BY DEF TypeInv, Threads
<1> USE <1>1 DEF Quiet, history, Goto, Finish, Brake, Start
<1>2. CASE HasGoal \/ CancelAnswered \/ CancelAcked \/ CancelTimeout
  BY <1>2 DEF HasGoal, CancelAnswered, CancelAcked, CancelTimeout, AfterCancel
<1>3. CASE Detach
  BY <1>3 DEF Detach, AfterCancel
<1>4. CASE Reset \/ LoopConfig \/ CancelPublish
  BY <1>4 DEF Reset, Convert, LoopConfig, CancelPublish
<1>5. CASE CancelGoal \/ BrakeService \/ \E loop \in BOOLEAN : SetGoal(loop)
  BY <1>5 DEF CancelGoal, BrakeService, SetGoal
<1>6. CASE ManualOn
  BY <1>6 DEF ManualOn, TakeOver, NoManualCmd
<1>7. CASE ManualOff
  BY <1>7 DEF ManualOff, NoManualCmd
<1> QED
  BY <1>2, <1>3, <1>4, <1>5, <1>6, <1>7

LEMMA EnvironmentQuiet ==
  ASSUME TypeInv,
         AsyncBrake \/ CommandAges \/ ExternalStatus \/ ExternalAges \/ Nav2
  PROVE  Quiet
<1>1. man \in Manual
  BY DEF TypeInv, TypeOK
<1> USE DEF Quiet, history
<1>2. CASE AsyncBrake \/ ExternalStatus \/ ExternalAges
  BY <1>2 DEF AsyncBrake, ExternalStatus, ExternalAges
<1>3. CASE CommandAges
  BY <1>1, <1>3 DEF CommandAges, Manual
<1>4. CASE Nav2
  BY <1>4 DEF Nav2, Nav2Answers, Nav2Cancels, Nav2Ends, Nav2Drives, Nav2Status
<1> QED
  BY <1>2, <1>3, <1>4

(* What a step of the subscription thread makes of its operation and label.*)
LEMMA SubFields ==
  ASSUME TypeInv
  PROVE  /\ \A l \in Labels : Goto("sub", l) =>
                job'["sub"].pc = l /\ job'["sub"].op = job["sub"].op
         /\ Finish("sub") =>
                job'["sub"].pc = "idle" /\ job'["sub"].op = "none"
         /\ \A op \in Operations, l \in Labels, v \in Velocities :
                LET j == NewJob(op, l) IN
                /\ Start("sub", j) => job'["sub"].pc = l /\ job'["sub"].op = op
                /\ Start("sub", [j EXCEPT !.cmd = v]) =>
                     job'["sub"].pc = l /\ job'["sub"].op = op
                /\ Start("sub", [j EXCEPT !.left = BrakeCount]) =>
                     job'["sub"].pc = l /\ job'["sub"].op = op
<1>1. job \in [Threads -> GoodJob] /\ job["sub"] \in Job /\ "sub" \in Threads
  BY DEF TypeInv, Threads, GoodJob
<1>2. \A l \in Labels : Goto("sub", l) =>
        job'["sub"].pc = l /\ job'["sub"].op = job["sub"].op
  BY <1>1 DEF Goto, Job
<1>3. Finish("sub") => job'["sub"].pc = "idle" /\ job'["sub"].op = "none"
  BY <1>1 DEF Finish, IdleJob
<1>4. ASSUME NEW op \in Operations, NEW l \in Labels, NEW v \in Velocities
      PROVE  LET j == NewJob(op, l) IN
             /\ Start("sub", j) => job'["sub"].pc = l /\ job'["sub"].op = op
             /\ Start("sub", [j EXCEPT !.cmd = v]) =>
                  job'["sub"].pc = l /\ job'["sub"].op = op
             /\ Start("sub", [j EXCEPT !.left = BrakeCount]) =>
                  job'["sub"].pc = l /\ job'["sub"].op = op
  BY <1>1 DEF Start, NewJob, IdleJob
<1> QED
  BY <1>2, <1>3, <1>4

LEMMA SubBraking ==
  ASSUME TypeInv, Braking("sub")
  PROVE  /\ job'["sub"].pc \in {"idle", "braking"}
         /\ job'["sub"].op \in {"none", job["sub"].op}
<1>1. job \in [Threads -> GoodJob] /\ job["sub"] \in Job /\ "sub" \in Threads
  BY DEF TypeInv, Threads, GoodJob
<1> QED
  BY <1>1, SubFields DEF Braking, At, Job

(* The subscription thread's own steps.                                    *)
LEMMA SubKeepsManualInv ==
  ASSUME TypeInv, ManualInv,
         \/ SubStep \/ Watchdog \/ CmdVelSafe
         \/ \E v \in Velocities : Teleop(v)
         \/ \E stop \in BOOLEAN : CollisionState(stop)
  PROVE  ManualInv'
<1>1. man \in Manual /\ lateAuto \in 0..2
  BY DEF TypeInv, TypeOK
<1> USE SubFields, LabelNames, OperationNames, VelocityNames
    DEF ManualInv, At, WatchdogStopHolds, AtMostOneLateVelocity, history
<1>2. CASE TeleopTakeOver
  <2>1. ~man'.sent /\ lateAuto' = 0
    BY <1>2 DEF TeleopTakeOver, TakeOver, NoManualCmd
  <2>2. job'["sub"].pc \in {"manualStop", "takeoverDetach"}
        /\ job'["sub"].op = job["sub"].op
    BY <1>2 DEF TeleopTakeOver
  <2> QED
    BY <1>2, <2>1, <2>2 DEF TeleopTakeOver
<1>3. CASE TakeOverDetach("sub") \/ ManualStop("sub")
  <2>1. job'["sub"].pc \in {"manualStop", "teleopCmd"}
        /\ job'["sub"].op = job["sub"].op
    BY <1>3 DEF TakeOverDetach, ManualStop
  <2> QED
    BY <1>3, <2>1 DEF TakeOverDetach, ManualStop
<1>4. CASE TeleopCmd
  <2>1. CASE man.on
    <3>1. ~man'.sent
      BY <1>1, <1>4, <2>1 DEF TeleopCmd, Commanded, Manual
    <3>2. job'["sub"].pc = "publish" /\ job'["sub"].op = job["sub"].op
      BY <1>4, <2>1 DEF TeleopCmd
    <3> QED
      BY <1>4, <3>1, <3>2 DEF TeleopCmd
  <2>2. CASE ~man.on
    <3>1. job'["sub"].pc = "idle" /\ job'["sub"].op = "none"
      BY <1>4, <2>2 DEF TeleopCmd
    <3> QED
      BY <1>4, <2>2, <3>1 DEF TeleopCmd
  <2> QED
    BY <2>1, <2>2
<1>5. CASE Publish
  <2>1. job'["sub"].pc = "idle" /\ job'["sub"].op = "none"
    BY <1>5 DEF Publish
  <2>2. lateAuto' <= 1
    BY <1>1, <1>5 DEF Publish
  <2>3. ~(man'.on /\ man'.sent)
    BY <1>5 DEF Publish
  <2> QED
    BY <2>1, <2>2, <2>3
<1>6. CASE WatchdogStop \/ Braking("sub")
  <2>1. job'["sub"].pc \in {"watchdogMark", "idle", "braking"}
    BY <1>6, SubBraking DEF WatchdogStop
  <2>2. job["sub"].op # "velocity"
    BY <1>6 DEF WatchdogStop, Braking
  <2>3. job'["sub"].op # "velocity"
    BY <1>6, <2>2, SubBraking DEF WatchdogStop
  <2> QED
    BY <1>6, <2>1, <2>3 DEF WatchdogStop, Braking
<1>7. CASE WatchdogMark
  <2>1. job'["sub"].pc = "idle" /\ job'["sub"].op = "none"
    BY <1>7 DEF WatchdogMark
  <2> QED
    BY <1>7, <2>1 DEF WatchdogMark
<1>8. CASE Watchdog
  <2>1. job'["sub"].pc = "watchdogStop" /\ job'["sub"].op = "watchdog"
    BY <1>8 DEF Watchdog
  <2> QED
    BY <1>8, <2>1 DEF Watchdog
<1>9. CASE CmdVelSafe
  <2>1. CASE Forwarding
    <3>1. ~man.on
      BY <2>1 DEF Forwarding
    <3>2. job'["sub"].pc = "publish"
      BY <1>9, <2>1 DEF CmdVelSafe
    <3> QED
      BY <1>9, <3>1, <3>2 DEF CmdVelSafe
  <2>2. CASE ~Forwarding
    BY <1>9, <2>2 DEF CmdVelSafe
  <2> QED
    BY <2>1, <2>2
<1>10. CASE \E v \in Velocities : Teleop(v)
  <2>1. job'["sub"].pc \in {"teleopCmd", "takeover"}
        /\ job'["sub"].op = "teleop"
    BY <1>10 DEF Teleop
  <2> QED
    BY <1>10, <2>1 DEF Teleop
<1>11. CASE \E stop \in BOOLEAN : CollisionState(stop)
  <2>1. \/ job'["sub"] = job["sub"]
        \/ job'["sub"].pc = "braking" /\ job'["sub"].op = "collision"
    BY <1>11 DEF CollisionState
  <2> QED
    BY <1>11, <2>1 DEF CollisionState
<1> QED
  BY <1>2, <1>3, <1>4, <1>5, <1>6, <1>7, <1>8, <1>9, <1>10, <1>11 DEF SubStep

LEMMA ManualStep == TypeInv /\ ManualInv /\ [Next]_vars => ManualInv'
<1> SUFFICES ASSUME TypeInv, ManualInv, [Next]_vars PROVE ManualInv'
  OBVIOUS
<1>1. "svc" \in Threads \ {"sub"} /\ Goals \subseteq Threads \ {"sub"}
  BY ThreadNames DEF Threads
<1>2. CASE Next
  <2>1. CASE SvcStep
    BY <1>1, <2>1, SvcQuiet, OtherThreadsQuiet, QuietKeepsManualInv DEF SvcStep
  <2>2. CASE \E g \in Goals : ResultStep(g) \/ Result(g)
    BY <1>1, <2>2, OtherThreadsQuiet, QuietKeepsManualInv DEF ResultStep
  <2>3. CASE Requested
    BY <2>3, SvcQuiet, QuietKeepsManualInv, SubKeepsManualInv DEF Requested
  <2>4. CASE SubStep \/ Watchdog \/ CmdVelSafe
    BY <2>4, SubKeepsManualInv
  <2>5. CASE AsyncBrake \/ CommandAges \/ ExternalStatus \/ ExternalAges \/ Nav2
    BY <2>5, EnvironmentQuiet, QuietKeepsManualInv
  <2> QED
    BY <1>2, <2>1, <2>2, <2>3, <2>4, <2>5 DEF Next
<1>3. CASE UNCHANGED vars
  BY <1>3 DEF vars, ManualInv, At, WatchdogStopHolds, AtMostOneLateVelocity,
              history
<1> QED
  BY <1>2, <1>3

LEMMA ManualInit == Init => ManualInv
<1> SUFFICES ASSUME Init PROVE ManualInv
  OBVIOUS
<1>1. job["sub"] = IdleJob
  BY DEF Init, Threads
<1> QED
  BY <1>1 DEF Init, ManualInv, At, IdleJob, NoManualCmd, WatchdogStopHolds,
              AtMostOneLateVelocity

LEMMA ManualInvariant == Spec => []ManualInv
BY InitTypes, NextTypes, ManualInit, ManualStep, PTL DEF Spec

(* The stop the watchdog published in manual mode stands until a new       *)
(* teleop command: nothing already running can undo it.                    *)
THEOREM WatchdogStopHoldsAlways == Spec => []WatchdogStopHolds
<1>1. ManualInv => WatchdogStopHolds
  BY DEF ManualInv
<1> QED
  BY <1>1, ManualInvariant, PTL

(* However the threads interleave, at most one velocity of Nav2 is still   *)
(* published after manual mode came on.                                    *)
THEOREM OneLateVelocity == Spec => []AtMostOneLateVelocity
<1>1. ManualInv => AtMostOneLateVelocity
  BY DEF ManualInv
<1> QED
  BY <1>1, ManualInvariant, PTL
(***************************************************************************)
(* Goals and loops. The three properties hold because of who may write     *)
(* what: the loop waypoints are stored only by set_goal, whose thread then *)
(* cannot be about to adopt a point-to-point goal, and a result callback   *)
(* only ever sends loop segments; after a cancel no set_goal is running.   *)
(***************************************************************************)
SendLabels == {"send", "sendWait", "sendDone", "watch"}
Sending(t) == job[t].pc \in SendLabels
CancelLabels == {"detach", "cancelWait", "cancelDone"}
SetGoalLabels == {"hasGoal", "reset", "loopConfig"} \cup SendLabels
TrackInv ==
  /\ TrackedGoalIsWatched
  /\ PlanOnlyWhileLooping
  /\ Sending("svc") /\ ~job["svc"].flag => ~nav.plan
  /\ \A g \in Goals : Sending(g) => job[g].flag
  /\ cancelled => /\ ~nav.plan
                  /\ job["svc"].pc \notin SetGoalLabels
                  /\ job["svc"].pc \in CancelLabels
                       => job["svc"].op = "brake"

(* What most steps do to the goal: keep it or drop it.                     *)
NavShrinks == /\ nav'.handle \in {None, nav.handle}
              /\ nav'.plan => nav.plan /\ nav'.loopOn
              /\ nav'.handle # None => watched' = watched

LEMMA NavShapes ==
  ASSUME TypeInv, TrackInv
  PROVE  /\ nav' = nav /\ watched' = watched => NavShrinks
         /\ nav' = Detached => NavShrinks
         /\ nav' = [NoGoal EXCEPT !.handle = nav.handle]
              /\ watched' = watched => NavShrinks
         /\ nav' = [nav EXCEPT !.active = FALSE, !.mode = "idle"]
              /\ watched' = watched => NavShrinks
         /\ nav' = [nav EXCEPT !.active = TRUE, !.mode = "loop"]
              /\ watched' = watched => NavShrinks
         /\ nav' = WithoutHandle(nav) => NavShrinks
         /\ nav' = [WithoutHandle(nav) EXCEPT !.active = FALSE, !.mode = "idle"]
              => NavShrinks
<1>1. nav \in Tracking /\ (nav.plan => nav.loopOn)
  BY DEF TypeInv, TypeOK, TrackInv, PlanOnlyWhileLooping
<1> USE <1>1 DEF NavShrinks, NoGoal, Tracking
<1>2. nav' = nav /\ watched' = watched => NavShrinks
  OBVIOUS
<1>3. nav' = Detached => NavShrinks
  BY DEF Detached
<1>4. nav' = [NoGoal EXCEPT !.handle = nav.handle] /\ watched' = watched
        => NavShrinks
  OBVIOUS
<1>5. nav' = [nav EXCEPT !.active = FALSE, !.mode = "idle"]
        /\ watched' = watched => NavShrinks
  OBVIOUS
<1>6. nav' = [nav EXCEPT !.active = TRUE, !.mode = "loop"]
        /\ watched' = watched => NavShrinks
  OBVIOUS
<1>7. nav' = WithoutHandle(nav) => NavShrinks
  BY DEF WithoutHandle
<1>8. nav' = [WithoutHandle(nav) EXCEPT !.active = FALSE, !.mode = "idle"]
        => NavShrinks
  BY DEF WithoutHandle
<1> QED
  BY <1>2, <1>3, <1>4, <1>5, <1>6, <1>7, <1>8

(* Steps of the subscription thread and of the environment.                *)
Aside == /\ NavShrinks
         /\ cancelled' = cancelled
         /\ \A t \in Threads \ {"sub"} : job'[t] = job[t]

LEMMA AsideKeepsTrackInv == TypeInv /\ TrackInv /\ Aside => TrackInv'
<1> SUFFICES ASSUME TypeInv, TrackInv, Aside PROVE TrackInv'
  OBVIOUS
<1>1. "svc" \in Threads \ {"sub"} /\ Goals \subseteq Threads \ {"sub"}
  BY ThreadNames DEF Threads
<1> QED
  BY <1>1 DEF TrackInv, Aside, NavShrinks, TrackedGoalIsWatched,
              PlanOnlyWhileLooping, Sending, At

LEMMA SubAside ==
  ASSUME TypeInv, TrackInv,
         \/ SubStep \/ Watchdog \/ CmdVelSafe
         \/ \E v \in Velocities : Teleop(v)
         \/ \E stop \in BOOLEAN : CollisionState(stop)
  PROVE  Aside
<1>1. job \in [Threads -> GoodJob] /\ "sub" \in Threads
  BY DEF TypeInv, Threads
<1> USE <1>1 DEF history, nav2Vars, Goto, Finish, Start
<1>2. CASE TeleopTakeOver
  BY <1>2, NavShapes DEF TeleopTakeOver, TakeOver, Aside
<1>3. CASE TakeOverDetach("sub")
  BY <1>3, NavShapes DEF TakeOverDetach, Aside
<1>4. CASE \/ ManualStop("sub") \/ TeleopCmd \/ Publish \/ WatchdogStop
           \/ WatchdogMark \/ Braking("sub")
  BY <1>4, NavShapes DEF ManualStop, TeleopCmd, Publish, WatchdogStop,
                         WatchdogMark, Braking, Aside
<1>5. CASE Watchdog \/ CmdVelSafe
  BY <1>5, NavShapes DEF Watchdog, CmdVelSafe, Aside
<1>6. CASE \/ \E v \in Velocities : Teleop(v)
           \/ \E stop \in BOOLEAN : CollisionState(stop)
  BY <1>6, NavShapes DEF Teleop, CollisionState, Aside
<1> QED
  BY <1>2, <1>3, <1>4, <1>5, <1>6 DEF SubStep

LEMMA EnvironmentAside ==
  ASSUME TypeInv, TrackInv,
         AsyncBrake \/ CommandAges \/ ExternalStatus \/ ExternalAges \/ Nav2
  PROVE  Aside
<1> USE NavShapes DEF history, nav2Vars, Aside
<1>1. CASE AsyncBrake \/ CommandAges \/ ExternalStatus \/ ExternalAges
  BY <1>1 DEF AsyncBrake, CommandAges, ExternalStatus, ExternalAges
<1>2. CASE Nav2
  BY <1>2 DEF Nav2, Nav2Answers, Nav2Cancels, Nav2Ends, Nav2Drives, Nav2Status
<1> QED
  BY <1>1, <1>2

(* Fields of the job of a thread other than "sub" after a step.            *)
LEMMA Fields ==
  ASSUME TypeInv, NEW t \in Threads
  PROVE  /\ \A l \in Labels : Goto(t, l) =>
              /\ job'[t].pc = l /\ job'[t].op = job[t].op
              /\ job'[t].flag = job[t].flag
         /\ Finish(t) => job'[t].pc = "idle"
         /\ Brake(t) => job'[t].pc = "braking"
         /\ \A op \in Operations, l \in Labels, g \in Goals \cup {None},
               f \in BOOLEAN :
              LET j == NewJob(op, l) IN
              /\ Start(t, j) => job'[t].pc = l /\ job'[t].op = op
              /\ Start(t, [j EXCEPT !.flag = f]) => job'[t].pc = l
              /\ Start(t, [j EXCEPT !.goal = g, !.flag = f]) => job'[t].pc = l
              /\ Start(t, [j EXCEPT !.left = BrakeCount]) => job'[t].pc = l
         /\ \A l \in Labels : \/ Goto(t, l) \/ Finish(t) \/ Brake(t)
              => \A u \in Threads \ {t} : job'[u] = job[u]
         /\ \A j : Start(t, j) => \A u \in Threads \ {t} : job'[u] = job[u]
<1>1. job \in [Threads -> GoodJob] /\ job[t] \in Job
  BY DEF TypeInv, GoodJob
<1>2. \A l \in Labels : Goto(t, l) =>
        /\ job'[t].pc = l /\ job'[t].op = job[t].op
        /\ job'[t].flag = job[t].flag
  BY <1>1 DEF Goto, Job
<1>3. Finish(t) => job'[t].pc = "idle"
  BY <1>1 DEF Finish, IdleJob
<1>4. Brake(t) => job'[t].pc = "braking"
  BY <1>1 DEF Brake, Job
<1>5. ASSUME NEW op \in Operations, NEW l \in Labels, NEW f \in BOOLEAN,
             NEW g \in Goals \cup {None}
      PROVE  LET j == NewJob(op, l) IN
             /\ Start(t, j) => job'[t].pc = l /\ job'[t].op = op
             /\ Start(t, [j EXCEPT !.flag = f]) => job'[t].pc = l
             /\ Start(t, [j EXCEPT !.goal = g, !.flag = f]) => job'[t].pc = l
             /\ Start(t, [j EXCEPT !.left = BrakeCount]) => job'[t].pc = l
  BY <1>1 DEF Start, NewJob, IdleJob
<1>6. \A l \in Labels : \/ Goto(t, l) \/ Finish(t) \/ Brake(t)
        => \A u \in Threads \ {t} : job'[u] = job[u]
  BY <1>1 DEF Goto, Finish, Brake
<1>7. \A j : Start(t, j) => \A u \in Threads \ {t} : job'[u] = job[u]
  BY <1>1 DEF Start
<1> QED
  BY <1>2, <1>3, <1>4, <1>5, <1>6, <1>7

(* What a step of the service thread, or of a result callback, must leave  *)
(* for the invariant to hold, when it keeps or drops the goal.             *)
SvcSafe == LET j == job'["svc"] IN
  /\ NavShrinks
  /\ \A u \in Threads \ {"svc"} : job'[u] = job[u]
  /\ ~At("svc", "watch")
  /\ j.pc \in SendLabels => j.flag \/ ~nav'.plan
  /\ cancelled' => /\ cancelled
                   /\ j.pc \notin SetGoalLabels
                   /\ j.pc \in CancelLabels => j.op = "brake"

LEMMA SvcSafeKeepsTrackInv == TypeInv /\ TrackInv /\ SvcSafe => TrackInv'
<1> SUFFICES ASSUME TypeInv, TrackInv, SvcSafe PROVE TrackInv'
  OBVIOUS
<1>1. Goals \subseteq Threads \ {"svc"}
  BY ThreadNames DEF Threads
<1> QED
  BY <1>1 DEF TrackInv, SvcSafe, NavShrinks, TrackedGoalIsWatched,
              PlanOnlyWhileLooping, Sending, At

ResultSafe(g) ==
  /\ NavShrinks
  /\ cancelled' = cancelled
  /\ \A u \in Threads \ {g} : job'[u] = job[u]
  /\ ~At(g, "watch")
  /\ job'[g].pc \in SendLabels => job'[g].flag

LEMMA ResultSafeKeepsTrackInv ==
  ASSUME TypeInv, TrackInv, NEW g \in Goals, ResultSafe(g)
  PROVE  TrackInv'
<1>1. "svc" \in Threads \ {g} /\ \A h \in Goals \ {g} : h \in Threads \ {g}
  BY ThreadNames DEF Threads
<1> QED
  BY <1>1 DEF TrackInv, ResultSafe, NavShrinks, TrackedGoalIsWatched,
              PlanOnlyWhileLooping, Sending, At

(* The flags and records that the fields of a new job come from.           *)
LEMMA SvcThread ==
  TypeInv => /\ "svc" \in Threads /\ job["svc"] \in Job
             /\ job \in [Threads -> GoodJob]
             /\ man.on \in BOOLEAN /\ nav.handle \in Goals \cup {None}
BY DEF TypeInv, TypeOK, Threads, Manual, Tracking, GoodJob

LEMMA SvcEndsSafe ==
  ASSUME TypeInv, TrackInv,
         \/ CancelTimeout \/ CancelPublish \/ Braking("svc") \/ NotSent("svc")
         \/ TakeOverDetach("svc") \/ ManualStop("svc")
         \/ ManualOn \/ ManualOff \/ BrakeService
  PROVE  SvcSafe
<1> DEFINE Moves(L) == /\ job'["svc"].pc \in L
                       /\ \A u \in Threads \ {"svc"} : job'[u] = job[u]
<1> USE SvcThread DEF history, nav2Vars
<1>b. ~At("svc", "watch")
  BY DEF CancelTimeout, CancelPublish, Braking, NotSent, TakeOverDetach,
         ManualStop, ManualOn, ManualOff, BrakeService, Start, At
<1>a. ASSUME Moves({"idle", "braking", "manualStop", "takeoverDetach"}),
             NavShrinks, cancelled' = cancelled
      PROVE  SvcSafe
  BY <1>a, <1>b DEF SvcSafe, SetGoalLabels, SendLabels, CancelLabels
<1> USE DEF Goto, Finish, Brake, Start, NewJob, IdleJob, Job
<1>1. CASE CancelTimeout
  <2>1. Moves({"idle", "braking"})
    BY <1>1 DEF CancelTimeout, AfterCancel
  <2>2. NavShrinks /\ cancelled' = cancelled
    BY <1>1, NavShapes DEF CancelTimeout, AfterCancel
  <2> QED
    BY <1>a, <2>1, <2>2
<1>2. CASE CancelPublish
  <2>1. Moves({"idle"})
    BY <1>2 DEF CancelPublish
  <2>2. NavShrinks /\ cancelled' = cancelled
    BY <1>2, NavShapes DEF CancelPublish
  <2> QED
    BY <1>a, <2>1, <2>2
<1>3. CASE Braking("svc")
  <2>0. Finish("svc") \/ \E n : job' = [job EXCEPT !["svc"].left = n]
    BY <1>3 DEF Braking
  <2>1. Moves({"idle", "braking"})
    BY <1>3, <2>0 DEF Braking, At
  <2>2. NavShrinks /\ cancelled' = cancelled
    BY <1>3, NavShapes DEF Braking
  <2> QED
    BY <1>a, <2>1, <2>2
<1>4. CASE NotSent("svc")
  <2>1. Moves({"idle"})
    BY <1>4 DEF NotSent, SendFailed
  <2>2. NavShrinks /\ cancelled' = cancelled
    BY <1>4, NavShapes DEF NotSent, SendFailed
  <2> QED
    BY <1>a, <2>1, <2>2
<1>5. CASE TakeOverDetach("svc")
  <2>1. Moves({"manualStop"})
    BY <1>5 DEF TakeOverDetach
  <2>2. NavShrinks /\ cancelled' = cancelled
    BY <1>5, NavShapes DEF TakeOverDetach
  <2> QED
    BY <1>a, <2>1, <2>2
<1>6. CASE ManualStop("svc")
  <2>1. Moves({"idle"})
    BY <1>6 DEF ManualStop
  <2>2. NavShrinks /\ cancelled' = cancelled
    BY <1>6, NavShapes DEF ManualStop
  <2> QED
    BY <1>a, <2>1, <2>2
<1>7. CASE ManualOn
  <2>1. Moves({"manualStop", "takeoverDetach"})
    BY <1>7 DEF ManualOn, TakeOver
  <2>2. NavShrinks /\ cancelled' = cancelled
    BY <1>7, NavShapes DEF ManualOn, TakeOver
  <2> QED
    BY <1>a, <2>1, <2>2
<1>8. CASE ManualOff
  <2>1. Moves({"manualStop"})
    BY <1>8 DEF ManualOff
  <2>2. NavShrinks /\ cancelled' = cancelled
    BY <1>8, NavShapes DEF ManualOff
  <2> QED
    BY <1>a, <2>1, <2>2
<1>9. CASE BrakeService
  <2>1. \A u \in Threads \ {"svc"} : job'[u] = job[u]
    BY <1>9 DEF BrakeService
  <2>2. \/ job'["svc"].pc = "braking"
        \/ job'["svc"].pc = "detach" /\ job'["svc"].op = "brake"
    BY <1>9 DEF BrakeService
  <2>3. NavShrinks /\ cancelled' = cancelled
    BY <1>9, NavShapes DEF BrakeService
  <2>4. /\ job'["svc"].pc \notin SetGoalLabels \cup SendLabels
        /\ job'["svc"].pc \in CancelLabels => job'["svc"].op = "brake"
    BY <2>2 DEF SetGoalLabels, SendLabels, CancelLabels
  <2> QED
    BY <1>b, <2>1, <2>3, <2>4 DEF SvcSafe
<1> QED
  BY <1>1, <1>2, <1>3, <1>4, <1>5, <1>6, <1>7, <1>8, <1>9

LEMMA SvcStepsSafe ==
  ASSUME TypeInv, TrackInv,
         \/ HasGoal \/ Detach \/ CancelAnswered \/ CancelAcked \/ Reset
         \/ Send("svc") \/ Answered("svc")
         \/ \E loop \in BOOLEAN : SetGoal(loop)
  PROVE  SvcSafe
<1> DEFINE Others == \A u \in Threads \ {"svc"} : job'[u] = job[u]
<1>a. /\ cancelled => /\ ~nav.plan
                      /\ job["svc"].pc \notin SetGoalLabels
                      /\ job["svc"].pc \in CancelLabels
                           => job["svc"].op = "brake"
      /\ job["svc"].pc \in SendLabels /\ ~job["svc"].flag => ~nav.plan
  BY DEF TrackInv, At, Sending
<1>b. ~At("svc", "watch")
  BY DEF HasGoal, Detach, CancelAnswered, CancelAcked, Reset, Send, Answered,
         SetGoal, Start, At
<1> USE <1>b, SvcThread
    DEF history, nav2Vars, At, SetGoalLabels, SendLabels, CancelLabels
<1>1. CASE HasGoal
  <2>1. Others /\ job'["svc"].pc \in {"reset", "detach"}
    BY <1>1 DEF HasGoal, Goto, Job
  <2>2. NavShrinks /\ ~cancelled'
    BY <1>1, <1>a, NavShapes DEF HasGoal
  <2> QED
    BY <2>1, <2>2 DEF SvcSafe
<1>2. CASE Detach
  <2>1. Others /\ \/ job'["svc"].pc \in {"idle", "braking"}
                  \/ /\ job'["svc"].pc = "cancelWait"
                     /\ job'["svc"].op = job["svc"].op
    BY <1>2 DEF Detach, AfterCancel, Finish, Brake, IdleJob, Job
  <2>2. NavShrinks /\ cancelled' = cancelled /\ job["svc"].pc = "detach"
    BY <1>2, NavShapes DEF Detach
  <2> QED
    BY <1>a, <2>1, <2>2 DEF SvcSafe
<1>7. CASE CancelAnswered
  <2>1. /\ Others /\ job'["svc"].pc = "cancelDone"
        /\ job'["svc"].op = job["svc"].op
    BY <1>7 DEF CancelAnswered, Goto, Job
  <2>2. NavShrinks /\ cancelled' = cancelled /\ job["svc"].pc = "cancelWait"
    BY <1>7, NavShapes DEF CancelAnswered
  <2> QED
    BY <1>a, <2>1, <2>2 DEF SvcSafe
<1>3. CASE CancelAcked
  <2>1. Others /\ \/ job'["svc"].pc = "braking"
                  \/ job'["svc"].pc = "reset" /\ job["svc"].op # "brake"
    BY <1>3 DEF CancelAcked, AfterCancel, Goto, Brake, Job
  <2>2. NavShrinks /\ cancelled' = cancelled /\ job["svc"].pc = "cancelDone"
    BY <1>3, NavShapes DEF CancelAcked
  <2> QED
    BY <1>a, <2>1, <2>2 DEF SvcSafe
<1>4. CASE Reset
  <2>1. Others /\ job'["svc"].pc \in {"send", "idle"}
    BY <1>4 DEF Reset, Convert, Goto, Finish, IdleJob, Job
  <2>2. NavShrinks /\ cancelled' = cancelled /\ job["svc"].pc = "reset"
    BY <1>4, NavShapes DEF Reset, Convert
  <2>3. ~nav'.plan
    BY <1>4 DEF Reset, Convert, NoGoal
  <2> QED
    BY <1>a, <2>1, <2>2, <2>3 DEF SvcSafe
<1>5. CASE Send("svc") \/ Answered("svc")
  <2>0. \/ \E h : job' = [job EXCEPT !["svc"].pc = "sendWait",
                                     !["svc"].goal = h]
        \/ job' = [job EXCEPT !["svc"].pc = "sendDone"]
    BY <1>5 DEF Send, Answered, Goto
  <2>1. /\ Others /\ job'["svc"].pc \in {"sendWait", "sendDone"}
        /\ job'["svc"].flag = job["svc"].flag
    BY <2>0 DEF Job
  <2>2. /\ NavShrinks /\ cancelled' = cancelled
        /\ nav' = nav /\ job["svc"].pc \in {"send", "sendWait"}
    BY <1>5, NavShapes DEF Send, Answered
  <2> QED
    BY <1>a, <2>1, <2>2 DEF SvcSafe
<1>6. CASE \E loop \in BOOLEAN : SetGoal(loop)
  <2>1. Others /\ job'["svc"].pc = "hasGoal"
    BY <1>6 DEF SetGoal, Start, NewJob, IdleJob
  <2>2. NavShrinks /\ ~cancelled'
    BY <1>6, NavShapes DEF SetGoal
  <2> QED
    BY <2>1, <2>2 DEF SvcSafe
<1> QED
  BY <1>1, <1>2, <1>3, <1>4, <1>5, <1>6, <1>7

LEMMA ResultStepsSafe ==
  ASSUME TypeInv, TrackInv, NEW g \in Goals,
         \/ Send(g) \/ Answered(g) \/ NotSent(g) \/ Restarted(g)
         \/ Braking(g) \/ Result(g)
  PROVE  ResultSafe(g)
<1> DEFINE Others == \A u \in Threads \ {g} : job'[u] = job[u]
<1>1. /\ g \in Threads /\ g # "svc" /\ job[g] \in Job
      /\ job \in [Threads -> GoodJob]
  BY ThreadNames DEF TypeInv, Threads, GoodJob
<1> USE <1>1 DEF history, nav2Vars, At
<1>b. ~At(g, "watch")
  BY DEF Send, Answered, NotSent, Restarted, Braking, Result
<1>a. ASSUME Others, job'[g].pc \in {"restarted", "idle", "braking"},
             NavShrinks, cancelled' = cancelled
      PROVE  ResultSafe(g)
  BY <1>a, <1>b DEF ResultSafe, SendLabels
<1>2. CASE Send(g) \/ Answered(g)
  <2>0. \/ \E h : job' = [job EXCEPT ![g].pc = "sendWait", ![g].goal = h]
        \/ job' = [job EXCEPT ![g].pc = "sendDone"]
    BY <1>2 DEF Send, Answered, Goto
  <2>1. /\ Others /\ job'[g].flag = job[g].flag
    BY <2>0 DEF Job
  <2>2. NavShrinks /\ cancelled' = cancelled /\ job[g].flag
    BY <1>2, NavShapes DEF Send, Answered, TrackInv, Sending, SendLabels
  <2> QED
    BY <1>b, <2>1, <2>2 DEF ResultSafe
<1>3. CASE NotSent(g)
  <2>1. Others /\ job'[g].pc = "restarted"
    BY <1>3 DEF NotSent, SendFailed, Job
  <2>2. NavShrinks /\ cancelled' = cancelled
    BY <1>3, NavShapes DEF NotSent, SendFailed
  <2> QED
    BY <1>a, <2>1, <2>2
<1>4. CASE Restarted(g)
  <2>1. Others /\ job'[g].pc \in {"idle", "braking"}
    BY <1>4 DEF Restarted, Finish, Brake, IdleJob, Job
  <2>2. NavShrinks /\ cancelled' = cancelled
    BY <1>4, NavShapes DEF Restarted
  <2> QED
    BY <1>a, <2>1, <2>2
<1>5. CASE Braking(g)
  <2>0. Finish(g) \/ \E n : job' = [job EXCEPT ![g].left = n]
    BY <1>5 DEF Braking
  <2>1. Others /\ job'[g].pc \in {"idle", "braking"}
    BY <1>5, <2>0 DEF Braking, Finish, IdleJob, Job
  <2>2. NavShrinks /\ cancelled' = cancelled
    BY <1>5, NavShapes DEF Braking
  <2> QED
    BY <1>a, <2>1, <2>2
<1>6. CASE Result(g)
  <2>1. \/ job' = job /\ job[g].pc = "idle"
        \/ job' = [job EXCEPT ![g] =
                     [NewJob("result", "send") EXCEPT !.flag = TRUE]]
        \/ job' = [job EXCEPT ![g] =
                     [NewJob("result", "braking") EXCEPT !.left = BrakeCount]]
    BY <1>6 DEF Result
  <2>2. /\ Others
        /\ \/ job'[g].pc \in {"idle", "braking"}
           \/ job'[g].pc = "send" /\ job'[g].flag
    BY <2>1 DEF NewJob, IdleJob
  <2>3. NavShrinks /\ cancelled' = cancelled
    BY <1>6, NavShapes DEF Result, Detached
  <2> QED
    BY <1>b, <2>2, <2>3 DEF ResultSafe, SendLabels
<1> QED
  BY <1>2, <1>3, <1>4, <1>5, <1>6

(* The steps that give the node a goal, a loop plan, or a cancel.          *)
LEMMA AcceptedFields ==
  ASSUME TypeInv, NEW t \in Threads, Accepted(t)
  PROVE  /\ job[t].pc = "sendDone" /\ cancelled' = cancelled
         /\ \A u \in Threads \ {t} : job'[u] = job[u]
         /\ job'[t].pc = "watch" /\ job'[t].flag = job[t].flag
         /\ nav'.handle = job'[t].goal /\ nav'.plan = nav.plan
         /\ nav'.loopOn = job[t].flag /\ nav'.active
<1>1. /\ job[t] \in Job /\ job \in [Threads -> GoodJob]
      /\ nav \in Tracking
  BY DEF TypeInv, TypeOK, GoodJob
<1>2. job[t].pc = "sendDone" /\ cancelled' = cancelled /\ Goto(t, "watch")
  BY DEF Accepted, At, history
<1>3. /\ \A u \in Threads \ {t} : job'[u] = job[u]
      /\ job'[t].pc = "watch" /\ job'[t].flag = job[t].flag
      /\ job'[t].goal = job[t].goal
  BY <1>1, <1>2 DEF Goto, Job
<1>4. PICK m : nav' = [nav EXCEPT !.active = TRUE, !.handle = job[t].goal,
                                  !.loopOn = job[t].flag, !.mode = m]
  BY DEF Accepted, Adopted
<1>5. /\ nav'.handle = job[t].goal /\ nav'.plan = nav.plan
      /\ nav'.loopOn = job[t].flag /\ nav'.active
  BY <1>1, <1>4 DEF Tracking
<1> QED
  BY <1>2, <1>3, <1>5

LEMMA AcceptedKeepsTrackInv ==
  ASSUME TypeInv, TrackInv, NEW t \in Threads \ {"sub"}, Accepted(t)
  PROVE  TrackInv'
<1>0. t \in {"svc"} \cup Goals
  BY DEF Threads
<1>1. nav.plan => job[t].flag
  BY <1>0, AcceptedFields DEF TrackInv, Sending, SendLabels, At
<1>2. TrackedGoalIsWatched' /\ PlanOnlyWhileLooping'
  BY <1>0, <1>1, AcceptedFields
  DEF TrackedGoalIsWatched, PlanOnlyWhileLooping, At
<1>3. \A g \in Goals : Sending(g)' => job'[g].flag
  BY <1>0, AcceptedFields, ThreadNames
  DEF TrackInv, Sending, SendLabels, At, Threads
<1>4. /\ Sending("svc")' /\ ~job'["svc"].flag => ~nav'.plan
      /\ cancelled' => /\ ~nav'.plan
                       /\ job'["svc"].pc \notin SetGoalLabels
                       /\ job'["svc"].pc \in CancelLabels
                            => job'["svc"].op = "brake"
  <2>1. CASE t = "svc"
    BY <2>1, AcceptedFields
    DEF TrackInv, Sending, At, SetGoalLabels, SendLabels
  <2>2. CASE t # "svc"
    <3>1. job'["svc"] = job["svc"]
      BY <2>2, AcceptedFields DEF Threads
    <3> QED
      BY <3>1, AcceptedFields DEF TrackInv, Sending, At
  <2> QED
    BY <2>1, <2>2
<1> QED
  BY <1>2, <1>3, <1>4 DEF TrackInv, At

LEMMA WatchesFields ==
  ASSUME TypeInv, NEW t \in Threads, Watches(t)
  PROVE  /\ job[t].pc = "watch" /\ cancelled' = cancelled /\ nav' = nav
         /\ \A u \in Threads \ {t} : job'[u] = job[u]
         /\ t # "svc" => /\ job'[t].pc = "restarted"
                         /\ job'[t].flag = job[t].flag
                         /\ job'[t].op = job[t].op
         /\ t = "svc" => \/ job[t].flag /\ job'[t].pc = "loopConfig"
                         \/ job'[t].pc = "idle"
         /\ watched' = watched \cup {job[t].goal}
<1>1. job[t] \in Job /\ job \in [Threads -> GoodJob]
  BY DEF TypeInv, GoodJob
<1> QED
  BY <1>1 DEF Watches, At, history, Goto, Finish, IdleJob, Job

LEMMA WatchesKeepsTrackInv ==
  ASSUME TypeInv, TrackInv, NEW t \in Threads \ {"sub"}, Watches(t)
  PROVE  TrackInv'
<1>0. t \in {"svc"} \cup Goals /\ Goals \subseteq Threads /\ "svc" \in Threads
  BY DEF Threads
<1>1. TrackedGoalIsWatched'
  BY <1>0, WatchesFields DEF TrackInv, TrackedGoalIsWatched, At
<1>2. PlanOnlyWhileLooping'
  BY WatchesFields DEF TrackInv, PlanOnlyWhileLooping
<1>3. \A g \in Goals : Sending(g)' => job'[g].flag
  BY <1>0, WatchesFields, ThreadNames
  DEF TrackInv, Sending, SendLabels, Threads
<1>4. CASE t = "svc"
  <2>1. job["svc"].pc = "watch" /\ job'["svc"].pc \in {"loopConfig", "idle"}
    BY <1>4, WatchesFields
  <2>2. ~cancelled' /\ ~Sending("svc")'
    BY <1>4, <2>1, WatchesFields DEF TrackInv, Sending, SetGoalLabels, SendLabels
  <2> QED
    BY <1>1, <1>2, <1>3, <2>2 DEF TrackInv
<1>5. CASE t # "svc"
  <2>1. job'["svc"] = job["svc"]
    BY <1>0, <1>5, WatchesFields
  <2> QED
    BY <1>1, <1>2, <1>3, <2>1, WatchesFields DEF TrackInv, Sending
<1> QED
  BY <1>4, <1>5

LEMMA LoopConfigKeepsTrackInv ==
  ASSUME TypeInv, TrackInv, LoopConfig
  PROVE  TrackInv'
<1>1. /\ nav \in Tracking /\ Goals \subseteq Threads \ {"svc"}
      /\ ~cancelled
  BY ThreadNames DEF TypeInv, TypeOK, Threads, LoopConfig, TrackInv, At,
                     SetGoalLabels
<1>2. /\ job'["svc"].pc = "idle"
      /\ \A u \in Threads \ {"svc"} : job'[u] = job[u]
  BY SvcThread DEF LoopConfig, Finish, IdleJob
<1>3. /\ nav'.plan /\ nav'.loopOn /\ nav'.handle = nav.handle
      /\ watched' = watched /\ ~cancelled'
  BY <1>1 DEF LoopConfig, Tracking, nav2Vars, history
<1> QED
  BY <1>1, <1>2, <1>3 DEF TrackInv, TrackedGoalIsWatched, LoopConfig,
                          PlanOnlyWhileLooping, Sending, SendLabels, At

LEMMA CancelGoalKeepsTrackInv ==
  ASSUME TypeInv, TrackInv, CancelGoal
  PROVE  TrackInv'
<1>1. Goals \subseteq Threads \ {"svc"}
  BY ThreadNames DEF Threads
<1>2. /\ job'["svc"].pc = "cancelPublish"
      /\ \A u \in Threads \ {"svc"} : job'[u] = job[u]
  BY SvcThread DEF CancelGoal, Start, NewJob, IdleJob
<1>3. nav'.handle = None /\ ~nav'.plan
  BY DEF CancelGoal, Detached, NoGoal
<1> QED
  BY <1>1, <1>2, <1>3 DEF TrackInv, TrackedGoalIsWatched,
                          PlanOnlyWhileLooping, Sending, At, SetGoalLabels,
                          SendLabels, CancelLabels

LEMMA TrackStep == TypeInv /\ TrackInv /\ [Next]_vars => TrackInv'
<1> SUFFICES ASSUME TypeInv, TrackInv, [Next]_vars PROVE TrackInv'
  OBVIOUS
<1>1. "svc" \in Threads \ {"sub"} /\ Goals \subseteq Threads \ {"sub"}
  BY ThreadNames DEF Threads
<1>2. CASE Next
  <2>1. CASE SvcStep
    BY <1>1, <2>1, SvcEndsSafe, SvcStepsSafe, SvcSafeKeepsTrackInv,
       AcceptedKeepsTrackInv, WatchesKeepsTrackInv, LoopConfigKeepsTrackInv
    DEF SvcStep, Sends
  <2>2. CASE \E g \in Goals : ResultStep(g) \/ Result(g)
    BY <1>1, <2>2, ResultStepsSafe, ResultSafeKeepsTrackInv,
       AcceptedKeepsTrackInv, WatchesKeepsTrackInv DEF ResultStep, Sends
  <2>3. CASE Requested
    BY <2>3, SvcEndsSafe, SvcStepsSafe, SvcSafeKeepsTrackInv, SubAside,
       AsideKeepsTrackInv, CancelGoalKeepsTrackInv DEF Requested
  <2>4. CASE SubStep \/ Watchdog \/ CmdVelSafe
    BY <2>4, SubAside, AsideKeepsTrackInv
  <2>5. CASE AsyncBrake \/ CommandAges \/ ExternalStatus \/ ExternalAges \/ Nav2
    BY <2>5, EnvironmentAside, AsideKeepsTrackInv
  <2> QED
    BY <1>2, <2>1, <2>2, <2>3, <2>4, <2>5 DEF Next
<1>3. CASE UNCHANGED vars
  BY <1>3 DEF vars, TrackInv, TrackedGoalIsWatched, PlanOnlyWhileLooping,
              Sending, At, nav2Vars, history
<1> QED
  BY <1>2, <1>3

LEMMA TrackInit == Init => TrackInv
<1> SUFFICES ASSUME Init PROVE TrackInv
  OBVIOUS
<1>1. \A t \in Threads : job[t] = IdleJob
  BY DEF Init
<1>2. "svc" \in Threads /\ Goals \subseteq Threads
  BY DEF Threads
<1> QED
  BY <1>1, <1>2 DEF Init, TrackInv, Sending, SendLabels, At, IdleJob, NoGoal,
                    TrackedGoalIsWatched, PlanOnlyWhileLooping

LEMMA TrackInvariant == Spec => []TrackInv
BY InitTypes, NextTypes, TrackInit, TrackStep, PTL DEF Spec

(* The goal the node would cancel is one whose result has not been taken.  *)
THEOREM TrackedGoalIsWatchedAlways == Spec => []TrackedGoalIsWatched
<1>1. TrackInv => TrackedGoalIsWatched
  BY DEF TrackInv
<1> QED
  BY <1>1, TrackInvariant, PTL

(* No plan of a loop outlives the looping, so no point-to-point goal is    *)
(* ever restarted as a loop.                                               *)
THEOREM PlanOnlyWhileLoopingAlways == Spec => []PlanOnlyWhileLooping
<1>1. TrackInv => PlanOnlyWhileLooping
  BY DEF TrackInv
<1> QED
  BY <1>1, TrackInvariant, PTL

LEMMA SendsOnlyUncancelled ==
  ASSUME TypeInv, TrackInv, Next, NEW g \in Goals, At(g, "idle"),
         job'[g].pc = "send"
  PROVE  ~cancelled
<1>1. g \in Threads \ {"svc", "sub"}
  BY ThreadNames DEF Threads
<1>2. job'[g] # job[g]
  BY DEF At
<1>3. CASE SvcStep \/ Requested
  <2>1. CASE SvcSafe \/ Aside
    BY <1>1, <1>2, <2>1 DEF SvcSafe, Aside
  <2>2. CASE Accepted("svc") \/ Watches("svc") \/ LoopConfig \/ CancelGoal
    BY <1>1, <1>2, <2>2, AcceptedFields, WatchesFields, SvcThread
       DEF LoopConfig, CancelGoal, Finish, Start
  <2> QED
    BY <1>3, <2>1, <2>2, SvcEndsSafe, SvcStepsSafe, SubAside
       DEF SvcStep, Sends, Requested
<1>4. CASE \E h \in Goals : ResultStep(h)
  <2>1. PICK h \in Goals : ResultStep(h)
    BY <1>4
  <2>2. job[h].pc # "idle"
    BY <2>1, LabelNames DEF ResultStep, Sends, Send, NotSent, Answered,
                            Accepted, Watches, Restarted, Braking, At
  <2>3. g \in Threads \ {h} /\ h \in Threads
    BY <1>1, <2>2 DEF At, Threads
  <2> QED
    BY <1>2, <2>1, <2>3, ResultStepsSafe, AcceptedFields, WatchesFields
       DEF ResultStep, Sends, ResultSafe
<1>5. CASE \E h \in Goals : Result(h)
  <2>1. PICK h \in Goals : Result(h)
    BY <1>5
  <2>2. CASE h = g
    <3>1. job \in [Threads -> GoodJob]
      BY DEF TypeInv
    <3>2. Restarts(g)
      BY <1>1, <2>1, <2>2, <3>1 DEF Result, NewJob, IdleJob, At
    <3> QED
      BY <3>2 DEF Restarts, TrackInv
  <2>3. CASE h # g
    BY <1>1, <1>2, <2>1, <2>3, ResultStepsSafe DEF ResultSafe
  <2> QED
    BY <2>2, <2>3
<1>6. CASE SubStep \/ Watchdog \/ CmdVelSafe
  BY <1>1, <1>2, <1>6, SubAside DEF Aside
<1>7. CASE AsyncBrake \/ CommandAges \/ ExternalStatus \/ ExternalAges \/ Nav2
  BY <1>1, <1>2, <1>7, EnvironmentAside DEF Aside
<1> QED
  BY <1>3, <1>4, <1>5, <1>6, <1>7 DEF Next

(* After cancel_goal no result starts another loop segment until set_goal  *)
(* is called again, whatever results were on their way.                    *)
THEOREM CancelEndsLoopAlways == Spec => CancelEndsLoop
<1>1. TypeInv /\ TrackInv /\ [Next]_vars =>
        [\A g \in Goals : At(g, "idle") /\ job'[g].pc = "send"
                            => ~cancelled]_vars
  BY SendsOnlyUncancelled
<1> QED
  BY <1>1, InitTypes, NextTypes, TrackInvariant, PTL
     DEF Spec, CancelEndsLoop

-----------------------------------------------------------------------------
(***************************************************************************)
(* Navigating without a goal. A loop is declared active again, after the   *)
(* lock was given up, by a callback whose segment was adopted before. The  *)
(* goal it adopted can be lost in between: by a service, which leaves no   *)
(* loop or is remembered in overtaken, or by its result, which is then     *)
(* restarted by its own callback. With the two threads of the executor, an *)
(* answer is taken only while no other callback runs, so no two callbacks  *)
(* act on one answer each at a time; with three, a result may be taken     *)
(* while brake is between its two sections, and TLC finds the loop active  *)
(* without a goal.                                                         *)
(***************************************************************************)
TwoThreads == NumThreads <= 2 /\ IsFiniteSet(Goals)

(* A callback that has the answer to the goal it sent.                     *)
Ans(t) == \/ job[t].pc \in {"sendDone", "watch", "loopConfig"}
          \/ At(t, "restarted") /\ job[t].flag
Askers == Goals \cup {"svc"}

(* A callback that will declare the loop active if looping is still on.    *)
Adopter(g) == job[g].pc \in {"watch", "restarted"} /\ job[g].flag

(* A service or a teleop message is about to detach the goal.              *)
Leaving == At("svc", "detach") \/ At("svc", "takeoverDetach")
           \/ At("sub", "takeoverDetach")

RestartLabels == {"send", "sendWait", "sendDone", "watch", "restarted"}
ResultJobs ==
  \A g \in Goals :
    /\ job[g].pc \in RestartLabels \cup {"idle", "braking"}
    /\ job[g].pc # "idle" => job[g].op = "result"
OneAnswered == \A t, u \in Askers : Ans(t) /\ Ans(u) => t = u
AdopterHasGoal ==
  \A g \in Goals : Adopter(g) /\ nav.loopOn /\ ~overtaken =>
    \/ \E h \in Goals \ {g} : Restarting(h)
    \/ nav.handle # None /\ (nav.mode = "loop" \/ Leaving)
LoopInv == ResultJobs /\ OneAnswered /\ AdopterHasGoal /\ NavigatingHasAGoal

(* With two threads, nothing else runs while the answer of Nav2, a result  *)
(* or a request is taken by the thread that a callback leaves free.        *)
LEMMA NothingElseRuns ==
  ASSUME TwoThreads, ThreadFree, NEW t \in Threads, ~At(t, "idle")
  PROVE  \A u \in Threads \ {t} : At(u, "idle")
<1> DEFINE Busy == {u \in Threads : job[u].pc # "idle"}
<1>1. SUFFICES ASSUME NEW u \in Threads \ {t}, ~At(u, "idle")
               PROVE  FALSE
  OBVIOUS
<1>2. IsFiniteSet({"svc"} \cup {"sub"}) /\ IsFiniteSet({t} \cup {u})
  BY FS_Singleton, FS_Union
<1>3. IsFiniteSet(Threads)
  BY <1>2, FS_Union DEF TwoThreads, Threads
<1>4. IsFiniteSet(Busy) /\ Cardinality(Busy) \in Nat
  <2>1. Busy \in SUBSET Threads
    OBVIOUS
  <2>2. IsFiniteSet(Busy)
    BY <1>3, <2>1, FS_Subset
  <2> QED
    BY <2>2, FS_CardinalityType
<1>5. Cardinality({t} \cup {u}) = 2
  <2>1. IsFiniteSet({t}) /\ Cardinality({t}) = 1 /\ u \notin {t}
    BY FS_Singleton
  <2> QED
    BY <2>1, FS_AddElement
<1>6. {t} \cup {u} \subseteq Busy
  BY <1>1 DEF At
<1>7. 2 <= Cardinality(Busy)
  <2>1. {t} \cup {u} \in SUBSET Busy
    BY <1>6
  <2> QED
    BY <1>4, <1>5, <2>1, FS_Subset
<1>8. Cardinality(Busy) < NumThreads
  BY DEF ThreadFree
<1> QED
  BY <1>4, <1>7, <1>8, CountsAssumption DEF TwoThreads

(* What a step of another thread than a result callback, or of the         *)
(* environment, does to the goal: nothing; it ends navigation and looping; *)
(* or it ends navigation before it detaches the goal, or because the goal  *)
(* of set_goal could not be sent.                                          *)
Beside ==
  /\ \A g \in Goals : job'[g] = job[g]
  /\ Ans("svc")' => Ans("svc")
  /\ overtaken => overtaken' \/ (~nav'.active /\ ~nav'.loopOn)
  /\ \/ nav' = nav /\ (Leaving => Leaving')
     \/ ~nav'.active /\ ~nav'.loopOn
     \/ /\ ~nav'.active /\ nav'.loopOn = nav.loopOn /\ nav'.handle = nav.handle
        /\ \/ overtaken' \/ nav.handle = None \/ Leaving'
           \/ \A g \in Goals : ~Restarting(g)

(* In every state of the invariant an adopter is a callback that restarts. *)
LEMMA AdopterRestarts ==
  ASSUME ResultJobs, NEW g \in Goals, Adopter(g)
  PROVE  Restarting(g) /\ Ans(g)
BY DEF ResultJobs, Adopter, Restarting, Ans, At

LEMMA BesideKeepsLoopInv ==
  ASSUME LoopInv, Beside
  PROVE  LoopInv'
<1>1. /\ \A g \in Goals : job'[g] = job[g] /\ (Adopter(g)' <=> Adopter(g))
      /\ \A g \in Goals : Restarting(g)' <=> Restarting(g)
      /\ \A t \in Askers : Ans(t)' => Ans(t)
  BY DEF Beside, Adopter, Restarting, Ans, Askers, At
<1>2. ResultJobs'
  BY <1>1 DEF LoopInv, ResultJobs
<1>3. OneAnswered'
  BY <1>1 DEF LoopInv, OneAnswered
<1>4. AdopterHasGoal'
  <2>1. SUFFICES ASSUME NEW g \in Goals, Adopter(g), nav'.loopOn, ~overtaken'
                 PROVE  \/ \E h \in Goals \ {g} : Restarting(h)
                        \/ /\ nav'.handle # None
                           /\ nav'.mode = "loop" \/ Leaving'
    BY <1>1 DEF AdopterHasGoal
  <2>2. nav.loopOn /\ ~overtaken /\ Restarting(g)
    BY <2>1, AdopterRestarts DEF Beside, LoopInv
  <2>3. \/ \E h \in Goals \ {g} : Restarting(h)
        \/ nav.handle # None /\ (nav.mode = "loop" \/ Leaving)
    BY <2>1, <2>2 DEF LoopInv, AdopterHasGoal
  <2> QED
    BY <2>1, <2>2, <2>3 DEF Beside
<1>5. NavigatingHasAGoal'
  BY <1>1 DEF LoopInv, NavigatingHasAGoal, Beside
<1> QED
  BY <1>2, <1>3, <1>4, <1>5 DEF LoopInv

(* The fields of nav that the three kinds of step above leave.             *)
LEMMA NavEnds ==
  ASSUME TypeInv
  PROVE  /\ ~NoGoal.active /\ ~NoGoal.loopOn
         /\ LET n == [NoGoal EXCEPT !.handle = nav.handle] IN
              ~n.active /\ ~n.loopOn
         /\ LET n == [nav EXCEPT !.active = FALSE, !.mode = "idle"] IN
              /\ ~n.active /\ n.loopOn = nav.loopOn /\ n.handle = nav.handle
BY DEF NoGoal, TypeInv, TypeOK, Tracking

LEMMA GoalThreads ==
  /\ "svc" \in Threads /\ "sub" \in Threads /\ Goals \subseteq Threads
  /\ "svc" \notin Goals /\ "sub" \notin Goals
BY ThreadNames DEF Threads

LEMMA SubBeside ==
  ASSUME TypeInv,
         \/ SubStep \/ Watchdog \/ CmdVelSafe
         \/ \E v \in Velocities : Teleop(v)
         \/ \E stop \in BOOLEAN : CollisionState(stop)
  PROVE  Beside
<1>1. job \in [Threads -> GoodJob]
  BY DEF TypeInv
<1> DEFINE OnlySub == /\ \A t \in Threads \ {"sub"} : job'[t] = job[t]
                      /\ overtaken' = overtaken
<1> USE DEF history
<1>a. ASSUME OnlySub, nav' = nav, ~At("sub", "takeoverDetach")
      PROVE  Beside
  BY <1>a, GoalThreads DEF Beside, Leaving, At, Ans
<1>2. CASE TeleopTakeOver
  <2>1. OnlySub
    BY <1>1, <1>2 DEF TeleopTakeOver, Goto
  <2>2. nav' = [nav EXCEPT !.active = FALSE, !.mode = "idle"]
    BY <1>2 DEF TeleopTakeOver, TakeOver
  <2>3. nav.handle # None => job'["sub"].pc = "takeoverDetach"
    BY <1>1, <1>2, GoalThreads DEF TeleopTakeOver, Goto, GoodJob, Job
  <2> QED
    BY <2>1, <2>2, <2>3, GoalThreads, NavEnds DEF Beside, Leaving, At, Ans
<1>3. CASE TakeOverDetach("sub")
  <2>1. OnlySub /\ nav' = NoGoal
    BY <1>1, <1>3 DEF TakeOverDetach, Goto, Detached
  <2> QED
    BY <2>1, GoalThreads, NavEnds DEF Beside, At, Ans
<1>4. CASE \/ ManualStop("sub") \/ TeleopCmd \/ Publish \/ WatchdogStop
           \/ WatchdogMark \/ Braking("sub")
  <2>1. OnlySub /\ nav' = nav
    BY <1>1, <1>4 DEF ManualStop, TeleopCmd, Publish, WatchdogStop,
                      WatchdogMark, Braking, Goto, Finish
  <2>2. ~At("sub", "takeoverDetach")
    BY <1>4 DEF ManualStop, TeleopCmd, Publish, WatchdogStop, WatchdogMark,
                Braking, At
  <2> QED
    BY <1>a, <2>1, <2>2
<1>5. CASE \/ Watchdog \/ CmdVelSafe
           \/ \E v \in Velocities : Teleop(v)
           \/ \E stop \in BOOLEAN : CollisionState(stop)
  <2>1. OnlySub /\ nav' = nav /\ At("sub", "idle")
    BY <1>1, <1>5 DEF Watchdog, CmdVelSafe, Teleop, CollisionState, Start
  <2> QED
    BY <1>a, <2>1 DEF At
<1> QED
  BY <1>2, <1>3, <1>4, <1>5 DEF SubStep

LEMMA EnvironmentBeside ==
  ASSUME AsyncBrake \/ CommandAges \/ ExternalStatus \/ ExternalAges \/ Nav2
  PROVE  Beside
<1> USE DEF history
<1>1. nav' = nav /\ job' = job /\ overtaken' = overtaken
  <2>1. CASE AsyncBrake \/ CommandAges \/ ExternalStatus \/ ExternalAges
    BY <2>1 DEF AsyncBrake, CommandAges, ExternalStatus, ExternalAges
  <2>2. CASE Nav2
    BY <2>2 DEF Nav2, Nav2Answers, Nav2Cancels, Nav2Ends, Nav2Drives,
                Nav2Status
  <2> QED
    BY <2>1, <2>2
<1> QED
  BY <1>1 DEF Beside, Leaving, At, Ans

LEMMA SvcBeside ==
  ASSUME TypeInv,
         \/ HasGoal \/ Detach \/ CancelAnswered \/ CancelAcked
         \/ CancelTimeout \/ Reset \/ CancelPublish \/ Watches("svc")
         \/ TakeOverDetach("svc") \/ ManualStop("svc")
         \/ Braking("svc") \/ Send("svc") \/ NotSent("svc")
         \/ \E loop \in BOOLEAN : SetGoal(loop)
         \/ CancelGoal \/ BrakeService \/ ManualOn \/ ManualOff
  PROVE  Beside
<1>1. job \in [Threads -> GoodJob] /\ job["svc"] \in Job
  BY SvcThread
<1>s. Send("svc") =>
        /\ \E h : job' = [job EXCEPT !["svc"].pc = "sendWait",
                                    !["svc"].goal = h]
        /\ nav' = nav /\ job["svc"].pc = "send" /\ overtaken' = overtaken
  <2>1. Send("svc") => \E h : job' = [job EXCEPT !["svc"].pc = "sendWait",
                                               !["svc"].goal = h]
    BY DEF Send
  <2>2. Send("svc") => /\ nav' = nav /\ job["svc"].pc = "send"
                       /\ overtaken' = overtaken
    BY DEF Send, At, history
  <2> QED
    BY <2>1, <2>2
<1>g. (\E loop \in BOOLEAN : SetGoal(loop)) =>
        /\ \E j : j.pc = "hasGoal" /\ Start("svc", j)
        /\ nav' = nav /\ overtaken' = overtaken
  <2>1. SUFFICES ASSUME NEW loop \in BOOLEAN, SetGoal(loop)
                 PROVE  /\ \E j : j.pc = "hasGoal" /\ Start("svc", j)
                        /\ nav' = nav /\ overtaken' = overtaken
    OBVIOUS
  <2> DEFINE j == [NewJob("setGoal", "hasGoal") EXCEPT !.flag = loop]
  <2>2. j.pc = "hasGoal"
    BY DEF NewJob, IdleJob
  <2>3. Start("svc", j) /\ nav' = nav /\ overtaken' = overtaken
    BY <2>1 DEF SetGoal
  <2> QED
    BY <2>2, <2>3
<1> DEFINE Moves(L) == /\ job'["svc"].pc \in L
                       /\ \A u \in Threads \ {"svc"} : job'[u] = job[u]
           Calm == Labels \ {"sendDone", "watch", "loopConfig", "restarted"}
<1> USE <1>1, SvcThread
    DEF At, Goto, Finish, Brake, Start, NewJob, IdleJob, Job, history
<1>a. ASSUME Moves(Calm), nav' = nav, overtaken' = overtaken,
             job["svc"].pc \notin {"detach", "takeoverDetach"}
      PROVE  Beside
  BY <1>a, GoalThreads DEF Beside, Leaving, Ans
<1>b. ASSUME Moves(Calm), ~nav'.active, ~nav'.loopOn
      PROVE  Beside
  BY <1>b, GoalThreads DEF Beside, Ans
<1>2. CASE HasGoal
  <2>1. Moves({"reset", "detach"}) /\ nav' = nav /\ job["svc"].pc = "hasGoal"
    BY <1>2 DEF HasGoal
  <2> QED
    BY <1>2, <1>a, <2>1, LabelNames DEF HasGoal
<1>3. CASE Detach
  <2>1. Moves({"braking", "idle", "reset", "cancelWait"})
    BY <1>3 DEF Detach, AfterCancel
  <2> QED
    BY <1>3, <1>b, <2>1, LabelNames, NavEnds DEF Detach, Detached
<1>4. CASE CancelAnswered \/ CancelAcked \/ CancelTimeout
  <2>1. /\ Moves({"cancelDone", "braking", "idle", "reset"})
        /\ nav' = nav /\ overtaken' = overtaken
        /\ job["svc"].pc \in {"cancelWait", "cancelDone"}
    BY <1>4 DEF CancelAnswered, CancelAcked, CancelTimeout, AfterCancel
  <2> QED
    BY <1>a, <2>1, LabelNames
<1>5. CASE Reset
  <2>1. Moves({"send", "idle"})
    BY <1>5 DEF Reset, Convert
  <2> QED
    BY <1>5, <1>b, <2>1, LabelNames, NavEnds DEF Reset
<1>6. CASE CancelPublish \/ ManualStop("svc")
  <2>1. Moves({"idle"}) /\ nav' = nav /\ overtaken' = overtaken
        /\ job["svc"].pc \in {"cancelPublish", "manualStop"}
    BY <1>6 DEF CancelPublish, ManualStop
  <2> QED
    BY <1>a, <2>1, LabelNames
<1>7. CASE TakeOverDetach("svc")
  <2>1. Moves({"manualStop"})
    BY <1>7 DEF TakeOverDetach
  <2> QED
    BY <1>7, <1>b, <2>1, LabelNames, NavEnds DEF TakeOverDetach, Detached
<1>8. CASE Braking("svc")
  <2>0. Finish("svc") \/ \E n : job' = [job EXCEPT !["svc"].left = n]
    BY <1>8 DEF Braking
  <2>1. Moves({"idle", "braking"}) /\ nav' = nav /\ job["svc"].pc = "braking"
        /\ overtaken' = overtaken
    BY <1>8, <2>0 DEF Braking
  <2> QED
    BY <1>a, <2>1, LabelNames
<1>9. CASE Send("svc")
  <2>0. PICK h : job' = [job EXCEPT !["svc"].pc = "sendWait",
                                  !["svc"].goal = h]
    BY <1>9, <1>s
  <2>1. Moves({"sendWait"})
    BY <2>0
  <2>2. nav' = nav /\ job["svc"].pc = "send" /\ overtaken' = overtaken
    BY <1>9, <1>s
  <2> QED
    BY <1>a, <2>1, <2>2, LabelNames
<1>10. CASE NotSent("svc")
  <2>1. Moves({"idle"})
        /\ nav' = [nav EXCEPT !.active = FALSE, !.mode = "idle"]
        /\ overtaken' = (overtaken \/ \E g \in Goals : Restarting(g))
    BY <1>10 DEF NotSent, SendFailed
  <2> QED
    BY <2>1, GoalThreads, NavEnds DEF Beside, Ans
<1>11. CASE \E loop \in BOOLEAN : SetGoal(loop)
  <2>0. PICK j : j.pc = "hasGoal" /\ Start("svc", j)
    BY <1>11, <1>g
  <2>1. Moves({"hasGoal"}) /\ nav' = nav /\ job["svc"].pc = "idle"
        /\ overtaken' = overtaken
    BY <1>11, <1>g, <2>0
  <2> QED
    BY <1>a, <2>1, LabelNames
<1>12. CASE CancelGoal
  <2>1. Moves({"cancelPublish"})
    BY <1>12 DEF CancelGoal
  <2> QED
    BY <1>12, <1>b, <2>1, LabelNames, NavEnds DEF CancelGoal, Detached
<1>13. CASE BrakeService
  <2>1. Moves({"detach", "braking"})
        /\ (nav.handle # None => job'["svc"].pc = "detach")
        /\ nav' = [nav EXCEPT !.active = FALSE, !.mode = "idle"]
        /\ overtaken' = overtaken
    BY <1>13 DEF BrakeService
  <2> QED
    BY <2>1, GoalThreads, NavEnds DEF Beside, Leaving, Ans
<1>14. CASE ManualOn
  <2>1. Moves({"takeoverDetach", "manualStop"})
        /\ (nav.handle # None => job'["svc"].pc = "takeoverDetach")
    BY <1>14 DEF ManualOn
  <2>2. nav' = [nav EXCEPT !.active = FALSE, !.mode = "idle"]
        /\ overtaken' = overtaken
    BY <1>14 DEF ManualOn, TakeOver
  <2> QED
    BY <2>1, <2>2, GoalThreads, NavEnds DEF Beside, Leaving, Ans
<1>15. CASE ManualOff
  <2>1. Moves({"manualStop"}) /\ nav' = nav /\ job["svc"].pc = "idle"
        /\ overtaken' = overtaken
    BY <1>15 DEF ManualOff
  <2> QED
    BY <1>a, <2>1, LabelNames
<1>16. CASE Watches("svc")
  <2>1. Moves({"loopConfig", "idle"}) /\ nav' = nav /\ job["svc"].pc = "watch"
        /\ overtaken' = overtaken
    BY <1>16 DEF Watches
  <2> QED
    BY <2>1, GoalThreads DEF Beside, Leaving, Ans
<1> QED
  BY <1>2, <1>3, <1>4, <1>5, <1>6, <1>7, <1>8, <1>9, <1>10, <1>11, <1>12,
     <1>13, <1>14, <1>15, <1>16

(* An answer is taken only while nothing else runs.                        *)
LEMMA AnsweredKeepsLoopInv ==
  ASSUME TwoThreads, TypeInv, LoopInv, NEW t \in Askers, Answered(t)
  PROVE  LoopInv'
<1>1. /\ t \in Threads /\ Askers \subseteq Threads /\ job[t] \in Job
      /\ job \in [Threads -> GoodJob]
  BY GoalThreads DEF Askers, TypeInv, GoodJob
<1>2. \A u \in Threads \ {t} : At(u, "idle")
  BY <1>1, NothingElseRuns DEF Answered, At
<1>3. /\ job[t].pc = "sendWait" /\ nav' = nav /\ overtaken' = overtaken
      /\ job'[t].pc = "sendDone" /\ job'[t].op = job[t].op
      /\ \A u \in Threads \ {t} : job'[u] = job[u]
  BY <1>1 DEF Answered, At, Goto, Job, history
<1>4. ResultJobs'
  BY <1>1, <1>3, GoalThreads DEF LoopInv, ResultJobs, RestartLabels
<1>5. \A u \in Askers : Ans(u)' => u = t
  BY <1>1, <1>2, <1>3 DEF Ans, At
<1>6. \A g \in Goals : ~Adopter(g)'
  BY <1>1, <1>2, <1>3 DEF Adopter, At, Askers
<1>7. \A g \in Goals : Restarting(g) => Restarting(g)'
  BY <1>1, <1>2, <1>3 DEF Restarting, At, Askers
<1> QED
  BY <1>3, <1>4, <1>5, <1>6, <1>7
  DEF LoopInv, OneAnswered, AdopterHasGoal, NavigatingHasAGoal

LEMMA AcceptedKeepsLoopInv ==
  ASSUME TypeInv, LoopInv, NEW t \in Askers, Accepted(t)
  PROVE  LoopInv'
<1>1. /\ t \in Threads /\ Askers \subseteq Threads /\ job[t] \in Job
      /\ job \in [Threads -> GoodJob] /\ nav \in Tracking
  BY GoalThreads DEF Askers, TypeInv, TypeOK, GoodJob
<1>2. /\ job[t].pc = "sendDone" /\ job'[t].pc = "watch"
      /\ job'[t].flag = job[t].flag /\ job'[t].op = job[t].op
      /\ \A u \in Threads \ {t} : job'[u] = job[u]
  BY <1>1 DEF Accepted, At, Goto, Job
<1>3. nav'.handle # None /\ (nav'.loopOn => nav'.mode = "loop")
  <2>1. job[t].goal \in Goals
    BY <1>1, <1>2 DEF GoodJob, JobOK
  <2>2. /\ nav'.handle = job[t].goal /\ nav'.loopOn = job[t].flag
        /\ nav'.mode = IF job[t].flag THEN "loop" ELSE "point_to_point"
    BY <1>1 DEF Accepted, Adopted, Tracking
  <2> QED
    BY <2>1, <2>2, NoneAssumption
<1>4. ResultJobs'
  BY <1>1, <1>2, GoalThreads DEF LoopInv, ResultJobs, RestartLabels
<1>5. \A u \in Askers : Ans(u)' => Ans(u)
  BY <1>1, <1>2 DEF Ans, At
<1> QED
  BY <1>3, <1>4, <1>5
  DEF LoopInv, OneAnswered, AdopterHasGoal, NavigatingHasAGoal

LEMMA LoopConfigKeepsLoopInv ==
  ASSUME TypeInv, LoopInv, LoopConfig
  PROVE  LoopInv'
<1>1. /\ job'["svc"].pc = "idle" /\ \A g \in Goals : job'[g] = job[g]
      /\ At("svc", "loopConfig") /\ overtaken' = overtaken
  BY SvcThread, GoalThreads DEF LoopConfig, Finish, IdleJob, history
<1>2. nav'.active = nav.active /\ nav'.handle = nav.handle
  BY DEF LoopConfig, TypeInv, TypeOK, Tracking
<1>3. Ans("svc") /\ \A g \in Goals : ~Adopter(g)'
  <2>1. Ans("svc") /\ "svc" \in Askers /\ Goals \subseteq Askers
    BY <1>1 DEF Ans, At, Askers
  <2>2. \A g \in Goals : ~Ans(g)
    BY <2>1, GoalThreads DEF LoopInv, OneAnswered
  <2>3. \A g \in Goals : ~Adopter(g)
    BY <2>2, AdopterRestarts DEF LoopInv
  <2> QED
    BY <1>1, <2>1, <2>3 DEF Adopter
<1>4. \A u \in Askers : Ans(u)' => Ans(u)
  BY <1>1 DEF Ans, At, Askers
<1> QED
  BY <1>1, <1>2, <1>3, <1>4 DEF LoopInv, ResultJobs, OneAnswered,
     AdopterHasGoal, NavigatingHasAGoal, Restarting

LEMMA ResultKeepsLoopInv ==
  ASSUME TwoThreads, TypeInv, LoopInv, NEW g \in Goals, Result(g)
  PROVE  LoopInv'
<1>1. /\ g \in Threads /\ g # "svc" /\ g # "sub" /\ At(g, "idle")
      /\ job \in [Threads -> GoodJob] /\ nav \in Tracking
  BY ThreadNames DEF TypeInv, TypeOK, Threads, Result
<1>2. /\ \A u \in Threads \ {g} : job'[u] = job[u]
      /\ \/ job' = job
         \/ job'[g].pc \in {"send", "braking"} /\ job'[g].op = "result"
      /\ ~Adopter(g)'
  <2> DEFINE s == [NewJob("result", "send") EXCEPT !.flag = TRUE]
             b == [NewJob("result", "braking") EXCEPT !.left = BrakeCount]
  <2>1. /\ s.pc = "send" /\ s.op = "result"
        /\ b.pc = "braking" /\ b.op = "result"
    BY DEF NewJob, IdleJob
  <2>2. job' = job \/ \E j : /\ j.pc \in {"send", "braking"}
                            /\ j.op = "result" /\ job' = [job EXCEPT ![g] = j]
    BY <2>1 DEF Result
  <2>3. CASE job' = job
    BY <1>1, <2>3 DEF Adopter, At
  <2>4. CASE job' # job
    <3>1. PICK j : /\ j.pc \in {"send", "braking"} /\ j.op = "result"
                   /\ job' = [job EXCEPT ![g] = j]
      BY <2>2, <2>4
    <3>2. job'[g] = j /\ \A u \in Threads \ {g} : job'[u] = job[u]
      BY <1>1, <3>1
    <3> QED
      BY <3>1, <3>2 DEF Adopter, At
  <2> QED
    BY <2>3, <2>4
<1>3. /\ "svc" \in Threads \ {g} /\ \A h \in Goals \ {g} : h \in Threads \ {g}
      /\ \A h \in Goals : Adopter(h)' => Adopter(h) /\ h # g
      /\ \A h \in Goals : Restarting(h) => Restarting(h)'
      /\ \A u \in Askers : Ans(u)' => Ans(u)
      /\ overtaken' = overtaken
  BY <1>1, <1>2, GoalThreads
  DEF Adopter, Restarting, At, Ans, Askers, Result, history
<1>4. ResultJobs' /\ OneAnswered'
  BY <1>1, <1>2, <1>3, GoalThreads
  DEF LoopInv, ResultJobs, RestartLabels, OneAnswered, At
<1>5. CASE Restarts(g)
  <2>1. /\ nav'.loopOn = nav.loopOn /\ Restarting(g)'
    <3> DEFINE s == [NewJob("result", "send") EXCEPT !.flag = TRUE]
    <3>1. nav' = WithoutHandle(nav) /\ job' = [job EXCEPT ![g] = s]
      BY <1>5 DEF Result
    <3>2. s.pc = "send" /\ s.op = "result"
      BY DEF NewJob, IdleJob
    <3>3. job'[g] = s
      BY <1>1, <3>1
    <3> QED
      BY <1>1, <3>1, <3>2, <3>3 DEF WithoutHandle, Tracking, Restarting
  <2>2. AdopterHasGoal'
    BY <1>1, <1>3, <2>1 DEF AdopterHasGoal
  <2> QED
    BY <1>4, <2>1, <2>2 DEF LoopInv, NavigatingHasAGoal
<1>6. CASE ~Restarts(g)
  <2>1. /\ ~nav'.active
        /\ nav'.loopOn => nav.loopOn /\ nav.mode # "loop"
    <3>1. nav' = IF nav.mode = "loop" THEN NoGoal
                 ELSE [WithoutHandle(nav) EXCEPT !.active = FALSE,
                                                 !.mode = "idle"]
      BY <1>6 DEF Result
    <3>2. CASE nav.mode = "loop"
      BY <3>1, <3>2, NavEnds
    <3>3. CASE nav.mode # "loop"
      BY <1>1, <3>1, <3>3 DEF WithoutHandle, Tracking
    <3> QED
      BY <3>2, <3>3
  <2>2. ASSUME NEW h \in Goals, Adopter(h)', nav'.loopOn, ~overtaken'
        PROVE  FALSE
    <3>1. /\ Adopter(h) /\ h # g /\ nav.loopOn /\ nav.mode # "loop"
          /\ ~overtaken
      BY <1>3, <2>1, <2>2
    <3>2. \A u \in Threads \ {h} : At(u, "idle")
      BY <3>1, NothingElseRuns, GoalThreads DEF Result, Adopter, At
    <3>3. ~Leaving /\ \A k \in Goals \ {h} : ~Restarting(k)
      BY <3>2, GoalThreads DEF Leaving, Restarting, At
    <3> QED
      BY <3>1, <3>3 DEF LoopInv, AdopterHasGoal
  <2> QED
    BY <1>4, <2>1, <2>2 DEF LoopInv, AdopterHasGoal, NavigatingHasAGoal
<1> QED
  BY <1>5, <1>6

LEMMA RestartedKeepsLoopInv ==
  ASSUME TypeInv, LoopInv, NEW g \in Goals, Restarted(g)
  PROVE  LoopInv'
<1>1. /\ g \in Threads /\ g # "svc" /\ g # "sub" /\ At(g, "restarted")
      /\ job \in [Threads -> GoodJob] /\ job[g] \in Job /\ nav \in Tracking
  BY ThreadNames DEF TypeInv, TypeOK, Threads, Restarted, GoodJob
<1>2. /\ \A u \in Threads \ {g} : job'[u] = job[u]
      /\ \/ job'[g].pc = "idle"
         \/ job'[g].pc = "braking" /\ job'[g].op = job[g].op
  <2>1. Finish(g) \/ Brake(g)
    BY DEF Restarted
  <2>2. CASE Finish(g)
    BY <1>1, <2>2 DEF Finish, IdleJob
  <2>3. CASE Brake(g)
    BY <1>1, <2>3 DEF Brake, Job
  <2> QED
    BY <2>1, <2>2, <2>3
<1>3. /\ "svc" \in Threads \ {g} /\ \A h \in Goals \ {g} : h \in Threads \ {g}
      /\ \A h \in Goals : Adopter(h)' => Adopter(h) /\ h # g
      /\ \A h \in Goals \ {g} : Restarting(h) => Restarting(h)'
      /\ \A u \in Askers : Ans(u)' => Ans(u) /\ u # g
      /\ overtaken' = overtaken
  BY <1>1, <1>2, GoalThreads
  DEF Adopter, Restarting, At, Ans, Askers, Restarted, history
<1>4. ResultJobs' /\ OneAnswered'
  BY <1>1, <1>2, <1>3, GoalThreads
  DEF LoopInv, ResultJobs, RestartLabels, OneAnswered, At
<1>5. CASE StillLooping(g)
  <2>1. Adopter(g) /\ nav.loopOn /\ nav'.handle = nav.handle
    BY <1>1, <1>5 DEF Restarted, StillLooping, Adopter, Tracking, At
  <2>2. \A h \in Goals : ~Adopter(h)'
    <3>1. Ans(g) /\ \A h \in Goals : Adopter(h) => Ans(h)
      BY <2>1, AdopterRestarts DEF LoopInv
    <3>2. \A h \in Goals : Adopter(h) => h = g
      BY <3>1 DEF LoopInv, OneAnswered, Askers
    <3> QED
      BY <1>3, <3>2
  <2>3. \/ overtaken \/ nav.handle # None
        \/ \E h \in Goals \ {g} : Restarting(h)
    BY <2>1 DEF LoopInv, AdopterHasGoal
  <2> QED
    BY <1>3, <1>4, <2>1, <2>2, <2>3 DEF LoopInv, AdopterHasGoal,
       NavigatingHasAGoal
<1>6. CASE ~StillLooping(g)
  <2>1. ~nav'.active /\ ~nav'.loopOn
    BY <1>6, NavEnds DEF Restarted
  <2> QED
    BY <1>4, <2>1 DEF LoopInv, AdopterHasGoal, NavigatingHasAGoal
<1> QED
  BY <1>5, <1>6

LEMMA ResultStepKeepsLoopInv ==
  ASSUME TypeInv, LoopInv, NEW g \in Goals,
         Send(g) \/ NotSent(g) \/ Watches(g) \/ Braking(g)
  PROVE  LoopInv'
<1>1. /\ g \in Threads /\ g # "svc" /\ g # "sub"
      /\ job \in [Threads -> GoodJob] /\ job[g] \in Job
  BY ThreadNames DEF TypeInv, Threads, GoodJob
<1>s. Send(g) =>
        /\ \E h : job' = [job EXCEPT ![g].pc = "sendWait", ![g].goal = h]
        /\ nav' = nav /\ job[g].pc = "send" /\ overtaken' = overtaken
  <2>1. Send(g) => \E h : job' = [job EXCEPT ![g].pc = "sendWait",
                                           ![g].goal = h]
    BY DEF Send
  <2>2. Send(g) => /\ nav' = nav /\ job[g].pc = "send"
                   /\ overtaken' = overtaken
    BY DEF Send, At, history
  <2> QED
    BY <2>1, <2>2
<1>2. /\ nav' = nav /\ \A u \in Threads \ {g} : job'[u] = job[u]
      /\ (Adopter(g)' => Adopter(g)) /\ (Restarting(g) => Restarting(g)')
      /\ (Ans(g)' => Ans(g)) /\ overtaken' = overtaken
      /\ \/ job'[g].pc = "idle"
         \/ /\ job'[g].pc \in {"sendWait", "restarted", "braking"}
            /\ job'[g].op = job[g].op /\ job[g].pc # "idle"
  <2> USE <1>1 DEF Adopter, Restarting, Ans, At, Job, history
  <2>1. CASE Send(g)
    <3>1. PICK h : job' = [job EXCEPT ![g].pc = "sendWait", ![g].goal = h]
      BY <1>s, <2>1
    <3>2. /\ job'[g].pc = "sendWait" /\ job'[g].op = job[g].op
          /\ \A u \in Threads \ {g} : job'[u] = job[u]
      BY <3>1
    <3>3. nav' = nav /\ job[g].pc = "send" /\ overtaken' = overtaken
      BY <1>s, <2>1
    <3> QED
      BY <3>2, <3>3
  <2>2. CASE NotSent(g)
    BY <2>2 DEF NotSent, SendFailed
  <2>3. CASE Braking(g)
    <3>1. Finish(g) \/ \E n : job' = [job EXCEPT ![g].left = n]
      BY <2>3 DEF Braking
    <3> QED
      BY <2>3, <3>1 DEF Braking, Finish, IdleJob
  <2>4. CASE Watches(g)
    BY <2>4 DEF Watches, Goto
  <2> QED
    BY <2>1, <2>2, <2>3, <2>4
<1>3. /\ "svc" \in Threads \ {g} /\ "sub" \in Threads \ {g}
      /\ \A h \in Goals \ {g} : h \in Threads \ {g}
      /\ \A h \in Goals : Adopter(h)' => Adopter(h)
      /\ \A h \in Goals : Restarting(h) => Restarting(h)'
      /\ \A u \in Askers : Ans(u)' => Ans(u)
  BY <1>1, <1>2, GoalThreads DEF Adopter, Restarting, Ans, Askers, At
<1>4. ResultJobs' /\ OneAnswered'
  BY <1>1, <1>2, <1>3, GoalThreads
  DEF LoopInv, ResultJobs, RestartLabels, OneAnswered, At
<1>5. AdopterHasGoal'
  BY <1>2, <1>3 DEF LoopInv, AdopterHasGoal, Leaving, At
<1> QED
  BY <1>2, <1>3, <1>4, <1>5 DEF LoopInv, NavigatingHasAGoal

LEMMA LoopInit == Init => LoopInv
<1> SUFFICES ASSUME Init PROVE LoopInv
  OBVIOUS
<1>1. \A t \in Threads : job[t] = IdleJob
  BY DEF Init
<1> QED
  BY <1>1, GoalThreads DEF Init, LoopInv, ResultJobs, OneAnswered, Askers,
     Ans, AdopterHasGoal, NavigatingHasAGoal, Adopter, At, IdleJob, NoGoal

LEMMA LoopStep ==
  ASSUME TwoThreads, TypeInv, LoopInv, [Next]_vars
  PROVE  LoopInv'
<1>1. "svc" \in Askers /\ Goals \subseteq Askers
  BY DEF Askers
<1>2. CASE SvcStep
  BY <1>1, <1>2, SvcBeside, BesideKeepsLoopInv, AnsweredKeepsLoopInv,
     AcceptedKeepsLoopInv, LoopConfigKeepsLoopInv DEF SvcStep, Sends
<1>3. CASE \E g \in Goals : ResultStep(g) \/ Result(g)
  BY <1>1, <1>3, ResultStepKeepsLoopInv, RestartedKeepsLoopInv,
     ResultKeepsLoopInv, AnsweredKeepsLoopInv, AcceptedKeepsLoopInv
  DEF ResultStep, Sends
<1>4. CASE Requested
  BY <1>4, SvcBeside, SubBeside, BesideKeepsLoopInv DEF Requested
<1>5. CASE SubStep \/ Watchdog \/ CmdVelSafe
  BY <1>5, SubBeside, BesideKeepsLoopInv
<1>6. CASE AsyncBrake \/ CommandAges \/ ExternalStatus \/ ExternalAges \/ Nav2
  BY <1>6, EnvironmentBeside, BesideKeepsLoopInv
<1>7. CASE UNCHANGED vars
  BY <1>7, BesideKeepsLoopInv DEF vars, history, Beside, Leaving, At, Ans
<1> QED
  BY <1>2, <1>3, <1>4, <1>5, <1>6, <1>7 DEF Next

(* While the node navigates it has a goal to cancel, or a callback will    *)
(* give it one, in an executor of at most two threads, until a set_goal    *)
(* fails that began while a loop was being restarted.                      *)
THEOREM NavigatingAlwaysHasAGoal ==
  ASSUME TwoThreads
  PROVE  Spec => []NavigatingHasAGoal
<1>1. TypeInv /\ LoopInv /\ [Next]_vars => LoopInv'
  BY LoopStep
<1>2. LoopInv => NavigatingHasAGoal
  BY DEF LoopInv
<1> QED
  BY <1>1, <1>2, InitTypes, NextTypes, LoopInit, PTL DEF Spec

-----------------------------------------------------------------------------
(***************************************************************************)
(* Velocities after a cancel. Without loops a result adopts no goal, and   *)
(* without goal status the node knows of no other client's goal, so only   *)
(* set_goal makes it navigate again. (With loops the property fails: see   *)
(* the run nav_cancel_loop.)                                               *)
(***************************************************************************)
NoLoops == {"setLoop", "status"} \cap Requests = {} /\ ~ForwardWithoutGoal

FlagLabels == SetGoalLabels \cup CancelLabels
SvcOneWay == /\ ~At("svc", "loopConfig")
             /\ job["svc"].pc \in FlagLabels => ~job["svc"].flag
IdleInv ==
  /\ ext # "active" /\ statusMsg # "active"
  /\ ~nav.loopOn /\ nav.mode # "loop"
  /\ \A g \in Goals : job[g].pc \in {"idle", "braking"}
  /\ SvcOneWay
  /\ cancelled => ~nav.active

(* What all steps but three, those that adopt a goal, store a loop and     *)
(* declare it active, do to the goal.                                      *)
Quieter == /\ nav'.active => nav.active
           /\ nav'.loopOn => nav.loopOn
           /\ nav'.mode = "loop" => nav.mode = "loop"

LEMMA NavQuieter ==
  ASSUME TypeInv
  PROVE  /\ nav' = nav => Quieter
         /\ nav' = NoGoal => Quieter
         /\ nav' = [NoGoal EXCEPT !.handle = nav.handle] => Quieter
         /\ nav' = [nav EXCEPT !.active = FALSE, !.mode = "idle"] => Quieter
         /\ nav' = [WithoutHandle(nav) EXCEPT !.active = FALSE, !.mode = "idle"]
              => Quieter
<1> USE DEF TypeInv, TypeOK, Tracking, NoGoal, Quieter
<1>1. nav' = nav => Quieter
  OBVIOUS
<1>2. nav' = NoGoal => Quieter
  OBVIOUS
<1>3. nav' = [NoGoal EXCEPT !.handle = nav.handle] => Quieter
  OBVIOUS
<1>4. nav' = [nav EXCEPT !.active = FALSE, !.mode = "idle"] => Quieter
  OBVIOUS
<1>5. nav' = [WithoutHandle(nav) EXCEPT !.active = FALSE, !.mode = "idle"]
        => Quieter
  BY DEF WithoutHandle
<1> QED
  BY <1>1, <1>2, <1>3, <1>4, <1>5

LEMMA StepsQuieter ==
  ASSUME TypeInv,
         \/ HasGoal \/ Detach \/ CancelAnswered \/ CancelAcked
         \/ CancelTimeout \/ Reset \/ CancelPublish \/ NotSent("svc")
         \/ Send("svc") \/ Answered("svc") \/ Watches("svc")
         \/ \E t \in Threads : TakeOverDetach(t) \/ ManualStop(t) \/ Braking(t)
         \/ \E loop \in BOOLEAN : SetGoal(loop)
         \/ CancelGoal \/ BrakeService \/ ManualOn \/ ManualOff
         \/ TeleopTakeOver \/ TeleopCmd \/ Publish \/ WatchdogStop
         \/ WatchdogMark \/ Watchdog \/ CmdVelSafe
         \/ \E v \in Velocities : Teleop(v)
         \/ \E stop \in BOOLEAN : CollisionState(stop)
  PROVE  Quieter /\ ext' = ext /\ statusMsg' = statusMsg
<1>1. ext' = ext /\ statusMsg' = statusMsg
  BY DEF HasGoal, Detach, CancelAnswered, CancelAcked, CancelTimeout, Reset,
     CancelPublish, NotSent, Send, Answered, Watches, TakeOverDetach,
     ManualStop, Braking, SetGoal, CancelGoal, BrakeService, ManualOn, ManualOff, TeleopTakeOver, TeleopCmd, Publish,
     WatchdogStop, WatchdogMark, Watchdog, CmdVelSafe, Teleop, CollisionState,
     msgVars
<1>2. CASE \/ HasGoal \/ CancelAnswered \/ CancelAcked \/ CancelTimeout
           \/ CancelPublish \/ Send("svc") \/ Answered("svc")
           \/ Watches("svc") \/ \E t \in Threads : ManualStop(t) \/ Braking(t)
           \/ \E loop \in BOOLEAN : SetGoal(loop)
           \/ ManualOff \/ TeleopCmd \/ Publish \/ WatchdogStop
           \/ WatchdogMark \/ Watchdog \/ CmdVelSafe
           \/ \E v \in Velocities : Teleop(v)
           \/ \E stop \in BOOLEAN : CollisionState(stop)
  <2>1. nav' = nav
    BY <1>2 DEF HasGoal, CancelAnswered, CancelAcked, CancelTimeout,
       CancelPublish, Send, Answered, Watches, ManualStop, Braking, SetGoal,
       ManualOff, TeleopCmd, Publish,
       WatchdogStop, WatchdogMark, Watchdog, CmdVelSafe, Teleop,
       CollisionState
  <2> QED
    BY <1>1, <2>1, NavQuieter
<1>3. CASE Detach \/ CancelGoal \/ \E t \in Threads : TakeOverDetach(t)
  <2>1. nav' = NoGoal
    BY <1>3 DEF Detach, CancelGoal, TakeOverDetach, Detached
  <2> QED
    BY <1>1, <2>1, NavQuieter
<1>4. CASE Reset
  <2>1. nav' = [NoGoal EXCEPT !.handle = nav.handle]
    BY <1>4 DEF Reset
  <2> QED
    BY <1>1, <2>1, NavQuieter
<1>5. CASE NotSent("svc") \/ BrakeService \/ ManualOn \/ TeleopTakeOver
  <2>1. nav' = [nav EXCEPT !.active = FALSE, !.mode = "idle"]
    BY <1>5 DEF NotSent, SendFailed, BrakeService, ManualOn, TeleopTakeOver,
       TakeOver
  <2> QED
    BY <1>1, <2>1, NavQuieter
<1> QED
  BY <1>2, <1>3, <1>4, <1>5

LEMMA SvcStaysOneWay ==
  ASSUME TypeInv, SvcOneWay, NoLoops,
         \/ HasGoal \/ Detach \/ CancelAnswered \/ CancelAcked
         \/ CancelTimeout \/ Reset \/ CancelPublish
         \/ TakeOverDetach("svc") \/ ManualStop("svc") \/ Braking("svc")
         \/ Send("svc") \/ Answered("svc") \/ Watches("svc") \/ NotSent("svc")
         \/ \E loop \in BOOLEAN : SetGoal(loop)
         \/ CancelGoal \/ BrakeService \/ ManualOn \/ ManualOff
  PROVE  SvcOneWay'
<1>1. job \in [Threads -> GoodJob] /\ job["svc"] \in Job
  BY SvcThread
<1>s. Send("svc") =>
        /\ \E h : job' = [job EXCEPT !["svc"].pc = "sendWait",
                                    !["svc"].goal = h]
        /\ job["svc"].pc = "send"
  <2>1. Send("svc") => \E h : job' = [job EXCEPT !["svc"].pc = "sendWait",
                                               !["svc"].goal = h]
    BY DEF Send
  <2>2. Send("svc") => job["svc"].pc = "send"
    BY DEF Send, At
  <2> QED
    BY <2>1, <2>2
<1>g. (\E loop \in BOOLEAN : SetGoal(loop)) =>
        \E j : j.pc = "hasGoal" /\ ~j.flag /\ Start("svc", j)
  <2>1. SUFFICES ASSUME NEW loop \in BOOLEAN, SetGoal(loop)
                 PROVE  \E j : j.pc = "hasGoal" /\ ~j.flag /\ Start("svc", j)
    OBVIOUS
  <2> DEFINE j == [NewJob("setGoal", "hasGoal") EXCEPT !.flag = loop]
  <2>2. loop = FALSE
    BY <2>1 DEF SetGoal, NoLoops
  <2>3. j.pc = "hasGoal" /\ ~j.flag
    BY <2>2 DEF NewJob, IdleJob
  <2>4. Start("svc", j)
    BY <2>1 DEF SetGoal
  <2> QED
    BY <2>3, <2>4
<1> DEFINE Moves(L) == job'["svc"].pc \in L
           Quiets == {"idle", "braking", "cancelPublish", "manualStop",
                     "takeoverDetach"}
           Kept == job["svc"].pc \in FlagLabels
                     /\ job'["svc"].flag = job["svc"].flag
           Early == FlagLabels \ {"loopConfig"}
<1> USE <1>1, SvcThread
    DEF At, Goto, Finish, Brake, Start, NewJob, IdleJob, Job
<1>a. ASSUME Moves(Quiets)
      PROVE  SvcOneWay'
  BY <1>a DEF SvcOneWay, FlagLabels, SetGoalLabels, SendLabels, CancelLabels
<1>b. ASSUME Moves(Quiets) \/ (Moves(Early) /\ Kept)
      PROVE  SvcOneWay'
  BY <1>a, <1>b DEF SvcOneWay, FlagLabels
<1> USE DEF FlagLabels, SetGoalLabels, SendLabels, CancelLabels
<1>2. CASE HasGoal
  <2>1. Moves({"reset", "detach"}) /\ Kept
    BY <1>2 DEF HasGoal
  <2> QED
    BY <1>b, <2>1
<1>3. CASE Detach
  <2>1. \/ Moves({"braking", "idle"})
        \/ Moves({"cancelWait"}) /\ Kept
    BY <1>3 DEF Detach, AfterCancel
  <2> QED
    BY <1>b, <2>1
<1>4. CASE CancelAnswered \/ CancelAcked \/ CancelTimeout
  <2>1. \/ Moves({"braking", "idle"})
        \/ Moves({"reset", "cancelDone"}) /\ Kept
    BY <1>4 DEF CancelAnswered, CancelAcked, CancelTimeout, AfterCancel
  <2> QED
    BY <1>b, <2>1
<1>5. CASE Reset
  <2>1. Moves({"idle"}) \/ (Moves({"send"}) /\ Kept)
    BY <1>5 DEF Reset, Convert
  <2> QED
    BY <1>b, <2>1
<1>6. CASE \/ CancelPublish \/ ManualStop("svc") \/ TakeOverDetach("svc")
           \/ NotSent("svc")
  <2>1. Moves({"idle", "manualStop"})
    BY <1>6 DEF CancelPublish, ManualStop, TakeOverDetach, NotSent, SendFailed
  <2> QED
    BY <1>a, <2>1
<1>7. CASE Braking("svc")
  <2>0. Finish("svc") \/ \E n : job' = [job EXCEPT !["svc"].left = n]
    BY <1>7 DEF Braking
  <2>1. Moves({"idle", "braking"})
    BY <1>7, <2>0 DEF Braking
  <2> QED
    BY <1>a, <2>1
<1>8. CASE Send("svc")
  <2>1. PICK h : job' = [job EXCEPT !["svc"].pc = "sendWait",
                                  !["svc"].goal = h]
    BY <1>8, <1>s
  <2>2. job["svc"].pc = "send"
    BY <1>8, <1>s
  <2> DEFINE sent == [job["svc"] EXCEPT !.pc = "sendWait", !.goal = h]
  <2>3. job'["svc"] = sent
    BY <2>1
  <2>4. sent.pc = "sendWait" /\ sent.flag = job["svc"].flag
    OBVIOUS
  <2>5. Moves({"sendWait"}) /\ Kept
    BY <2>2, <2>3, <2>4
  <2> QED
    BY <1>b, <2>5
<1>9. CASE \E loop \in BOOLEAN : SetGoal(loop)
  <2>1. PICK j : j.pc = "hasGoal" /\ ~j.flag /\ Start("svc", j)
    BY <1>9, <1>g
  <2>2. job'["svc"] = j
    BY <2>1
  <2> QED
    BY <2>1, <2>2 DEF SvcOneWay
<1>10. CASE CancelGoal \/ ManualOn \/ ManualOff
  <2>1. PICK j : Start("svc", j)
                 /\ j.pc \in {"cancelPublish", "takeoverDetach", "manualStop"}
    <3>1. CASE CancelGoal
      <4> DEFINE c == [NewJob("cancel", "cancelPublish") EXCEPT
                         !.goal = nav.handle, !.flag = man.on]
      <4>1. Start("svc", c)
        BY <3>1 DEF CancelGoal
      <4>2. c.pc = "cancelPublish"
        BY DEF NewJob, IdleJob
      <4> HIDE DEF c
      <4> QED
        BY <4>1, <4>2
    <3>2. CASE ManualOn
      <4> DEFINE m == NewJob("manual", IF nav.handle = None THEN "manualStop"
                                       ELSE "takeoverDetach")
      <4>1. Start("svc", m)
        BY <3>2 DEF ManualOn
      <4>2. m.pc \in {"takeoverDetach", "manualStop"}
        BY DEF NewJob, IdleJob
      <4> HIDE DEF m
      <4> QED
        BY <4>1, <4>2
    <3>3. CASE ManualOff
      <4> DEFINE m == NewJob("manual", "manualStop")
      <4>1. Start("svc", m)
        BY <3>3 DEF ManualOff
      <4>2. m.pc = "manualStop"
        BY DEF NewJob, IdleJob
      <4> HIDE DEF m
      <4> QED
        BY <4>1, <4>2
    <3> QED
      BY <1>10, <3>1, <3>2, <3>3
  <2>2. job'["svc"] = j
    BY <2>1
  <2> QED
    BY <1>a, <2>1, <2>2
<1>11. CASE BrakeService
  <2>1. job'["svc"].pc \in {"detach", "braking"} /\ ~job'["svc"].flag
    BY <1>11 DEF BrakeService
  <2> QED
    BY <2>1 DEF SvcOneWay
<1>12. CASE Answered("svc")
  <2>1. Moves({"sendDone"}) /\ Kept
    BY <1>12 DEF Answered
  <2> QED
    BY <1>b, <2>1
<1>13. CASE Watches("svc")
  <2>1. ~job["svc"].flag
    BY <1>13 DEF Watches, SvcOneWay
  <2>2. Moves({"idle"})
    BY <1>13, <2>1 DEF Watches
  <2> QED
    BY <1>a, <2>2
<1> QED
  BY <1>2, <1>3, <1>4, <1>5, <1>6, <1>7, <1>8, <1>9, <1>10, <1>11, <1>12,
     <1>13

(* Only a velocity of Nav2 that is forwarded starts such a job.            *)
LEMMA VelocityJobs ==
  ASSUME TypeInv, ManualInv, Next, At("sub", "idle"),
         job'["sub"].op = "velocity"
  PROVE  CmdVelSafe /\ Forwarding
<1>1. job'["sub"] # job["sub"]
  BY DEF ManualInv, At
<1>2. ~Quiet
  BY <1>1 DEF Quiet
<1>3. "svc" \in Threads \ {"sub"} /\ Goals \subseteq Threads \ {"sub"}
  BY ThreadNames DEF Threads
<1>4. ~SvcStep /\ ~\E g \in Goals : ResultStep(g) \/ Result(g)
  BY <1>2, <1>3, OtherThreadsQuiet, SvcQuiet DEF SvcStep, ResultStep, Sends
<1>5. ~(AsyncBrake \/ CommandAges \/ ExternalStatus \/ ExternalAges \/ Nav2)
  BY <1>2, EnvironmentQuiet
<1>6. ~SubStep
  <2> DEFINE pc == job["sub"].pc
  <2>1. pc = "idle"
    BY DEF At
  <2>2. TeleopTakeOver => pc = "takeover"
    BY DEF TeleopTakeOver, At
  <2>3. TakeOverDetach("sub") => pc = "takeoverDetach"
    BY DEF TakeOverDetach, At
  <2>4. ManualStop("sub") => pc = "manualStop"
    BY DEF ManualStop, At
  <2>5. TeleopCmd => pc = "teleopCmd"
    BY DEF TeleopCmd, At
  <2>6. Publish => pc = "publish"
    BY DEF Publish, At
  <2>7. WatchdogStop => pc = "watchdogStop"
    BY DEF WatchdogStop, At
  <2>8. WatchdogMark => pc = "watchdogMark"
    BY DEF WatchdogMark, At
  <2>9. Braking("sub") => pc = "braking"
    BY DEF Braking, At
  <2> HIDE DEF pc
  <2> QED
    BY <2>1, <2>2, <2>3, <2>4, <2>5, <2>6, <2>7, <2>8, <2>9 DEF SubStep
<1>7. ~Watchdog
  <2>1. SUFFICES ASSUME Start("sub", NewJob("watchdog", "watchdogStop"))
                 PROVE  FALSE
    BY DEF Watchdog
  <2>2. job'["sub"].op = "watchdog"
    BY <2>1, SubFields, LabelNames, OperationNames, VelocityNames
  <2> QED
    BY <2>2
<1>8. ~Requested
  <2>1. ~\E v \in Velocities : Teleop(v)
    BY SubFields, LabelNames, OperationNames DEF Teleop
  <2>2. ~\E stop \in BOOLEAN : CollisionState(stop)
    BY <1>1, SubFields, LabelNames, OperationNames, VelocityNames
       DEF CollisionState
  <2> QED
    BY <1>2, <2>1, <2>2, SvcQuiet DEF Requested
<1>9. CmdVelSafe
  BY <1>4, <1>5, <1>6, <1>7, <1>8 DEF Next
<1>10. Forwarding
  BY <1>1, <1>9 DEF CmdVelSafe
<1> QED
  BY <1>9, <1>10

LEMMA IdleInit == Init => IdleInv
<1> SUFFICES ASSUME Init PROVE IdleInv
  OBVIOUS
<1>1. \A t \in Threads : job[t] = IdleJob
  BY DEF Init
<1> QED
  BY <1>1, GoalThreads DEF Init, IdleInv, SvcOneWay, At, IdleJob, NoGoal,
     FlagLabels, SetGoalLabels, SendLabels, CancelLabels

LEMMA IdleStep ==
  ASSUME NoLoops, TypeInv, TrackInv, IdleInv, [Next]_vars
  PROVE  IdleInv'
<1>1. "svc" \in Threads \ {"sub"} /\ Goals \subseteq Threads \ {"sub", "svc"}
  BY ThreadNames DEF Threads
<1>2. ASSUME Quieter, ext' = ext, statusMsg' = statusMsg, SvcOneWay',
             \A g \in Goals : job'[g] = job[g],
             cancelled' => cancelled \/ ~nav'.active
      PROVE  IdleInv'
  BY <1>2 DEF IdleInv, Quieter
<1>3. CASE \/ HasGoal \/ Detach \/ CancelAnswered \/ CancelAcked
           \/ CancelTimeout \/ Reset \/ CancelPublish
           \/ TakeOverDetach("svc") \/ ManualStop("svc") \/ Braking("svc")
           \/ Send("svc") \/ Answered("svc") \/ Watches("svc") \/ NotSent("svc")
           \/ \E loop \in BOOLEAN : SetGoal(loop)
           \/ CancelGoal \/ BrakeService \/ ManualOn \/ ManualOff
  <2>1. Quieter /\ ext' = ext /\ statusMsg' = statusMsg
    BY <1>1, <1>3, StepsQuieter
  <2>2. SvcOneWay' /\ \A g \in Goals : job'[g] = job[g]
    <3>1. SvcOneWay'
      BY <1>3, SvcStaysOneWay DEF IdleInv
    <3>2. CASE Answered("svc")
      BY <1>1, <3>1, <3>2, SvcStepsSafe DEF SvcSafe
    <3>3. CASE ~Answered("svc")
      BY <1>3, <3>1, <3>3, SvcBeside DEF Beside
    <3> QED
      BY <3>2, <3>3
  <2>3. cancelled' => cancelled \/ ~nav'.active
    <3>1. CASE CancelGoal
      BY <3>1, NavEnds DEF CancelGoal, Detached
    <3>2. CASE Watches("svc")
      BY <1>1, <3>2, WatchesFields
    <3>3. CASE ~CancelGoal /\ ~Watches("svc")
      BY <1>3, <3>3, SvcEndsSafe, SvcStepsSafe DEF SvcSafe
    <3> QED
      BY <3>1, <3>2, <3>3
  <2> QED
    BY <1>2, <2>1, <2>2, <2>3
<1>4. CASE \/ SubStep \/ Watchdog \/ CmdVelSafe
           \/ \E v \in Velocities : Teleop(v)
           \/ \E stop \in BOOLEAN : CollisionState(stop)
  <2>1. Quieter /\ ext' = ext /\ statusMsg' = statusMsg
    BY <1>4, StepsQuieter, GoalThreads DEF SubStep
  <2>2. cancelled' = cancelled /\ \A t \in Threads \ {"sub"} : job'[t] = job[t]
    BY <1>4, SubAside DEF Aside
  <2>3. SvcOneWay'
    BY <1>1, <2>2 DEF IdleInv, SvcOneWay, At
  <2> QED
    BY <1>1, <1>2, <2>1, <2>2, <2>3
<1>5. CASE AsyncBrake \/ CommandAges \/ ExternalStatus \/ ExternalAges \/ Nav2
  <2>1. job' = job /\ nav' = nav /\ cancelled' = cancelled
    <3>1. CASE AsyncBrake \/ CommandAges \/ ExternalStatus \/ ExternalAges
      BY <3>1 DEF AsyncBrake, CommandAges, ExternalStatus, ExternalAges, history
    <3>2. CASE Nav2
      BY <3>2 DEF Nav2, Nav2Answers, Nav2Cancels, Nav2Ends, Nav2Drives,
                  Nav2Status, history
    <3> QED
      BY <1>5, <3>1, <3>2
  <2>2. ext' # "active" /\ statusMsg' # "active"
    <3>1. CASE AsyncBrake \/ CommandAges \/ ExternalStatus \/ ExternalAges
      BY <3>1 DEF AsyncBrake, CommandAges, ExternalStatus, ExternalAges,
         msgVars, IdleInv
    <3>2. CASE Nav2
      BY <3>2 DEF Nav2, Nav2Answers, Nav2Cancels, Nav2Ends, Nav2Drives,
         Nav2Status, msgVars, IdleInv, NoLoops
    <3> QED
      BY <1>5, <3>1, <3>2
  <2> QED
    BY <2>1, <2>2 DEF IdleInv, SvcOneWay, At
<1>6. CASE Accepted("svc")
  <2>1. /\ job["svc"].pc = "sendDone" /\ cancelled' = cancelled
        /\ \A g \in Goals : job'[g] = job[g]
        /\ job'["svc"].pc = "watch" /\ job'["svc"].flag = job["svc"].flag
    BY <1>1, <1>6, AcceptedFields
  <2>2. ~job["svc"].flag /\ ~cancelled
    BY <2>1 DEF IdleInv, SvcOneWay, FlagLabels, SetGoalLabels, SendLabels,
       TrackInv
  <2>3. ~nav'.loopOn /\ nav'.mode # "loop"
    <3>1. nav \in Tracking
      BY DEF TypeInv, TypeOK
    <3>2. nav' = Adopted(job["svc"].goal, job["svc"].flag)
      BY <1>6 DEF Accepted
    <3> QED
      BY <2>2, <3>1, <3>2 DEF Adopted, Tracking
  <2>4. ext' = ext /\ statusMsg' = statusMsg
    BY <1>6 DEF Accepted, msgVars
  <2> QED
    BY <2>1, <2>2, <2>3, <2>4 DEF IdleInv, SvcOneWay, At
<1>7. CASE LoopConfig
  BY <1>7 DEF LoopConfig, IdleInv, SvcOneWay
<1>8. ASSUME NEW g \in Goals, ResultStep(g)
      PROVE  IdleInv'
  <2>1. Braking(g)
    BY <1>8 DEF ResultStep, Sends, Send, NotSent, Answered, Accepted, Watches,
       Restarted, At, IdleInv
  <2>2. ResultSafe(g)
    BY <2>1, ResultStepsSafe
  <2>3. job'[g].pc \in {"idle", "braking"}
    <3>1. job \in [Threads -> GoodJob] /\ job[g] \in Job /\ g \in Threads
      BY <1>1 DEF TypeInv, GoodJob
    <3>2. Finish(g) \/ \E n : job' = [job EXCEPT ![g].left = n]
      BY <2>1 DEF Braking
    <3>3. job[g].pc = "braking"
      BY <2>1 DEF Braking, At
    <3> QED
      BY <3>1, <3>2, <3>3 DEF Finish, IdleJob, Job
  <2>4. nav' = nav /\ ext' = ext /\ statusMsg' = statusMsg
    BY <2>1 DEF Braking, msgVars
  <2> QED
    BY <1>1, <2>2, <2>3, <2>4 DEF IdleInv, ResultSafe, SvcOneWay, At
<1>9. ASSUME NEW g \in Goals, Result(g)
      PROVE  IdleInv'
  <2>1. ~Restarts(g) /\ nav.mode # "loop"
    BY DEF IdleInv, Restarts
  <2>2. ResultSafe(g)
    BY <1>9, ResultStepsSafe
  <2>3. job'[g].pc \in {"idle", "braking"}
    <3> DEFINE b == [NewJob("result", "braking") EXCEPT !.left = BrakeCount]
    <3>1. job' = job \/ job' = [job EXCEPT ![g] = b]
      BY <1>9, <2>1 DEF Result
    <3>2. b.pc = "braking" /\ job \in [Threads -> GoodJob] /\ g \in Threads
      BY <1>1 DEF NewJob, IdleJob, TypeInv
    <3>3. job[g].pc = "idle"
      BY <1>9 DEF Result, At
    <3> QED
      BY <3>1, <3>2, <3>3
  <2>4. /\ nav' = [WithoutHandle(nav) EXCEPT !.active = FALSE, !.mode = "idle"]
        /\ ext' = ext /\ statusMsg' = statusMsg
    BY <1>9, <2>1 DEF Result, msgVars
  <2>5. Quieter
    BY <2>4, NavQuieter
  <2> QED
    BY <1>1, <2>2, <2>3, <2>4, <2>5 DEF IdleInv, ResultSafe, SvcOneWay, At,
       Quieter
<1>10. CASE UNCHANGED vars
  BY <1>10 DEF vars, msgVars, history, IdleInv, SvcOneWay, At
<1> QED
  BY <1>3, <1>4, <1>5, <1>6, <1>7, <1>8, <1>9, <1>10
     DEF Next, SvcStep, Sends, Requested

(* Without loops and other clients' goals, no velocity of Nav2 is taken    *)
(* for forwarding after cancel_goal until set_goal is called.              *)
THEOREM NoVelocityAfterCancelAlways ==
  ASSUME NoLoops
  PROVE  Spec => NoVelocityAfterCancel
<1> DEFINE Taken == cancelled /\ At("sub", "idle")
                    /\ job'["sub"].op = "velocity" /\ job'["sub"].cmd = "move"
<1>1. ASSUME TypeInv, ManualInv, IdleInv, Next, Taken
      PROVE  FALSE
  <2>1. CmdVelSafe
    BY <1>1, VelocityJobs
  <2>2. Forwarding
    BY <1>1, <2>1, VelocityJobs
  <2> QED
    BY <1>1, <2>2 DEF Forwarding, GoalActive, IdleInv, NoLoops
<1>2. TypeInv /\ ManualInv /\ IdleInv /\ [Next]_vars =>
        [cancelled /\ At("sub", "idle") /\ job'["sub"].op = "velocity"
           => job'["sub"].cmd # "move"]_vars
  BY <1>1
<1>3. TypeInv /\ TrackInv /\ IdleInv /\ [Next]_vars => IdleInv'
  BY IdleStep
<1> QED
  BY <1>2, <1>3, InitTypes, NextTypes, TrackInvariant, ManualInvariant,
     IdleInit, PTL
     DEF Spec, NoVelocityAfterCancel

-----------------------------------------------------------------------------
(***************************************************************************)
(* The drive authority. A command is held while the subscription thread is *)
(* about to publish it, so a step of any other thread either decides who   *)
(* is in charge or stops the robot, and never both.                        *)
(***************************************************************************)
LEMMA Deciding ==
  ASSUME Held' = Held, out' = out,
         \/ man'.on = man.on /\ man'.sent = man.sent
         \/ ~man'.on \/ ~man'.sent
  PROVE  [Authority!Next]_(Authority!vars)
<1>1. Charge' \in Authority!Parties
  BY DEF Charge, Authority!Parties, Authority!Drivers
<1>2. CASE ~man'.on \/ ~man'.sent
  BY <1>1, <1>2 DEF Authority!Decide, Authority!Next
<1>3. CASE man'.on = man.on /\ man'.sent = man.sent /\ man'.on /\ man'.sent
  <2>1. Charge' = Charge
    BY <1>3 DEF Charge
  <2> QED
    BY <1>3, <2>1 DEF Authority!vars
<1> QED
  BY <1>2, <1>3

LEMMA Halting ==
  ASSUME Held' = Held, out' \in {"zero", "brake"},
         UNCHANGED <<nav, man, ext, collision>>
  PROVE  [Authority!Next]_(Authority!vars)
<1>1. Charge' = Charge
  BY DEF Charge, Forwarding, GoalActive
<1> QED
  BY <1>1 DEF Authority!Halt, Authority!Next

LEMMA HeldNothing ==
  /\ ~At("sub", "publish") => Held = "none"
  /\ job'["sub"].pc # "publish" => Held' = "none"
  /\ job'["sub"] = job["sub"] => Held' = Held
BY DEF Held, At

(* Whoever stops the robot leaves the charge alone.                        *)
HaltsOnly == /\ out' \in {"zero", "brake"}
             /\ UNCHANGED <<nav, man, ext, collision>>

LEMMA QuietRefines ==
  ASSUME Quiet, out' = out \/ HaltsOnly
  PROVE  [Authority!Next]_(Authority!vars)
<1>1. Held' = Held
  BY HeldNothing DEF Quiet
<1>2. CASE out' = out
  BY <1>1, <1>2, Deciding DEF Quiet
<1>3. CASE HaltsOnly
  BY <1>1, <1>3, Halting DEF HaltsOnly
<1> QED
  BY <1>2, <1>3

LEMMA SvcRefines ==
  ASSUME TypeInv,
         \/ HasGoal \/ Detach \/ CancelAnswered \/ CancelAcked
         \/ CancelTimeout \/ Reset \/ LoopConfig \/ CancelPublish
         \/ CancelGoal \/ BrakeService \/ ManualOn \/ ManualOff
         \/ \E loop \in BOOLEAN : SetGoal(loop)
  PROVE  [Authority!Next]_(Authority!vars)
<1>1. CASE CancelPublish
  BY <1>1, SvcQuiet, QuietRefines DEF CancelPublish, HaltsOnly
<1>2. CASE ~CancelPublish
  <2>1. out' = out
    BY <1>2 DEF HasGoal, Detach, CancelAnswered, CancelAcked, CancelTimeout,
       Reset, LoopConfig, CancelGoal, BrakeService, ManualOn, ManualOff, SetGoal
  <2> QED
    BY <2>1, SvcQuiet, QuietRefines
<1> QED
  BY <1>1, <1>2

LEMMA OtherThreadsRefine ==
  ASSUME TypeInv, NEW t \in Threads \ {"sub"},
         \/ TakeOverDetach(t) \/ ManualStop(t) \/ Braking(t)
         \/ Sends(t) \/ Restarted(t) \/ Result(t)
  PROVE  [Authority!Next]_(Authority!vars)
<1>1. CASE ManualStop(t) \/ Braking(t)
  <2>1. HaltsOnly
    BY <1>1 DEF ManualStop, Braking, HaltsOnly
  <2> QED
    BY <1>1, <2>1, OtherThreadsQuiet, QuietRefines
<1>2. CASE TakeOverDetach(t) \/ Sends(t) \/ Restarted(t) \/ Result(t)
  <2>1. out' = out
    BY <1>2 DEF TakeOverDetach, Sends, Send, NotSent, Answered, Accepted,
       Watches, Restarted, Result
  <2> QED
    BY <1>2, <2>1, OtherThreadsQuiet, QuietRefines
<1> QED
  BY <1>1, <1>2

LEMMA EnvironmentRefines ==
  ASSUME TypeInv,
         AsyncBrake \/ CommandAges \/ ExternalStatus \/ ExternalAges \/ Nav2
  PROVE  [Authority!Next]_(Authority!vars)
<1>1. CASE AsyncBrake
  BY <1>1, EnvironmentQuiet, QuietRefines DEF AsyncBrake, HaltsOnly
<1>2. CASE CommandAges \/ ExternalStatus \/ ExternalAges \/ Nav2
  <2>1. out' = out
    BY <1>2 DEF CommandAges, ExternalStatus, ExternalAges, Nav2, Nav2Answers,
       Nav2Cancels, Nav2Ends, Nav2Drives, Nav2Status
  <2> QED
    BY <1>2, <2>1, EnvironmentQuiet, QuietRefines
<1> QED
  BY <1>1, <1>2

LEMMA SubThread ==
  ASSUME TypeInv
  PROVE  /\ "sub" \in Threads /\ job["sub"] \in Job
         /\ job \in [Threads -> GoodJob]
BY DEF TypeInv, Threads, GoodJob

(* The subscription thread: it takes a command from the party in charge,   *)
(* publishes it, and marks the stop for silence.                           *)
LEMMA TeleopCmdRefines ==
  ASSUME TypeInv, ManualInv, TeleopCmd
  PROVE  [Authority!Next]_(Authority!vars)
<1>1. Held = "none" /\ job["sub"].op # "velocity"
  BY HeldNothing, LabelNames DEF TeleopCmd, At, ManualInv
<1>2. CASE man.on
  <2>1. man'.on /\ ~man'.sent /\ Goto("sub", "publish") /\ out' = out
    BY <1>2 DEF TeleopCmd, Commanded, TypeInv, TypeOK, Manual
  <2>2. job'["sub"].op # "velocity"
    BY <1>1, <2>1, SubFields, LabelNames
  <2>3. Held' \in {"operator", "none"}
    BY <2>2 DEF Held
  <2>4. Charge = "operator" /\ Charge' = "operator"
    BY <1>2, <2>1 DEF Charge
  <2>5. Authority!Take("operator")
    BY <1>1, <2>1, <2>3, <2>4 DEF Authority!Take
  <2> QED
    BY <2>5 DEF Authority!Next, Authority!Drivers
<1>3. CASE ~man.on
  <2>1. Finish("sub") /\ UNCHANGED man /\ out' = out
    BY <1>3 DEF TeleopCmd
  <2>2. Held' = "none"
    BY <2>1, SubFields, HeldNothing, LabelNames
  <2> QED
    BY <1>1, <2>1, <2>2, Deciding
<1> QED
  BY <1>2, <1>3

LEMMA PublishRefines ==
  ASSUME TypeInv, Publish
  PROVE  [Authority!Next]_(Authority!vars)
<1>1. /\ out' = job["sub"].cmd /\ At("sub", "publish") /\ Finish("sub")
      /\ UNCHANGED <<nav, man, ext, collision>>
  BY DEF Publish
<1>2. Held' = "none"
  BY <1>1, SubFields, HeldNothing, LabelNames
<1>3. CASE job["sub"].cmd = "move"
  <2>1. Held # "none"
    BY <1>1, <1>3 DEF Held
  <2>2. Charge' = Charge
    BY <1>1 DEF Charge, Forwarding, GoalActive
  <2>3. Authority!Move
    BY <1>1, <1>2, <1>3, <2>1, <2>2 DEF Authority!Move
  <2> QED
    BY <2>3 DEF Authority!Next
<1>4. CASE job["sub"].cmd # "move"
  <2>1. Held = "none"
    BY <1>4 DEF Held
  <2>2. out' \in {"zero", "brake"}
    BY <1>1, <1>4, SubThread DEF Job, Velocities
  <2> QED
    BY <1>1, <1>2, <2>1, <2>2, Halting
<1> QED
  BY <1>3, <1>4

LEMMA WatchdogRefines ==
  ASSUME TypeInv, ManualInv,
         WatchdogStop \/ WatchdogMark \/ Watchdog \/ Braking("sub")
  PROVE  [Authority!Next]_(Authority!vars)
<1> USE HeldNothing, SubFields, LabelNames, OperationNames, VelocityNames
<1>1. CASE WatchdogStop \/ Braking("sub")
  <2>1. Held = "none" /\ HaltsOnly
    BY <1>1 DEF WatchdogStop, Braking, At, HaltsOnly
  <2>2. job'["sub"].pc \in {"watchdogMark", "idle", "braking"}
    BY <1>1, SubBraking DEF WatchdogStop
  <2> QED
    BY <2>1, <2>2, Halting DEF HaltsOnly
<1>2. CASE WatchdogMark
  <2>1. /\ Held = "none" /\ out # "move" /\ UNCHANGED <<out, nav, ext>>
        /\ Finish("sub") /\ man' = [man EXCEPT !.cmd = "zero", !.sent = TRUE]
    BY <1>2 DEF WatchdogMark, At, ManualInv
  <2>2. Held' = "none" /\ man'.on = man.on /\ man'.sent
    BY <2>1 DEF TypeInv, TypeOK, Manual
  <2>3. CASE man.on
    <3>1. Charge = "operator" /\ Charge' = "operator"
      BY <2>2, <2>3 DEF Charge
    <3>2. Authority!Silence
      BY <2>1, <2>2, <2>3, <3>1 DEF Authority!Silence
    <3> QED
      BY <3>2 DEF Authority!Next
  <2>4. CASE ~man.on
    BY <2>1, <2>2, <2>4, Deciding
  <2> QED
    BY <2>3, <2>4
<1>3. CASE Watchdog
  <2>1. /\ Start("sub", NewJob("watchdog", "watchdogStop"))
        /\ UNCHANGED <<man, out>>
    BY <1>3 DEF Watchdog
  <2>2. job'["sub"].pc = "watchdogStop"
    BY <2>1
  <2>3. At("sub", "idle")
    BY <2>1 DEF Start
  <2>4. Held = "none" /\ Held' = "none"
    BY <2>2, <2>3 DEF At
  <2> QED
    BY <2>1, <2>4, Deciding
<1> QED
  BY <1>1, <1>2, <1>3

LEMMA CmdVelSafeRefines ==
  ASSUME TypeInv, CmdVelSafe
  PROVE  [Authority!Next]_(Authority!vars)
<1>1. UNCHANGED <<nav, man, ext, collision, out>> /\ At("sub", "idle")
  BY DEF CmdVelSafe, Start
<1>2. Held = "none" /\ Charge' = Charge
  BY <1>1, HeldNothing, LabelNames DEF At, Charge, Forwarding, GoalActive
<1>3. CASE Forwarding
  <2> DEFINE v == IF collision THEN "brake" ELSE "move"
  <2>1. v \in Velocities
    BY VelocityNames
  <2>2. Start("sub", [NewJob("velocity", "publish") EXCEPT !.cmd = v])
    BY <1>3 DEF CmdVelSafe
  <2>3. job'["sub"].op = "velocity" /\ job'["sub"].cmd = v
    BY <2>2, SubThread DEF Start, NewJob, IdleJob
  <2>4. CASE collision
    <3>1. Held' = "none"
      BY <2>3, <2>4 DEF Held
    <3> QED
      BY <1>1, <1>2, <3>1, Deciding
  <2>5. CASE ~collision
    <3>1. Held' \in {"nav2", "none"}
      BY <2>3 DEF Held
    <3>2. Charge = "nav2" /\ ~man.on
      BY <1>3, <2>5 DEF Charge, Forwarding
    <3>3. Authority!Take("nav2")
      BY <1>1, <1>2, <3>1, <3>2 DEF Authority!Take
    <3> QED
      BY <3>3 DEF Authority!Next, Authority!Drivers
  <2> QED
    BY <2>4, <2>5
<1>4. CASE ~Forwarding
  <2>1. Held' = Held
    BY <1>4, HeldNothing DEF CmdVelSafe
  <2> QED
    BY <1>1, <2>1, Deciding
<1> QED
  BY <1>3, <1>4

LEMMA TeleopRefines ==
  ASSUME TypeInv,
         \/ TeleopTakeOver \/ TakeOverDetach("sub") \/ ManualStop("sub")
         \/ \E v \in Velocities : Teleop(v)
         \/ \E stop \in BOOLEAN : CollisionState(stop)
  PROVE  [Authority!Next]_(Authority!vars)
<1> USE HeldNothing, SubFields, LabelNames, OperationNames, VelocityNames
<1>1. CASE TeleopTakeOver
  <2>1. job'["sub"].pc \in {"manualStop", "takeoverDetach"}
    BY <1>1 DEF TeleopTakeOver
  <2>2. Held = "none" /\ Held' = "none" /\ out' = out /\ ~man'.sent
    BY <1>1, <2>1 DEF TeleopTakeOver, TakeOver, NoManualCmd, At
  <2> QED
    BY <2>2, Deciding
<1>2. CASE TakeOverDetach("sub")
  <2>1. job'["sub"].pc = "manualStop"
    BY <1>2 DEF TakeOverDetach
  <2>2. Held = "none" /\ Held' = "none" /\ out' = out /\ man' = man
    BY <1>2, <2>1 DEF TakeOverDetach, At
  <2> QED
    BY <2>2, Deciding
<1>3. CASE ManualStop("sub")
  <2>1. job'["sub"].pc = "teleopCmd"
    BY <1>3 DEF ManualStop
  <2>2. Held = "none" /\ Held' = "none" /\ HaltsOnly
    BY <1>3, <2>1 DEF ManualStop, At, HaltsOnly
  <2> QED
    BY <2>2, Halting DEF HaltsOnly
<1>4. CASE \E v \in Velocities : Teleop(v)
  <2>1. job'["sub"].pc \in {"teleopCmd", "takeover"}
    BY <1>4 DEF Teleop
  <2>2. At("sub", "idle") /\ out' = out /\ man' = man
    BY <1>4 DEF Teleop, Start
  <2>3. Held = "none" /\ Held' = "none"
    BY <2>1, <2>2 DEF At
  <2> QED
    BY <2>2, <2>3, Deciding
<1>5. CASE \E stop \in BOOLEAN : CollisionState(stop)
  <2>1. job'["sub"] = job["sub"] \/ job'["sub"].pc = "braking"
    BY <1>5 DEF CollisionState
  <2>2. At("sub", "idle") /\ out' = out /\ man' = man
    BY <1>5 DEF CollisionState, Start
  <2>3. Held = "none" /\ Held' = "none"
    BY <2>1, <2>2 DEF At
  <2> QED
    BY <2>2, <2>3, Deciding
<1> QED
  BY <1>1, <1>2, <1>3, <1>4, <1>5

LEMMA AuthorityInit == Init => Authority!Init
<1> SUFFICES ASSUME Init PROVE Authority!Init
  OBVIOUS
<1>1. job["sub"].pc = "idle"
  BY DEF Init, Threads, IdleJob
<1>2. Held = "none"
  BY <1>1, HeldNothing, LabelNames DEF At
<1>3. ~man.on /\ ~man.sent
  BY DEF Init, NoManualCmd
<1>4. Charge \in {"nobody", "nav2"}
  BY <1>3 DEF Charge
<1> QED
  BY <1>2, <1>3, <1>4 DEF Init, Authority!Init

LEMMA StepRefines ==
  ASSUME TypeInv, ManualInv, [Next]_vars
  PROVE  [Authority!Next]_(Authority!vars)
<1>1. "svc" \in Threads \ {"sub"} /\ Goals \subseteq Threads \ {"sub"}
  BY ThreadNames DEF Threads
<1>2. CASE SvcStep
  BY <1>1, <1>2, SvcRefines, OtherThreadsRefine DEF SvcStep
<1>3. CASE \E g \in Goals : ResultStep(g) \/ Result(g)
  BY <1>1, <1>3, OtherThreadsRefine DEF ResultStep
<1>4. CASE Requested
  BY <1>4, SvcRefines, TeleopRefines DEF Requested
<1>5. CASE SubStep \/ Watchdog \/ CmdVelSafe
  BY <1>5, TeleopRefines, TeleopCmdRefines, PublishRefines, WatchdogRefines,
     CmdVelSafeRefines DEF SubStep
<1>6. CASE AsyncBrake \/ CommandAges \/ ExternalStatus \/ ExternalAges \/ Nav2
  BY <1>6, EnvironmentRefines
<1>7. CASE UNCHANGED vars
  BY <1>7, HeldNothing, Deciding DEF vars
<1> QED
  BY <1>2, <1>3, <1>4, <1>5, <1>6, <1>7 DEF Next

(* nav_command_server implements the drive authority, whatever its goals,  *)
(* threads and brake messages are.                                         *)
THEOREM ImplementsDriveAuthority == Spec => IsDriveAuthority
BY AuthorityInit, StepRefines, InitTypes, NextTypes, ManualInvariant, PTL
   DEF Spec, IsDriveAuthority, Authority!Spec
=============================================================================
