------------------------ MODULE DatumAndPaths_proofs ------------------------
(* The two nodes that work for the goals of the operator, at any sizes:    *)
(* the datum setter (any positions, any number of retries) and the node    *)
(* that follows goal poses (any number of goals).                          *)
EXTENDS MCGateway, TLAPS

DatumConstants == None \notin Fixes /\ Retries \in Nat \ {0}

-----------------------------------------------------------------------------
(* An edge nothing was started for yet is pending, or on its way to the    *)
(* look at the yaw, which makes it so.                                     *)
EdgeInv ==
  /\ op \in [D!Callbacks -> [pc : D!Labels, fix : Fixes \cup {None},
                           left : 0..Retries,
                           answer : {"none", "sent", "done"}]]
  /\ gps \in Fixes \cup {None}
  /\ edge => D!At("sub", "yaw") \/ (D!At("sub", "idle") /\ pending)

(* Whoever is past the lock holds it. Without a call that was given up,    *)
(* the two datums differ only between the two ends of a call.              *)
Calling == {"resolve", "wait", "commit"}
Applied(c) == D!At(c, "commit") \/ (D!At(c, "wait") /\ op[c].answer = "done")
DatumInv ==
  /\ \A c \in D!Callbacks : op[c].pc \in Calling <=> lock = c
  /\ lock \in D!Callbacks \cup {"free"}
  /\ ~lateSet =>
       /\ lateFixes = {}
       /\ \A c \in D!Callbacks : Applied(c) => navsat = op[c].fix
       /\ (\A c \in D!Callbacks : ~Applied(c)) => datum = navsat

LEMMA DatumInit ==
  ASSUME DatumConstants, D!Init
  PROVE  EdgeInv /\ DatumInv
BY DEF DatumConstants, D!Init, EdgeInv, DatumInv, D!IdleOp, D!Callbacks,
   D!Labels, D!At,
   Calling, Applied

LEMMA StartedOp ==
  ASSUME NEW c \in D!Callbacks, NEW l \in D!Labels,
     NEW fix \in Fixes \cup {None},
         DatumConstants, EdgeInv, D!Start(c, l, fix)
  PROVE  /\ op' \in [D!Callbacks -> [pc : D!Labels, fix : Fixes \cup {None},
                                   left : 0..Retries,
                                   answer : {"none", "sent", "done"}]]
         /\ op'[c].pc = l
         /\ \A d \in D!Callbacks \ {c} : op'[d] = op[d]
<1>1. [pc |-> l, fix |-> fix, left |-> 0, answer |-> "none"]
        \in [pc : D!Labels, fix : Fixes \cup {None}, left : 0..Retries,
            answer : {"none", "sent", "done"}]
  BY DEF DatumConstants
<1> QED
  BY <1>1 DEF D!Start, EdgeInv

LEMMA EdgeNext ==
  ASSUME DatumConstants, EdgeInv, [D!Next]_(D!vars)
  PROVE  EdgeInv'
<1> USE DEF DatumConstants, EdgeInv, D!At, D!Goto, D!Done, D!IdleOp,
   D!Callbacks, D!Labels
<1>1. CASE D!OnGpsFix
  <2>1. PICK fix \in Fixes, isRtk \in BOOLEAN :
          LET isNow == D!Combined([rtk EXCEPT !.navsat = isRtk]) IN
          /\ gps' = fix
          /\ edge' = (isNow /\ (edge \/ ~current))
          /\ IF isNow /\ (~current \/ pending)
             THEN D!Start("sub", "yaw", fix) ELSE UNCHANGED op
    BY <1>1 DEF D!OnGpsFix, D!Track
  <2>2. D!At("sub", "idle")
    BY <1>1 DEF D!OnGpsFix
  <2>3. CASE D!Start("sub", "yaw", fix)
    BY <2>1, <2>3, StartedOp
  <2>4. CASE ~D!Start("sub", "yaw", fix)
    <3>1. op' = op /\ ~edge'
      BY <2>1, <2>2, <2>4
    <3> QED
      BY <2>1, <3>1
  <2> QED
    BY <2>3, <2>4
<1>2. CASE D!OnRtkStatus
  <2>1. PICK isRtk \in BOOLEAN :
          LET isNow == D!Combined([rtk EXCEPT !.status = isRtk])
              isEdge == isNow /\ ~current IN
          /\ edge' = (isNow /\ (edge \/ ~current))
          /\ pending' = IF isEdge THEN gps = None ELSE isNow /\ pending
          /\ IF isEdge /\ gps # None
             THEN D!Start("sub", "yaw", gps) ELSE UNCHANGED op
    BY <1>2 DEF D!OnRtkStatus, D!Track
  <2>2. D!At("sub", "idle") /\ gps' = gps
    BY <1>2 DEF D!OnRtkStatus
  <2>3. CASE D!Start("sub", "yaw", gps)
    BY <2>2, <2>3, StartedOp
  <2>4. CASE ~D!Start("sub", "yaw", gps)
    <3>1. op' = op /\ (edge' => pending')
      BY <2>1, <2>2, <2>4
    <3> QED
      BY <2>2, <3>1
  <2> QED
    BY <2>3, <2>4
<1>3. CASE D!OnImu
  <2>1. D!At("sub", "idle") /\ gps' = gps
    BY <1>3 DEF D!OnImu
  <2>2. CASE edge' = FALSE /\ gps # None /\ D!Start("sub", "apply", gps)
    BY <2>1, <2>2, StartedOp
  <2>3. CASE UNCHANGED <<pending, op, edge>>
    BY <2>1, <2>3
  <2> QED
    BY <1>3, <2>2, <2>3 DEF D!OnImu
<1>4. CASE D!CheckYaw
  <2>1. D!At("sub", "yaw") /\ gps' = gps
    BY <1>4 DEF D!CheckYaw
  <2>2. CASE D!Goto("sub", "apply") /\ ~edge'
    BY <2>1, <2>2
  <2>3. CASE D!Done("sub") /\ pending' = TRUE
    BY <2>1, <2>3
  <2> QED
    BY <1>4, <2>2, <2>3 DEF D!CheckYaw
<1>5. CASE D!OnSetDatum
  <2>1. PICK fix \in Fixes \cup {None} : D!Start("srv", "apply", fix)
    BY <1>5 DEF D!OnSetDatum
  <2>2. UNCHANGED <<gps, pending, edge>>
    BY <1>5 DEF D!OnSetDatum, D!sensed
  <2> QED
    BY <2>1, <2>2, StartedOp
<1>6. CASE D!YawAges \/ D!NavsatSetsDatumLate \/ UNCHANGED D!vars
  BY <1>6 DEF D!YawAges, D!NavsatSetsDatumLate, D!vars, D!sensed, D!applied
<1>7. ASSUME NEW c \in D!Callbacks, D!OpStep(c) \/ D!NavsatSetsDatum(c)
      PROVE  EdgeInv'
  <2> USE DEF D!sensed
  <2>1. CASE D!Apply(c)
    BY <2>1 DEF D!Apply
  <2>2. CASE D!TakeLock(c)
    BY <2>2 DEF D!TakeLock
  <2>3. CASE D!CallSetDatum(c)
    BY <2>3 DEF D!CallSetDatum
  <2>4. CASE D!ServiceUnavailable(c) \/ D!CallTimesOut(c)
    BY <2>4 DEF D!ServiceUnavailable, D!CallTimesOut, D!Retry
  <2>5. CASE D!ResponseArrives(c) \/ D!Commit(c)
    BY <2>5 DEF D!ResponseArrives, D!Commit
  <2>6. CASE D!NavsatSetsDatum(c)
    BY <2>6 DEF D!NavsatSetsDatum
  <2> QED
    BY <1>7, <2>1, <2>2, <2>3, <2>4, <2>5, <2>6 DEF D!OpStep
<1> QED
  BY <1>1, <1>2, <1>3, <1>4, <1>5, <1>6, <1>7 DEF D!Next

LEMMA DatumNext ==
  ASSUME DatumConstants, EdgeInv, DatumInv, [D!Next]_(D!vars)
  PROVE  DatumInv'
<1> USE DEF DatumConstants, EdgeInv, DatumInv, Calling, Applied, D!At, D!Goto,
            D!Done, D!IdleOp, D!Callbacks, D!Labels
<1>1. CASE D!OnGpsFix \/ D!OnRtkStatus \/ D!OnImu \/ D!CheckYaw \/ D!OnSetDatum
  <2>1. UNCHANGED <<datum, lock, navsat, lateFixes, lateSet>>
    BY <1>1 DEF D!OnGpsFix, D!OnRtkStatus, D!OnImu, D!CheckYaw, D!OnSetDatum,
       D!applied
  <2>2. \/ op' = op
        \/ \E c \in D!Callbacks : /\ op[c].pc \in {"idle", "yaw"}
                                /\ op'[c].pc \in {"idle", "yaw", "apply"}
                                /\ \A d \in D!Callbacks \ {c} : op'[d] = op[d]
    <3>1. CASE D!OnGpsFix
      <4>1. PICK fix \in Fixes : D!Start("sub", "yaw", fix) \/ op' = op
        BY <3>1 DEF D!OnGpsFix
      <4> QED
        BY <3>1, <4>1, StartedOp DEF D!OnGpsFix
    <3>2. CASE D!OnRtkStatus
      <4>1. D!Start("sub", "yaw", gps) \/ op' = op
        BY <3>2 DEF D!OnRtkStatus
      <4> QED
        BY <3>2, <4>1, StartedOp DEF D!OnRtkStatus
    <3>3. CASE D!OnImu
      <4>1. D!Start("sub", "apply", gps) \/ op' = op
        BY <3>3 DEF D!OnImu
      <4> QED
        BY <3>3, <4>1, StartedOp DEF D!OnImu
    <3>4. CASE D!CheckYaw
      BY <3>4 DEF D!CheckYaw
    <3>5. CASE D!OnSetDatum
      <4>1. PICK fix \in Fixes \cup {None} : D!Start("srv", "apply", fix)
        BY <3>5 DEF D!OnSetDatum
      <4> QED
        BY <3>5, <4>1, StartedOp DEF D!OnSetDatum
    <3> QED
      BY <1>1, <3>1, <3>2, <3>3, <3>4, <3>5
  <2> QED
    BY <2>1, <2>2
<1>2. CASE D!YawAges \/ UNCHANGED D!vars
  BY <1>2 DEF D!YawAges, D!vars, D!applied
<1>3. CASE D!NavsatSetsDatumLate
  BY <1>3 DEF D!NavsatSetsDatumLate
<1>4. ASSUME NEW c \in D!Callbacks, D!OpStep(c) \/ D!NavsatSetsDatum(c)
      PROVE  DatumInv'
  <2>1. CASE D!Apply(c)
    BY <2>1 DEF D!Apply, D!applied
  <2>2. CASE D!TakeLock(c)
    BY <2>2 DEF D!TakeLock
  <2>3. CASE D!CallSetDatum(c)
    BY <2>3 DEF D!CallSetDatum, D!applied
  <2>4. CASE D!ServiceUnavailable(c)
    BY <2>4 DEF D!ServiceUnavailable, D!Retry
  <2>5. CASE D!CallTimesOut(c)
    BY <2>5 DEF D!CallTimesOut, D!Retry
  <2>6. CASE D!ResponseArrives(c)
    BY <2>6 DEF D!ResponseArrives, D!applied
  <2>7. CASE D!Commit(c)
    BY <2>7 DEF D!Commit
  <2>8. CASE D!NavsatSetsDatum(c)
    BY <2>8 DEF D!NavsatSetsDatum
  <2> QED
    BY <1>4, <2>1, <2>2, <2>3, <2>4, <2>5, <2>6, <2>7, <2>8 DEF D!OpStep
<1> QED
  BY <1>1, <1>2, <1>3, <1>4 DEF D!Next

-----------------------------------------------------------------------------
(* The datum changes by its own steps only.                                *)
LEMMA DatumFrame ==
  /\ Init => D!Init
  /\ [Next]_vars => [D!Next]_(D!vars)
BY DEF Init, Next, vars, Recorder, Manual, Zones, Camera, Pages, Datum, Follow,
   Streams, Status, datumVars, D!vars, D!sensed, D!applied

(* No RTK edge is forgotten while RTK holds, whichever of fix, status and  *)
(* yaw was missing when it came.                                           *)
THEOREM EdgeIsAlwaysKept ==
  ASSUME DatumConstants
  PROVE  Spec => []EdgeIsKept
<1>1. Init => EdgeInv
  BY DatumFrame, DatumInit
<1>2. EdgeInv /\ [Next]_vars => EdgeInv'
  BY DatumFrame, EdgeNext
<1>3. EdgeInv => EdgeIsKept
  BY DEF EdgeInv, EdgeIsKept, D!EdgeIsKept, D!At
<1> QED
  BY <1>1, <1>2, <1>3, PTL DEF Spec

(* Without a call that was given up, the datum the node reports is the one *)
(* navsat_transform uses, whoever set it.                                  *)
THEOREM DatumAlwaysAgrees ==
  ASSUME DatumConstants
  PROVE  Spec => []DatumAgrees
<1>1. Init => EdgeInv /\ DatumInv
  BY DatumFrame, DatumInit
<1>2. EdgeInv /\ DatumInv /\ [Next]_vars => (EdgeInv /\ DatumInv)'
  BY DatumFrame, EdgeNext, DatumNext
<1>3. DatumInv => DatumAgrees
  BY DEF DatumInv, DatumAgrees, D!DatumAgrees, Applied, Calling, D!At,
     D!Callbacks
<1> QED
  BY <1>1, <1>2, <1>3, PTL DEF Spec
-----------------------------------------------------------------------------

FollowConstants == None \notin Goals

(* Goals the server has not ended yet, or whose end the node was not told. *)
Live == F!InFlight \cup F!Untold

(* While nothing came that the monitor does not expect, two goals are live *)
(* only while one replaces the other: the old one is cancelled, and if the *)
(* new one may run the result of the old one will be ignored.              *)
Replaced(old, new) ==
  /\ goal[old] \in {"canceling", "canceled"}
  /\ goal[old] = "canceling" => goal[new] = "sent"
  /\ goal[new] # "canceling"
  /\ goal[new] \in F!Running => ignore
ReplacedInv ==
  /\ \A g, h \in Live : g # h => Replaced(g, h) \/ Replaced(h, g)
  /\ \A g, h, k \in Live : g = h \/ h = k \/ g = k

(* While a cancel of the monitor is under way its goal is the only one.    *)
CancelInv ==
  cancel.answer # "none" =>
    /\ replan /\ Live \subseteq {cancel.goal}
    /\ cancel.goal \in Live => ignore
    /\ cancel.answer = "accepted" =>
         goal[cancel.goal] \in {"canceling", "canceled"}

FollowTypes == F!TypeOK /\ (cancel.answer # "none" => cancel.goal \in Goals)
FollowInv ==
  FollowTypes /\ (~overtaken => ~wrongHold /\ ReplacedInv /\ CancelInv)

LEMMA FollowInit ==
  ASSUME F!Init
  PROVE  FollowInv
BY DEF F!Init, FollowInv, FollowTypes, F!TypeOK, ReplacedInv, CancelInv, Live,
   F!InFlight, F!Untold, F!NoCancel, F!Running, F!Answered, F!Ended

LEMMA SentTyped ==
  ASSUME FollowTypes, F!SendFollowPathGoal
  PROVE  goal' \in [Goals -> {"new"} \cup F!Running \cup F!Answered]
<1>1. goal \in [Goals -> {"new"} \cup F!Running \cup F!Answered]
  BY DEF FollowTypes, F!TypeOK
<1>2. \A g \in Goals : [goal EXCEPT ![g] = "sent"] \in
        [Goals -> {"new"} \cup F!Running \cup F!Answered]
  BY <1>1 DEF F!Running
<1> QED
  BY <1>1, <1>2 DEF F!SendFollowPathGoal

LEMMA FollowTyped ==
  ASSUME FollowConstants, FollowTypes, [F!Next]_(F!vars)
  PROVE  FollowTypes'
<1> USE DEF FollowConstants, FollowTypes, F!TypeOK, F!Running, F!Answered,
            F!Ended, F!node, F!NoCancel
<1>1. CASE F!OnOdometry
  BY <1>1 DEF F!OnOdometry
<1>2. CASE F!OnGoalPose
  <2>1. F!SendFollowPathGoal /\ overtaken' \in BOOLEAN
        /\ UNCHANGED <<ignore, cancel, told, wrongHold>>
    BY <1>2 DEF F!OnGoalPose
  <2>2. goal' \in [Goals -> {"new"} \cup F!Running \cup F!Answered]
    BY <2>1, SentTyped DEF FollowTypes, F!TypeOK
  <2> QED
    BY <2>1, <2>2 DEF F!SendFollowPathGoal
<1>3. CASE F!OnPathMonitorTimer
  <2>1. cancel' \in [goal : Goals \cup {None},
                     answer : {"none", "sent", "accepted", "refused"}]
        /\ cancel'.goal \in Goals
    BY <1>3 DEF F!OnPathMonitorTimer
  <2> QED
    BY <1>3, <2>1 DEF F!OnPathMonitorTimer
<1>4. CASE F!OnCancelForReplan
  <2>1. /\ \/ F!SendFollowPathGoal
           \/ replan' = FALSE /\ UNCHANGED <<posed, handle, active, goal>>
        /\ cancel' = F!NoCancel
        /\ UNCHANGED <<ignore, told, wrongHold, overtaken>>
    BY <1>4 DEF F!OnCancelForReplan
  <2>2. goal' \in [Goals -> {"new"} \cup F!Running \cup F!Answered]
    BY <2>1, SentTyped DEF FollowTypes, F!TypeOK
  <2> QED
    BY <2>1, <2>2 DEF F!SendFollowPathGoal
<1>5. CASE F!ServerTakesCancel
  <2>1. cancel' \in [goal : Goals \cup {None},
                     answer : {"none", "sent", "accepted", "refused"}]
        /\ cancel'.goal = cancel.goal
    BY <1>5 DEF F!ServerTakesCancel
  <2>2. goal' \in [Goals -> {"new"} \cup F!Running \cup F!Answered]
    BY <1>5 DEF F!ServerTakesCancel
  <2> QED
    BY <1>5, <2>1, <2>2 DEF F!ServerTakesCancel
<1>6. ASSUME NEW g \in Goals, F!OnGoalResponse(g)
      PROVE  FollowTypes'
  <2>1. told' \in [response : SUBSET Goals, result : SUBSET Goals]
    BY <1>6 DEF F!OnGoalResponse
  <2> QED
    BY <1>6, <2>1 DEF F!OnGoalResponse
<1>7. ASSUME NEW g \in Goals, F!OnGoalResult(g)
      PROVE  FollowTypes'
  <2>1. told' \in [response : SUBSET Goals, result : SUBSET Goals]
    BY <1>7 DEF F!OnGoalResult
  <2> QED
    BY <1>7, <2>1 DEF F!OnGoalResult
<1>8. ASSUME NEW g \in Goals, F!ServerAnswers(g)
      PROVE  FollowTypes'
  <2>1. goal' \in [Goals -> {"new"} \cup F!Running \cup F!Answered]
    BY <1>8 DEF F!ServerAnswers
  <2>2. overtaken' \in BOOLEAN
    BY <1>8 DEF F!ServerAnswers
  <2> QED
    BY <1>8, <2>1, <2>2 DEF F!ServerAnswers
<1>9. ASSUME NEW g \in Goals, F!ServerEnds(g)
      PROVE  FollowTypes'
  BY <1>9 DEF F!ServerEnds
<1>10. CASE UNCHANGED F!vars
  BY <1>10 DEF F!vars
<1> QED
  BY <1>1, <1>2, <1>3, <1>4, <1>5, <1>6, <1>7, <1>8, <1>9, <1>10 DEF F!Next

LEMMA LiveGoals ==
  \A g : g \in Live <=>
    /\ g \in Goals
    /\ \/ goal[g] \in {"sent", "executing", "canceling"}
       \/ /\ goal[g] \in {"succeeded", "aborted", "canceled"}
          /\ g \notin told.result
BY DEF Live, F!InFlight, F!Untold, F!Running, F!Ended

(* Only a goal that is sent joins those that are live.                     *)
LEMMA LiveAfterSend ==
  ASSUME FollowTypes, NEW g \in Goals, goal[g] = "new",
         goal' = [goal EXCEPT ![g] = "sent"], told' = told
  PROVE  /\ goal'[g] = "sent"
         /\ \A h \in Goals \ {g} : goal'[h] = goal[h]
         /\ \A h : h \in Live' <=> h \in Live \/ h = g
<1>1. goal'[g] = "sent" /\ \A h \in Goals \ {g} : goal'[h] = goal[h]
  BY DEF FollowTypes, F!TypeOK
<1>2. \A h : h \in Live' <=>
        /\ h \in Goals
        /\ \/ goal'[h] \in {"sent", "executing", "canceling"}
           \/ /\ goal'[h] \in {"succeeded", "aborted", "canceled"}
              /\ h \notin told.result
  BY DEF Live, F!InFlight, F!Untold, F!Running, F!Ended
<1> QED
  BY <1>1, <1>2, LiveGoals

(* A step that ends no goal and sends none keeps what is said of the live. *)
LEMMA LiveUnchanged ==
  ASSUME UNCHANGED <<goal, told>>
  PROVE  Live' = Live
BY DEF Live, F!InFlight, F!Untold

LEMMA FollowNext ==
  ASSUME FollowConstants, FollowInv, [F!Next]_(F!vars)
  PROVE  FollowInv'
<1>1. FollowTypes /\ FollowTypes'
  BY FollowTyped DEF FollowInv
<1>2. SUFFICES ASSUME ~overtaken'
               PROVE  ~wrongHold' /\ ReplacedInv' /\ CancelInv'
  BY <1>1 DEF FollowInv
<1>3. ~overtaken
  BY <1>2, <1>1 DEF F!Next, F!vars, F!OnOdometry, F!OnGoalPose,
     F!OnPathMonitorTimer,
     F!OnCancelForReplan, F!OnGoalResponse, F!OnGoalResult, F!ServerAnswers,
     F!ServerTakesCancel, F!ServerEnds
<1>4. ~wrongHold /\ ReplacedInv /\ CancelInv
  BY <1>3 DEF FollowInv
<1>5. ASSUME UNCHANGED <<goal, told, cancel, replan, ignore, wrongHold>>
      PROVE  ~wrongHold' /\ ReplacedInv' /\ CancelInv'
  BY <1>4, <1>5, LiveUnchanged DEF ReplacedInv, CancelInv, Replaced
<1>6. CASE F!OnOdometry \/ UNCHANGED F!vars
  BY <1>5, <1>6 DEF F!OnOdometry, F!vars, F!node
<1>7. CASE F!OnGoalPose
  <2>1. ~replan /\ Live = {} /\ F!SendFollowPathGoal
        /\ UNCHANGED <<ignore, cancel, told, wrongHold>>
    BY <1>2, <1>7 DEF F!OnGoalPose, Live
  <2>2. \A g, h \in Live' : g = h
    <3>1. CASE UNCHANGED goal
      BY <2>1, <3>1, LiveUnchanged
    <3>2. CASE goal' # goal
      <4>1. PICK g \in Goals : /\ goal[g] = "new"
                               /\ goal' = [goal EXCEPT ![g] = "sent"]
        BY <2>1, <3>2 DEF F!SendFollowPathGoal
      <4>2. \A h : h \in Live' <=> h \in Live \/ h = g
        BY <1>1, <2>1, <4>1, LiveAfterSend
      <4> QED
        BY <2>1, <4>2
    <3> QED
      BY <3>1, <3>2
  <2>3. cancel.answer = "none"
    BY <1>4, <2>1 DEF CancelInv
  <2> QED
    BY <1>4, <2>1, <2>2, <2>3 DEF ReplacedInv, CancelInv
<1>8. CASE F!OnPathMonitorTimer
  <2>1. /\ replan' /\ ignore' /\ Live = {handle}
        /\ cancel' = [goal |-> handle, answer |-> "sent"]
        /\ UNCHANGED <<goal, told, wrongHold>>
    BY <1>2, <1>8 DEF F!OnPathMonitorTimer, Live
  <2>2. Live' = {handle}
    BY <2>1, LiveUnchanged
  <2> QED
    BY <1>4, <2>1, <2>2 DEF ReplacedInv, CancelInv
<1>9. CASE F!OnCancelForReplan
  <2>1. /\ cancel.answer \in {"accepted", "refused"} /\ cancel'.answer = "none"
        /\ UNCHANGED <<ignore, told, wrongHold>>
    BY <1>9 DEF F!OnCancelForReplan, F!NoCancel
  <2>2. PICK old \in Goals : old = cancel.goal
    BY <1>1, <2>1 DEF FollowTypes
  <2>3. Live \subseteq {old} /\ (old \in Live => ignore)
    BY <1>4, <2>1, <2>2 DEF CancelInv
  <2>4. CASE UNCHANGED goal
    <3>1. \A g, h \in Live' : g = h
      BY <2>1, <2>3, <2>4, LiveUnchanged
    <3> QED
      BY <1>4, <2>1, <3>1 DEF ReplacedInv, CancelInv
  <2>5. CASE goal' # goal
    <3>1. cancel.answer = "accepted" /\ F!SendFollowPathGoal
      BY <1>9, <2>5 DEF F!OnCancelForReplan
    <3>2. goal[old] \in {"canceling", "canceled"}
      BY <1>4, <2>2, <3>1 DEF CancelInv
    <3>3. PICK g \in Goals : /\ goal[g] = "new"
                             /\ goal' = [goal EXCEPT ![g] = "sent"]
      BY <2>5, <3>1 DEF F!SendFollowPathGoal
    <3>4. /\ goal'[g] = "sent"
          /\ \A h \in Goals \ {g} : goal'[h] = goal[h]
          /\ \A h : h \in Live' <=> h \in Live \/ h = g
      BY <1>1, <2>1, <3>3, LiveAfterSend
    <3>5. Live' \subseteq {old, g} /\ old # g
      BY <2>3, <3>2, <3>3, <3>4
    <3>6. old \in Live' => Replaced(old, g)'
      BY <2>1, <2>3, <3>2, <3>3, <3>4, <3>5 DEF Replaced
    <3>7. ReplacedInv'
      BY <3>5, <3>6 DEF ReplacedInv
    <3> QED
      BY <1>4, <2>1, <3>7 DEF CancelInv
  <2> QED
    BY <2>4, <2>5
<1>10. CASE F!ServerTakesCancel
  <2>1. /\ cancel.answer = "sent" /\ cancel'.goal = cancel.goal
        /\ cancel'.answer \in {"accepted", "refused"}
        /\ UNCHANGED <<replan, ignore, told, wrongHold>>
    BY <1>1, <1>10 DEF F!ServerTakesCancel, F!node, FollowTypes, F!TypeOK
  <2>2. /\ replan /\ Live \subseteq {cancel.goal} /\ cancel.goal \in Goals
        /\ cancel.goal \in Live => ignore
    BY <1>1, <1>4, <2>1 DEF CancelInv, FollowTypes
  <2>3. Live' = Live
    <3>1. CASE UNCHANGED goal
      BY <2>1, <3>1, LiveUnchanged
    <3>2. CASE goal' # goal
      <4>1. /\ goal[cancel.goal] = "executing"
            /\ goal' = [goal EXCEPT ![cancel.goal] = "canceling"]
        BY <1>10, <3>2 DEF F!ServerTakesCancel
      <4> QED
        BY <1>1, <2>1, <2>2, <4>1 DEF Live, F!InFlight, F!Untold, F!Running,
           F!Ended, FollowTypes, F!TypeOK
    <3> QED
      BY <3>1, <3>2
  <2>4. cancel'.answer = "accepted" => goal'[cancel.goal] = "canceling"
    BY <1>1, <1>10, <2>1, <2>2 DEF F!ServerTakesCancel, FollowTypes, F!TypeOK
  <2> QED
    BY <1>4, <2>1, <2>2, <2>3, <2>4 DEF ReplacedInv, CancelInv
<1>11. ASSUME NEW g \in Goals, F!OnGoalResponse(g)
       PROVE  ~wrongHold' /\ ReplacedInv' /\ CancelInv'
  <2>1. /\ told'.result = told.result
        /\ UNCHANGED <<goal, cancel, replan, ignore, wrongHold>>
    BY <1>1, <1>11 DEF F!OnGoalResponse, FollowTypes, F!TypeOK
  <2>2. Live' = Live
    BY <2>1 DEF Live, F!InFlight, F!Untold
  <2> QED
    BY <1>4, <2>1, <2>2 DEF ReplacedInv, CancelInv, Replaced
<1>12. ASSUME NEW g \in Goals, F!OnGoalResult(g)
       PROVE  ~wrongHold' /\ ReplacedInv' /\ CancelInv'
  <2>1. /\ told'.result = told.result \cup {g}
        /\ goal[g] \in {"succeeded", "aborted",
           "canceled"} /\ g \notin told.result
        /\ UNCHANGED <<goal, cancel, replan>>
    BY <1>1, <1>12 DEF F!OnGoalResult, FollowTypes, F!TypeOK, F!Ended
  <2>2. g \in Live /\ Live' = Live \ {g}
    <3>1. g \in Live
      BY <2>1, LiveGoals
    <3>2. \A h : h \in Live' <=> h \in Live /\ h # g
      BY <2>1 DEF Live, F!InFlight, F!Untold, F!Running, F!Ended
    <3> QED
      BY <3>1, <3>2
  <2>3. \A h, k \in Live' : h = k
    BY <1>4, <2>2 DEF ReplacedInv
  <2>4. ReplacedInv'
    BY <2>3 DEF ReplacedInv
  <2>5. CancelInv'
    <3>1. ignore' # ignore => ignore /\ ~ignore'
      BY <1>1, <1>12 DEF F!OnGoalResult, FollowTypes, F!TypeOK
    <3> QED
      BY <1>4, <2>1, <2>2, <3>1 DEF CancelInv
  <2>6. ~wrongHold'
    <3>1. CASE ignore /\ goal[g] = "canceled"
      BY <1>4, <1>12, <3>1 DEF F!OnGoalResult
    <3>2. CASE ~(ignore /\ goal[g] = "canceled")
      <4>1. SUFFICES ASSUME NEW h \in F!InFlight
                     PROVE  FALSE
        BY <1>4, <1>12, <3>2 DEF F!OnGoalResult
      <4>2. h \in Live /\ goal[h] \in {"sent", "executing", "canceling"}
        BY DEF Live, F!InFlight, F!Running
      <4>3. h # g
        BY <2>1, <4>2
      <4>4. Replaced(g, h) \/ Replaced(h, g)
        BY <1>4, <2>2, <4>2, <4>3 DEF ReplacedInv
      <4> QED
        BY <2>1, <3>2, <4>2, <4>4 DEF Replaced, F!Running
    <3> QED
      BY <3>1, <3>2
  <2> QED
    BY <2>4, <2>5, <2>6
<1>13. ASSUME NEW g \in Goals, F!ServerAnswers(g)
       PROVE  ~wrongHold' /\ ReplacedInv' /\ CancelInv'
  <2>1. /\ goal[g] = "sent" /\ goal'[g] \in {"executing", "rejected"}
        /\ \A h \in Goals \ {g} : goal'[h] = goal[h]
        /\ goal'[g] = "executing" =>
             \A h \in Goals : goal[h] \notin {"executing", "canceling"}
        /\ UNCHANGED <<cancel, told, replan, ignore, wrongHold>>
    <3>1. goal[g] = "sent" /\ UNCHANGED <<cancel, told, replan, ignore,
       wrongHold>>
      BY <1>13 DEF F!ServerAnswers, F!node
    <3>2. CASE goal' = [goal EXCEPT ![g] = "rejected"]
      BY <1>1, <3>1, <3>2 DEF FollowTypes, F!TypeOK
    <3>3. CASE goal' # [goal EXCEPT ![g] = "rejected"]
      <4>1. /\ goal' = [h \in Goals |-> IF h = g THEN "executing"
                                        ELSE IF goal[h] \in {"executing",
                                           "canceling"}
                                        THEN "aborted" ELSE goal[h]]
            /\ \A h \in Goals : goal[h] \notin {"executing", "canceling"}
        BY <1>2, <1>13, <3>3 DEF F!ServerAnswers
      <4> QED
        BY <3>1, <4>1
    <3> QED
      BY <3>2, <3>3
  <2>2. Live' \subseteq Live
    <3>1. \A h : h \in Live' <=>
            /\ h \in Goals
            /\ \/ goal'[h] \in {"sent", "executing", "canceling"}
               \/ /\ goal'[h] \in {"succeeded", "aborted", "canceled"}
                  /\ h \notin told.result
      BY <2>1 DEF Live, F!InFlight, F!Untold, F!Running, F!Ended
    <3> QED
      BY <2>1, <3>1, LiveGoals
  <2>3. ASSUME NEW h \in Live', NEW k \in Live', Replaced(h, k)
        PROVE  Replaced(h, k)'
    <3>1. h \in Goals /\ k \in Goals
      BY <2>2, LiveGoals
    <3>2. h # g /\ goal'[h] = goal[h] /\ goal'[k] # "rejected"
      <4>1. goal'[k] # "rejected"
        BY DEF Live, F!InFlight, F!Untold, F!Running, F!Ended
      <4> QED
        BY <2>1, <2>3, <3>1, <4>1 DEF Replaced
    <3>3. CASE k = g
      BY <2>1, <2>3, <3>1, <3>2, <3>3 DEF Replaced, F!Running
    <3>4. CASE k # g
      BY <2>1, <2>3, <3>1, <3>2, <3>4 DEF Replaced, F!Running
    <3> QED
      BY <3>3, <3>4
  <2>4. ReplacedInv'
    BY <1>4, <2>2, <2>3 DEF ReplacedInv
  <2>5. CancelInv'
    <3>1. cancel.answer = "accepted" /\ cancel.answer # "none" =>
            goal'[cancel.goal] = goal[cancel.goal]
      BY <1>1, <1>4, <2>1 DEF CancelInv, FollowTypes
    <3> QED
      BY <1>4, <2>1, <2>2, <3>1 DEF CancelInv
  <2> QED
    BY <1>4, <2>1, <2>4, <2>5
<1>14. ASSUME NEW g \in Goals, F!ServerEnds(g)
       PROVE  ~wrongHold' /\ ReplacedInv' /\ CancelInv'
  <2>1. PICK s \in {"succeeded", "aborted", "canceled"} :
          /\ goal[g] \in {"executing", "canceling"}
          /\ goal' = [goal EXCEPT ![g] = s]
          /\ goal[g] = "canceling" => s = "canceled"
          /\ UNCHANGED <<cancel, told, replan, ignore, wrongHold>>
    BY <1>2, <1>14 DEF F!ServerEnds, F!node, F!Ended
  <2>2. goal'[g] = s /\ \A h \in Goals \ {g} : goal'[h] = goal[h]
    BY <1>1, <2>1 DEF FollowTypes, F!TypeOK
  <2>3. Live' \subseteq Live
    <3>1. \A h : h \in Live' <=>
            /\ h \in Goals
            /\ \/ goal'[h] \in {"sent", "executing", "canceling"}
               \/ /\ goal'[h] \in {"succeeded", "aborted", "canceled"}
                  /\ h \notin told.result
      BY <2>1 DEF Live, F!InFlight, F!Untold, F!Running, F!Ended
    <3> QED
      BY <2>1, <2>2, <3>1, LiveGoals
  <2>4. ASSUME NEW h \in Live', NEW k \in Live', Replaced(h, k)
        PROVE  Replaced(h, k)'
    <3>1. h \in Goals /\ k \in Goals
      BY <2>3, LiveGoals
    <3>2. CASE h = g
      BY <2>1, <2>2, <2>4, <3>1, <3>2 DEF Replaced, F!Running
    <3>3. CASE h # g /\ k = g
      BY <2>1, <2>2, <2>4, <3>1, <3>3 DEF Replaced, F!Running
    <3>4. CASE h # g /\ k # g
      BY <2>1, <2>2, <2>4, <3>1, <3>4 DEF Replaced, F!Running
    <3> QED
      BY <3>2, <3>3, <3>4
  <2>5. ReplacedInv'
    BY <1>4, <2>3, <2>4 DEF ReplacedInv
  <2>6. CancelInv'
    <3>1. cancel.answer = "accepted" =>
            goal'[cancel.goal] \in {"canceling", "canceled"}
      BY <1>1, <1>4, <2>1, <2>2 DEF CancelInv, FollowTypes
    <3> QED
      BY <1>4, <2>1, <2>3, <3>1 DEF CancelInv
  <2> QED
    BY <1>4, <2>1, <2>5, <2>6
<1> QED
  BY <1>6, <1>7, <1>8, <1>9, <1>10, <1>11, <1>12, <1>13, <1>14 DEF F!Next
-----------------------------------------------------------------------------
(* The goal poses change by their own steps only.                          *)
LEMMA FollowFrame ==
  /\ Init => F!Init
  /\ [Next]_vars => [F!Next]_(F!vars)
BY DEF Init, Next, vars, Recorder, Manual, Zones, Camera, Pages, Datum, Follow,
   Streams, Status, followVars, F!vars, F!node

(* The hold a result publishes never stops a goal that is in flight, while *)
(* the action server accepts no goal over another of its own.              *)
THEOREM HoldAlwaysSparesRunningGoal ==
  ASSUME FollowConstants
  PROVE  Spec => []HoldSparesRunningGoal
<1>1. Init => FollowInv
  BY FollowFrame, FollowInit
<1>2. FollowInv /\ [Next]_vars => FollowInv'
  BY FollowFrame, FollowNext
<1>3. FollowInv => HoldSparesRunningGoal
  BY DEF FollowInv, HoldSparesRunningGoal, F!HoldSparesRunningGoal
<1> QED
  BY <1>1, <1>2, <1>3, PTL DEF Spec
=============================================================================
