-------------------------- MODULE FollowPathReplan --------------------------
(***************************************************************************)
(* goal_pose_to_follow_path_v2: a goal pose becomes a FollowPath goal, and *)
(* when the robot leaves the path the goal is cancelled and sent again     *)
(* with a new path. The node is single threaded: an action is a callback.  *)
(*                                                                         *)
(* Distances, ages and the cooldown are abstracted: the monitor may find   *)
(* the robot off its path at any time (but not while a cancel of its own   *)
(* is unanswered: the cooldown is 1.5 s). FollowPath and its other clients *)
(* are external; a goal that is accepted ends the one before.              *)
(***************************************************************************)
CONSTANTS
  Goals, \* action goals that may be sent (bounds the behaviours)
  None

VARIABLES
  posed,     \* has odometry been received?
  handle,    \* _latest_goal_handle
  active,    \* _active_path and _active_goal_pose are set
  replan,    \* _replan_pending
  ignore,    \* _ignore_next_canceled_result
  cancel,    \* the cancel request of the monitor: its goal and its answer
  goal,      \* the state of each goal at the server
  told,      \* goals whose response, and whose result, was delivered
  wrongHold, \* history: stop_hold was published while a goal was running
  overtaken  \* history: a goal ended in a way the monitor does not expect

node == <<posed, handle, active, replan, ignore>>
vars == <<node, cancel, goal, told, wrongHold, overtaken>>

Ended == {"succeeded", "aborted", "canceled"}
Answered == {"executing", "canceling", "rejected"} \cup Ended
Running == {"sent", "executing"}
NoCancel == [goal |-> None, answer |-> "none"]

Init ==
  /\ posed = FALSE /\ handle = None /\ active = FALSE
  /\ replan = FALSE /\ ignore = FALSE /\ cancel = NoCancel
  /\ goal = [g \in Goals |-> "new"]
  /\ told = [response |-> {}, result |-> {}]
  /\ wrongHold = FALSE /\ overtaken = FALSE

InFlight == {g \in Goals : goal[g] \in Running \cup {"canceling"}}
Untold == {g \in Goals : goal[g] \in Ended} \ told.result

-----------------------------------------------------------------------------
OnOdometry ==
  /\ posed' = TRUE
  /\ UNCHANGED <<handle, active, replan, ignore, cancel, goal, told,
                 wrongHold, overtaken>>

(* _send_follow_path_goal: the path is the active one even if the server   *)
(* turns out not to be there.                                              *)
SendFollowPathGoal ==
  /\ replan' = FALSE /\ active' = TRUE
  /\ \/ UNCHANGED goal
     \/ \E g \in Goals : goal[g] = "new" /\ goal' = [goal EXCEPT ![g] = "sent"]
  /\ UNCHANGED <<posed, handle>>

(* Without odometry or a transform the goal pose is ignored.               *)
OnGoalPose ==
  /\ posed
  /\ SendFollowPathGoal
  /\ overtaken' = (overtaken \/ replan \/ InFlight \cup Untold # {})
  /\ UNCHANGED <<ignore, cancel, told, wrongHold>>

OnGoalResponse(g) ==
  /\ goal[g] \in Answered /\ g \notin told.response
  /\ told' = [told EXCEPT !.response = @ \cup {g}]
  /\ handle' = IF goal[g] = "rejected" THEN handle ELSE g
  /\ UNCHANGED <<posed, active, replan, ignore, cancel, goal, wrongHold,
                 overtaken>>

OnPathMonitorTimerMutant ==
  /\ handle # None /\ ~replan /\ active /\ posed /\ cancel = NoCancel
  /\ replan' = TRUE
  /\ cancel' = [goal |-> handle, answer |-> "sent"]
  /\ UNCHANGED <<posed, handle, active, ignore, goal, told, wrongHold,
                 overtaken>>
OnPathMonitorTimer ==
  /\ handle # None /\ ~replan /\ active /\ posed /\ cancel = NoCancel
  /\ replan' = TRUE /\ ignore' = TRUE
  /\ cancel' = [goal |-> handle, answer |-> "sent"]
  /\ overtaken' = (overtaken \/ InFlight \cup Untold # {handle})
  /\ UNCHANGED <<posed, handle, active, goal, told, wrongHold>>

OnCancelForReplan ==
  /\ cancel.answer \in {"accepted", "refused"}
  /\ cancel' = NoCancel
  /\ \/ cancel.answer = "accepted" /\ active /\ SendFollowPathGoal
     \/ replan' = FALSE \* refused, no goal pose any more, or no transform
        /\ UNCHANGED <<posed, handle, active, goal>>
  /\ UNCHANGED <<ignore, told, wrongHold, overtaken>>

OnGoalResult(g) ==
  /\ goal[g] \in Ended /\ g \in told.response /\ g \notin told.result
  /\ told' = [told EXCEPT !.result = @ \cup {g}]
  /\ IF ignore /\ goal[g] = "canceled"
     THEN ignore' = FALSE /\ UNCHANGED <<handle, active, wrongHold>>
     ELSE /\ handle' = None /\ active' = FALSE
          /\ wrongHold' = (wrongHold \/ InFlight # {})
          /\ UNCHANGED ignore
  /\ UNCHANGED <<posed, replan, cancel, goal, overtaken>>

-----------------------------------------------------------------------------
(* FollowPath *)
ServerAnswers(g) ==
  /\ goal[g] = "sent"
  /\ \/ goal' = [h \in Goals |-> IF h = g THEN "executing"
                                 ELSE IF goal[h] \in {"executing", "canceling"}
                                 THEN "aborted" ELSE goal[h]]
        /\ overtaken' = (overtaken \/ \E h \in Goals : goal[h] \in
                                               {"executing", "canceling"})
     \/ goal' = [goal EXCEPT ![g] = "rejected"] /\ UNCHANGED overtaken
  /\ UNCHANGED <<node, cancel, told, wrongHold>>

ServerTakesCancel ==
  /\ cancel.answer = "sent"
  /\ \/ /\ goal[cancel.goal] = "executing"
        /\ goal' = [goal EXCEPT ![cancel.goal] = "canceling"]
        /\ cancel' = [cancel EXCEPT !.answer = "accepted"]
     \/ cancel' = [cancel EXCEPT !.answer = "refused"] /\ UNCHANGED goal
  /\ UNCHANGED <<node, told, wrongHold, overtaken>>

(* A goal ends by itself, is cancelled by another client, or ends after a  *)
(* cancel: as cancelled, or as it would have ended.                        *)
ServerEnds(g) ==
  /\ goal[g] \in {"executing", "canceling"}
  /\ \E s \in Ended :
       /\ goal' = [goal EXCEPT ![g] = s]
       /\ overtaken' = (overtaken \/ (goal[g] = "canceling" /\ s # "canceled"))
  /\ UNCHANGED <<node, cancel, told, wrongHold>>

Next ==
  \/ OnOdometry \/ OnGoalPose \/ OnPathMonitorTimer \/ OnCancelForReplan
  \/ \E g \in Goals : OnGoalResponse(g) \/ OnGoalResult(g)
                      \/ ServerAnswers(g) \/ ServerEnds(g)
  \/ ServerTakesCancel

Spec == Init /\ [][Next]_vars

-----------------------------------------------------------------------------
TypeOK ==
  /\ posed \in BOOLEAN /\ active \in BOOLEAN /\ replan \in BOOLEAN
  /\ ignore \in BOOLEAN /\ wrongHold \in BOOLEAN /\ overtaken \in BOOLEAN
  /\ handle \in Goals \cup {None}
  /\ goal \in [Goals -> {"new"} \cup Running \cup Answered]
  /\ cancel \in [goal : Goals \cup {None},
                 answer : {"none", "sent", "accepted", "refused"}]
  /\ told \in [response : SUBSET Goals, result : SUBSET Goals]

(* stop_hold, sent when a goal has ended, never stops a goal that runs: a  *)
(* replanned goal outlives the result of the one it replaces. Excepted are *)
(* a goal pose that comes before the last result or during a replan, when  *)
(* the result is taken for that of the new goal; a result that comes after *)
(* the next replan (one flag, so one cancelled result is ignored); and a   *)
(* cancelled goal that ends otherwise.                                     *)
HoldSparesRunningGoal == wrongHold => overtaken
=============================================================================
