---------------------------- MODULE DatumSetter -----------------------------
(***************************************************************************)
(* datum_setter: sets the datum of navsat_transform when RTK is gained,    *)
(* and on request.                                                         *)
(*                                                                         *)
(* The three subscriptions share the default group: one of their callbacks *)
(* runs at a time ("sub"). Services run in another group ("srv"). Both     *)
(* occupy one of the executor's two threads while they wait, and the       *)
(* response of navsat_transform is taken by a thread that is free. A step  *)
(* is one section under _lock, one attempt of the call, or the end of a    *)
(* wait. navsat_transform is external.                                     *)
(***************************************************************************)
EXTENDS Naturals

CONSTANTS
  Fixes,   \* positions
  None,    \* no position yet
  Retries  \* datum_call_retries

VARIABLES
  gps,      \* _last_gps_fix
  rtk,      \* _last_navsat_rtk and _last_rtk_status_is_rtk
  current,  \* _rtk_current
  pending,  \* _pending_auto_set
  yaw,      \* the age of _last_imu_yaw: "none", "fresh" or "stale"
  datum,    \* the datum the node reports, None before already_set
  op,       \* what each callback is doing
  lock,     \* holder of _set_operation_lock
  navsat,   \* the datum of navsat_transform
  late,     \* positions of calls given up that it may still handle
  edge,     \* history: an RTK edge for which nothing was started yet
  lateSet   \* history: a call given up was, or may be, handled last

sensed == <<gps, rtk, current, pending, yaw>>
applied == <<datum, lock, navsat, late>>
vars == <<sensed, applied, op, edge, lateSet>>

Callbacks == {"sub", "srv"}
Labels == {"idle", "yaw", "apply", "lock", "resolve", "wait", "commit"}
IdleOp == [pc |-> "idle", fix |-> None, left |-> 0, answer |-> "none"]

Init ==
  /\ gps = None /\ rtk = [navsat |-> FALSE, status |-> FALSE]
  /\ current = FALSE /\ pending = FALSE /\ yaw = "none"
  /\ datum = None /\ lock = "free" /\ navsat = None /\ late = {}
  /\ op = [c \in Callbacks |-> IdleOp]
  /\ edge = FALSE /\ lateSet = FALSE

At(c, l) == op[c].pc = l
Goto(c, l) == op' = [op EXCEPT ![c].pc = l]
Start(c, l, fix) ==
  op' = [op EXCEPT ![c] =
           [pc |-> l, fix |-> fix, left |-> 0, answer |-> "none"]]
Done(c) == op' = [op EXCEPT ![c] = IdleOp]
Combined(r) == r.navsat \/ r.status

-----------------------------------------------------------------------------
(* What a message means for the RTK state: the datum is to be set on the   *)
(* edge from no RTK to RTK.                                                *)
Track(r) ==
  /\ rtk' = r /\ current' = Combined(r)
  /\ edge' = (Combined(r) /\ (edge \/ ~current))

OnGpsFix ==
  /\ At("sub", "idle")
  /\ \E fix \in Fixes, isRtk \in BOOLEAN :
       LET r == [rtk EXCEPT !.navsat = isRtk] IN
       /\ gps' = fix /\ Track(r)
       /\ pending' = FALSE
       /\ IF Combined(r) /\ (~current \/ pending)
          THEN Start("sub", "yaw", fix) ELSE UNCHANGED op
  /\ UNCHANGED <<yaw, applied, lateSet>>

OnRtkStatusMutant ==
  /\ At("sub", "idle")
  /\ \E isRtk \in BOOLEAN :
       LET r == [rtk EXCEPT !.status = isRtk] IN
       /\ Track(r)
       /\ pending' = (Combined(r) /\ pending)
       /\ IF Combined(r) /\ ~current /\ gps # None
          THEN Start("sub", "yaw", gps) ELSE UNCHANGED op
  /\ UNCHANGED <<gps, yaw, applied, lateSet>>
OnRtkStatus ==
  /\ At("sub", "idle")
  /\ \E isRtk \in BOOLEAN :
       LET r == [rtk EXCEPT !.status = isRtk]
           isEdge == Combined(r) /\ ~current IN
       /\ Track(r)
       /\ pending' = IF isEdge THEN gps = None ELSE Combined(r) /\ pending
       /\ IF isEdge /\ gps # None
          THEN Start("sub", "yaw", gps) ELSE UNCHANGED op
  /\ UNCHANGED <<gps, yaw, applied, lateSet>>

(* The datum is not set without a fresh yaw: the edge is kept as pending.  *)
CheckYaw ==
  /\ At("sub", "yaw")
  /\ IF yaw = "fresh"
     THEN Goto("sub", "apply") /\ UNCHANGED pending
     ELSE Done("sub") /\ pending' = TRUE
  /\ edge' = (edge /\ yaw # "fresh")
  /\ UNCHANGED <<gps, rtk, current, yaw, applied, lateSet>>

OnImu ==
  /\ At("sub", "idle")
  /\ yaw' = "fresh"
  /\ IF Combined(rtk) /\ pending /\ gps # None
     THEN pending' = FALSE /\ Start("sub", "apply", gps) /\ edge' = FALSE
     ELSE UNCHANGED <<pending, op, edge>>
  /\ UNCHANGED <<gps, rtk, current, applied, lateSet>>

YawAges ==
  /\ yaw = "fresh" /\ yaw' = "stale"
  /\ UNCHANGED <<gps, rtk, current, pending, applied, op, edge, lateSet>>

(* Coordinates given, or the current fix; bad ones, and no fix, are errors *)
(* that change nothing.                                                    *)
OnSetDatum ==
  /\ At("srv", "idle")
  /\ \E fix \in Fixes \cup ({gps} \ {None}) : Start("srv", "apply", fix)
  /\ UNCHANGED <<sensed, applied, edge, lateSet>>

-----------------------------------------------------------------------------
(* _apply_datum *)
Apply(c) ==
  /\ At(c, "apply")
  /\ IF yaw = "fresh" THEN Goto(c, "lock") ELSE Done(c)
  /\ UNCHANGED <<sensed, applied, edge, lateSet>>

TakeLockMutant(c) ==
  /\ At(c, "lock")
  /\ lock' = c
  /\ op' = [op EXCEPT ![c].pc = "resolve", ![c].left = Retries]
  /\ UNCHANGED <<sensed, datum, navsat, late, edge, lateSet>>
TakeLock(c) ==
  /\ At(c, "lock") /\ lock = "free"
  /\ lock' = c
  /\ op' = [op EXCEPT ![c].pc = "resolve", ![c].left = Retries]
  /\ UNCHANGED <<sensed, datum, navsat, late, edge, lateSet>>

(* One attempt: the service is found and called, or it is not there.       *)
RetryMutant(c) ==
  IF op[c].left >= 1
  THEN /\ op' = [op EXCEPT ![c].pc = "resolve", ![c].answer = "none"]
       /\ UNCHANGED lock
  ELSE Done(c) /\ lock' = "free"
Retry(c) ==
  IF op[c].left > 1
  THEN /\ op' = [op EXCEPT ![c].pc = "resolve", ![c].left = @ - 1,
                           ![c].answer = "none"]
       /\ UNCHANGED lock
  ELSE Done(c) /\ lock' = "free"

CallSetDatum(c) ==
  /\ At(c, "resolve")
  /\ op' = [op EXCEPT ![c].pc = "wait", ![c].answer = "sent"]
  /\ UNCHANGED <<sensed, applied, edge, lateSet>>

ServiceUnavailable(c) ==
  /\ At(c, "resolve")
  /\ Retry(c)
  /\ UNCHANGED <<sensed, datum, navsat, late, edge, lateSet>>

NavsatSetsDatum(c) ==
  /\ At(c, "wait") /\ op[c].answer = "sent"
  /\ navsat' = op[c].fix
  /\ op' = [op EXCEPT ![c].answer = "done"]
  /\ lateSet' = (late # {})
  /\ UNCHANGED <<sensed, datum, lock, late, edge>>

NavsatSetsDatumLate ==
  /\ \E fix \in late : navsat' = fix /\ late' = late \ {fix}
  /\ lateSet' = TRUE
  /\ UNCHANGED <<sensed, datum, lock, op, edge>>

(* The future is completed by a thread of the executor, when one is free.  *)
ThreadIsFree == \E c \in Callbacks : At(c, "idle")

ResponseArrives(c) ==
  /\ At(c, "wait") /\ op[c].answer = "done" /\ ThreadIsFree
  /\ Goto(c, "commit")
  /\ UNCHANGED <<sensed, applied, edge, lateSet>>

CallTimesOut(c) ==
  /\ At(c, "wait")
  /\ Retry(c)
  /\ late' = IF op[c].answer = "sent" THEN late \cup {op[c].fix} ELSE late
  /\ lateSet' = TRUE
  /\ UNCHANGED <<sensed, datum, navsat, edge>>

Commit(c) ==
  /\ At(c, "commit")
  /\ datum' = op[c].fix /\ lock' = "free"
  /\ Done(c)
  /\ UNCHANGED <<sensed, navsat, late, edge, lateSet>>

OpStep(c) ==
  \/ Apply(c) \/ TakeLock(c) \/ CallSetDatum(c) \/ ServiceUnavailable(c)
  \/ ResponseArrives(c) \/ CallTimesOut(c) \/ Commit(c)

Next ==
  \/ OnGpsFix \/ OnRtkStatus \/ OnImu \/ CheckYaw \/ YawAges \/ OnSetDatum
  \/ \E c \in Callbacks : OpStep(c) \/ NavsatSetsDatum(c)
  \/ NavsatSetsDatumLate

(* The callbacks run; wait_for_service and the wait for the response end.  *)
Fairness == WF_vars(CheckYaw) /\ \A c \in Callbacks : WF_vars(OpStep(c))
Spec == Init /\ [][Next]_vars
LiveSpec == Spec /\ Fairness

-----------------------------------------------------------------------------
TypeOK ==
  /\ gps \in Fixes \cup {None}
  /\ rtk \in [navsat : BOOLEAN, status : BOOLEAN]
  /\ current \in BOOLEAN /\ pending \in BOOLEAN
  /\ yaw \in {"none", "fresh", "stale"}
  /\ datum \in Fixes \cup {None} /\ navsat \in Fixes \cup {None}
  /\ late \subseteq Fixes /\ lock \in Callbacks \cup {"free"}
  /\ op \in [Callbacks -> [pc : Labels, fix : Fixes \cup {None},
                           left : 0..Retries,
                           answer : {"none", "sent", "done"}]]
  /\ edge \in BOOLEAN /\ lateSet \in BOOLEAN

(* No RTK edge is forgotten while RTK holds: until setting the datum has   *)
(* started it stays pending, whichever of fix, status and yaw is missing.  *)
EdgeIsKept == edge /\ At("sub", "idle") => pending

(* The datum the node reports is the one navsat_transform uses, whoever    *)
(* set it, unless a call that was given up is handled after all.           *)
DatumAgrees == ~lateSet /\ lock = "free" => datum = navsat

(* Whoever sets the datum gives the lock back, also when a request and an  *)
(* edge meet and no thread is left to take the response: only the timeout  *)
(* of the call ends that.                                                  *)
LockIsReleased == lock # "free" ~> lock = "free"
=============================================================================
