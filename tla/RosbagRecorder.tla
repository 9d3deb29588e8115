--------------------------- MODULE RosbagRecorder ---------------------------
(***************************************************************************)
(* The recording control of web_zone_server: start_rosbag, stop_rosbag and *)
(* the waiter threads over the reference _rosbag_process.                  *)
(*                                                                         *)
(* Every start and stop runs in a thread of its own (asyncio.to_thread),   *)
(* close() at shutdown too, as one more stop. A step is one section under  *)
(* _lock, one system call on the process, or the end of a wait. A          *)
(* recording runs in its own session (setsid): it outlives whoever lost    *)
(* its reference.                                                          *)
(***************************************************************************)
CONSTANTS
  Tasks,      \* threads that serve start_rosbag and stop_rosbag
  Recordings, \* processes that may be started (bounds the behaviours)
  NoRecording

VARIABLES
  stored,   \* _rosbag_process
  process,  \* [Recordings -> {"new", "running", "ended"}]
  job,     \* what each thread is doing, and with which process
  waiters,  \* processes a _rosbag_waiter waits for
  lastError,\* is _rosbag_last_error set?
  overlapped \* history: a start ran together with another request

vars == <<stored, process, job, waiters, lastError, overlapped>>

Labels == {"idle", "spawn", "poll", "storeFailed", "store", "clear",
           "interrupt", "wait", "finish"}
Starting == {"spawn", "poll", "storeFailed", "store"}
IdleTask == [pc |-> "idle", proc |-> NoRecording]

Init ==
  /\ stored = NoRecording
  /\ process = [r \in Recordings |-> "new"]
  /\ job = [t \in Tasks |-> IdleTask]
  /\ waiters = {} /\ lastError = FALSE /\ overlapped = FALSE

At(t, l) == job[t].pc = l
Goto(t, l, r) == job' = [job EXCEPT ![t] = [pc |-> l, proc |-> r]]
Answer(t) == job' = [job EXCEPT ![t] = IdleTask]
Running(r) == r # NoRecording /\ process[r] = "running"

Overlaps(t, labels) ==
  overlapped' = (overlapped \/ \E u \in Tasks \ {t} : job[u].pc \in labels)

-----------------------------------------------------------------------------
(* start_rosbag: an unknown profile, or a recording that runs, is refused. *)
StartRosbag(t) ==
  /\ At(t, "idle")
  /\ ~Running(stored)
  /\ Goto(t, "spawn", NoRecording)
  /\ Overlaps(t, Labels \ {"idle"})
  /\ UNCHANGED <<stored, process, waiters, lastError>>

Spawn(t) ==
  /\ At(t, "spawn")
  /\ \E r \in Recordings :
       /\ process[r] = "new"
       /\ process' = [process EXCEPT ![r] = "running"]
       /\ Goto(t, "poll", r)
  /\ UNCHANGED <<stored, waiters, lastError, overlapped>>

(* The directory, the log or the process could not be made: an exception,  *)
(* which _handle_message_safe logs; the page gets no answer.               *)
SpawnFails(t) ==
  /\ At(t, "spawn")
  /\ Answer(t)
  /\ UNCHANGED <<stored, process, waiters, lastError, overlapped>>

(* After 0.4 s: has it ended already? *)
PollStarted(t) ==
  /\ At(t, "poll")
  /\ Goto(t, IF Running(job[t].proc) THEN "store" ELSE "storeFailed",
          job[t].proc)
  /\ UNCHANGED <<stored, process, waiters, lastError, overlapped>>

StoreFailed(t) ==
  /\ At(t, "storeFailed")
  /\ stored' = NoRecording /\ lastError' = TRUE
  /\ Answer(t)
  /\ UNCHANGED <<process, waiters, overlapped>>

StoreMutant(t) ==
  /\ At(t, "store")
  /\ stored' = job[t].proc /\ lastError' = FALSE
  /\ Answer(t)
  /\ UNCHANGED <<process, waiters, overlapped>>
Store(t) ==
  /\ At(t, "store")
  /\ stored' = job[t].proc /\ lastError' = FALSE
  /\ waiters' = waiters \cup {job[t].proc}
  /\ Answer(t)
  /\ UNCHANGED <<process, overlapped>>

-----------------------------------------------------------------------------
(* stop_rosbag: the reference is read under the lock and used after it.    *)
StopRosbag(t) ==
  /\ At(t, "idle")
  /\ Goto(t, IF Running(stored) THEN "interrupt" ELSE "clear", stored)
  /\ Overlaps(t, Starting)
  /\ UNCHANGED <<stored, process, waiters, lastError>>

(* "rosbag is not running": whatever is stored by now is dropped.          *)
ClearStored(t) ==
  /\ At(t, "clear")
  /\ stored' = NoRecording
  /\ Answer(t)
  /\ UNCHANGED <<process, waiters, lastError, overlapped>>

(* When neither the group nor the process can be signalled, the page is    *)
(* told so and the recording stays as it is.                               *)
Interrupt(t) ==
  /\ At(t, "interrupt")
  /\ Goto(t, "wait", job[t].proc) \/ Answer(t)
  /\ UNCHANGED <<stored, process, waiters, lastError, overlapped>>

(* SIGINT was not enough within 10 s: SIGTERM, then SIGKILL.               *)
Terminate(t) ==
  /\ At(t, "wait") /\ Running(job[t].proc)
  /\ process' = [process EXCEPT ![job[t].proc] = "ended"]
  /\ UNCHANGED <<stored, job, waiters, lastError, overlapped>>

(* Not even SIGKILL ends it within 5 s: an exception, which leaves it      *)
(* stored and running.                                                     *)
StopFails(t) ==
  /\ At(t, "wait") /\ Running(job[t].proc)
  /\ Answer(t)
  /\ UNCHANGED <<stored, process, waiters, lastError, overlapped>>

WaitEnds(t) ==
  /\ At(t, "wait") /\ ~Running(job[t].proc)
  /\ Goto(t, "finish", job[t].proc)
  /\ UNCHANGED <<stored, process, waiters, lastError, overlapped>>

FinishStop(t) ==
  /\ At(t, "finish")
  /\ IF stored = job[t].proc
     THEN /\ stored' = NoRecording
          /\ lastError' \in {lastError, FALSE} \* FALSE when it exited with 0
     ELSE UNCHANGED <<stored, lastError>>
  /\ Answer(t)
  /\ UNCHANGED <<process, waiters, overlapped>>

-----------------------------------------------------------------------------
(* _rosbag_waiter: only the recording that is stored is forgotten.         *)
WaiterMutant(r) ==
  /\ r \in waiters /\ process[r] = "ended"
  /\ waiters' = waiters \ {r}
  /\ stored' = NoRecording /\ lastError' \in BOOLEAN
  /\ UNCHANGED <<process, job, overlapped>>
Waiter(r) ==
  /\ r \in waiters /\ process[r] = "ended"
  /\ waiters' = waiters \ {r}
  /\ IF stored = r
     THEN stored' = NoRecording /\ lastError' \in BOOLEAN
     ELSE UNCHANGED <<stored, lastError>>
  /\ UNCHANGED <<process, job, overlapped>>

(* A recording may end by itself at any time: no space, no topics, killed. *)
RecordingEnds(r) ==
  /\ process[r] = "running"
  /\ process' = [process EXCEPT ![r] = "ended"]
  /\ UNCHANGED <<stored, job, waiters, lastError, overlapped>>

TaskStep(t) ==
  \/ Spawn(t) \/ SpawnFails(t) \/ PollStarted(t) \/ StoreFailed(t) \/ Store(t)
  \/ ClearStored(t) \/ Interrupt(t) \/ Terminate(t) \/ StopFails(t)
  \/ WaitEnds(t) \/ FinishStop(t)

Next ==
  \/ \E t \in Tasks : StartRosbag(t) \/ StopRosbag(t) \/ TaskStep(t)
  \/ \E r \in Recordings : Waiter(r) \/ RecordingEnds(r)

Spec == Init /\ [][Next]_vars

(* Threads run, and _rosbag_waiter returns when its process has ended.     *)
Fairness ==
  /\ \A t \in Tasks : WF_vars(TaskStep(t))
  /\ \A r \in Recordings : WF_vars(Waiter(r))
LiveSpec == Spec /\ Fairness

-----------------------------------------------------------------------------
TypeOK ==
  /\ stored \in Recordings \cup {NoRecording}
  /\ process \in [Recordings -> {"new", "running", "ended"}]
  /\ job \in [Tasks -> [pc : Labels, proc : Recordings \cup {NoRecording}]]
  /\ waiters \subseteq Recordings
  /\ lastError \in BOOLEAN /\ overlapped \in BOOLEAN

(* The hold of a thread on the process it has just started.                *)
HeldBy(t, r) == job[t].proc = r /\ job[t].pc \in Starting

(* A recording that runs can be stopped: stop_rosbag finds it stored, or   *)
(* the start that made it is about to store it. Only a start that ran      *)
(* together with another request can lose one: start_rosbag checks under   *)
(* the lock, and stores the process at least 0.4 s later.                  *)
RunningIsReachable ==
  ~overlapped =>
    \A r \in Recordings : process[r] = "running" =>
      stored = r \/ \E t \in Tasks : HeldBy(t, r)

(* A recording that ended is forgotten: a start is refused for a stored    *)
(* process only as long as it lives, and the page shows it as ended.       *)
EndedIsForgotten ==
  \A r \in Recordings :
    stored = r /\ process[r] = "ended" ~> stored # r
=============================================================================
