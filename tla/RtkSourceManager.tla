-------------------------- MODULE RtkSourceManager --------------------------
(***************************************************************************)
(* rtk_source_manager: the node's thread, which selects, adds, changes and *)
(* deletes the NTRIP sources, against the reader thread, which keeps a     *)
(* stream open to the active one and publishes its RTCM frames.            *)
(*                                                                         *)
(* A step is one section under _data_lock, one operation on the socket or  *)
(* one half of _close_socket (read _socket; forget it and close). A source *)
(* is an identifier and a configuration (host, port, mountpoint and        *)
(* credentials together). The wake event only shortens the wait between    *)
(* two connections and is left out, as is the content of the frames. The   *)
(* node may end at any moment, and starts again from its file, which a     *)
(* failing or interrupted write may have left cut.                         *)
(***************************************************************************)
EXTENDS Naturals

CONSTANTS
  Ids, Configs,
  Absent, \* the configuration of an identifier that is no source
  Torn    \* a file that cannot be read

ASSUME SourcesAssumption ==
  /\ Ids # {} /\ Absent \notin Configs
  /\ Torn \notin [Ids -> Configs \cup {Absent}]

VARIABLES
  sources,   \* _sources: identifier -> configuration
  file,      \* the sources file, as the next start reads it
  active,    \* _active_source_id
  connected, \* _connected
  socket,    \* is the reader's stream registered in _socket?
  node,      \* the node's thread: its place, and the socket it is closing
  reader,    \* the reader thread: its place
  stream,    \* the source the reader took, and whether its socket is closed
  late,      \* history: chunks of another source since the last switch
  gap,       \* history: the reader was not told of a change of its source
  unsaved    \* history: no write of the sources since the last that failed

disk == <<file, unsaved>>
vars == <<sources, disk, active, connected, socket, node, reader, stream, late,
          gap>>

Configured(i) == sources[i] # Absent
Current == [id |-> active, config |-> sources[active]]
Taken == [id |-> stream.id, config |-> stream.config]

(* The reader holds a source that it does not read again before it is      *)
(* interrupted.                                                            *)
Streaming == reader \in {"open", "mark", "consume", "check", "recv"}

Init ==
  /\ sources \in [Ids -> Configs \cup {Absent}]
  /\ file = sources /\ unsaved = FALSE
  /\ active \in Ids /\ Configured(active)
  /\ connected = FALSE /\ socket = FALSE
  /\ node = [pc |-> "idle", closing |-> "none"]
  /\ reader = "pick"
  /\ stream = [id |-> active, config |-> sources[active], closed |-> TRUE]
  /\ late = 0 /\ gap = FALSE

-----------------------------------------------------------------------------
(* The node                                                                *)
NodeGoes(pc) == node' = [node EXCEPT !.pc = pc]

(* A switch of the active source starts the count of late chunks again.    *)
Activate(i) ==
  /\ active' = i
  /\ late' = IF i = active THEN late ELSE 0

SelectSource(i) ==
  /\ node.pc = "idle"
  /\ Configured(i) /\ i # active
  /\ Activate(i) /\ connected' = FALSE
  /\ NodeGoes("close")
  /\ UNCHANGED <<sources, disk, socket, reader, stream, gap>>

(* A request is checked, and completed from the source it changes; the     *)
(* sources are replaced in memory before they are written.                 *)
Replaced(i, config) == [sources EXCEPT ![i] = config]

SaveMutant == file' = sources /\ unsaved' = FALSE
Save == file' = sources' /\ unsaved' = FALSE

(* A file that cannot be opened stays as it is; a write that does not end  *)
(* leaves one that cannot be read, or that lacks sources or part of one.   *)
Cut == {Torn} \cup {f \in [Ids -> Configs \cup {Absent}] :
                      \A i \in Ids : f[i] # Absent => sources'[i] # Absent}

(* When the write fails the change stays in memory, and neither activation *)
(* nor reconnection follows.                                               *)
WriteFails(changed) ==
  /\ NodeGoes("idle")
  /\ file' \in {file} \cup Cut /\ unsaved' = TRUE
  /\ gap' = (gap \/ (Streaming /\ changed))

UpsertMutant(i, config, activate) ==
  /\ node.pc = "idle"
  /\ sources' = Replaced(i, config)
  /\ \/ /\ Activate(IF activate THEN i ELSE active)
        /\ NodeGoes(IF activate /\ active # i THEN "disconnect" ELSE "idle")
        /\ Save
        /\ UNCHANGED gap
     \/ /\ WriteFails(i = active)
        /\ UNCHANGED <<active, late>>
  /\ UNCHANGED <<connected, socket, reader, stream>>
Upsert(i, config, activate) ==
  /\ node.pc = "idle"
  /\ sources' = Replaced(i, config)
  /\ \/ /\ Activate(IF activate THEN i ELSE active)
        /\ NodeGoes(IF activate \/ active = i THEN "disconnect" ELSE "idle")
        /\ Save
        /\ UNCHANGED gap
     \/ /\ WriteFails(i = active)
        /\ UNCHANGED <<active, late>>
  /\ UNCHANGED <<connected, socket, reader, stream>>

DeleteMutant(i) ==
  /\ node.pc = "idle"
  /\ Configured(i) /\ \E j \in Ids \ {i} : Configured(j)
  /\ sources' = Replaced(i, Absent)
  /\ Save
  /\ UNCHANGED <<active, late, gap>>
  /\ NodeGoes(IF active = i THEN "disconnect" ELSE "idle")
  /\ UNCHANGED <<connected, socket, reader, stream>>
Delete(i) ==
  /\ node.pc = "idle"
  /\ Configured(i) /\ \E j \in Ids \ {i} : Configured(j)
  /\ sources' = Replaced(i, Absent)
  /\ IF active = i THEN \E j \in Ids \ {i} : Configured(j) /\ Activate(j)
     ELSE UNCHANGED <<active, late>>
  /\ \/ /\ NodeGoes(IF active = i THEN "disconnect" ELSE "idle")
        /\ Save
        /\ UNCHANGED gap
     \/ WriteFails(active = i)
  /\ UNCHANGED <<connected, socket, reader, stream>>

Disconnect ==
  /\ node.pc = "disconnect"
  /\ connected' = FALSE
  /\ NodeGoes("close")
  /\ UNCHANGED <<sources, disk, active, socket, reader, stream, late, gap>>

CloseTakes ==
  /\ node.pc = "close"
  /\ node' = [pc |-> "clear", closing |-> IF socket THEN "stream" ELSE "none"]
  /\ UNCHANGED <<sources, disk, active, connected, socket, reader, stream,
                 late, gap>>

CloseClears ==
  /\ node.pc = "clear"
  /\ socket' = FALSE
  /\ IF node.closing = "stream"
     THEN stream' = [stream EXCEPT !.closed = TRUE] /\ UNCHANGED gap
     ELSE gap' = (gap \/ (Streaming /\ Taken # Current)) /\ UNCHANGED stream
  /\ node' = [pc |-> "idle", closing |-> "none"]
  /\ UNCHANGED <<sources, disk, active, connected, reader, late>>

-----------------------------------------------------------------------------
(* The reader                                                              *)
Pick ==
  /\ reader = "pick" /\ reader' = "open"
  /\ stream' = [id |-> active, config |-> sources[active], closed |-> FALSE]
  /\ gap' = FALSE
  /\ UNCHANGED <<sources, disk, active, connected, socket, node, late>>

OpenSucceeds ==
  /\ reader = "open" /\ reader' = "mark"
  /\ socket' = TRUE
  /\ UNCHANGED <<sources, disk, active, connected, node, stream, late, gap>>

OpenFails ==
  /\ reader = "open" /\ reader' = "fail"
  /\ UNCHANGED <<sources, disk, active, connected, socket, node, stream, late,
                 gap>>

(* The answer of the caster may bring the first frames with it.            *)
MarkConnected ==
  /\ reader = "mark" /\ reader' \in {"consume", "check"}
  /\ connected' = TRUE
  /\ UNCHANGED <<sources, disk, active, socket, node, stream, late, gap>>

Consume ==
  /\ reader = "consume" /\ reader' = "check"
  /\ late' = IF stream.id # active /\ late < 2 THEN late + 1 ELSE late
  /\ UNCHANGED <<sources, disk, active, connected, socket, node, stream, gap>>

CheckMutant ==
  /\ reader = "check"
  /\ reader' = IF stream.closed THEN "fail" ELSE "recv"
  /\ UNCHANGED <<sources, disk, active, connected, socket, node, stream, late,
                 gap>>
Check ==
  /\ reader = "check"
  /\ reader' = IF stream.id # active THEN "close"
               ELSE IF stream.closed THEN "fail" ELSE "recv"
  /\ UNCHANGED <<sources, disk, active, connected, socket, node, stream, late,
                 gap>>

(* recv ends with data, or with the end of the stream, the timeout of      *)
(* settimeout or the error of a socket closed by the other thread.         *)
Receive ==
  /\ reader = "recv" /\ reader' \in {"consume", "fail"}
  /\ UNCHANGED <<sources, disk, active, connected, socket, node, stream, late,
                 gap>>

FailMutant ==
  /\ reader = "fail" /\ reader' = "close"
  /\ UNCHANGED <<sources, disk, active, connected, socket, node, stream, late,
                 gap>>
Fail ==
  /\ reader = "fail" /\ reader' = "close"
  /\ connected' = FALSE
  /\ UNCHANGED <<sources, disk, active, socket, node, stream, late, gap>>

(* What the node may be about to close is no longer the reader's stream.   *)
Close ==
  /\ reader = "close" /\ reader' = "pick"
  /\ socket' = FALSE
  /\ stream' = [stream EXCEPT !.closed = TRUE]
  /\ node' = [node EXCEPT !.closing = "none"]
  /\ UNCHANGED <<sources, disk, active, connected, late, gap>>

-----------------------------------------------------------------------------
(* The node ends, by a shutdown or killed; sources keeps what it held.     *)
Crash ==
  /\ node.pc # "down"
  /\ node' = [pc |-> "down", closing |-> "none"] /\ reader' = "down"
  /\ connected' = FALSE /\ socket' = FALSE
  /\ stream' = [stream EXCEPT !.closed = TRUE]
  /\ late' = 0 /\ gap' = FALSE
  /\ UNCHANGED <<sources, disk, active>>

(* The constructor raises on a file that cannot be read or has no source,  *)
(* and so it does at each start after it.                                  *)
Loadable == file # Torn /\ \E i \in Ids : file[i] # Absent

RestartFails == node.pc = "down" /\ ~Loadable /\ UNCHANGED vars

(* The source to start with is a parameter or the first one.               *)
Restart ==
  /\ node.pc = "down"
  /\ Loadable /\ sources' = file
  /\ unsaved' = FALSE
  /\ active' \in {i \in Ids : file[i] # Absent}
  /\ node' = [node EXCEPT !.pc = "idle"] /\ reader' = "pick"
  /\ stream' = [id |-> active', config |-> file[active'], closed |-> TRUE]
  /\ UNCHANGED <<file, connected, socket, late, gap>>

-----------------------------------------------------------------------------
NodeStep == Disconnect \/ CloseTakes \/ CloseClears
ReaderStep == \/ Pick \/ OpenSucceeds \/ OpenFails \/ MarkConnected \/ Consume
              \/ Check \/ Receive \/ Fail \/ Close
Next == \/ NodeStep \/ ReaderStep \/ Crash \/ Restart \/ RestartFails
        \/ \E i \in Ids : SelectSource(i) \/ Delete(i)
        \/ \E i \in Ids, config \in Configs, activate \in BOOLEAN :
             Upsert(i, config, activate)

Spec == Init /\ [][Next]_vars
LiveSpec == Spec /\ WF_vars(NodeStep) /\ WF_vars(ReaderStep)

-----------------------------------------------------------------------------
TypeOK ==
  /\ sources \in [Ids -> Configs \cup {Absent}] /\ active \in Ids
  /\ file \in [Ids -> Configs \cup {Absent}] \cup {Torn}
  /\ unsaved \in BOOLEAN
  /\ connected \in BOOLEAN /\ socket \in BOOLEAN /\ gap \in BOOLEAN
  /\ node \in [pc : {"idle", "disconnect", "close", "clear", "down"},
               closing : {"none", "stream"}]
  /\ reader \in {"pick", "open", "mark", "consume", "check", "recv", "fail",
                 "close", "down"}
  /\ stream \in [id : Ids, config : Configs, closed : BOOLEAN]
  /\ late \in 0..2

(* _active_source never fails: the lookup runs outside the reader's try,   *)
(* and an unknown identifier would end the thread for good.                *)
ActiveIsConfigured == Configured(active)

(* After a switch at most the one chunk already under way is published     *)
(* from the source that was left, however select, close and the opening of *)
(* a stream interleave.                                                    *)
AtMostOneOldChunk == late <= 1

(* When the node is done with a change, a reader that still holds another  *)
(* source is on its way out: its identifier is no longer the active one,   *)
(* or its socket is closed. The exceptions are those that gap records.     *)
StaleStreamEnds ==
  node.pc = "idle" /\ Streaming /\ Taken # Current
    => stream.id # active \/ stream.closed \/ gap

(* A switch completes: the reader comes to the source selected, unless     *)
(* another one is selected in the meantime, or the node ends.              *)
SwitchCompletes ==
  \A i \in Ids :
    active = i ~> stream.id = i \/ active # i \/ node.pc = "down"

(* The status does not claim a connection for ever without a stream.       *)
StreamOpen == reader \in {"mark", "consume", "check", "recv"}
ConnectedSettles == connected /\ ~StreamOpen ~> ~connected \/ StreamOpen

(* A node that starts again has the sources as its last request left them, *)
(* selected, failed or closed whatever was in the meantime. Only a failed  *)
(* or interrupted write that none has followed since may lose some.        *)
RestartKeepsSources ==
  [][node.pc = "down" /\ node'.pc # "down" /\ ~unsaved
       => UNCHANGED sources]_vars
=============================================================================
