---------------------- MODULE RtkSourceManager_proofs ----------------------
(* Safety of RtkSourceManager for every set of identifiers and every set   *)
(* of configurations.                                                      *)
EXTENDS RtkSourceManager, TLAPS

(* The invariants of the module are inductive together, once a late chunk  *)
(* is known to have brought the reader to its check of the identifier.     *)
Publishing == reader \in {"open", "mark", "consume", "recv"}
LateInv == Publishing /\ stream.id # active => late = 0

(* What the file holds when no write failed since.                         *)
FileInv == ~unsaved => file = sources

Inv == /\ TypeOK /\ ActiveIsConfigured /\ AtMostOneOldChunk /\ StaleStreamEnds
       /\ LateInv /\ FileInv

Nodes == [pc : {"idle", "disconnect", "close", "clear", "down"},
          closing : {"none", "stream"}]
Streams == [id : Ids, config : Configs, closed : BOOLEAN]

FileTyped == /\ file \in [Ids -> Configs \cup {Absent}] \cup {Torn}
             /\ unsaved \in BOOLEAN

(* What a write that ends, fails or is cut leaves in the file.             *)
LEMMA WrittenFile ==
  ASSUME FileTyped, sources' \in [Ids -> Configs \cup {Absent}],
         Save \/ (file' \in {file} \cup Cut /\ unsaved' = TRUE)
  PROVE  FileInv' /\ FileTyped'
BY DEF FileTyped, FileInv, Save, Cut

LEMMA InvInit == Init => Inv
<1> SUFFICES ASSUME Init PROVE Inv
  OBVIOUS
<1>1. sources[active] \in Configs
  BY DEF Init, Configured
<1>2. TypeOK
  <2>1. node \in Nodes /\ stream \in Streams
    BY <1>1 DEF Init, Nodes, Streams
  <2>2. /\ connected \in BOOLEAN /\ socket \in BOOLEAN /\ gap \in BOOLEAN
        /\ reader = "pick" /\ late = 0
    BY DEF Init
  <2>3. /\ sources \in [Ids -> Configs \cup {Absent}] /\ active \in Ids
        /\ file = sources /\ unsaved = FALSE
    BY DEF Init
  <2>4. FileTyped
    BY <2>3 DEF FileTyped
  <2>5. late \in 0..2
    BY <2>2
  <2> QED
    BY <2>1, <2>2, <2>3, <2>4, <2>5, Zenon
    DEF TypeOK, FileTyped, Nodes, Streams
<1>3. /\ reader = "pick" /\ late = 0 /\ Configured(active)
      /\ file = sources
  BY DEF Init
<1> QED
  BY <1>2, <1>3 DEF Inv, ActiveIsConfigured, AtMostOneOldChunk,
     StaleStreamEnds, LateInv, FileInv, Streaming, Publishing

LEMMA InvNext == Inv /\ [Next]_vars => Inv'
<1> SUFFICES ASSUME Inv, [Next]_vars PROVE Inv'
  OBVIOUS
<1> USE SourcesAssumption
    DEF Inv, TypeOK, ActiveIsConfigured, AtMostOneOldChunk, StaleStreamEnds,
        LateInv, FileInv, disk, Configured, Streaming, Publishing, Taken, Current
<1>1. ASSUME NEW i \in Ids, SelectSource(i) PROVE Inv'
  <2>1. /\ active' = i /\ late' = 0 /\ connected' = FALSE
        /\ UNCHANGED <<sources, file, unsaved, socket, reader, stream, gap>>
    BY <1>1 DEF SelectSource, Activate
  <2>2. node' \in Nodes /\ node'.pc = "close"
    BY <1>1 DEF SelectSource, NodeGoes, Nodes
  <2>3. Configured(active)'
    BY <1>1, <2>1 DEF SelectSource
  <2>4. TypeOK'
    <3>1. connected' \in BOOLEAN
      BY <2>1
    <3>2. late' \in 0..2
      BY <2>1
    <3>3. /\ gap' \in BOOLEAN /\ socket' \in BOOLEAN
          /\ sources' \in [Ids -> Configs \cup {Absent}]
      BY <2>1
    <3>4. /\ file' \in [Ids -> Configs \cup {Absent}] \cup {Torn}
          /\ unsaved' \in BOOLEAN
      BY <2>1
    <3> QED
      BY <2>1, <2>2, <3>1, <3>2, <3>3, <3>4, Zenon DEF Nodes
  <2> QED
    BY <2>1, <2>2, <2>3, <2>4
<1>2. ASSUME NEW i \in Ids, Delete(i) PROVE Inv'
  <2>1. /\ sources' = [sources EXCEPT ![i] = Absent] /\ node.pc = "idle"
        /\ UNCHANGED <<connected, socket, reader, stream>>
    BY <1>2 DEF Delete, Replaced
  <2>0. FileInv' /\ FileTyped'
    <3>1. \/ Save
          \/ file' \in {file} \cup Cut /\ unsaved' = TRUE
      BY <1>2 DEF Delete, WriteFails
    <3>2. FileTyped /\ sources \in [Ids -> Configs \cup {Absent}]
      BY DEF FileTyped
    <3>3. sources' \in [Ids -> Configs \cup {Absent}]
      BY <2>1, <3>2
    <3> HIDE DEF Inv, FileInv
    <3> QED
      BY <3>1, <3>2, <3>3, WrittenFile
  <2>2. node' \in Nodes /\ gap' \in BOOLEAN
    BY <1>2 DEF Delete, NodeGoes, WriteFails, Nodes
  <2>3. CASE active = i
    <3>1. PICK j \in Ids \ {i} : Configured(j) /\ Activate(j)
      BY <1>2, <2>3 DEF Delete
    <3>2. active' = j /\ late' = 0
      BY <2>3, <3>1 DEF Activate
    <3>3. sources'[j] = sources[j] /\ sources' \in [Ids -> Configs \cup {Absent}]
      BY <2>1
    <3>4. node'.pc = "idle" /\ Streaming => gap'
      BY <1>2, <2>3 DEF Delete, NodeGoes, WriteFails
    <3> QED
      BY <2>0, <2>1, <2>2, <3>1, <3>2, <3>3, <3>4 DEF Nodes, FileTyped
  <2>4. CASE active # i
    <3>1. UNCHANGED <<active, late>>
      BY <1>2, <2>4 DEF Delete
    <3>2. /\ sources'[active] = sources[active]
          /\ sources' \in [Ids -> Configs \cup {Absent}]
      BY <2>1, <2>4
    <3>3. gap => gap'
      BY <1>2 DEF Delete, WriteFails
    <3> QED
      BY <2>0, <2>1, <2>2, <3>1, <3>2, <3>3 DEF Nodes, FileTyped
  <2> QED
    BY <2>3, <2>4
<1>3. ASSUME NEW i \in Ids, NEW config \in Configs, NEW activate \in BOOLEAN,
             Upsert(i, config, activate)
      PROVE  Inv'
  <2>1. /\ sources' = [sources EXCEPT ![i] = config] /\ node.pc = "idle"
        /\ UNCHANGED <<connected, socket, reader, stream>>
    BY <1>3 DEF Upsert, Replaced
  <2>0. FileInv' /\ FileTyped'
    <3>1. \/ Save
          \/ file' \in {file} \cup Cut /\ unsaved' = TRUE
      BY <1>3 DEF Upsert, WriteFails
    <3>2. FileTyped /\ sources \in [Ids -> Configs \cup {Absent}]
      BY DEF FileTyped
    <3>3. sources' \in [Ids -> Configs \cup {Absent}]
      BY <2>1, <3>2
    <3> HIDE DEF Inv, FileInv
    <3> QED
      BY <3>1, <3>2, <3>3, WrittenFile
  <2>2. /\ sources' \in [Ids -> Configs \cup {Absent}] /\ sources'[i] # Absent
        /\ \A k \in Ids : k # i => sources'[k] = sources[k]
    BY <2>1
  <2>3. node' \in Nodes /\ gap' \in BOOLEAN /\ (gap => gap')
    BY <1>3 DEF Upsert, NodeGoes, WriteFails, Nodes
  <2>4. /\ active' \in {active, i}
        /\ (late' = late /\ active' = active) \/ late' = 0
    BY <1>3 DEF Upsert, Activate
  <2>5. Configured(active)'
    BY <2>2, <2>4
  <2>6. node'.pc = "idle" => active' = active
    BY <1>3 DEF Upsert, Activate, NodeGoes
  <2>7. node'.pc = "idle" /\ active = i /\ Streaming => gap'
    BY <1>3 DEF Upsert, NodeGoes, WriteFails
  <2>8. TypeOK'
    BY <2>0, <2>1, <2>2, <2>3, <2>4 DEF Nodes, FileTyped
  <2>9. StaleStreamEnds'
    BY <2>1, <2>2, <2>3, <2>4, <2>6, <2>7
  <2>10. AtMostOneOldChunk' /\ LateInv'
    BY <2>1, <2>4
  <2> QED
    BY <2>0, <2>5, <2>8, <2>9, <2>10
<1>4. CASE Disconnect
  BY <1>4 DEF Disconnect, NodeGoes
<1>5. CASE CloseTakes
  BY <1>5 DEF CloseTakes
<1>6. CASE CloseClears
  BY <1>6 DEF CloseClears
<1>7. CASE Pick
  BY <1>7 DEF Pick
<1>8. CASE OpenSucceeds
  BY <1>8 DEF OpenSucceeds
<1>9. CASE OpenFails
  BY <1>9 DEF OpenFails
<1>10. CASE MarkConnected
  BY <1>10 DEF MarkConnected
<1>11. CASE Consume
  BY <1>11 DEF Consume
<1>12. CASE Check
  BY <1>12 DEF Check
<1>13. CASE Receive
  BY <1>13 DEF Receive
<1>14. CASE Fail
  BY <1>14 DEF Fail
<1>15. CASE Close
  BY <1>15 DEF Close
<1>16. CASE Crash
  <2>1. node' \in Nodes /\ stream' \in Streams
    BY <1>16 DEF Crash, Nodes, Streams
  <2>2. UNCHANGED <<sources, file, unsaved, active>>
    BY <1>16 DEF Crash
  <2>3. /\ node'.pc = "down" /\ reader' = "down" /\ late' = 0
        /\ connected' = FALSE /\ socket' = FALSE /\ gap' = FALSE
    BY <1>16 DEF Crash
  <2>4. TypeOK'
    <3>1. FileTyped'
      BY <2>2 DEF FileTyped
    <3>2. connected' \in BOOLEAN /\ socket' \in BOOLEAN /\ gap' \in BOOLEAN
      BY <2>3, Zenon
    <3>3. sources' \in [Ids -> Configs \cup {Absent}] /\ active' \in Ids
      BY <2>2, Zenon
    <3>4. reader' = "down" /\ late' \in 0..2
      BY <2>3
    <3> QED
      BY <2>1, <3>1, <3>2, <3>3, <3>4, Zenon DEF Nodes, Streams, FileTyped
  <2>5. StaleStreamEnds' /\ LateInv' /\ AtMostOneOldChunk'
    BY <2>3
  <2>6. Configured(active)' /\ FileInv'
    BY <2>2
  <2> QED
    BY <2>4, <2>5, <2>6
<1>17. CASE Restart
  <2>1. /\ sources' \in [Ids -> Configs \cup {Absent}]
        /\ active' \in Ids /\ sources'[active'] \in Configs
        /\ file' = sources' /\ unsaved' = FALSE
    BY <1>17 DEF Restart, Loadable
  <2>2. node' \in Nodes /\ node'.pc = "idle" /\ reader' = "pick"
    BY <1>17 DEF Restart, Nodes
  <2>3. stream' \in Streams
    BY <1>17, <2>1 DEF Restart, Streams
  <2>4. UNCHANGED <<connected, socket, late, gap>>
    BY <1>17 DEF Restart
  <2> QED
    BY <2>1, <2>2, <2>3, <2>4 DEF Nodes, Streams
<1>18. CASE UNCHANGED vars
  BY <1>18 DEF vars
<1> QED
  BY <1>1, <1>2, <1>3, <1>4, <1>5, <1>6, <1>7, <1>8, <1>9, <1>10, <1>11,
     <1>12, <1>13, <1>14, <1>15, <1>16, <1>17, <1>18
  DEF Next, NodeStep, ReaderStep, RestartFails

LEMMA Invariant == Spec => []Inv
BY InvInit, InvNext, PTL DEF Spec

(* Every reachable state has the types of TypeOK.                          *)
THEOREM RtkTypes == Spec => []TypeOK
<1>1. Inv => TypeOK
  BY DEF Inv
<1> QED
  BY <1>1, Invariant, PTL

(* The active source always exists: the reader's lookup never fails.       *)
THEOREM ActiveIsAlwaysConfigured == Spec => []ActiveIsConfigured
<1>1. Inv => ActiveIsConfigured
  BY DEF Inv
<1> QED
  BY <1>1, Invariant, PTL

(* At most one chunk of the source that was left is published.             *)
THEOREM OneOldChunk == Spec => []AtMostOneOldChunk
<1>1. Inv => AtMostOneOldChunk
  BY DEF Inv
<1> QED
  BY <1>1, Invariant, PTL

(* Outside the recorded gaps a reader that holds an outdated source leaves *)
(* it.                                                                     *)
THEOREM StaleStreamAlwaysEnds == Spec => []StaleStreamEnds
<1>1. Inv => StaleStreamEnds
  BY DEF Inv
<1> QED
  BY <1>1, Invariant, PTL

(* A restart brings back the sources of the last request, unless a write   *)
(* failed and none has followed it.                                        *)
THEOREM RestartAlwaysKeepsSources == Spec => RestartKeepsSources
<1>1. Inv /\ [Next]_vars
        => (node.pc = "down" /\ node'.pc # "down" /\ ~unsaved
              => UNCHANGED sources)
  <2> SUFFICES ASSUME Inv, [Next]_vars, node.pc = "down", node'.pc # "down",
                      ~unsaved
               PROVE  UNCHANGED sources
    OBVIOUS
  <2>1. \A i \in Ids :
          /\ ~SelectSource(i) /\ ~Delete(i)
          /\ \A config \in Configs, activate \in BOOLEAN :
               ~Upsert(i, config, activate)
    BY DEF SelectSource, Delete, Upsert
  <2>2. CASE Restart
    BY <2>2 DEF Restart, Inv, FileInv
  <2>3. CASE NodeStep \/ Crash \/ RestartFails \/ UNCHANGED vars
    BY <2>3 DEF NodeStep, Disconnect, CloseTakes, CloseClears, Crash,
                RestartFails, vars
  <2>4. CASE ReaderStep
    BY <2>4 DEF ReaderStep, Pick, OpenSucceeds, OpenFails, MarkConnected,
                Consume, Check, Receive, Fail, Close
  <2>5. \/ NodeStep \/ ReaderStep \/ Crash \/ Restart \/ RestartFails
        \/ UNCHANGED vars
    BY <2>1 DEF Next
  <2>6. QED
    BY <2>2, <2>3, <2>4, <2>5
<1>2. QED
  BY <1>1, Invariant, PTL DEF Spec, RestartKeepsSources
=============================================================================
