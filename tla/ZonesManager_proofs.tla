------------------------ MODULE ZonesManager_proofs ------------------------
(* Safety of ZonesManager for every set of polygons.                       *)
EXTENDS ZonesManager, TLAPS

Resting == {"down", "idle"}
Written == {"openYaml", "writeYaml", "load", "loadWait", "clear", "save",
            "writeDoc", "commit"}

(* What a job has made of the image, and what the map server made of it.   *)
MaskInv ==
  /\ job.op = "none" <=> job.pc \in Resting
  /\ job.pc \notin Resting \cup {"convert"} =>
       /\ Enforces(job.mask, job.doc)
       /\ job.op = "start" => job.mask = {}
  /\ job.pc \in Written \cup {"writeImage"} => unsettled
  /\ job.pc \in Written => image = job.mask
  /\ answer # "none" => At("loadWait")
  /\ answer = "done" \/ job.loaded =>
       job.pc \in Written /\ served = job.mask
  /\ job.loaded => job.op # "start"

(* What the GeoJSON file holds for a job.                                  *)
DiskInv ==
  /\ job.op = "set" => job.persist
  /\ job.op = "reload" => ~job.persist /\ geojson # Torn /\ FromDisk = job.doc
  /\ job.op = "start" => geojson = Torn \/ FromDisk = job.doc
  /\ At("writeDoc") => job.persist
  /\ At("commit") /\ job.persist => FromDisk = job.doc

(* A good answer stands while nothing has begun since.                     *)
OkInv ==
  reply = "ok" =>
    At("idle") /\ ~unsettled /\ memory.ready /\ FromDisk = memory.doc

Inv == TypeOK /\ MaskInv /\ DiskInv /\ OkInv /\ ReadyIsServed

LEMMA InvInit == Init => Inv
<1> SUFFICES ASSUME Init PROVE Inv
  OBVIOUS
<1>1. job = Down /\ Down.pc = "down" /\ Down.op = "none" /\ ~Down.loaded
  BY DEF Init, Down, IdleJob
<1>2. {} \in Docs /\ Down \in Job
  BY DEF Docs, Job, Down, IdleJob, Labels
<1>3. TypeOK
  BY <1>1, <1>2 DEF Init, TypeOK, Empty
<1> QED
  BY <1>1, <1>3 DEF Init, Inv, MaskInv, DiskInv, OkInv, ReadyIsServed, At,
     Resting, Written, Empty

(* A job that gives up leaves no request behind, and a bad answer.         *)
LEMMA FailKeepsInv ==
  ASSUME Inv, Fail, ~At("loadWait"),
         UNCHANGED <<memory, files, server, unsettled>>
  PROVE  Inv'
<1> USE DEF Inv, Fail
<1>1. job' = IdleJob /\ IdleJob.pc = "idle" /\ IdleJob.op = "none"
      /\ ~IdleJob.loaded /\ IdleJob \in Job
  BY DEF IdleJob, Job, Labels, Docs
<1>2. TypeOK'
  BY <1>1 DEF TypeOK, files, server
<1>3. ReadyIsServed'
  BY DEF ReadyIsServed, Enforces, files, server
<1>4. MaskInv'
  BY <1>1 DEF MaskInv, Resting, Written, At, server
<1>5. DiskInv' /\ OkInv'
  BY <1>1 DEF DiskInv, OkInv, At
<1> QED
  BY <1>2, <1>3, <1>4, <1>5

(* A request, or the initial load, takes its document.                     *)
LEMMA BeginKeepsInv ==
  ASSUME Inv, NEW op \in {"start", "set", "reload"}, NEW doc \in Docs,
         NEW persist \in BOOLEAN, Begin(op, doc, persist),
         job.pc \in Resting, reply' # "ok", reply' \in {"none", "error"},
         op = "set" => persist,
         op = "reload" => ~persist /\ geojson # Torn /\ FromDisk = doc,
         op = "start" => geojson = Torn \/ FromDisk = doc,
         UNCHANGED <<memory, files, server, unsettled>>
  PROVE  Inv'
<1> USE DEF Inv
<1>1. /\ job' \in Job /\ job'.pc = "convert" /\ job'.op = op
      /\ job'.doc = doc /\ job'.persist = persist /\ ~job'.loaded
  BY DEF Begin, IdleJob, Job, Labels, Docs
<1>2. TypeOK'
  BY <1>1 DEF TypeOK, files, server
<1>3. ReadyIsServed'
  BY DEF ReadyIsServed, Enforces, files, server
<1>4. MaskInv'
  BY <1>1 DEF MaskInv, Resting, Written, At, server
<1>5. FromDisk' = FromDisk /\ geojson' = geojson
  BY DEF FromDisk, files
<1>6. DiskInv'
  BY <1>1, <1>5 DEF DiskInv, At
<1> QED
  BY <1>2, <1>3, <1>4, <1>6 DEF OkInv

(* Nothing but the reply changes, or nothing at all.                       *)
LEMMA UnansweredKeepsInv ==
  ASSUME Inv, reply' = reply \/ reply' = "error",
         UNCHANGED <<memory, files, server, job, unsettled>>
  PROVE  Inv'
<1> USE DEF Inv, files, server
<1>1. TypeOK' /\ ReadyIsServed'
  BY DEF TypeOK, ReadyIsServed, Enforces
<1>2. MaskInv'
  BY DEF MaskInv, At, Enforces
<1>3. DiskInv' /\ OkInv'
  BY DEF DiskInv, OkInv, At, FromDisk
<1> QED
  BY <1>1, <1>2, <1>3

(* The map server serves the image as it is, now or late.                  *)
LEMMA ServerKeepsInv ==
  ASSUME Inv, UNCHANGED <<memory, files, job, reply, unsettled>>,
         late' \in BOOLEAN,
         \/ Readable /\ served' = image
         \/ UNCHANGED served,
         \/ UNCHANGED answer
         \/ answer = "waiting" /\ answer' = "refused"
         \/ answer = "waiting" /\ answer' = "done" /\ served' = image
  PROVE  Inv'
<1> USE DEF Inv, files
<1>1. served' \in Docs
  BY DEF Readable, TypeOK
<1>2. TypeOK'
  BY <1>1 DEF TypeOK
<1>3. ReadyIsServed'
  BY DEF ReadyIsServed, Enforces
<1>4. MaskInv'
  BY DEF MaskInv, At, Enforces, Written, Resting
<1>5. DiskInv' /\ OkInv'
  BY DEF DiskInv, OkInv, At, FromDisk
<1> QED
  BY <1>2, <1>3, <1>4, <1>5

LEMMA CrashKeepsInv == Inv /\ Crash => Inv'
<1> SUFFICES ASSUME Inv, Crash PROVE Inv'
  OBVIOUS
<1> USE DEF Inv, Crash
<1>1. /\ job' = Down /\ Down \in Job /\ Down.pc = "down"
      /\ Down.op = "none" /\ ~Down.loaded
  BY DEF Down, IdleJob, Job, Labels, Docs
<1>2. TypeOK'
  BY <1>1 DEF TypeOK, files, Empty, Docs
<1>3. MaskInv'
  BY <1>1 DEF MaskInv, Resting, Written, At
<1> QED
  BY <1>1, <1>2, <1>3 DEF DiskInv, OkInv, ReadyIsServed, At, Empty

(* What Goto leaves alone.                                                 *)
GoneOn(l) ==
  /\ job' \in Job /\ job'.pc = l /\ job'.mask = job.mask
  /\ job'.doc = job.doc /\ job'.op = job.op /\ job'.persist = job.persist
  /\ job'.loaded = job.loaded

LEMMA GotoGoesOn == ASSUME NEW l \in Labels, Goto(l), Inv PROVE GoneOn(l)
<1>1. job \in Job
  BY DEF Inv, TypeOK
<1> QED
  BY <1>1 DEF Goto, GoneOn, Job

LEMMA JobStepKeepsInv == Inv /\ JobStep => Inv'
<1> SUFFICES ASSUME Inv, JobStep PROVE Inv'
  OBVIOUS
<1> USE DEF Inv, MaskInv, DiskInv, OkInv, ReadyIsServed, At, Resting, Written,
            FromDisk, Enforces
<1>0. job \in Job
  BY DEF TypeOK
<1>1. CASE Convert
  <2>1. PICK mask \in Converted :
          IF NothingConverted(mask) THEN Fail
          ELSE /\ job' = [job EXCEPT !.pc = "openImage", !.mask = mask]
               /\ UNCHANGED reply
    BY <1>1 DEF Convert
  <2>2. CASE NothingConverted(mask)
    BY <1>1, <2>1, <2>2, FailKeepsInv DEF Convert
  <2>3. CASE ~NothingConverted(mask)
    <3>1. /\ mask \in Docs /\ mask \subseteq job.doc
          /\ job.op = "start" => mask = {}
      BY <1>0 DEF Converted, Docs, Job
    <3>2. /\ job' \in Job /\ job'.pc = "openImage" /\ job'.mask = mask
          /\ job'.op = job.op /\ job'.doc = job.doc
          /\ job'.persist = job.persist /\ job'.loaded = job.loaded
      <4>1. job' = [job EXCEPT !.pc = "openImage", !.mask = mask]
        BY <2>1, <2>3, Zenon
      <4> QED
        BY <1>0, <3>1, <4>1 DEF Job, Labels
    <3>3. job.doc # {} => mask # {}
      BY <2>3 DEF NothingConverted
    <3>4. TypeOK'
      BY <1>1, <2>1, <2>3, <3>2 DEF TypeOK, Convert, files, server
    <3> QED
      BY <1>1, <2>1, <2>3, <3>1, <3>2, <3>3, <3>4
         DEF Convert, files, server
  <2> QED
    BY <2>2, <2>3
<1>2. CASE WriteFails
  BY <1>2, FailKeepsInv DEF WriteFails
<1>3. CASE OpenImage
  <2>1. GoneOn("writeImage")
    BY <1>3, GotoGoesOn DEF OpenImage, Labels
  <2> QED
    BY <1>3, <2>1 DEF OpenImage, TypeOK, GoneOn, server
<1>4. CASE WriteImage
  <2>1. GoneOn("openYaml") /\ job.mask \in Docs
    BY <1>0, <1>4, GotoGoesOn DEF WriteImage, Labels, Job
  <2> QED
    BY <1>4, <2>1 DEF WriteImage, TypeOK, GoneOn, server
<1>5. CASE OpenYaml
  <2>1. GoneOn("writeYaml")
    BY <1>5, GotoGoesOn DEF OpenYaml, Labels
  <2> QED
    BY <1>5, <2>1 DEF OpenYaml, TypeOK, GoneOn, server
<1>6. CASE WriteYaml
  <2>1. GoneOn("load")
    BY <1>6, GotoGoesOn DEF WriteYaml, Labels
  <2> QED
    BY <1>6, <2>1 DEF WriteYaml, TypeOK, GoneOn, server
<1>7. CASE SaveGeojson
  <2>1. CASE job.persist
    <3>1. GoneOn("writeDoc") /\ geojson' = Torn
      BY <1>7, <2>1, GotoGoesOn DEF SaveGeojson, Labels
    <3> QED
      BY <1>7, <2>1, <3>1 DEF SaveGeojson, TypeOK, GoneOn, server
  <2>2. CASE ~job.persist
    <3>1. GoneOn("commit") /\ UNCHANGED geojson
      BY <1>7, <2>2, GotoGoesOn DEF SaveGeojson, Labels
    <3> QED
      BY <1>7, <2>2, <3>1 DEF SaveGeojson, TypeOK, GoneOn, server
  <2> QED
    BY <2>1, <2>2
<1>8. CASE WriteDoc
  <2>1. GoneOn("commit") /\ job.doc \in Docs
    BY <1>0, <1>8, GotoGoesOn DEF WriteDoc, Labels, Job
  <2>2. FromDisk' = job.doc
    BY <1>8, <2>1, FilesAssumption DEF WriteDoc
  <2> QED
    BY <1>8, <2>1, <2>2 DEF WriteDoc, TypeOK, GoneOn, server
<1>9. CASE CallLoadMap
  <2>1. \/ GoneOn("loadWait") /\ answer' = "waiting"
        \/ GoneOn("save") /\ UNCHANGED answer
    BY <1>9, GotoGoesOn DEF CallLoadMap, Labels
  <2> QED
    BY <1>9, <2>1 DEF CallLoadMap, TypeOK, GoneOn, files
<1>10. CASE LoadAnswered
  <2>1. /\ job' \in Job /\ job'.pc \in {"clear", "save"}
        /\ job'.mask = job.mask /\ job'.doc = job.doc /\ job'.op = job.op
        /\ job'.persist = job.persist /\ job'.loaded = Loaded
    BY <1>0, <1>10 DEF LoadAnswered, Job, Labels, Loaded
  <2>2. /\ At("loadWait") /\ answer' = "none" /\ job.op # "start"
        /\ UNCHANGED <<memory, files, served, late, reply, unsettled>>
    BY <1>10 DEF LoadAnswered
  <2>3. Loaded => served = job.mask
    BY DEF Loaded
  <2>4. TypeOK'
    BY <2>1, <2>2 DEF TypeOK, files
  <2>5. MaskInv'
    BY <2>1, <2>2, <2>3 DEF files
  <2> QED
    BY <2>1, <2>2, <2>4, <2>5 DEF files
<1>11. CASE LoadTimeout
  <2>1. GoneOn("save")
    BY <1>11, GotoGoesOn DEF LoadTimeout, Labels
  <2> QED
    BY <1>11, <2>1 DEF LoadTimeout, TypeOK, GoneOn, files
<1>12. CASE ClearCostmap
  <2>1. GoneOn("save")
    BY <1>0, <1>12 DEF ClearCostmap, GoneOn, Job, Labels
  <2> QED
    BY <1>12, <2>1 DEF ClearCostmap, TypeOK, GoneOn, files, server
<1>13. CASE Commit
  <2>1. /\ job' \in Job /\ job'.pc = "idle" /\ job'.op = "none"
        /\ ~job'.loaded
    BY <1>13 DEF Commit, IdleJob, Job, Labels, Docs
  <2>2. job.doc \in Docs /\ Applied \in BOOLEAN /\ (Applied => job.loaded)
    BY <1>0 DEF Job, Applied
  <2>3. memory'.doc = job.doc /\ memory'.ready = Applied
    BY <1>13 DEF Commit
  <2>4. TypeOK'
    BY <1>13, <2>1, <2>2 DEF Commit, TypeOK, files, server
  <2>5. ReadyIsServed'
    BY <1>13, <2>2, <2>3 DEF Commit, files, server
  <2>6. reply' = "ok" => Applied /\ job.op \in {"set", "reload"}
    BY <1>0, <1>13 DEF Commit, Job
  <2>7. OkInv'
    BY <1>13, <2>1, <2>3, <2>6 DEF Commit, files
  <2> QED
    BY <1>13, <2>1, <2>4, <2>5, <2>7 DEF Commit, files, server
<1> QED
  BY <1>1, <1>2, <1>3, <1>4, <1>5, <1>6, <1>7, <1>8, <1>9, <1>10,
     <1>11, <1>12, <1>13 DEF JobStep

LEMMA InvNext == Inv /\ [Next]_vars => Inv'
<1> SUFFICES ASSUME Inv, [Next]_vars PROVE Inv'
  OBVIOUS
<1> USE DEF Inv
<1>0. geojson # Torn => FromDisk \in Docs
  BY DEF FromDisk, TypeOK, Docs
<1>1. ASSUME NEW doc \in Docs, SetGeojson(doc) PROVE Inv'
  <2>1. CASE Begin("set", doc, TRUE) /\ reply' = "none"
    BY <1>1, <2>1, BeginKeepsInv DEF SetGeojson, At, Resting
  <2>2. CASE reply' = "error" /\ UNCHANGED job
    BY <1>1, <2>2, UnansweredKeepsInv DEF SetGeojson
  <2> QED
    BY <1>1, <2>1, <2>2 DEF SetGeojson
<1>2. CASE ReloadFromDisk
  <2>1. CASE geojson = Torn
    BY <1>2, <2>1, UnansweredKeepsInv DEF ReloadFromDisk
  <2>2. CASE geojson # Torn
    BY <1>0, <1>2, <2>2, BeginKeepsInv DEF ReloadFromDisk, At, Resting
  <2> QED
    BY <2>1, <2>2
<1>3. CASE LoadInitialState
  <2>1. StartupDoc \in Docs /\ (geojson = Torn \/ FromDisk = StartupDoc)
    BY <1>0 DEF StartupDoc, Docs
  <2>2. reply # "ok" /\ reply \in {"none", "error"}
    BY <1>3 DEF LoadInitialState, OkInv, At, TypeOK
  <2> QED
    BY <1>3, <2>1, <2>2, BeginKeepsInv DEF LoadInitialState, At, Resting
<1>4. CASE JobStep
  BY <1>4, JobStepKeepsInv
<1>5. CASE MapServerLoads
  BY <1>5, ServerKeepsInv DEF MapServerLoads, TypeOK
<1>6. CASE MapServerLoadsLate
  BY <1>6, ServerKeepsInv DEF MapServerLoadsLate
<1>7. CASE Crash
  BY <1>7, CrashKeepsInv
<1>8. CASE UNCHANGED vars
  BY <1>8, UnansweredKeepsInv DEF vars
<1> QED
  BY <1>1, <1>2, <1>3, <1>4, <1>5, <1>6, <1>7, <1>8 DEF Next
LEMMA AlwaysInv == Spec => []Inv
<1> QED
  BY InvInit, InvNext, PTL DEF Spec

-----------------------------------------------------------------------------
(* The variables have the types of TypeOK: the document a job works on is  *)
(* always a document, also after a start from a torn file.                 *)
THEOREM ZoneTypes == Spec => []TypeOK
<1> QED
  BY AlwaysInv, PTL DEF Inv

(* get_state says mask_ready only of the mask that is served, unless a     *)
(* later request touched the image and failed.                             *)
THEOREM ReadyIsAlwaysServed == Spec => []ReadyIsServed
<1> QED
  BY AlwaysInv, PTL DEF Inv

(* After a request that answers ok the map server, the image, the file and *)
(* memory agree until the next request, whatever is handled late.          *)
THEOREM OkMeansAlwaysApplied == Spec => []OkMeansApplied
<1>1. Inv => OkMeansApplied
  BY DEF Inv, OkInv, ReadyIsServed, OkMeansApplied
<1> QED
  BY AlwaysInv, <1>1, PTL

(* The initial load rewrites the image only when the file has no zones.    *)
THEOREM RestartAlwaysKeepsMask == Spec => RestartKeepsMask
<1>1. Inv /\ [Next]_vars =>
        [job.op = "start" /\ image' # image
           => geojson \in {Absent, Torn, {}}]_vars
  <2> SUFFICES ASSUME Inv, Next, job.op = "start", image' # image
               PROVE  geojson \in {Absent, Torn, {}}
    BY DEF vars
  <2>1. OpenImage \/ WriteImage
    BY DEF Next, JobStep, SetGeojson, ReloadFromDisk, LoadInitialState,
       Convert, WriteFails, OpenYaml, WriteYaml, SaveGeojson, WriteDoc,
       CallLoadMap, LoadAnswered, LoadTimeout, ClearCostmap, Commit,
       MapServerLoads, MapServerLoadsLate, Crash, files
  <2>2. job.mask = {} /\ Enforces(job.mask, job.doc)
    BY <2>1 DEF Inv, MaskInv, OpenImage, WriteImage, At, Resting
  <2>3. geojson = Torn \/ FromDisk = job.doc
    BY DEF Inv, DiskInv
  <2> QED
    BY <2>2, <2>3 DEF Enforces, FromDisk
<1> QED
  BY AlwaysInv, <1>1, PTL DEF Spec, RestartKeepsMask

-----------------------------------------------------------------------------
(* Refinement: every step is a step of ZoneStore or leaves it alone.       *)
LEMMA StoreInit == Init => Store!Init
<1> SUFFICES ASSUME Init PROVE Store!Init
  OBVIOUS
<1>1. job.pc = "down"
  BY DEF Init, Down, IdleJob
<1>2. FromDisk \in Docs
  BY DEF Init, FromDisk, Docs
<1> QED
  BY <1>1, <1>2 DEF Init, Store!Init, Store!Docs, Docs, At, Empty

LEMMA JobStepRefines ==
  ASSUME Inv, JobStep PROVE [Store!Next]_(Store!vars)
<1> USE DEF Inv
<1>0. /\ job \in Job /\ job.op \in {"none", "start", "set", "reload"}
      /\ job.pc \in Labels /\ (job.pc \notin Resting => job.op # "none")
  BY DEF TypeOK, Job, MaskInv
<1> DEFINE Stays == job'.pc \notin Resting /\ job'.op = job.op
<1>1. ASSUME Stays, job.pc \notin Resting,
             UNCHANGED <<memory, geojson, served, reply, unsettled>>
      PROVE  UNCHANGED Store!vars
  BY <1>1 DEF Store!vars, At, Resting, FromDisk
<1>2. ASSUME Fail, job.pc \notin Resting,
             UNCHANGED <<memory, files, server, unsettled>>
      PROVE  Store!GiveUp
  <2>1. job'.pc = "idle"
    BY <1>2 DEF Fail, IdleJob
  <2> QED
    BY <1>0, <1>2, <2>1
       DEF Fail, Store!GiveUp, Store!Busy, At, Resting, FromDisk, files, server
<1>3. ASSUME Convert PROVE [Store!Next]_(Store!vars)
  <2>1. PICK mask \in Converted :
          IF NothingConverted(mask) THEN Fail
          ELSE /\ job' = [job EXCEPT !.pc = "openImage", !.mask = mask]
               /\ UNCHANGED reply
    BY <1>3 DEF Convert
  <2>2. CASE NothingConverted(mask)
    BY <1>2, <1>3, <2>1, <2>2 DEF Convert, At, Resting, Store!Next
  <2>3. CASE ~NothingConverted(mask)
    <3>1. job' = [job EXCEPT !.pc = "openImage", !.mask = mask]
      BY <2>1, <2>3, Zenon
    <3>2. Stays /\ UNCHANGED reply
      BY <1>0, <2>1, <2>3, <3>1 DEF Job, Resting
    <3> QED
      BY <1>1, <1>3, <3>2 DEF Convert, At, Resting, files, server
  <2> QED
    BY <2>2, <2>3
<1>4. ASSUME WriteFails PROVE [Store!Next]_(Store!vars)
  BY <1>2, <1>4 DEF WriteFails, At, Resting, Store!Next
<1>5. ASSUME NEW l \in Labels \ Resting, Goto(l) PROVE Stays
  BY <1>0, <1>5 DEF Goto, Job
<1>6. ASSUME OpenImage PROVE Store!Touch
  <2>1. Stays
    BY <1>5, <1>6 DEF OpenImage, Labels, Resting
  <2> QED
    BY <1>0, <1>6, <2>1
       DEF OpenImage, Store!Touch, Store!Busy, At, Resting, FromDisk, server
<1>7. ASSUME WriteImage \/ OpenYaml \/ WriteYaml \/ CallLoadMap
             \/ LoadTimeout
      PROVE  UNCHANGED Store!vars
  <2>1. Stays /\ job.pc \notin Resting
    BY <1>5, <1>7 DEF WriteImage, OpenYaml, WriteYaml, CallLoadMap,
       LoadTimeout, Labels, Resting, At
  <2> QED
    BY <1>1, <1>7, <2>1 DEF WriteImage, OpenYaml, WriteYaml, CallLoadMap,
       LoadTimeout, files, server
<1>8. ASSUME LoadAnswered \/ ClearCostmap PROVE UNCHANGED Store!vars
  <2>1. Stays /\ job.pc \notin Resting
    BY <1>0, <1>8 DEF LoadAnswered, ClearCostmap, Job, Resting, At
  <2> QED
    BY <1>1, <1>8, <2>1 DEF LoadAnswered, ClearCostmap, files, server
<1>9. ASSUME SaveGeojson \/ WriteDoc, geojson' # geojson PROVE Store!Save
  <2>1. Stays /\ job.pc \notin Resting
    BY <1>5, <1>9 DEF SaveGeojson, WriteDoc, Labels, Resting, At
  <2>2. unsettled /\ job.persist /\ job.op # "reload"
    BY <1>9 DEF SaveGeojson, WriteDoc, MaskInv, DiskInv, Written, At
  <2>3. job.op = "start" => FromDisk \in {{}, Torn}
    BY <1>9 DEF SaveGeojson, WriteDoc, MaskInv, DiskInv, Enforces, At,
       Resting, FromDisk
  <2>4. FromDisk' \in Docs \cup {Torn}
    BY <1>0, <1>9 DEF SaveGeojson, WriteDoc, Job, FromDisk, Docs
  <2> QED
    BY <1>0, <1>9, <2>1, <2>2, <2>3, <2>4
       DEF Store!Save, Store!Docs, Docs, SaveGeojson, WriteDoc, At, Resting,
           server
<1>10. ASSUME SaveGeojson \/ WriteDoc, geojson' = geojson
       PROVE  UNCHANGED Store!vars
  <2>1. Stays /\ job.pc \notin Resting
    BY <1>5, <1>10 DEF SaveGeojson, WriteDoc, Labels, Resting, At
  <2> QED
    BY <1>1, <1>10, <2>1 DEF SaveGeojson, WriteDoc, server
<1>11. ASSUME Commit PROVE Store!Accept
  <2>1. job'.pc = "idle" /\ memory'.doc = job.doc /\ memory'.ready = Applied
    BY <1>11 DEF Commit, IdleJob
  <2>2. job.doc \in Docs /\ Applied \in BOOLEAN
    BY <1>0 DEF Job, Applied
  <2>3. FromDisk = job.doc \/ (job.op = "start" /\ FromDisk = Torn)
    BY <1>0, <1>11, FilesAssumption DEF Commit, DiskInv, At, Resting, FromDisk
  <2>4. Applied => job.op # "start" /\ Enforces(served, job.doc)
    BY <1>11 DEF Commit, Applied, MaskInv, At, Resting
  <2> QED
    BY <1>0, <1>11, <2>1, <2>2, <2>3, <2>4
       DEF Commit, Store!Accept, Store!Busy, Store!Docs, Docs,
           Store!Enforces, Enforces, At, Resting, FromDisk, files, server
<1> QED
  BY <1>3, <1>4, <1>6, <1>7, <1>8, <1>9, <1>10, <1>11
     DEF JobStep, Store!Next

LEMMA StepRefines ==
  Inv /\ Inv' /\ [Next]_vars => [Store!Next]_(Store!vars)
<1> SUFFICES ASSUME Inv, Inv', [Next]_vars
             PROVE  [Store!Next]_(Store!vars)
  OBVIOUS
<1> USE DEF Inv
<1>0. /\ job.pc \in Labels /\ (job.pc \notin Resting => job.op # "none")
      /\ job.op \in {"none", "start", "set", "reload"}
      /\ memory.ready \in BOOLEAN
  BY DEF TypeOK, Job, MaskInv
<1>1. ASSUME NEW op \in {"set", "reload"}, NEW doc, NEW persist,
             Begin(op, doc, persist), At("idle"), reply' = "none",
             UNCHANGED <<memory, files, server, unsettled>>
      PROVE  Store!Ask
  <2>1. job'.pc = "convert" /\ job'.op = op
    BY <1>1 DEF Begin, IdleJob
  <2> QED
    BY <1>1, <2>1 DEF Store!Ask, At, FromDisk, files, server
<1>2. ASSUME At("idle"), reply' = "error",
             UNCHANGED <<memory, files, server, job, unsettled>>
      PROVE  Store!Ask
  BY <1>2 DEF Store!Ask, At, FromDisk, files, server
<1>3. ASSUME NEW doc \in Docs, SetGeojson(doc) PROVE Store!Ask
  BY <1>1, <1>2, <1>3 DEF SetGeojson
<1>4. ASSUME ReloadFromDisk PROVE Store!Ask
  BY <1>1, <1>2, <1>4 DEF ReloadFromDisk
<1>5. ASSUME LoadInitialState PROVE Store!Start
  <2>1. job'.pc = "convert" /\ job'.op = "start"
    BY <1>5 DEF LoadInitialState, Begin, IdleJob
  <2> QED
    BY <1>5, <2>1 DEF LoadInitialState, Store!Start, At, FromDisk, files,
       server
<1>6. ASSUME MapServerLoads \/ MapServerLoadsLate
      PROVE  [Store!Next]_(Store!vars)
  <2>1. /\ UNCHANGED <<memory, geojson, job, reply, unsettled>>
        /\ served' = served \/ served' = image
    BY <1>6 DEF MapServerLoads, MapServerLoadsLate, files
  <2>2. served' \in Docs
    BY DEF TypeOK
  <2>3. served' # served => unsettled \/ ~memory.ready
    BY <2>1 DEF ReadyIsServed
  <2>4. served' # served => Store!ChangeMask
    BY <2>1, <2>2, <2>3 DEF Store!ChangeMask, Store!Docs, Docs, At, FromDisk
  <2>5. served' = served => UNCHANGED Store!vars
    BY <2>1 DEF Store!vars, At, FromDisk
  <2> QED
    BY <2>4, <2>5 DEF Store!Next
<1>7. ASSUME Crash PROVE Store!Crash
  <2>1. job'.pc = "down"
    BY <1>7 DEF Crash, Down
  <2>2. memory'.doc = {} /\ memory'.ready = FALSE
    BY <1>7 DEF Crash, Empty
  <2> QED
    BY <1>0, <1>7, <2>1, <2>2
       DEF Crash, Store!Crash, At, FromDisk, Resting, files
<1>8. ASSUME UNCHANGED vars PROVE UNCHANGED Store!vars
  BY <1>8 DEF vars, Store!vars, At, FromDisk, files, server
<1> QED
  BY <1>3, <1>4, <1>5, <1>6, <1>7, <1>8, JobStepRefines
     DEF Next, Store!Next

(* zones_manager implements the store of zones: every behaviour, with its  *)
(* failures, late answers and restarts, is one of ZoneStore.               *)
THEOREM ImplementsZoneStore == Spec => IsZoneStore
<1> QED
  BY StoreInit, StepRefines, AlwaysInv, PTL DEF Spec, IsZoneStore, Store!Spec
=============================================================================
