---------------------------- MODULE ZonesManager ----------------------------
(***************************************************************************)
(* zones_manager: the keepout zones, kept in four copies that one request  *)
(* changes one after another: the mask image and its YAML (read by the map *)
(* server), the mask the map server serves, the GeoJSON file, and memory.  *)
(*                                                                         *)
(* Requests run one at a time (MutuallyExclusive group). A step is one     *)
(* system call on a file, one wait for an answer or one section under      *)
(* _lock; the process may be killed between any two of them. The map       *)
(* server is external: it reads the files when it handles a request, which *)
(* may be after the request was given up.                                  *)
(*                                                                         *)
(* Abstractions: a document is its set of enabled polygons, and the mask   *)
(* made of it the set of those that could be converted (fromLL may fail    *)
(* for some); all polygons lie on the mask; mask_source is left out, and   *)
(* only requests change the files.                                         *)
(***************************************************************************)
CONSTANTS
  Zones,        \* polygons
  Absent, Torn  \* a file that does not exist, or was not written to its end

Docs == SUBSET Zones
ASSUME FilesAssumption ==
  Absent # Torn /\ Absent \notin Docs /\ Torn \notin Docs

VARIABLES
  memory,   \* _geojson_doc and _mask_ready
  geojson,  \* the GeoJSON file
  image,    \* the mask image
  yaml,     \* is the YAML of the mask whole?
  served,   \* the mask the map server serves
  answer,   \* the load_map request of the current job
  late,     \* requests given up before are still to be handled
  job,      \* what the service thread, or the constructor, is doing
  reply,    \* the reply to the last request
  unsettled \* history: the image was touched since memory was last set

files == <<geojson, image, yaml>>
server == <<served, answer, late>>
vars == <<memory, files, server, job, reply, unsettled>>

Labels == {"down", "idle", "convert", "openImage", "writeImage", "openYaml",
           "writeYaml", "load", "loadWait", "clear", "save", "writeDoc",
           "commit"}
IdleJob == [pc |-> "idle", op |-> "none", doc |-> {}, persist |-> FALSE,
            mask |-> {}, loaded |-> FALSE, cleared |-> FALSE]
Down == [IdleJob EXCEPT !.pc = "down"]
Empty == [doc |-> {}, ready |-> FALSE]

Init ==
  /\ memory = Empty /\ geojson \in Docs \cup {Absent}
  /\ image \in Docs /\ yaml = TRUE /\ served = image
  /\ answer = "none" /\ late = FALSE
  /\ job = Down /\ reply = "none" /\ unsettled = FALSE

At(l) == job.pc = l
Goto(l) == job' = [job EXCEPT !.pc = l]
Fail == job' = IdleJob /\ reply' = IF job.op = "start" THEN "none" ELSE "error"

-----------------------------------------------------------------------------
(* Requests, and the initial load of the constructor                       *)
Begin(op, doc, persist) ==
  job' = [IdleJob EXCEPT !.pc = "convert", !.op = op, !.doc = doc,
                         !.persist = persist]

SetGeojson(doc) ==
  /\ At("idle")
  /\ \/ Begin("set", doc, TRUE) /\ reply' = "none"
     \/ reply' = "error" /\ UNCHANGED job \* not a valid document
  /\ UNCHANGED <<memory, files, server, unsettled>>

FromDisk == IF geojson = Absent THEN {} ELSE geojson

ReloadFromDiskMutant ==
  /\ At("idle")
  /\ IF geojson = Torn THEN reply' = "error" /\ UNCHANGED job
     ELSE Begin("reload", FromDisk, TRUE) /\ reply' = "none"
  /\ UNCHANGED <<memory, files, server, unsettled>>
ReloadFromDisk ==
  /\ At("idle")
  /\ IF geojson = Torn THEN reply' = "error" /\ UNCHANGED job
     ELSE Begin("reload", FromDisk, FALSE) /\ reply' = "none"
  /\ UNCHANGED <<memory, files, server, unsettled>>

StartupDocMutant == FromDisk
StartupDoc == IF geojson = Torn THEN {} ELSE FromDisk

LoadInitialState ==
  /\ At("down")
  /\ Begin("start", StartupDoc, geojson = Absent)
  /\ UNCHANGED <<memory, files, server, reply, unsettled>>

(* The constructor runs before the executor does: no answer of fromLL      *)
(* reaches it, so none of its polygons is converted.                       *)
Converted == IF job.op = "start" THEN {{}} ELSE SUBSET job.doc
NothingConvertedMutant(mask) == FALSE
NothingConverted(mask) == job.doc # {} /\ mask = {}

Convert ==
  /\ At("convert")
  /\ \E mask \in Converted :
       IF NothingConverted(mask) THEN Fail
       ELSE /\ job' = [job EXCEPT !.pc = "openImage", !.mask = mask]
            /\ UNCHANGED reply
  /\ UNCHANGED <<memory, files, server, unsettled>>

-----------------------------------------------------------------------------
(* Each file is truncated, then written: either may fail.                  *)
WriteFails ==
  /\ At("openImage") \/ At("writeImage") \/ At("openYaml") \/ At("writeYaml")
     \/ (At("save") /\ job.persist) \/ At("writeDoc")
  /\ Fail
  /\ UNCHANGED <<memory, files, server, unsettled>>

OpenImage ==
  /\ At("openImage") /\ Goto("writeImage")
  /\ image' = Torn /\ unsettled' = TRUE
  /\ UNCHANGED <<memory, geojson, yaml, server, reply>>

WriteImage ==
  /\ At("writeImage") /\ Goto("openYaml")
  /\ image' = job.mask
  /\ UNCHANGED <<memory, geojson, yaml, server, reply, unsettled>>

OpenYaml ==
  /\ At("openYaml") /\ Goto("writeYaml")
  /\ yaml' = FALSE
  /\ UNCHANGED <<memory, geojson, image, server, reply, unsettled>>

WriteYaml ==
  /\ At("writeYaml") /\ Goto("load")
  /\ yaml' = TRUE
  /\ UNCHANGED <<memory, geojson, image, server, reply, unsettled>>

SaveGeojson ==
  /\ At("save")
  /\ IF job.persist THEN geojson' = Torn /\ Goto("writeDoc")
     ELSE Goto("commit") /\ UNCHANGED geojson
  /\ UNCHANGED <<memory, image, yaml, server, reply, unsettled>>

WriteDoc ==
  /\ At("writeDoc") /\ Goto("commit")
  /\ geojson' = job.doc
  /\ UNCHANGED <<memory, image, yaml, server, reply, unsettled>>

-----------------------------------------------------------------------------
(* load_map and clear_entirely_global_costmap                              *)
CallLoadMap ==
  /\ At("load")
  /\ \/ Goto("loadWait") /\ answer' = "waiting"
     \/ Goto("save") /\ UNCHANGED answer \* the service is not there
  /\ UNCHANGED <<memory, files, served, late, reply, unsettled>>

LoadedMutant == TRUE
Loaded == answer = "done"

LoadAnswered ==
  /\ At("loadWait") /\ job.op # "start" /\ answer \in {"done", "refused"}
  /\ job' = [job EXCEPT !.loaded = Loaded,
                        !.pc = IF Loaded THEN "clear" ELSE "save"]
  /\ answer' = "none"
  /\ UNCHANGED <<memory, files, served, late, reply, unsettled>>

LoadTimeoutMutant ==
  /\ At("loadWait") /\ answer # "waiting"
  /\ Goto("save")
  /\ answer' = "none"
  /\ UNCHANGED <<memory, files, served, late, reply, unsettled>>
LoadTimeout ==
  /\ At("loadWait")
  /\ Goto("save")
  /\ late' = (late \/ answer = "waiting") /\ answer' = "none"
  /\ UNCHANGED <<memory, files, served, reply, unsettled>>

ClearCostmap ==
  /\ At("clear")
  /\ \E cleared \in BOOLEAN :
       job' = [job EXCEPT !.pc = "save", !.cleared = cleared]
  /\ UNCHANGED <<memory, files, server, reply, unsettled>>

AppliedMutant == TRUE
Applied == job.loaded /\ job.cleared

Commit ==
  /\ At("commit")
  /\ memory' = [doc |-> job.doc, ready |-> Applied]
  /\ job' = IdleJob /\ unsettled' = FALSE
  /\ reply' = IF job.op = "start" THEN "none"
              ELSE IF Applied THEN "ok" ELSE "error"
  /\ UNCHANGED <<files, server>>

-----------------------------------------------------------------------------
(* External: the map server, and the end of the process.                   *)
Readable == yaml /\ image # Torn

MapServerLoads ==
  /\ answer = "waiting"
  /\ \/ Readable /\ served' = image /\ answer' = "done"
     \/ answer' = "refused" /\ UNCHANGED served
  /\ UNCHANGED <<memory, files, late, job, reply, unsettled>>

(* How many requests were given up is not counted: there may be more.      *)
MapServerLoadsLate ==
  /\ late /\ late' \in BOOLEAN
  /\ \/ Readable /\ served' = image
     \/ UNCHANGED served
  /\ UNCHANGED <<memory, files, answer, job, reply, unsettled>>

Crash ==
  /\ ~At("down")
  /\ job' = Down /\ memory' = Empty /\ reply' = "none"
  /\ late' = (late \/ answer = "waiting") /\ answer' = "none"
  /\ UNCHANGED <<files, served, unsettled>>

-----------------------------------------------------------------------------
JobStep == \/ Convert \/ WriteFails \/ OpenImage \/ WriteImage \/ OpenYaml
           \/ WriteYaml \/ SaveGeojson \/ WriteDoc \/ CallLoadMap
           \/ LoadAnswered \/ LoadTimeout \/ ClearCostmap \/ Commit
Next == \/ \E doc \in Docs : SetGeojson(doc)
        \/ ReloadFromDisk \/ LoadInitialState \/ JobStep
        \/ MapServerLoads \/ MapServerLoadsLate \/ Crash

Spec == Init /\ [][Next]_vars

(* Every wait has a timeout, so the thread of a job always gets on.        *)
LiveSpec == Spec /\ WF_vars(JobStep)

-----------------------------------------------------------------------------
Job == [pc : Labels, op : {"none", "start", "set", "reload"}, doc : Docs,
        persist : BOOLEAN, mask : Docs, loaded : BOOLEAN, cleared : BOOLEAN]
TypeOK ==
  /\ memory \in [doc : Docs, ready : BOOLEAN]
  /\ geojson \in Docs \cup {Absent, Torn} /\ image \in Docs \cup {Torn}
  /\ yaml \in BOOLEAN /\ served \in Docs
  /\ answer \in {"none", "waiting", "done", "refused"} /\ late \in BOOLEAN
  /\ job \in Job /\ reply \in {"none", "ok", "error"}
  /\ unsettled \in BOOLEAN

(* A mask enforces a document when it has zones of it, and only those.     *)
Enforces(mask, doc) == mask \subseteq doc /\ (doc # {} => mask # {})

(* When set_geojson or reload_from_disk answers ok, the four copies agree: *)
(* the map server serves the mask on disk, made of the document in memory, *)
(* which is the one a reload would bring back. A request that was given up *)
(* and is handled late does not undo it.                                   *)
OkMeansApplied ==
  reply = "ok" =>
    /\ served = image /\ Enforces(served, memory.doc)
    /\ FromDisk = memory.doc

(* What get_state tells: mask_ready stays true of the mask that is served, *)
(* except when a later request touched the image and failed before it set  *)
(* memory.                                                                 *)
ReadyIsServed ==
  memory.ready /\ ~unsettled =>
    served = image /\ Enforces(served, memory.doc)

(* A restart never takes the mask of existing zones away, although it does *)
(* not manage to load them: the initial load writes the image only for a   *)
(* file without zones, absent or unreadable.                               *)
RestartKeepsMask ==
  [][job.op = "start" /\ image' # image
       => geojson \in {Absent, Torn, {}}]_vars

(* Every request is answered, with or without the map server.              *)
RequestsAreAnswered == ~At("idle") /\ ~At("down") ~> At("idle") \/ At("down")

(* zones_manager is a store of zones: between any two steps, whatever is   *)
(* killed, refused or handled late, the mask in force changes only while   *)
(* no document is acknowledged, a document is reported once it is saved,   *)
(* and only a request to set zones replaces saved ones.                    *)
Store == INSTANCE ZoneStore
           WITH Lost <- Torn, saved <- FromDisk, mask <- served,
                phase <- IF At("down") \/ At("idle") THEN job.pc ELSE job.op,
                doc <- memory.doc, ready <- memory.ready,
                touched <- unsettled
IsZoneStore == Store!Spec
=============================================================================
