----------------------------- MODULE ZoneStore ------------------------------
(***************************************************************************)
(* What zones_manager promises, without its files, steps and timeouts: a   *)
(* durable document of zones, and a mask in force that changes only while  *)
(* the document is not acknowledged.                                       *)
(***************************************************************************)
CONSTANTS
  Zones, \* polygons
  Lost   \* the saved document cannot be read

Docs == SUBSET Zones

VARIABLES
  phase,   \* "down", "idle", or the request being served
  doc,     \* the document the store reports
  ready,   \* has its mask been put in force?
  saved,   \* the document a restart finds
  mask,    \* the mask in force
  touched, \* has a request begun to change the mask?
  reply    \* the answer to the last request

vars == <<phase, doc, ready, saved, mask, touched, reply>>

Busy == phase \in {"set", "reload", "start"}

(* A mask enforces a document when it has zones of it, and only those.     *)
Enforces(m, d) == m \subseteq d /\ (d # {} => m # {})

Init ==
  /\ phase = "down" /\ doc = {} /\ ready = FALSE
  /\ saved \in Docs /\ mask \in Docs
  /\ touched = FALSE /\ reply = "none"

(* A request is taken, or refused at once; a start always reads the store. *)
Ask ==
  /\ phase = "idle"
  /\ \/ phase' \in {"set", "reload"} /\ reply' = "none"
     \/ phase' = "idle" /\ reply' = "error"
  /\ UNCHANGED <<doc, ready, saved, mask, touched>>

Start ==
  /\ phase = "down" /\ phase' = "start"
  /\ UNCHANGED <<doc, ready, saved, mask, touched, reply>>

Touch ==
  /\ Busy /\ touched' = TRUE
  /\ UNCHANGED <<phase, doc, ready, saved, mask, reply>>

(* The mask may change only when the store does not vouch for it.          *)
ChangeMask ==
  /\ touched \/ ~ready
  /\ mask' \in Docs
  /\ UNCHANGED <<phase, doc, ready, saved, touched, reply>>

(* Only a request to set zones may replace saved ones.                     *)
Save ==
  /\ touched
  /\ phase = "set" \/ (phase = "start" /\ saved \in {{}, Lost})
  /\ saved' \in Docs \cup {Lost}
  /\ UNCHANGED <<phase, doc, ready, mask, touched, reply>>

(* The document is reported once it is saved; and it is acknowledged only  *)
(* with a mask in force that enforces it.                                  *)
Accept ==
  /\ Busy /\ phase' = "idle" /\ touched' = FALSE
  /\ doc' \in Docs /\ (saved = doc' \/ (phase = "start" /\ saved = Lost))
  /\ ready' \in BOOLEAN /\ (ready' => phase # "start" /\ Enforces(mask, doc'))
  /\ reply' = IF phase = "start" THEN "none"
              ELSE IF ready' THEN "ok" ELSE "error"
  /\ UNCHANGED <<saved, mask>>

GiveUp ==
  /\ Busy /\ phase' = "idle"
  /\ reply' = IF phase = "start" THEN "none" ELSE "error"
  /\ UNCHANGED <<doc, ready, saved, mask, touched>>

Crash ==
  /\ phase # "down" /\ phase' = "down"
  /\ doc' = {} /\ ready' = FALSE /\ reply' = "none"
  /\ UNCHANGED <<saved, mask, touched>>

Next == \/ Ask \/ Start \/ Touch \/ ChangeMask \/ Save \/ Accept \/ GiveUp
        \/ Crash

Spec == Init /\ [][Next]_vars
=============================================================================
