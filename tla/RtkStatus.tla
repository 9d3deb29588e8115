------------------------------ MODULE RtkStatus ------------------------------
(***************************************************************************)
(* rtk_bridge: the RTK status it publishes for datum_setter and the        *)
(* console, from the last messages of the receiver and their freshness.    *)
(*                                                                         *)
(* All callbacks run in one thread. GPSRAW, GPSRTK and RTKBaseline count   *)
(* while they are younger than their timeouts; NavSatFix has no timeout.   *)
(* The receiver, with MAVROS in front of it, is external: any of its       *)
(* messages may come or stop coming. "rtk" stands for a float and a fixed  *)
(* solution; the texts of a static and a PPP solution are left out.        *)
(***************************************************************************)
VARIABLES
  solution, \* of the receiver: "off", "none", "single" or "rtk"
  gps,      \* what _last_gps_msg says, "unset" before the first
  raw,      \* what _last_gps_raw_msg says, and whether it is fresh
  assist,   \* is _last_gps_rtk_msg or _last_rtk_baseline fresh?
  rtcm,     \* corrections: "never", "fresh" or "stale"
  consumer, \* does MAVROS subscribe to the corrections?
  status    \* the status published last

vars == <<solution, gps, raw, assist, rtcm, consumer, status>>

Solutions == {"none", "single", "rtk"}
Texts == {"waiting_for_mavros_gps_rtk", "waiting_for_gps", "gps_no_fix",
          "rtk_fixed", "rtk_fix", "gps_only", "rtcm_stale", "rtcm_ok"}

Init ==
  /\ solution = "off" /\ consumer = FALSE
  /\ gps = "unset" /\ raw = [fix |-> "unset", fresh |-> FALSE]
  /\ assist = FALSE /\ rtcm = "never"
  /\ status = "waiting_for_mavros_gps_rtk"

-----------------------------------------------------------------------------
(* The receiver gains and loses its solution, and may go away, and MAVROS  *)
(* with it.                                                                *)
ReceiverChanges ==
  /\ solution' \in (Solutions \cup {"off"}) \ {solution}
  /\ consumer' \in BOOLEAN
  /\ UNCHANGED <<gps, raw, assist, rtcm, status>>

OnGps ==
  /\ solution # "off"
  /\ gps' = solution
  /\ UNCHANGED <<solution, raw, assist, rtcm, consumer, status>>

OnGpsRaw ==
  /\ solution # "off"
  /\ raw' = [fix |-> solution, fresh |-> TRUE]
  /\ UNCHANGED <<solution, gps, assist, rtcm, consumer, status>>

OnGpsRtkOrBaseline ==
  /\ solution # "off"
  /\ assist' = TRUE
  /\ UNCHANGED <<solution, gps, raw, rtcm, consumer, status>>

(* Corrections that cannot be read are dropped, the others are counted and *)
(* forwarded, whether somebody takes them or not.                          *)
ForwardRtcm ==
  /\ rtcm' = "fresh"
  /\ UNCHANGED <<solution, gps, raw, assist, consumer, status>>

(* A message outlives its timeout.                                         *)
RawAges ==
  /\ raw.fresh /\ raw' = [raw EXCEPT !.fresh = FALSE]
  /\ UNCHANGED <<solution, gps, assist, rtcm, consumer, status>>
AssistAges ==
  /\ assist /\ assist' = FALSE
  /\ UNCHANGED <<solution, gps, raw, rtcm, consumer, status>>
RtcmAges ==
  /\ rtcm = "fresh" /\ rtcm' = "stale"
  /\ UNCHANGED <<solution, gps, raw, assist, consumer, status>>

-----------------------------------------------------------------------------
FromCorrections ==
  CASE rtcm = "never" -> "gps_only"
    [] rtcm = "stale" -> "rtcm_stale"
    [] OTHER -> "rtcm_ok"

FromRaw ==
  CASE raw.fix = "none" -> "gps_no_fix"
    [] raw.fix = "rtk" -> "rtk_fixed"
    [] OTHER -> FromCorrections

ResolveMutant ==
  IF ~consumer THEN "waiting_for_mavros_gps_rtk"
  ELSE IF raw.fresh THEN FromRaw
  ELSE CASE gps = "unset" -> "waiting_for_gps"
         [] gps = "none" -> "gps_no_fix"
         [] gps = "rtk" -> "rtk_fix"
         [] OTHER -> FromCorrections
Resolve ==
  IF ~consumer THEN "waiting_for_mavros_gps_rtk"
  ELSE IF raw.fresh THEN FromRaw
  ELSE CASE gps = "unset" -> "waiting_for_gps"
         [] gps = "none" -> "gps_no_fix"
         [] gps = "rtk" /\ assist -> "rtk_fix"
         [] OTHER -> FromCorrections

PublishDiagnostics ==
  /\ status' = Resolve
  /\ UNCHANGED <<solution, gps, raw, assist, rtcm, consumer>>

Next ==
  \/ ReceiverChanges \/ OnGps \/ OnGpsRaw \/ OnGpsRtkOrBaseline
  \/ ForwardRtcm \/ RawAges \/ AssistAges \/ RtcmAges \/ PublishDiagnostics

(* The timer runs, and a receiver that is there goes on sending NavSatFix. *)
(* A GPSRAW that is outdated is followed by another one or gets too old,   *)
(* and nothing stays fresh once the receiver is gone.                      *)
RawSettles == raw.fresh /\ raw.fix # solution /\ (RawAges \/ OnGpsRaw)
AssistEnds == solution = "off" /\ AssistAges
Spec == Init /\ [][Next]_vars
LiveSpec ==
  /\ Spec
  /\ WF_vars(PublishDiagnostics) /\ WF_vars(OnGps)
  /\ WF_vars(RawSettles) /\ WF_vars(AssistEnds)

-----------------------------------------------------------------------------
TypeOK ==
  /\ solution \in Solutions \cup {"off"}
  /\ gps \in Solutions \cup {"unset"}
  /\ raw \in [fix : Solutions \cup {"unset"}, fresh : BOOLEAN]
  /\ assist \in BOOLEAN /\ consumer \in BOOLEAN
  /\ rtcm \in {"never", "fresh", "stale"} /\ status \in Texts

(* The texts datum_setter takes for RTK.                                   *)
ClaimsRtk(text) == text \in {"rtk_fixed", "rtk_fix"}

(* A receiver that has lost RTK for good, or has gone away without a word, *)
(* is not said to have it for ever: datum_setter would see neither the     *)
(* loss nor the next gain, on which it sets the datum.                     *)
RtkClaimEnds ==
  \A s \in {"off", "none", "single"} :
    <>[](solution = s) => <>[]~ClaimsRtk(status)
=============================================================================
