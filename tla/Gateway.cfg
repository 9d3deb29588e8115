SPECIFICATION LiveSpec
CONSTANTS
  Tasks = {t1, t2}
  Recordings = {r1, r2}
  NoRecording = none
  Docs = {d1, d2}
  NoZones = d1
  MaxRequests = 3
  MaxQueue = 1
  Fixes = {f1, f2}
  Retries = 2
  Goals = {g1, g2, g3}
  None = none
  Count = 4
  Size = 3
  Disguised = {0, 2}
  FalseLength = 4
  MaxBuffer = 4
INVARIANTS RunningIsReachable ManualOnlyOnRequest ShownZonesAreInForce
  EdgeIsKept DatumAgrees HoldSparesRunningGoal FramesAreFound
PROPERTIES EndedIsForgotten CachedModeSettles LockIsReleased RtkClaimEnds
