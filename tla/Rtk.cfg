SPECIFICATION LiveSpec
CONSTANTS
  Ids = {s1, s2}
  s1 = s1
  s2 = s2
  Configs = {c1, c2}
  c1 = c1
  c2 = c2
  Absent = Absent
  Torn = Torn
INVARIANTS ActiveIsConfigured AtMostOneOldChunk StaleStreamEnds
PROPERTIES SwitchCompletes ConnectedSettles RestartKeepsSources
