SPECIFICATION LiveSpec
CONSTANTS
  Zones = {z1, z2}
  Absent = {absent}
  Torn = {torn}
INVARIANTS OkMeansApplied ReadyIsServed
PROPERTIES RestartKeepsMask RequestsAreAnswered IsZoneStore
