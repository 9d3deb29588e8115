SPECIFICATION Spec
CONSTANTS
  Goals = {g1, g2, g3}
  g1 = g1
  g2 = g2
  g3 = g3
  None = None
  NumThreads = 2
  BrakeCount = 2
  MaxPendingBrakes = 1
  ForwardWithoutGoal = FALSE
  OtherClients = FALSE
  Requests = {"setGoal", "setLoop", "cancel", "brake"}
SYMMETRY GoalSymmetry
INVARIANTS TrackedGoalIsWatched NavigatingHasAGoal PlanOnlyWhileLooping
PROPERTIES CancelEndsLoop
