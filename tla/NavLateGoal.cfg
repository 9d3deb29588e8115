SPECIFICATION Spec
CONSTANTS
  Goals = {g1}
  g1 = g1
  None = None
  NumThreads = 2
  BrakeCount = 2
  MaxPendingBrakes = 1
  ForwardWithoutGoal = FALSE
  OtherClients = FALSE
  Requests = {"setGoal", "teleop"}
PROPERTIES NoGoalAdoptedInManual
