SPECIFICATION Nav2LiveSpec
CONSTANTS
  Goals = {g1, g2}
  g1 = g1
  g2 = g2
  None = None
  NumThreads = 2
  BrakeCount = 2
  MaxPendingBrakes = 1
  ForwardWithoutGoal = FALSE
  OtherClients = FALSE
  Requests = {"setGoal", "setLoop", "status"}
PROPERTIES TrackedGoalSettles
