SPECIFICATION Spec
CONSTANTS
  Centi = 4
  MaxSpeed = 1600
  MaxReverse = 520
  Deadband = 40
  MinEffectiveParam = 300
  AngularLimit = 160
  StraightCurvature = 28
  EstopBrake = 100
  AutoDrive = TRUE
  Bound = 1800
  Turns = {2, 40}
INVARIANTS SpeedIsAdmissible CurvatureKept FrameCarriesSpeed
