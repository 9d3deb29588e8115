SPECIFICATION LiveSpec
CONSTANTS
  Centi = 4
  MaxSpeed = 1600
  MaxReverse = 520
  Deadband = 40
  MinEffectiveParam = 300
  AngularLimit = 160
  StraightCurvature = 28
  EstopBrake = 120
  AutoDrive = TRUE
  Forward = {482}
  Reverse = {201}
  Angulars = {0}
  Brakes = {0, 130}
  MayCrash = TRUE
INVARIANTS AtMostOneLateFrame
PROPERTIES IsSafeWire SilenceStops
