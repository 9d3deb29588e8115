---------------------------- MODULE DriveCommand ----------------------------
(***************************************************************************)
(* How controller_server turns one message of /cmd_vel_final into a drive  *)
(* command, a drive command into CommandState, and CommandState into a     *)
(* UART frame.                                                             *)
(*                                                                         *)
(* Speeds are integers, Centi of them to the cm/s that the wire counts, so *)
(* that what the frame rounds away can be seen; angular velocities have    *)
(* the same unit in rad/s. The steering percentage grows with the          *)
(* curvature angular / reference speed, through an arctangent: it is kept  *)
(* as its sign, which is 0 up to the curvature that rounds to no percent.  *)
(* invert_steer (a sign, applied last) and the fields only diagnostics     *)
(* read are left out, and floats are taken to be exact.                    *)
(***************************************************************************)
EXTENDS Integers

CONSTANTS
  Centi,                \* resolution: units of speed per cm/s
  MaxSpeed, MaxReverse, \* max_speed_mps, max_reverse_mps
  Deadband,             \* vx_deadband_mps
  MinEffectiveParam,    \* vx_min_effective_mps
  AngularLimit,         \* max_abs_angular_z
  StraightCurvature,    \* largest that steers 0 percent, in 0.0001 / m:
                        \* tan(0.005 steering_limit_rad) / wheelbase_m
  EstopBrake,           \* estop_brake_pct
  AutoDrive             \* auto_drive_enabled

ASSUME DriveParameters ==
  /\ Centi \in Nat \ {0} /\ StraightCurvature \in Nat
  /\ MaxSpeed \in Nat /\ MaxReverse \in Nat /\ Deadband \in Nat
  /\ MinEffectiveParam \in Nat /\ AngularLimit \in Nat
  /\ EstopBrake \in Int /\ AutoDrive \in BOOLEAN

Message == [linear : Int, angular : Int, brake : Int]

Larger(a, b) == IF a >= b THEN a ELSE b
Smaller(a, b) == IF a <= b THEN a ELSE b
Clamp(v, low, high) == Larger(low, Smaller(high, v))
Magnitude(v) == Larger(v, -v)
Sign(v) == IF v > 0 THEN 1 ELSE IF v < 0 THEN -1 ELSE 0

MinEffective == Clamp(MinEffectiveParam, 0, MaxSpeed)

(* The speed command: nothing below the deadband, forward speeds raised to *)
(* the smallest one the vehicle can hold.                                  *)
ForwardSpeedMutant(v) == IF v < Deadband THEN 0 ELSE v
ForwardSpeed(v) ==
  IF v < Deadband THEN 0 ELSE Larger(v, MinEffective)
Speed(linear) ==
  IF linear > 0 THEN ForwardSpeed(Clamp(linear, 0, MaxSpeed))
  ELSE LET reverse == Clamp(-linear, 0, MaxReverse) IN
       IF reverse < Deadband THEN 0 ELSE -reverse

(* The speed the curvature is taken against: the requested one, or a       *)
(* virtual forward speed so that the wheels turn while standing.           *)
VirtualSpeed == Larger(MinEffective, 10 * Centi)
SteerReferenceMutant(linear) == VirtualSpeed
SteerReference(linear) ==
  IF Magnitude(linear) <= Deadband THEN VirtualSpeed ELSE linear
Straight(linear, turn) ==
  10000 * Magnitude(turn) <= StraightCurvature * Magnitude(SteerReference(linear))
Steer(linear, angular) ==
  LET turn == Clamp(angular, -AngularLimit, AngularLimit) IN
  IF Straight(linear, turn) THEN 0
  ELSE Sign(turn) * Sign(SteerReference(linear))

Command == [drive : BOOLEAN, estop : BOOLEAN, speed : Int, steer : -1..1,
            brake : Nat]
SafeCommand == [drive |-> FALSE, estop |-> FALSE, speed |-> 0, steer |-> 0,
                brake |-> 0]
CommandFromCmdVel(m) ==
  LET brake == Clamp(m.brake, 0, 100) estop == brake > 0 IN
  [drive |-> AutoDrive, estop |-> estop,
   speed |-> IF estop THEN 0 ELSE Speed(m.linear),
   steer |-> IF estop THEN 0 ELSE Steer(m.linear, m.angular),
   brake |-> brake]

(* What _control_tick applies: nothing when the command is stale, and a    *)
(* braked command without drive.                                           *)
EffectiveCommand(cmd, fresh) == IF fresh THEN cmd ELSE SafeCommand
Actuated(cmd) ==
  IF cmd.estop
  THEN [SafeCommand EXCEPT !.estop = TRUE,
                           !.brake = Larger(cmd.brake, EstopBrake)]
  ELSE cmd

(* CommandState clamps again what its setters are given.                   *)
CommandState == [drive : BOOLEAN, estop : BOOLEAN,
                 speed : -MaxReverse..MaxSpeed, steer : -1..1, brake : 0..100]
SetSpeed(v) == Clamp(v, -MaxReverse, MaxSpeed)
SetBrake(v) == Clamp(v, 0, 100)

(* The frame of the UART protocol: the magnitude in whole cm/s, the half  *)
(* rounded to even (round() of Python), in 16 bits sent low byte first;    *)
(* the direction apart in a flag; the steering in a signed byte.           *)
Rounded(v) ==
  LET whole == v \div Centi rest == 2 * (v % Centi) IN
  IF rest < Centi \/ (rest = Centi /\ whole % 2 = 0) THEN whole ELSE whole + 1
Frame(state, centi) ==
  [estop |-> state.estop, drive |-> state.drive, reverse |-> state.speed < 0,
   steer |-> Clamp(state.steer, -100, 100) % 256,
   low |-> centi % 256, high |-> (centi \div 256) % 256,
   brake |-> Clamp(state.brake, 0, 100)]
EncodeMutant(state) ==
  Frame(state, Smaller(65535, Magnitude(state.speed) \div Centi))
Encode(state) == Frame(state, Smaller(65535, Rounded(Magnitude(state.speed))))

(* What the receiver reads from the frame.                                 *)
SpeedOnWire(frame) ==
  LET speed == Centi * (frame.low + 256 * frame.high) IN
  IF frame.reverse THEN -speed ELSE speed
Rolls(speed) == Rounded(Magnitude(speed)) # 0
Moves(c) == c.drive /\ ~c.estop /\ Rolls(c.speed)
=============================================================================
