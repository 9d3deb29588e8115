------------------------ MODULE DriveCommand_proofs ------------------------
(* What the conversion of DriveCommand guarantees for every request and    *)
(* every choice of the parameters.                                         *)
EXTENDS MCDriveCommand, TLAPS

USE DriveParameters DEF Larger, Smaller, Clamp, Magnitude

LEMMA ClampBounds ==
  ASSUME NEW v \in Int, NEW low \in Int, NEW high \in Int, low <= high
  PROVE  Clamp(v, low, high) \in low..high
OBVIOUS

LEMMA MinEffectiveBounds == MinEffective \in 0..MaxSpeed
BY DEF MinEffective

(* Whatever is requested, the speed is zero, a forward speed between the   *)
(* enforced minimum and max_speed_mps, or a reverse speed between the      *)
(* deadband and max_reverse_mps.                                           *)
THEOREM SpeedAdmissible ==
  ASSUME NEW linear \in Int
  PROVE  LET v == Speed(linear) IN
         \/ v = 0
         \/ v \in MinEffective..MaxSpeed
         \/ v \in -MaxReverse..-1 /\ -v >= Deadband
<1>1. CASE linear > 0
  BY <1>1, MinEffectiveBounds DEF Speed, ForwardSpeed
<1>2. CASE linear <= 0
  <2> DEFINE reverse == Clamp(-linear, 0, MaxReverse)
  <2>1. reverse \in 0..MaxReverse
    BY ClampBounds
  <2>2. Speed(linear) = IF reverse < Deadband THEN 0 ELSE -reverse
    BY <1>2 DEF Speed
  <2> HIDE DEF reverse
  <2> QED
    BY <2>1, <2>2, MinEffectiveBounds
<1> QED
  BY <1>1, <1>2

(* A larger request never gets a smaller speed.                            *)
THEOREM SpeedMonotone ==
  ASSUME NEW l1 \in Int, NEW l2 \in Int, l1 <= l2
  PROVE  Speed(l1) <= Speed(l2)
<1>1. CASE l1 > 0
  BY <1>1, MinEffectiveBounds DEF Speed, ForwardSpeed
<1>2. CASE l1 <= 0 /\ l2 > 0
  BY <1>2, MinEffectiveBounds DEF Speed, ForwardSpeed
<1>3. CASE l2 <= 0
  <2>1. /\ Speed(l1) = LET r == Clamp(-l1, 0, MaxReverse) IN
                       IF r < Deadband THEN 0 ELSE -r
        /\ Speed(l2) = LET r == Clamp(-l2, 0, MaxReverse) IN
                       IF r < Deadband THEN 0 ELSE -r
    BY <1>3 DEF Speed
  <2>2. /\ Clamp(-l2, 0, MaxReverse) <= Clamp(-l1, 0, MaxReverse)
        /\ Clamp(-l1, 0, MaxReverse) \in Nat
        /\ Clamp(-l2, 0, MaxReverse) \in Nat
    OBVIOUS
  <2> HIDE DEF Clamp
  <2> QED
    BY <2>1, <2>2
<1> QED
  BY <1>1, <1>2, <1>3

(* round() returns the nearest number of cm/s, and none only for what is   *)
(* not more than half a cm/s.                                              *)
LEMMA RoundedIsNearest ==
  ASSUME NEW v \in Nat
  PROVE  /\ Rounded(v) \in Nat
         /\ 2 * Magnitude(Centi * Rounded(v) - v) <= Centi
<1> DEFINE whole == v \div Centi
           rest == v % Centi
<1>1. /\ whole \in Nat /\ rest \in Nat /\ rest < Centi
      /\ v = Centi * whole + rest
  OBVIOUS
<1>2. Rounded(v) = IF 2 * rest < Centi \/ (2 * rest = Centi /\ whole % 2 = 0)
                   THEN whole ELSE whole + 1
  BY DEF Rounded
<1> HIDE DEF whole, rest
<1>3. Centi * (whole + 1) = Centi * whole + Centi
  BY <1>1
<1>4. CASE Rounded(v) = whole
  <2>1. 2 * rest <= Centi
    BY <1>1, <1>2, <1>4
  <2> QED
    BY <1>1, <1>4, <2>1
<1>5. CASE Rounded(v) = whole + 1 /\ 2 * rest >= Centi
  BY <1>1, <1>3, <1>5
<1> QED
  BY <1>1, <1>2, <1>4, <1>5

(* The two bytes hold the 16 bits of the magnitude.                        *)
LEMMA Division ==
  ASSUME NEW n \in Int PROVE n = 256 * (n \div 256) + (n % 256)
OBVIOUS

LEMMA Remainders ==
  ASSUME NEW n \in Int
  PROVE  n % 256 \in 0..255 /\ (n \in 0..255 => n % 256 = n)
OBVIOUS

LEMMA TwoBytes ==
  ASSUME NEW n \in Int, 0 <= n, n <= 65535
  PROVE  (n % 256) + 256 * ((n \div 256) % 256) = n
<1> DEFINE high == n \div 256
           low == n % 256
<1>1. n = 256 * high + low /\ low \in 0..255 /\ high \in Int
  BY Division, Remainders
<1> HIDE DEF high, low
<1>2. high \in 0..255
  BY <1>1
<1>3. high % 256 = high
  BY <1>2, Remainders
<1>4. low + 256 * (high % 256) = n
  BY <1>1, <1>3
<1> QED
  BY <1>4 DEF high, low

LEMMA SpeedOfFrame ==
  ASSUME NEW state, NEW n, (n % 256) + 256 * ((n \div 256) % 256) = n
  PROVE  SpeedOnWire(Frame(state, n))
           = IF state.speed < 0 THEN -(Centi * n) ELSE Centi * n
<1> DEFINE f == Frame(state, n)
<1>1. /\ f.reverse <=> state.speed < 0
      /\ f.low = n % 256 /\ f.high = (n \div 256) % 256
  BY DEF Frame
<1>2. SpeedOnWire(f) = IF f.reverse THEN -(Centi * (f.low + 256 * f.high))
                       ELSE Centi * (f.low + 256 * f.high)
  BY DEF SpeedOnWire
<1> HIDE DEF f
<1>3. f.low + 256 * f.high = n
  BY <1>1
<1>4. SpeedOnWire(f) = IF f.reverse THEN -(Centi * n) ELSE Centi * n
  BY <1>2, <1>3
<1>5. SpeedOnWire(f) = IF state.speed < 0 THEN -(Centi * n) ELSE Centi * n
  BY <1>1, <1>4
<1> QED
  BY <1>5 DEF f

(* The receiver reads the speed of the command to the nearest cm/s: the    *)
(* clamp of CommandState, the rounding, the two bytes and the direction    *)
(* flag take it at most half a cm/s away.                                  *)
THEOREM FrameCarriesEverySpeed ==
  ASSUME MaxSpeed <= 65535 * Centi, MaxReverse <= 65535 * Centi,
         NEW linear \in Int, NEW state, state.speed = SetSpeed(Speed(linear))
  PROVE  2 * Magnitude(SpeedOnWire(Encode(state)) - Speed(linear)) <= Centi
<1> DEFINE v == Speed(linear)
           n == Rounded(Magnitude(v))
<1>1. v \in -MaxReverse..MaxSpeed
  BY SpeedAdmissible, MinEffectiveBounds
<1>2. state.speed = v
  BY <1>1 DEF SetSpeed
<1> HIDE DEF v
<1>3. Magnitude(v) \in Nat /\ Magnitude(v) <= 65535 * Centi
  BY <1>1
<1>4. n \in Nat /\ 2 * Magnitude(Centi * n - Magnitude(v)) <= Centi
  BY <1>3, RoundedIsNearest
<1> HIDE DEF n
<1>5. n <= 65535
  <2>1. SUFFICES ASSUME n >= 65536 PROVE FALSE
    BY <1>4
  <2>2. Centi * n >= Centi * 65536
    BY <1>4, <2>1
  <2> QED
    BY <1>3, <1>4, <2>2
<1>6. Encode(state) = Frame(state, n)
  <2>1. Smaller(65535, n) = n
    BY <1>4, <1>5
  <2> QED
    BY <1>2, <2>1 DEF Encode, n
<1>7. SpeedOnWire(Frame(state, n)) = IF v < 0 THEN -(Centi * n) ELSE Centi * n
  BY <1>2, <1>4, <1>5, TwoBytes, SpeedOfFrame
<1>8. Centi * n \in Int
  BY <1>4
<1> QED
  BY <1>1, <1>4, <1>6, <1>7, <1>8 DEF v

(* Beyond the deadband the vehicle never turns to the side that was not    *)
(* requested, in reverse either, and it turns to the one requested when    *)
(* the curvature (limited angular velocity over speed) is larger than the  *)
(* one that rounds to a steering of 0 percent.                             *)
THEOREM TurnsAsRequested ==
  ASSUME NEW linear \in Int, NEW angular \in Int,
         Magnitude(linear) > Deadband
  PROVE  LET turn == Clamp(angular, -AngularLimit, AngularLimit)
             side == Sign(linear) * Steer(linear, angular) IN
         /\ side \in {0, Sign(angular)}
         /\ 10000 * Magnitude(turn) > StraightCurvature * Magnitude(linear)
              => side = Sign(angular)
<1> DEFINE turn == Clamp(angular, -AngularLimit, AngularLimit)
<1>1. SteerReference(linear) = linear
  BY DEF SteerReference
<1>2. turn \in Int /\ (turn = 0 \/ Sign(turn) = Sign(angular))
  BY DEF Sign
<1>3. Steer(linear, angular) =
        IF Straight(linear, turn) THEN 0 ELSE Sign(turn) * Sign(linear)
  BY <1>1 DEF Steer
<1>4. Straight(linear, turn) <=>
        10000 * Magnitude(turn) <= StraightCurvature * Magnitude(linear)
  BY <1>1 DEF Straight
<1> HIDE DEF turn
<1>5. StraightCurvature * Magnitude(linear) \in Nat
  <2>1. Magnitude(linear) \in Nat
    OBVIOUS
  <2> HIDE DEF Magnitude
  <2> QED
    BY <2>1
<1>6. CASE Straight(linear, turn)
  <2>1. Sign(linear) * Steer(linear, angular) = 0
    BY <1>3, <1>6 DEF Sign
  <2>2. 10000 * Magnitude(turn) <= StraightCurvature * Magnitude(linear)
    BY <1>4, <1>6
  <2>3. ~(10000 * Magnitude(turn) > StraightCurvature * Magnitude(linear))
    BY <1>2, <1>5, <2>2
  <2> QED
    BY <2>1, <2>3 DEF turn
<1>7. CASE ~Straight(linear, turn)
  <2>1. turn # 0
    BY <1>4, <1>5, <1>7
  <2>2. Sign(linear) * (Sign(turn) * Sign(linear)) = Sign(turn)
    BY <1>2 DEF Sign
  <2> QED
    BY <1>2, <1>3, <1>7, <2>1, <2>2 DEF turn
<1> QED
  BY <1>6, <1>7

-----------------------------------------------------------------------------
(* The message of a state is one of the topic, with a request the message  *)
(* can carry: the assumptions on the parameters suffice for the rest.      *)
LEMMA SpecMessage == Spec => [](message \in Message)
<1>1. Init => message \in Message
  <2>1. {-w : w \in Turns} \subseteq Int
    <3>1. SUFFICES ASSUME NEW w \in Turns PROVE -w \in Int
      OBVIOUS
    <3> QED
      BY BoundAssumption
  <2>2. Angulars \subseteq Int
    <3>1. \A w \in Turns : w \in Int
      BY BoundAssumption
    <3> QED
      BY <2>1, <3>1, Zenon DEF Angulars
  <2> QED
    <3>1. -Bound \in Int /\ 0 \in Int /\ 1 \in Int
      BY BoundAssumption
    <3>2. {-Bound} \subseteq Int /\ {0, 1} \subseteq Int
      BY <3>1
    <3> QED
      BY <2>2, <3>2, Zenon DEF Init, Message
<1>2. message \in Message /\ [Next]_message => (message \in Message)'
  BY BoundAssumption DEF Next, Message
<1> QED
  BY <1>1, <1>2, PTL DEF Spec

(* No request makes the vehicle drive at a speed it cannot hold, and none  *)
(* takes it beyond its limits, whatever the parameters are.                *)
THEOREM SpeedAlwaysAdmissible == Spec => []SpeedIsAdmissible
<1>1. ASSUME NEW linear \in Int
      PROVE  Speed(linear) \in Admissible
  <2> DEFINE v == Speed(linear)
  <2>1. \/ v = 0
        \/ v \in MinEffective..MaxSpeed
        \/ v \in -MaxReverse..-1 /\ -v >= Deadband
    BY SpeedAdmissible
  <2>2. CASE v \in -MaxReverse..-1 /\ -v >= Deadband
    <3> HIDE DEF v
    <3>1. -v \in Larger(Deadband, 1)..MaxReverse /\ v = -(-v)
      BY <2>2
    <3>2. v \in {-w : w \in Larger(Deadband, 1)..MaxReverse}
      BY <3>1
    <3> QED
      BY <3>2 DEF Admissible, v
  <2> QED
    BY <2>1, <2>2 DEF Admissible
<1>2. message \in Message => SpeedIsAdmissible
  BY <1>1 DEF SpeedIsAdmissible, Message
<1> QED
  BY SpecMessage, <1>2, PTL

(* A vehicle that moves turns on the curvature requested, also where the   *)
(* speed was raised to the least it can hold.                              *)
THEOREM CurvatureAlwaysKept == Spec => []CurvatureKept
<1>1. ASSUME NEW linear \in Int, Speed(linear) # 0,
             Magnitude(linear) # Deadband
      PROVE  SteerReference(linear) = linear
  <2>1. Magnitude(linear) > Deadband
    <3>1. CASE linear > 0
      <4>1. Clamp(linear, 0, MaxSpeed) >= Deadband
        BY <1>1, <3>1 DEF Speed, ForwardSpeed
      <4> QED
        BY <1>1, <3>1, <4>1
    <3>2. CASE linear <= 0
      <4>1. Clamp(-linear, 0, MaxReverse) >= Deadband
        <5> DEFINE r == Clamp(-linear, 0, MaxReverse)
        <5>1. Speed(linear) = IF r < Deadband THEN 0 ELSE -r
          BY <3>2 DEF Speed
        <5>2. r \in Nat
          OBVIOUS
        <5> HIDE DEF r
        <5>3. r >= Deadband
          BY <1>1, <5>1, <5>2
        <5> QED
          BY <5>3 DEF r
      <4> QED
        BY <1>1, <3>2, <4>1
    <3> QED
      BY <3>1, <3>2
  <2> QED
    BY <2>1 DEF SteerReference
<1>2. message \in Message => CurvatureKept
  BY <1>1 DEF CurvatureKept, Message
<1> QED
  BY SpecMessage, <1>2, PTL

(* The receiver reads the speed of the command to the nearest cm/s, for    *)
(* every message and with every parameter within the 16 bits of the frame. *)
THEOREM FrameAlwaysCarriesSpeed ==
  ASSUME MaxSpeed <= 65535 * Centi, MaxReverse <= 65535 * Centi
  PROVE  Spec => []FrameCarriesSpeed
<1>1. ASSUME message \in Message
      PROVE  FrameCarriesSpeed
  <2> DEFINE c == CommandFromCmdVel(message)
             state == [c EXCEPT !.speed = SetSpeed(c.speed)]
  <2>1. state.speed = SetSpeed(c.speed)
    BY DEF CommandFromCmdVel
  <2>2. /\ message.linear \in Int
        /\ c.speed = Speed(0) \/ c.speed = Speed(message.linear)
    <3>1. Speed(0) = 0
      <4>1. Speed(0) = LET r == Clamp(-0, 0, MaxReverse) IN
                       IF r < Deadband THEN 0 ELSE -r
        BY DEF Speed
      <4>2. Clamp(-0, 0, MaxReverse) = 0
        OBVIOUS
      <4> QED
        BY <4>1, <4>2
    <3> QED
      BY <1>1, <3>1 DEF CommandFromCmdVel, Message
  <2> HIDE DEF c, state
  <2>3. 2 * Magnitude(SpeedOnWire(Encode(state)) - c.speed) <= Centi
    BY <2>1, <2>2, FrameCarriesEverySpeed
  <2> QED
    BY <2>3 DEF FrameCarriesSpeed, c, state
<1> QED
  BY SpecMessage, <1>1, PTL
=============================================================================
