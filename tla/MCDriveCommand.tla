--------------------------- MODULE MCDriveCommand ---------------------------
(* DriveCommand over a sweep of requests: a state is one message.          *)
EXTENDS DriveCommand

CONSTANTS
  Bound, \* requests are taken in -Bound..Bound
  Turns  \* the magnitudes of their angular velocities

ASSUME BoundAssumption == Bound \in Nat /\ Turns \subseteq Nat

VARIABLE message

Angulars == Turns \cup {-w : w \in Turns}
Init == message \in [linear : {-Bound}, angular : Angulars, brake : {0, 1}]
Next == message' = [message EXCEPT
                      !.linear = IF @ = Bound THEN -Bound ELSE @ + 1]
Spec == Init /\ [][Next]_message

(* The speeds the vehicle can be sent, stated as a set: standing, the      *)
(* forward speeds it can hold, and the reverse speeds above the deadband.  *)
Admissible == {0} \cup MinEffective..MaxSpeed
              \cup {-v : v \in Larger(Deadband, 1)..MaxReverse}

(* A request never leaves the speeds the vehicle can hold, whatever the    *)
(* parameters: the minimum that is enforced is itself capped by max_speed. *)
SpeedIsAdmissible == Speed(message.linear) \in Admissible

(* A moving vehicle turns on the requested curvature, forward and in       *)
(* reverse, once the request is beyond the deadband.                       *)
CurvatureKept ==
  /\ Speed(message.linear) # 0 /\ Magnitude(message.linear) # Deadband
  => SteerReference(message.linear) = message.linear

(* What the receiver reads from the frame is the speed control_logic       *)
(* computed, to the nearest cm/s: neither the clamp of CommandState nor    *)
(* the rounding, the two bytes and the direction flag move it further, so  *)
(* that only half a cm/s can be lost, to a standstill at worst.            *)
FrameCarriesSpeed ==
  LET c == CommandFromCmdVel(message)
      sent == SpeedOnWire(Encode([c EXCEPT !.speed = SetSpeed(c.speed)])) IN
  2 * Magnitude(sent - c.speed) <= Centi
=============================================================================
