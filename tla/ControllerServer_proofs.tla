---------------------- MODULE ControllerServer_proofs ----------------------
(* Safety of ControllerServer for every choice of the parameters and every *)
(* set of messages.                                                        *)
EXTENDS ControllerServer, TLAPS

(* A command that has drive and rolls is one that moves: command_from      *)
(* _cmd_vel zeroes the speed of an emergency stop, and drive is only ever  *)
(* given when auto_drive_enabled is.                                       *)
Sane(c) == (c.drive => AutoDrive) /\ (AutoDrive /\ Rolls(c.speed) => Moves(c))

Ended == {"safe", "down", "killed"}
ExitInv ==
  /\ node.pc \notin Ended => safeSent = 0
  /\ node.pc = "safe" =>
       /\ node.next \in 1..SafeFrames /\ safeSent < node.next
       /\ state = SafeCommand
  /\ node.pc \in {"safe", "down"} => tx.pc = "ended"
  /\ node.pc \in {"safe", "down"} /\ safeSent > 0 => ~OnWire(wire)

LateInv ==
  /\ Sane(cmd) /\ Sane(node.target)
  /\ state.drive => AutoDrive
  /\ tx.frame.drive => AutoDrive
  /\ node.pc = "safe" => state = SafeCommand
  /\ ~granted => ~AutoDrive \/ ~Rolls(state.speed)
  /\ node.pc = "apply" /\ ~granted => ~Moves(node.target)
  /\ node.pc = "apply" /\ node.next > 3 =>
       state.speed = SetSpeed(node.target.speed)
  /\ granted => late = 0
  /\ ~granted /\ tx.pc = "write" /\ Moves(tx.frame) => late = 0
  /\ late <= 1

-----------------------------------------------------------------------------
(* The operators                                                           *)
LEMMA SafeIsTyped ==
  SafeCommand \in Command /\ SafeCommand \in CommandState
BY DriveParameters DEF SafeCommand, Command, CommandState

(* Only half a cm/s or less is rounded to a standstill.                    *)
LEMMA RoundedUp ==
  ASSUME NEW v \in Nat
  PROVE  Rounded(v) \in Nat /\ (Rounded(v) = 0 <=> 2 * v <= Centi)
<1> DEFINE whole == v \div Centi
           rest == v % Centi
<1>0. Centi \in Nat \ {0}
  BY DriveParameters
<1>1. /\ whole \in Nat /\ rest \in Nat /\ rest < Centi
      /\ v = Centi * whole + rest
  BY <1>0
<1>2. Rounded(v) = IF 2 * rest < Centi \/ (2 * rest = Centi /\ whole % 2 = 0)
                   THEN whole ELSE whole + 1
  BY DEF Rounded
<1> HIDE DEF whole, rest
<1>3. CASE whole = 0
  <2>1. whole % 2 = 0 /\ v = rest
    BY <1>0, <1>1, <1>3
  <2> QED
    BY <1>0, <1>1, <1>2, <1>3, <2>1
<1>4. CASE whole > 0
  <2>1. Centi * whole >= Centi
    BY <1>0, <1>1, <1>4
  <2>2. v >= Centi
    BY <1>0, <1>1, <2>1
  <2>3. Rounded(v) \in Nat /\ Rounded(v) # 0
    BY <1>1, <1>2, <1>4
  <2> QED
    BY <1>0, <2>2, <2>3
<1> QED
  BY <1>1, <1>3, <1>4

LEMMA RollsAbove ==
  ASSUME NEW v \in Int PROVE Rolls(v) <=> 2 * Magnitude(v) > Centi
<1>1. Magnitude(v) \in Nat /\ Centi \in Nat
  BY DriveParameters DEF Magnitude, Larger
<1> QED
  BY <1>1, RoundedUp DEF Rolls

LEMMA ZeroRests == ~Rolls(0)
<1>1. Magnitude(0) = 0 /\ Centi \in Nat
  BY DriveParameters DEF Magnitude, Larger
<1> QED
  BY <1>1, RollsAbove

(* The clamp of CommandState sets nothing rolling.                         *)
LEMMA SetSpeedRests ==
  ASSUME NEW v \in Int, ~Rolls(v) PROVE ~Rolls(SetSpeed(v))
<1>1. /\ SetSpeed(v) \in Int /\ Magnitude(v) \in Int /\ Centi \in Int
      /\ Magnitude(SetSpeed(v)) \in Int
      /\ Magnitude(SetSpeed(v)) <= Magnitude(v)
  BY DriveParameters DEF SetSpeed, Clamp, Larger, Smaller, Magnitude
<1>2. ~(2 * Magnitude(v) > Centi)
  BY RollsAbove
<1>3. ~(2 * Magnitude(SetSpeed(v)) > Centi)
  BY <1>1, <1>2
<1> QED
  BY <1>1, <1>3, RollsAbove

LEMMA SafeIsSafe ==
  /\ Sane(SafeCommand) /\ ~Moves(SafeCommand) /\ ~OnWire(Encode(SafeCommand))
  /\ SafeCommand.speed = 0 /\ ~SafeCommand.drive
  /\ ~Rolls(SafeCommand.speed)
<1>1. SafeCommand.speed = 0 /\ SafeCommand.drive = FALSE
  BY DEF SafeCommand
<1>2. Encode(SafeCommand).drive = FALSE
  <2> DEFINE n == Smaller(65535, Rounded(Magnitude(SafeCommand.speed)))
  <2>1. Encode(SafeCommand) = Frame(SafeCommand, n)
    BY DEF Encode
  <2> HIDE DEF n
  <2>2. Frame(SafeCommand, n).drive = SafeCommand.drive
    BY DEF Frame
  <2> QED
    BY <1>1, <2>1, <2>2
<1> QED
  BY <1>1, <1>2, ZeroRests, Zenon DEF Sane, Moves, OnWire

LEMMA SpeedIsInt == ASSUME NEW v \in Int PROVE Speed(v) \in Int
BY DriveParameters
   DEF Speed, ForwardSpeed, Clamp, Larger, Smaller, MinEffective

LEMMA SteerIsSign ==
  ASSUME NEW v \in Int, NEW w \in Int PROVE Steer(v, w) \in -1..1
BY DEF Steer, Sign

LEMMA MessageBecomesCommand ==
  ASSUME NEW m \in Messages
  PROVE  CommandFromCmdVel(m) \in Command /\ Sane(CommandFromCmdVel(m))
<1>1. m.linear \in Int /\ m.angular \in Int /\ m.brake \in Int
  <2>1. /\ m.linear \in {0} \cup Forward \cup {-v : v \in Reverse}
        /\ m.angular \in Angulars /\ m.brake \in Brakes
    BY DEF Messages
  <2>2. ASSUME NEW n \in {-v : v \in Reverse} PROVE n \in Int
    <3>1. PICK v \in Reverse : n = -v
      OBVIOUS
    <3>2. v \in Int
      BY MessageParameters
    <3> QED
      BY <3>1, <3>2
  <2>4. {0} \cup Forward \cup {-v : v \in Reverse} \subseteq Int
    <3>1. 0 \in Int /\ Forward \subseteq Int
      BY MessageParameters
    <3> QED
      BY <2>2, <3>1, Zenon
  <2>3. Forward \subseteq Int /\ Angulars \subseteq Int /\ Brakes \subseteq Int
    BY MessageParameters
  <2> QED
    BY <2>1, <2>3, <2>4, Zenon
<1> DEFINE brake == Clamp(m.brake, 0, 100)
<1>2. brake \in 0..100
  BY <1>1 DEF Clamp, Larger, Smaller
<1>3. Speed(m.linear) \in Int /\ Steer(m.linear, m.angular) \in -1..1
  BY <1>1, SpeedIsInt, SteerIsSign
<1>4. CommandFromCmdVel(m) =
        [drive |-> AutoDrive, estop |-> brake > 0,
         speed |-> IF brake > 0 THEN 0 ELSE Speed(m.linear),
         steer |-> IF brake > 0 THEN 0 ELSE Steer(m.linear, m.angular),
         brake |-> brake]
  BY DEF CommandFromCmdVel
<1> HIDE DEF brake
<1>5. CommandFromCmdVel(m) \in Command
  BY <1>2, <1>3, <1>4, DriveParameters DEF Command
<1> DEFINE c == CommandFromCmdVel(m)
<1>6. /\ c.drive = AutoDrive /\ c.estop = (brake > 0)
      /\ Rolls(c.speed) => ~(brake > 0)
  BY <1>4, ZeroRests
<1> HIDE DEF c
<1>7. Sane(c)
  BY <1>6, DriveParameters, Zenon DEF Sane, Moves
<1> QED
  BY <1>5, <1>7 DEF c

LEMMA TargetIsACommand ==
  ASSUME cmd \in Command, Sane(cmd)
  PROVE  Target \in Command /\ Sane(Target)
<1> DEFINE c == EffectiveCommand(cmd, fresh)
<1>1. c \in Command /\ Sane(c)
  BY SafeIsTyped, SafeIsSafe DEF EffectiveCommand
<1>2. Target = Actuated(c)
  BY DEF Target
<1> HIDE DEF c
<1>3. CASE c.estop
  <2>1. Target = [SafeCommand EXCEPT !.estop = TRUE,
                                     !.brake = Larger(c.brake, EstopBrake)]
    BY <1>2, <1>3 DEF Actuated
  <2>2. Larger(c.brake, EstopBrake) \in Nat
    BY <1>1, DriveParameters DEF Command, Larger
  <2>3. Target \in Command
    BY <2>1, <2>2, SafeIsTyped, SafeIsSafe DEF Command, SafeCommand
  <2>4. ~Target.drive /\ Target.speed = 0
    BY <2>1 DEF SafeCommand
  <2> QED
    BY <2>3, <2>4, ZeroRests DEF Sane
<1>4. CASE ~c.estop
  BY <1>1, <1>2, <1>4 DEF Actuated
<1> QED
  BY <1>3, <1>4

LEMMA SettersAre ==
  /\ Len(Setters) = 5
  /\ Setters[1] = "drive" /\ Setters[2] = "estop" /\ Setters[3] = "speed"
  /\ Setters[4] = "steer" /\ Setters[5] = "brake"
BY DEF Setters

LEMMA SetFieldIsAState ==
  ASSUME NEW s \in CommandState, NEW c \in Command, NEW i \in 1..5
  PROVE  LET t == SetField(s, Setters[i], c) IN
         /\ t \in CommandState
         /\ t.speed = IF i = 3 THEN SetSpeed(c.speed) ELSE s.speed
         /\ t.drive = IF i = 1 THEN c.drive ELSE s.drive
<1>1. SetSpeed(c.speed) \in -MaxReverse..MaxSpeed
  BY DriveParameters DEF SetSpeed, Clamp, Larger, Smaller, Command
<1>2. SetBrake(c.brake) \in 0..100
  BY DEF SetBrake, Clamp, Larger, Smaller, Command
<1>3. CASE i = 1
  BY <1>3, SettersAre DEF SetField, CommandState, Command
<1>4. CASE i = 2
  BY <1>4, SettersAre DEF SetField, CommandState, Command
<1>5. CASE i = 3
  BY <1>1, <1>5, SettersAre DEF SetField, CommandState, Command
<1>6. CASE i = 4
  BY <1>6, SettersAre DEF SetField, CommandState, Command
<1>7. CASE i = 5
  BY <1>2, <1>7, SettersAre DEF SetField, CommandState, Command
<1> QED
  BY <1>3, <1>4, <1>5, <1>6, <1>7

-----------------------------------------------------------------------------
(* Types, and the end of the process                                       *)
TypeInv == TypeOK /\ Sane(cmd) /\ ExitInv

Nodes == [pc : NodeLabels, next : 1..5, target : Command]
LEMMA NodeIsSafe ==
  ASSUME NEW n \in Nodes
  PROVE  \A n2 : n2 = [n EXCEPT !.pc = "safe", !.next = 1]
           => n2 \in Nodes /\ n2.pc = "safe" /\ n2.next = 1
<1>0. SUFFICES ASSUME NEW n2, n2 = [n EXCEPT !.pc = "safe", !.next = 1]
               PROVE  n2 \in Nodes /\ n2.pc = "safe" /\ n2.next = 1
  OBVIOUS
<1>1. n2 = [pc |-> "safe", next |-> 1, target |-> n.target]
  BY <1>0 DEF Nodes
<1>2. n.target \in Command
  BY DEF Nodes
<1> QED
  BY <1>1, <1>2 DEF Nodes, NodeLabels

LEMMA TypeInit == Init => TypeInv
<1> SUFFICES ASSUME Init PROVE TypeInv
  OBVIOUS
<1>1. /\ node \in [pc : NodeLabels, next : 1..Len(Setters), target : Command]
      /\ tx \in [pc : {"loop", "write", "ended"}, frame : CommandState]
  BY SafeIsTyped, SettersAre DEF Init, NodeLabels
<1>2. cmd \in Command /\ state \in CommandState
  BY SafeIsTyped DEF Init
<1>4. fresh \in BOOLEAN /\ stopEvent \in BOOLEAN /\ granted \in BOOLEAN
  BY DEF Init
<1>5. late \in 0..2 /\ safeSent \in 0..SafeFrames
  BY DEF Init, SafeFrames
<1>3. /\ node.pc \notin Ended /\ safeSent = 0
      /\ node.pc # "safe" /\ node.pc # "down"
  BY DEF Init, Ended
<1> QED
  BY <1>1, <1>2, <1>3, <1>4, <1>5, SafeIsTyped, SafeIsSafe
     DEF Init, TypeInv, TypeOK, ExitInv

LEMMA TypeNext == TypeInv /\ [Next]_vars => TypeInv'
<1> SUFFICES ASSUME TypeInv, [Next]_vars PROVE TypeInv'
  OBVIOUS
<1> USE SettersAre DEF TypeInv, TypeOK, ExitInv, Ended, NodeLabels, SafeFrames
<1>1. ASSUME NEW m \in Messages, OnCmdVelFinal(m) PROVE TypeInv'
  BY <1>1, MessageBecomesCommand DEF OnCmdVelFinal
<1>2. CASE CommandAges
  BY <1>2 DEF CommandAges
<1>3. CASE ControlTick
  BY <1>3, TargetIsACommand DEF ControlTick
<1>4. CASE Setter
  <2>1. state' \in CommandState
    BY <1>4, SetFieldIsAState DEF Setter
  <2>2. node' \in [pc : NodeLabels, next : 1..5, target : Command]
    BY <1>4 DEF Setter
  <2>3. granted' \in BOOLEAN
    BY <1>4 DEF Setter, Moves
  <2>4. node.pc = "apply" /\ node'.pc \in {"spin", "apply"}
    BY <1>4 DEF Setter
  <2> QED
    BY <1>4, <2>1, <2>2, <2>3, <2>4 DEF Setter
<1>5. CASE TxSnapshot
  BY <1>5 DEF TxSnapshot
<1>6. CASE TxWrite
  BY <1>6 DEF TxWrite, Sent
<1>7. CASE TxFails
  BY <1>7 DEF TxFails
<1>8. CASE TxEnds
  BY <1>8 DEF TxEnds
<1>9. CASE Interrupt
  BY <1>9 DEF Interrupt, Running
<1>10. CASE StopResets
  BY <1>10, SafeIsTyped, SafeIsSafe DEF StopResets
<1>11. CASE StopSignals
  BY <1>11 DEF StopSignals
<1>12. CASE StopJoins
  <2>1. node \in Nodes
    BY DEF Nodes
  <2>2. node.pc = "join" /\ node' = [node EXCEPT !.pc = "safe", !.next = 1]
    BY <1>12 DEF StopJoins
  <2>4. node' \in Nodes /\ node'.pc = "safe" /\ node'.next = 1
    BY <2>1, <2>2, NodeIsSafe, Zenon
  <2>3. safeSent = 0
    BY <2>2
  <2> QED
    BY <1>12, <2>3, <2>4, SafeIsTyped DEF StopJoins, Nodes
<1>13. CASE StopSends
  BY <1>13, SafeIsTyped, SafeIsSafe DEF StopSends, Sent
<1>14. CASE Crash
  BY <1>14 DEF Crash
<1>15. CASE Restart
  <2>1. /\ node' \in [pc : NodeLabels, next : 1..5, target : Command]
        /\ tx' \in [pc : {"loop", "write", "ended"}, frame : CommandState]
    BY <1>15, SafeIsTyped DEF Restart
  <2>2. node'.pc = "spin" /\ safeSent' = 0
    BY <1>15 DEF Restart
  <2>3. cmd' \in Command /\ state' \in CommandState
    BY <1>15, SafeIsTyped DEF Restart
  <2>4. fresh' \in BOOLEAN /\ stopEvent' \in BOOLEAN /\ granted' \in BOOLEAN
    BY <1>15 DEF Restart
  <2>5. late' \in 0..2
    BY <1>15 DEF Restart
  <2>6. Sane(cmd)'
    BY <1>15, SafeIsSafe DEF Restart
  <2> QED
    BY <2>1, <2>2, <2>3, <2>4, <2>5, <2>6
<1>16. CASE UNCHANGED vars
  BY <1>16 DEF vars, OnWire
<1> QED
  BY <1>1, <1>2, <1>3, <1>4, <1>5, <1>6, <1>7, <1>8, <1>9, <1>10, <1>11,
     <1>12, <1>13, <1>14, <1>15, <1>16 DEF Next, NodeStep, TxStep

(* Every reachable state has the types of TypeOK, whatever estop_brake_pct *)
(* and the messages say: the setters clamp what they are given.            *)
THEOREM ControllerTypes == Spec => []TypeOK
<1>1. TypeInv => TypeOK
  BY DEF TypeInv
<1> QED
  BY <1>1, TypeInit, TypeNext, PTL DEF Spec

(* When the process has left, none of its frames moves the vehicle after a *)
(* safe frame that got through.                                            *)
THEOREM SafeExit == Spec => []SafeAtExit
<1>1. TypeInv => SafeAtExit
  BY DEF TypeInv, ExitInv, SafeAtExit
<1> QED
  BY <1>1, TypeInit, TypeNext, PTL DEF Spec

-----------------------------------------------------------------------------
(* At most one late frame. Until the last setter of a command that stops   *)
(* has run, a command that moves counts as granted; after it the speed of  *)
(* the state is zero (or there is no drive at all), so that only the frame *)
(* taken before can still move.                                            *)
LEMMA StillDoesNotMove ==
  ASSUME NEW c, c.drive => AutoDrive, ~AutoDrive \/ ~Rolls(c.speed)
  PROVE  ~Moves(c)
BY Zenon DEF Moves

LEMMA StoppingIsStill ==
  ASSUME NEW c \in Command, Sane(c), ~Moves(c)
  PROVE  ~AutoDrive \/ ~Rolls(SetSpeed(c.speed))
<1>1. ~AutoDrive \/ ~Rolls(c.speed)
  BY DEF Sane
<1>2. c.speed \in Int
  BY DEF Command
<1> QED
  BY <1>1, <1>2, SetSpeedRests

LEMMA LateInit == Init => LateInv
<1> SUFFICES ASSUME Init PROVE LateInv
  OBVIOUS
<1>1. node.pc = "spin" /\ tx.pc = "loop" /\ tx.frame = SafeCommand
  BY DEF Init
<1>2. cmd = SafeCommand /\ node.target = SafeCommand /\ state = SafeCommand
  BY DEF Init
<1>3. late = 0
  BY DEF Init
<1> QED
  BY <1>1, <1>2, <1>3, SafeIsSafe DEF LateInv

LEMMA LateNext == TypeInv /\ LateInv /\ [Next]_vars => LateInv'
<1> SUFFICES ASSUME TypeInv, LateInv, [Next]_vars PROVE LateInv'
  OBVIOUS
<1> USE DEF LateInv
<1>0. /\ cmd \in Command /\ state \in CommandState /\ node \in Nodes
      /\ tx \in [pc : {"loop", "write", "ended"}, frame : CommandState]
      /\ late \in 0..2
  BY SettersAre DEF TypeInv, TypeOK, Nodes
<1>1. ASSUME NEW m \in Messages, OnCmdVelFinal(m) PROVE LateInv'
  BY <1>1, MessageBecomesCommand DEF OnCmdVelFinal
<1>2. CASE CommandAges
  BY <1>2 DEF CommandAges
<1>3. CASE ControlTick
  <2>1. Sane(Target)
    BY <1>0, TargetIsACommand
  <2>2. node'.pc = "apply" /\ node'.next = 1 /\ node'.target = Target
    BY <1>3 DEF ControlTick
  <2>3. UNCHANGED <<cmd, state, tx>>
    BY <1>3 DEF ControlTick
  <2>4. CASE Moves(Target)
    <3>1. granted' /\ late' = 0
      BY <1>3, <2>4 DEF ControlTick
    <3> QED
      BY <2>1, <2>2, <2>3, <3>1
  <2>5. CASE ~Moves(Target)
    <3>1. (granted' <=> granted) /\ late' = late
      BY <1>3, <2>5, Zenon DEF ControlTick
    <3> QED
      BY <2>1, <2>2, <2>3, <2>5, <3>1
  <2> QED
    BY <2>4, <2>5
<1>4. CASE Setter
  <2>1. node.next \in 1..5 /\ node.target \in Command
    BY <1>0 DEF Nodes
  <2>2. /\ state'.speed = IF node.next = 3 THEN SetSpeed(node.target.speed)
                          ELSE state.speed
        /\ state'.drive = IF node.next = 1 THEN node.target.drive
                          ELSE state.drive
    <3>1. state' = SetField(state, Setters[node.next], node.target)
      BY <1>4 DEF Setter
    <3> HIDE DEF LateInv
    <3> QED
      BY <1>0, <2>1, <3>1, SetFieldIsAState
  <2>3. state'.drive => AutoDrive
    BY <2>2, Zenon DEF Sane
  <2>4. node.pc = "apply" /\ node'.target = node.target
    BY <1>0, <1>4 DEF Setter, Nodes
  <2>5. UNCHANGED <<cmd, tx, late>>
    BY <1>4 DEF Setter
  <2>6. CASE node.next = 5
    <3>1. node'.pc = "spin" /\ granted' = Moves(node.target)
      BY <1>0, <1>4, <2>6, SettersAre DEF Setter, Nodes
    <3>2. state'.speed = SetSpeed(node.target.speed)
      BY <2>2, <2>4, <2>6
    <3>3. ~granted' => ~AutoDrive \/ ~Rolls(state'.speed)
      BY <2>1, <3>1, <3>2, StoppingIsStill
    <3>4. granted' => late = 0
      BY <2>4, <3>1
    <3>5. ~granted' /\ tx.pc = "write" /\ Moves(tx.frame) => late = 0
      OBVIOUS
    <3> QED
      BY <2>3, <2>4, <2>5, <3>1, <3>3, <3>4, <3>5
  <2>7. CASE node.next # 5
    <3>1. /\ node'.pc = "apply" /\ node'.next = node.next + 1
          /\ granted' = granted
      BY <1>0, <1>4, <2>7, SettersAre DEF Setter, Nodes
    <3>2. ~granted => ~AutoDrive \/ ~Rolls(state'.speed)
      BY <2>1, <2>2, <2>4, StoppingIsStill
    <3>3. node'.next > 3 => state'.speed = SetSpeed(node.target.speed)
      BY <2>1, <2>2, <2>4, <3>1
    <3> QED
      BY <2>3, <2>4, <2>5, <3>1, <3>2, <3>3
  <2> QED
    BY <2>6, <2>7
<1>5. CASE TxSnapshot
  <2>1. tx'.pc = "write" /\ tx'.frame = state
    BY <1>5 DEF TxSnapshot
  <2>2. ~granted => ~Moves(state)
    BY StillDoesNotMove
  <2> QED
    BY <1>5, <2>1, <2>2 DEF TxSnapshot
<1>6. CASE TxWrite
  <2>1. tx'.pc = "loop" /\ tx'.frame = tx.frame /\ tx.pc = "write"
    BY <1>0, <1>6 DEF TxWrite
  <2>2. late' = IF Moves(tx.frame) /\ ~granted /\ late < 2 THEN late + 1
                ELSE late
    BY <1>6 DEF TxWrite, Sent
  <2>3. late' <= 1 /\ (granted => late' = 0)
    BY <1>0, <2>1, <2>2
  <2> QED
    BY <1>6, <2>1, <2>3 DEF TxWrite
<1>7. CASE TxFails
  <2>1. tx'.pc = "loop" /\ tx'.frame = tx.frame
    BY <1>0, <1>7 DEF TxFails
  <2> QED
    BY <1>7, <2>1 DEF TxFails
<1>8. CASE TxEnds
  <2>1. tx'.pc = "ended" /\ tx'.frame = tx.frame
    BY <1>0, <1>8 DEF TxEnds
  <2> QED
    BY <1>8, <2>1 DEF TxEnds
<1>9. CASE Interrupt
  <2>1. node'.pc = "reset" /\ node'.target = node.target
    BY <1>0, <1>9 DEF Interrupt, Nodes
  <2> QED
    BY <1>9, <2>1 DEF Interrupt
<1>10. CASE StopResets
  <2>1. node'.pc = "signal" /\ node'.target = node.target
    BY <1>0, <1>10 DEF StopResets, Nodes
  <2> QED
    BY <1>10, <2>1, SafeIsSafe DEF StopResets
<1>11. CASE StopSignals
  <2>1. node'.pc = "join" /\ node'.target = node.target
    BY <1>0, <1>11 DEF StopSignals, Nodes
  <2> QED
    BY <1>11, <2>1 DEF StopSignals
<1>12. CASE StopJoins
  <2>1. node'.pc = "safe" /\ node'.target = node.target
    BY <1>0, <1>12 DEF StopJoins, Nodes
  <2> QED
    BY <1>12, <2>1, SafeIsSafe DEF StopJoins
<1>13. CASE StopSends
  <2>1. node'.pc \in {"safe", "down"} /\ node'.target = node.target
    BY <1>0, <1>13 DEF StopSends, Nodes
  <2>2. state = SafeCommand
    BY <1>13 DEF StopSends
  <2>3. late' = late
    BY <1>13, <2>2, SafeIsSafe DEF StopSends, Sent
  <2> QED
    BY <1>13, <2>1, <2>2, <2>3 DEF StopSends
<1>14. CASE Crash
  <2>1. /\ node'.pc = "killed" /\ node'.target = node.target
        /\ tx'.pc = "ended" /\ tx'.frame = tx.frame
    BY <1>0, <1>14 DEF Crash, Nodes
  <2> QED
    BY <1>14, <2>1 DEF Crash
<1>15. CASE Restart
  <2>1. /\ node'.pc = "spin" /\ node'.target = SafeCommand
        /\ tx'.pc = "loop" /\ tx'.frame = SafeCommand
    BY <1>15 DEF Restart
  <2>2. cmd' = SafeCommand /\ state' = SafeCommand /\ late' = 0
    BY <1>15 DEF Restart
  <2> QED
    BY <2>1, <2>2, SafeIsSafe
<1>16. CASE UNCHANGED vars
  BY <1>16 DEF vars
<1> QED
  BY <1>1, <1>2, <1>3, <1>4, <1>5, <1>6, <1>7, <1>8, <1>9, <1>10, <1>11,
     <1>12, <1>13, <1>14, <1>15, <1>16 DEF Next, NodeStep, TxStep

(* After a command that stops has been applied, at most the one frame      *)
(* already taken by the transmitter still moves the vehicle, for every     *)
(* choice of the parameters and the messages.                              *)
THEOREM OneLateFrame == Spec => []AtMostOneLateFrame
<1>1. LateInv => AtMostOneLateFrame
  BY DEF LateInv, AtMostOneLateFrame
<1> QED
  BY <1>1, TypeInit, TypeNext, LateInit, LateNext, PTL DEF Spec

-----------------------------------------------------------------------------
(* The node implements SafeWire. The transmitter is gone before stop()     *)
(* sends its frames, and from the reset on nothing is granted: this is     *)
(* what the step that seals the wire relies on, and it outlives a kill.    *)
Stopping == {"signal", "join", "safe", "down"}
WireInv ==
  /\ node.pc \in Ended => tx.pc = "ended"
  /\ node.pc \in Stopping => ~granted
  /\ safeSent > 0 => ~granted

LEMMA WireInit == Init => WireInv
BY DEF Init, WireInv, Ended, Stopping

LEMMA WireNext == TypeInv /\ WireInv /\ [Next]_vars => WireInv'
<1> SUFFICES ASSUME TypeInv, WireInv, [Next]_vars PROVE WireInv'
  OBVIOUS
<1> USE DEF WireInv, Ended, Stopping
<1>0. /\ node \in Nodes /\ safeSent \in 0..SafeFrames
      /\ tx \in [pc : {"loop", "write", "ended"}, frame : CommandState]
      /\ node.pc \notin Ended => safeSent = 0
  BY SettersAre DEF TypeInv, TypeOK, ExitInv, Nodes
<1>1. ASSUME NEW m \in Messages, OnCmdVelFinal(m) PROVE WireInv'
  BY <1>1 DEF OnCmdVelFinal
<1>2. CASE CommandAges
  BY <1>2 DEF CommandAges
<1>3. CASE ControlTick
  BY <1>0, <1>3 DEF ControlTick
<1>4. CASE Setter
  <2>1. node.pc = "apply" /\ node'.pc \in {"spin", "apply"}
    BY <1>0, <1>4 DEF Setter, Nodes
  <2>2. safeSent' = 0
    BY <1>0, <1>4, <2>1 DEF Setter
  <2> QED
    BY <2>1, <2>2
<1>5. CASE TxSnapshot
  BY <1>0, <1>5 DEF TxSnapshot
<1>6. CASE TxWrite
  BY <1>0, <1>6 DEF TxWrite
<1>7. CASE TxFails
  BY <1>0, <1>7 DEF TxFails
<1>8. CASE TxEnds
  BY <1>0, <1>8 DEF TxEnds
<1>9. CASE Interrupt
  BY <1>0, <1>9 DEF Interrupt, Nodes
<1>10. CASE StopResets
  BY <1>0, <1>10 DEF StopResets, Nodes
<1>11. CASE StopSignals
  BY <1>0, <1>11 DEF StopSignals, Nodes
<1>12. CASE StopJoins
  BY <1>0, <1>12 DEF StopJoins, Nodes
<1>13. CASE StopSends
  <2>1. node'.pc \in {"safe", "down"} /\ node.pc = "safe"
    BY <1>0, <1>13 DEF StopSends, Nodes
  <2>2. UNCHANGED <<tx, granted>>
    BY <1>13 DEF StopSends
  <2> QED
    BY <2>1, <2>2
<1>14. CASE Crash
  <2>1. node'.pc = "killed" /\ tx'.pc = "ended"
    BY <1>0, <1>14 DEF Crash, Nodes
  <2> QED
    BY <1>14, <2>1 DEF Crash
<1>15. CASE Restart
  BY <1>15 DEF Restart
<1>16. CASE UNCHANGED vars
  BY <1>16 DEF vars
<1> QED
  BY <1>1, <1>2, <1>3, <1>4, <1>5, <1>6, <1>7, <1>8, <1>9, <1>10, <1>11,
     <1>12, <1>13, <1>14, <1>15, <1>16 DEF Next, NodeStep, TxStep

(* A frame moves the vehicle exactly if the command it carries does:       *)
(* neither the 16 bits of the magnitude nor the two bytes turn a speed     *)
(* that rolls into zero.                                                   *)
LEMMA Division ==
  ASSUME NEW n \in Int PROVE n = 256 * (n \div 256) + (n % 256)
OBVIOUS

LEMMA Remainders ==
  ASSUME NEW n \in Int
  PROVE  n % 256 \in 0..255 /\ (n \in 0..255 => n % 256 = n)
OBVIOUS

LEMMA TwoBytes ==
  ASSUME NEW n \in Int, 0 <= n, n <= 65535
  PROVE  (n % 256) + 256 * ((n \div 256) % 256) = n
<1> DEFINE high == n \div 256
           low == n % 256
<1>1. n = 256 * high + low /\ low \in 0..255 /\ high \in Int
  BY Division, Remainders
<1> HIDE DEF high, low
<1>2. high \in 0..255
  BY <1>1
<1>3. high % 256 = high
  BY <1>2, Remainders
<1>4. low + 256 * (high % 256) = n
  BY <1>1, <1>3
<1> QED
  BY <1>4 DEF high, low

LEMMA SpeedOfFrame ==
  ASSUME NEW c, NEW n \in Int, (n % 256) + 256 * ((n \div 256) % 256) = n
  PROVE  SpeedOnWire(Frame(c, n)) # 0 <=> n # 0
<1> DEFINE f == Frame(c, n)
<1>1. f.low = n % 256 /\ f.high = (n \div 256) % 256
  BY DEF Frame
<1>2. SpeedOnWire(f) = IF f.reverse THEN -(Centi * (f.low + 256 * f.high))
                       ELSE Centi * (f.low + 256 * f.high)
  BY DEF SpeedOnWire
<1> HIDE DEF f
<1>3. f.low + 256 * f.high = n
  BY <1>1
<1>4. SpeedOnWire(f) = IF f.reverse THEN -(Centi * n) ELSE Centi * n
  BY <1>2, <1>3
<1>5. Centi * n \in Int /\ (Centi * n # 0 <=> n # 0)
  BY DriveParameters
<1>6. SpeedOnWire(f) # 0 <=> Centi * n # 0
  BY <1>4, <1>5
<1> QED
  BY <1>5, <1>6 DEF f

LEMMA FrameMovesAsCommand ==
  ASSUME NEW c \in CommandState PROVE OnWire(Encode(c)) <=> Moves(c)
<1>1. Magnitude(c.speed) \in Nat
  BY DriveParameters DEF CommandState, Magnitude, Larger
<1> DEFINE rounded == Rounded(Magnitude(c.speed))
           n == Smaller(65535, rounded)
<1>2. rounded \in Nat
  BY <1>1, RoundedUp
<1> HIDE DEF rounded
<1>3. n \in Int /\ 0 <= n /\ n <= 65535 /\ (n # 0 <=> rounded # 0)
  BY <1>2 DEF Smaller
<1> HIDE DEF n
<1>4. SpeedOnWire(Frame(c, n)) # 0 <=> Rolls(c.speed)
  BY <1>3, TwoBytes, SpeedOfFrame DEF rounded, Rolls
<1>5. Encode(c) = Frame(c, n)
  BY DEF Encode, n, rounded
<1>6. Frame(c, n).drive = c.drive /\ Frame(c, n).estop = c.estop
  BY DEF Frame
<1> QED
  BY <1>4, <1>5, <1>6 DEF OnWire, Moves

LEMMA WireStarts == Init => Wire!Init
<1> SUFFICES ASSUME Init PROVE Wire!Init
  OBVIOUS
<1>1. ~granted /\ tx.pc = "loop" /\ wire = Encode(SafeCommand) /\ safeSent = 0
  BY DEF Init
<1>2. ~Held /\ ~Moving /\ ~Sealed
  BY <1>1, SafeIsSafe DEF Held, Moving, Sealed
<1> QED
  BY <1>1, <1>2 DEF Wire!Init

(* Every step of the node is a step of SafeWire, or changes nothing that   *)
(* SafeWire sees.                                                          *)
LEMMA WireSteps ==
  ASSUME TypeInv, LateInv, WireInv, [Next]_vars
  PROVE  [Wire!Next]_(Wire!vars)
<1>0. /\ node \in Nodes /\ state \in CommandState
      /\ granted \in BOOLEAN /\ safeSent \in 0..SafeFrames
      /\ tx \in [pc : {"loop", "write", "ended"}, frame : CommandState]
  BY SettersAre DEF TypeInv, TypeOK, Nodes
<1>00. /\ node.pc \notin Ended => ~Sealed
       /\ Held \in BOOLEAN /\ Moving \in BOOLEAN /\ Sealed \in BOOLEAN
  <2>1. node.pc \notin Ended => safeSent = 0
    BY DEF TypeInv, ExitInv
  <2> QED
    BY <2>1 DEF Held, Moving, Sealed, Moves, OnWire
<1>16. CASE UNCHANGED <<granted, tx, wire, safeSent>>
  BY <1>16 DEF Wire!vars, Held, Moving, Sealed, OnWire
<1>1. ASSUME NEW m \in Messages, OnCmdVelFinal(m)
      PROVE  UNCHANGED <<granted, tx, wire, safeSent>>
  BY <1>1 DEF OnCmdVelFinal
<1>2. CommandAges \/ Interrupt \/ StopSignals \/ StopJoins
        => UNCHANGED <<granted, tx, wire, safeSent>>
  BY DEF CommandAges, Interrupt, StopSignals, StopJoins
<1>3. CASE ControlTick
  <2>1. UNCHANGED <<tx, wire, safeSent>> /\ node.pc = "spin"
    BY <1>3 DEF ControlTick
  <2>2. granted' = (granted \/ Moves(Target))
    BY <1>3 DEF ControlTick
  <2>3. UNCHANGED <<Held, Moving, Sealed>> /\ ~Sealed
    BY <1>00, <2>1 DEF Held, Moving, Sealed, OnWire, Ended
  <2>4. granted' = TRUE \/ granted' = granted
    BY <1>0, <2>2, Zenon
  <2> QED
    BY <2>3, <2>4 DEF Wire!Next, Wire!Grant, Wire!vars
<1>4. CASE Setter
  <2>1. UNCHANGED <<tx, wire, safeSent>> /\ node.pc = "apply"
    BY <1>4 DEF Setter
  <2>2. granted' = Moves(node.target) \/ granted' = granted
    BY <1>4 DEF Setter
  <2>3. UNCHANGED <<Held, Moving, Sealed>> /\ ~Sealed
    BY <1>00, <2>1 DEF Held, Moving, Sealed, OnWire, Ended
  <2>4. granted' = TRUE \/ granted' = FALSE \/ granted' = granted
    BY <2>2, Zenon DEF Moves
  <2> QED
    BY <2>3, <2>4 DEF Wire!Next, Wire!Grant, Wire!Revoke, Wire!vars
<1>5. CASE TxSnapshot
  <2>1. /\ UNCHANGED <<granted, wire, safeSent>> /\ tx.pc = "loop"
        /\ tx'.pc = "write" /\ tx'.frame = state
    BY <1>5 DEF TxSnapshot
  <2>2. UNCHANGED <<granted, Moving, Sealed>> /\ ~Held /\ Held' = Moves(state)
    <3>1. UNCHANGED <<granted, Moving, Sealed>> /\ ~Held
      BY <2>1 DEF Held, Moving, Sealed, OnWire
    <3>2. Held' = Moves(state)
      BY <2>1 DEF Held, Moves
    <3> QED
      BY <3>1, <3>2
  <2>3. Moves(state) => granted
    BY StillDoesNotMove DEF LateInv
  <2>4. CASE Moves(state)
    <3>1. Held' = TRUE
      BY <2>2, <2>4, Zenon
    <3> QED
      BY <1>0, <2>2, <2>3, <2>4, <3>1 DEF Wire!Next, Wire!Take
  <2>5. CASE ~Moves(state)
    <3>1. Held' = Held
      BY <1>00, <2>2, <2>5, Zenon DEF Moves
    <3> QED
      BY <2>2, <3>1 DEF Wire!vars
  <2> QED
    BY <2>4, <2>5
<1>6. CASE TxWrite
  <2>1. /\ UNCHANGED <<granted, safeSent>> /\ tx.pc = "write"
        /\ tx'.pc = "loop" /\ wire' = Encode(tx.frame)
    BY <1>0, <1>6 DEF TxWrite, Sent
  <2>2. /\ UNCHANGED <<granted, Sealed>>
        /\ Held' = FALSE /\ Held = Moves(tx.frame)
    BY <2>1 DEF Held, Sealed, Moves
  <2>3. Moving' = OnWire(Encode(tx.frame))
    BY <2>1 DEF Moving, OnWire, SpeedOnWire
  <2>4. Moving' = Held
    BY <1>0, <2>2, <2>3, FrameMovesAsCommand DEF OnWire, Moves
  <2>5. CASE Held
    <3>1. Moving' = TRUE
      BY <2>4, <2>5, Zenon
    <3> QED
      BY <2>2, <2>5, <3>1 DEF Wire!Next, Wire!Move
  <2>6. CASE ~Held
    <3>1. Moving' = FALSE /\ Held' = Held
      BY <1>00, <2>2, <2>4, <2>6, Zenon
    <3> QED
      BY <2>2, <2>6, <3>1 DEF Wire!Next, Wire!Still
  <2> QED
    BY <2>5, <2>6
<1>7. CASE TxFails \/ TxEnds \/ Crash
  <2>1. /\ UNCHANGED <<granted, wire, safeSent>>
        /\ tx'.pc # "write"
    BY <1>0, <1>7 DEF TxFails, TxEnds, Crash
  <2>2. UNCHANGED <<granted, Moving, Sealed>> /\ Held' = FALSE
    BY <2>1 DEF Held, Moving, Sealed, OnWire
  <2>3. Held \/ Held = FALSE
    BY <1>00
  <2> QED
    BY <2>2, <2>3 DEF Wire!Next, Wire!Drop, Wire!vars
<1>10. CASE StopResets
  <2>1. granted' = FALSE /\ UNCHANGED <<tx, wire, safeSent>>
    BY <1>10 DEF StopResets
  <2>2. UNCHANGED <<Held, Moving, Sealed>>
    BY <2>1 DEF Held, Moving, Sealed, OnWire
  <2> QED
    BY <2>1, <2>2 DEF Wire!Next, Wire!Revoke
<1>13. CASE StopSends
  <2>1. node.pc = "safe" /\ UNCHANGED <<tx, granted>>
    BY <1>13 DEF StopSends
  <2>2. tx.pc = "ended" /\ ~granted /\ state = SafeCommand
    BY <2>1 DEF WireInv, LateInv, Ended, Stopping
  <2>3. ~Held /\ Held' = Held
    BY <2>1, <2>2 DEF Held, Moves
  <2>4. CASE Sent(state) /\ safeSent' = safeSent + 1
    <3>1. wire' = Encode(SafeCommand)
      BY <2>2, <2>4 DEF Sent
    <3>2. Moving' = FALSE
      BY <3>1, SafeIsSafe DEF Moving, OnWire, SpeedOnWire
    <3>3. Sealed' = TRUE
      BY <1>0, <2>4 DEF Sealed, SafeFrames
    <3> QED
      BY <2>1, <2>2, <2>3, <3>2, <3>3 DEF Wire!Next, Wire!Seal
  <2>5. CASE UNCHANGED <<wire, late, safeSent>>
    BY <1>16, <2>1, <2>5
  <2> QED
    BY <1>13, <2>4, <2>5 DEF StopSends
<1>15. CASE Restart
  <2>1. /\ node.pc \in Ended /\ granted' = FALSE /\ UNCHANGED wire
        /\ tx'.pc = "loop" /\ safeSent' = 0
    BY <1>15 DEF Restart, Ended
  <2>2. ~Held /\ Held' = Held
    BY <2>1 DEF Held, WireInv, Moves
  <2>3. Sealed' = FALSE /\ UNCHANGED Moving
    BY <2>1 DEF Sealed, Moving, OnWire
  <2> QED
    BY <2>1, <2>2, <2>3 DEF Wire!Next, Wire!Relaunch
<1>17. CASE UNCHANGED vars
  BY <1>16, <1>17 DEF vars
<1> QED
  BY <1>1, <1>2, <1>3, <1>4, <1>5, <1>6, <1>7, <1>10, <1>13, <1>15, <1>16,
     <1>17 DEF Next, NodeStep, TxStep

(* The node implements SafeWire, for every choice of the parameters and    *)
(* the messages: every frame that moves was taken under a command that     *)
(* moves, and the first safe frame of the exit seals the wire.             *)
THEOREM ImplementsSafeWire == Spec => IsSafeWire
BY WireStarts, WireSteps, TypeInit, TypeNext, LateInit, LateNext, WireInit,
   WireNext, PTL DEF Spec, IsSafeWire, Wire!Spec

-----------------------------------------------------------------------------
(* SafeWire itself: its seal holds, and so it does for the node, also if   *)
(* the exit is killed between two safe frames.                             *)
LEMMA WireStaysSealed == Wire!Spec => []Wire!SealedIsStill
<1>1. Wire!Init => Wire!SealedIsStill
  BY DEF Wire!Init, Wire!SealedIsStill
<1>2. Wire!SealedIsStill /\ [Wire!Next]_(Wire!vars) => Wire!SealedIsStill'
  <2> SUFFICES ASSUME Wire!SealedIsStill, [Wire!Next]_(Wire!vars)
               PROVE  Wire!SealedIsStill'
    OBVIOUS
  <2> USE DEF Wire!SealedIsStill
  <2>1. CASE Wire!Grant
    BY <2>1 DEF Wire!Grant
  <2>2. CASE Wire!Revoke
    BY <2>2 DEF Wire!Revoke
  <2>3. CASE Wire!Take
    BY <2>3 DEF Wire!Take
  <2>4. CASE Wire!Move
    BY <2>4 DEF Wire!Move
  <2>5. CASE Wire!Drop
    BY <2>5 DEF Wire!Drop
  <2>6. CASE Wire!Still
    BY <2>6 DEF Wire!Still
  <2>7. CASE Wire!Seal
    BY <2>7 DEF Wire!Seal
  <2>8. CASE Wire!Relaunch
    BY <2>8 DEF Wire!Relaunch
  <2>9. CASE UNCHANGED Wire!vars
    BY <2>9 DEF Wire!vars
  <2> QED
    BY <2>1, <2>2, <2>3, <2>4, <2>5, <2>6, <2>7, <2>8, <2>9 DEF Wire!Next
<1> QED
  BY <1>1, <1>2, PTL DEF Wire!Spec

(* Once a safe frame of the exit got through, the wire is at rest, nothing *)
(* is taken and nothing granted, until the node is launched again.         *)
THEOREM ExitIsSealed == Spec => []Wire!SealedIsStill
BY ImplementsSafeWire, WireStaysSealed, PTL DEF IsSafeWire
=============================================================================
