-------------------------- MODULE ControllerServer --------------------------
(***************************************************************************)
(* controller_server with its UART backend: the node's thread, which takes *)
(* /cmd_vel_final and applies the effective command setter by setter, and  *)
(* the transmitter thread of CommsClient, which sends a snapshot of the    *)
(* command state at its own rate.                                          *)
(*                                                                         *)
(* A step is one section under _state_lock, one serial write, or one       *)
(* callback of the node up to its first setter. The serial port may refuse *)
(* any write (the exception is counted and dropped). The receiver thread   *)
(* and the telemetry topics are left out.                                  *)
(***************************************************************************)
EXTENDS DriveCommand, Sequences

CONSTANTS
  Forward, Reverse, \* speeds of the messages of this instance
  Angulars, Brakes, \* their angular velocities and brake percentages
  MayCrash          \* may the process be killed?

ASSUME MessageParameters ==
  /\ Forward \subseteq Nat /\ Reverse \subseteq Nat
  /\ Angulars \subseteq Int /\ Brakes \subseteq Int /\ MayCrash \in BOOLEAN

VARIABLES
  cmd,      \* _auto_cmd
  fresh,    \* is _auto_stamp_s within auto_timeout_s?
  node,     \* what the node's thread is doing
  state,    \* CommandState
  stopEvent,
  tx,       \* what the transmitter thread is doing
  wire,     \* the last frame that left the port
  granted,  \* history: a command that moves is applied, or being applied
  late,     \* history: moving frames sent while no command that moves is
  safeSent  \* history: safe frames sent by stop()

vars == <<cmd, fresh, node, state, stopEvent, tx, wire, granted, late, safeSent>>

Messages == [linear : {0} \cup Forward \cup {-v : v \in Reverse},
             angular : Angulars, brake : Brakes]
Setters == <<"drive", "estop", "speed", "steer", "brake">>
SafeFrames == 3
Running == {"spin", "apply"}

Init ==
  /\ cmd = SafeCommand /\ fresh = FALSE
  /\ node = [pc |-> "spin", next |-> 1, target |-> SafeCommand]
  /\ state = SafeCommand /\ stopEvent = FALSE
  /\ tx = [pc |-> "loop", frame |-> SafeCommand]
  /\ wire = Encode(SafeCommand)
  /\ granted = FALSE /\ late = 0 /\ safeSent = 0

-----------------------------------------------------------------------------
(* The node                                                                *)
OnCmdVelFinal(m) ==
  /\ node.pc = "spin"
  /\ cmd' = CommandFromCmdVel(m) /\ fresh' = TRUE
  /\ UNCHANGED <<node, state, stopEvent, tx, wire, granted, late, safeSent>>

CommandAges ==
  /\ fresh /\ fresh' = FALSE
  /\ UNCHANGED <<cmd, node, state, stopEvent, tx, wire, granted, late, safeSent>>

TargetMutant == Actuated(cmd)
Target == Actuated(EffectiveCommand(cmd, fresh))

ControlTick ==
  /\ node.pc = "spin"
  /\ node' = [pc |-> "apply", next |-> 1, target |-> Target]
  /\ granted' = (granted \/ Moves(Target))
  /\ late' = IF Moves(Target) THEN 0 ELSE late
  /\ UNCHANGED <<cmd, fresh, state, stopEvent, tx, wire, safeSent>>

(* apply_command: five setters, each under the lock on its own.            *)
SetFieldMutant(s, field, c) == [s EXCEPT ![field] = c[field]]
SetField(s, field, c) ==
  [s EXCEPT ![field] = CASE field = "speed" -> SetSpeed(c.speed)
                         [] field = "brake" -> SetBrake(c.brake)
                         [] OTHER -> c[field]]
Setter ==
  /\ node.pc = "apply"
  /\ state' = SetField(state, Setters[node.next], node.target)
  /\ IF node.next = Len(Setters)
     THEN /\ node' = [node EXCEPT !.pc = "spin"]
          /\ granted' = Moves(node.target)
     ELSE /\ node' = [node EXCEPT !.next = @ + 1]
          /\ UNCHANGED granted
  /\ UNCHANGED <<cmd, fresh, stopEvent, tx, wire, late, safeSent>>

-----------------------------------------------------------------------------
(* The transmitter thread                                                  *)
Sent(frame) ==
  /\ wire' = Encode(frame)
  /\ late' = IF Moves(frame) /\ ~granted /\ late < 2 THEN late + 1 ELSE late

TxSnapshot ==
  /\ tx.pc = "loop" /\ ~stopEvent
  /\ tx' = [pc |-> "write", frame |-> state]
  /\ UNCHANGED <<cmd, fresh, node, state, stopEvent, wire, granted, late, safeSent>>

TxWriteMutant ==
  /\ tx.pc = "write"
  /\ tx' = [tx EXCEPT !.pc = IF stopEvent THEN "loop" ELSE "write"]
  /\ Sent(tx.frame)
  /\ UNCHANGED <<cmd, fresh, node, state, stopEvent, granted, safeSent>>
TxWrite ==
  /\ tx.pc = "write"
  /\ tx' = [tx EXCEPT !.pc = "loop"]
  /\ Sent(tx.frame)
  /\ UNCHANGED <<cmd, fresh, node, state, stopEvent, granted, safeSent>>

TxFails ==
  /\ tx.pc = "write"
  /\ tx' = [tx EXCEPT !.pc = "loop"]
  /\ UNCHANGED <<cmd, fresh, node, state, stopEvent, wire, granted, late, safeSent>>

TxEnds ==
  /\ tx.pc = "loop" /\ stopEvent
  /\ tx' = [tx EXCEPT !.pc = "ended"]
  /\ UNCHANGED <<cmd, fresh, node, state, stopEvent, wire, granted, late, safeSent>>

-----------------------------------------------------------------------------
(* Shutdown: an interrupt ends the spin at any point, even between two     *)
(* setters; destroy_node then stops the client.                            *)
Interrupt ==
  /\ node.pc \in Running
  /\ node' = [node EXCEPT !.pc = "reset"]
  /\ UNCHANGED <<cmd, fresh, state, stopEvent, tx, wire, granted, late, safeSent>>

StopResets ==
  /\ node.pc = "reset"
  /\ state' = SafeCommand /\ granted' = FALSE
  /\ node' = [node EXCEPT !.pc = "signal"]
  /\ UNCHANGED <<cmd, fresh, stopEvent, tx, wire, late, safeSent>>

StopSignals ==
  /\ node.pc = "signal"
  /\ stopEvent' = TRUE
  /\ node' = [node EXCEPT !.pc = "join"]
  /\ UNCHANGED <<cmd, fresh, state, tx, wire, granted, late, safeSent>>

(* A write is bounded by write_timeout (50 ms), the join by 1.5 s: the     *)
(* thread has ended when the join returns.                                 *)
StopJoinsMutant ==
  /\ node.pc = "join"
  /\ state' = SafeCommand
  /\ node' = [node EXCEPT !.pc = "safe", !.next = 1]
  /\ UNCHANGED <<cmd, fresh, stopEvent, tx, wire, granted, late, safeSent>>
StopJoins ==
  /\ node.pc = "join" /\ tx.pc = "ended"
  /\ state' = SafeCommand
  /\ node' = [node EXCEPT !.pc = "safe", !.next = 1]
  /\ UNCHANGED <<cmd, fresh, stopEvent, tx, wire, granted, late, safeSent>>

StopSends ==
  /\ node.pc = "safe"
  /\ \/ Sent(state) /\ safeSent' = safeSent + 1
     \/ UNCHANGED <<wire, late, safeSent>>
  /\ node' = IF node.next = SafeFrames THEN [node EXCEPT !.pc = "down"]
             ELSE [node EXCEPT !.next = @ + 1]
  /\ UNCHANGED <<cmd, fresh, state, stopEvent, tx, granted>>

(* The process is killed, or exited, and is launched again. What the port  *)
(* sent last stays on the wire: the ESP32's own failsafe is external.      *)
Crash ==
  /\ MayCrash /\ node.pc # "down"
  /\ node' = [node EXCEPT !.pc = "killed"]
  /\ tx' = [tx EXCEPT !.pc = "ended"]
  /\ UNCHANGED <<cmd, fresh, state, stopEvent, wire, granted, late, safeSent>>

Restart ==
  /\ node.pc \in {"down", "killed"}
  /\ cmd' = SafeCommand /\ fresh' = FALSE
  /\ node' = [pc |-> "spin", next |-> 1, target |-> SafeCommand]
  /\ state' = SafeCommand /\ stopEvent' = FALSE
  /\ tx' = [pc |-> "loop", frame |-> SafeCommand]
  /\ granted' = FALSE /\ late' = 0 /\ safeSent' = 0
  /\ UNCHANGED wire

-----------------------------------------------------------------------------
NodeStep == \/ ControlTick \/ Setter \/ StopResets \/ StopSignals \/ StopJoins
            \/ StopSends
TxStep == TxSnapshot \/ TxWrite \/ TxFails \/ TxEnds
Next == \/ NodeStep \/ TxStep \/ CommandAges \/ Interrupt \/ Crash \/ Restart
        \/ \E m \in Messages : OnCmdVelFinal(m)

Spec == Init /\ [][Next]_vars

(* Both threads run, and the port does not refuse every write for ever.    *)
Fairness == WF_vars(NodeStep) /\ WF_vars(TxStep) /\ SF_vars(TxWrite)
LiveSpec == Spec /\ Fairness

-----------------------------------------------------------------------------
OnWire(frame) == frame.drive /\ ~frame.estop /\ SpeedOnWire(frame) # 0
NodeLabels == {"spin", "apply", "reset", "signal", "join", "safe", "down", "killed"}
TypeOK ==
  /\ cmd \in Command /\ fresh \in BOOLEAN
  /\ node \in [pc : NodeLabels, next : 1..Len(Setters), target : Command]
  /\ state \in CommandState /\ stopEvent \in BOOLEAN
  /\ tx \in [pc : {"loop", "write", "ended"}, frame : CommandState]
  /\ granted \in BOOLEAN /\ late \in 0..2 /\ safeSent \in 0..SafeFrames

(* Once apply_command has returned from a command that stops the vehicle   *)
(* (stale, braked or zero), at most the one frame that the transmitter had *)
(* already taken still moves it, whatever the setters and writes do.       *)
AtMostOneLateFrame == late <= 1

(* "Al salir, se envian 3 frames finales en estado seguro antes de cerrar  *)
(* UART": if any of them got through, nothing the transmitter still held   *)
(* went out after it.                                                      *)
SafeAtExit == node.pc = "down" /\ safeSent > 0 => ~OnWire(wire)

(* The node keeps the promise of a safe wire: whatever its setters, writes *)
(* and exits interleave to, every frame that moves was taken under a       *)
(* command that moves, so that at most one is late; and once one of the    *)
(* final safe frames got through, the wire is at rest until a new launch,  *)
(* also when the exit is cut short by a kill.                              *)
Held == tx.pc = "write" /\ Moves(tx.frame)
Moving == OnWire(wire)
Sealed == safeSent > 0
Wire == INSTANCE SafeWire
          WITH held <- Held, moving <- Moving, sealed <- Sealed
IsSafeWire == Wire!Spec

(* Silence on /cmd_vel_final stops the vehicle: a stale command is         *)
(* replaced on the wire, unless a new one comes or the process ends.       *)
SilenceStops ==
  ~fresh /\ node.pc \in Running
    ~> fresh \/ ~OnWire(wire) \/ node.pc \in {"down", "killed"}
=============================================================================
