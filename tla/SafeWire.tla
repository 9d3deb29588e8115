------------------------------ MODULE SafeWire ------------------------------
(***************************************************************************)
(* What controller_server promises of the frames that leave its port,      *)
(* without its threads, setters, commands and protocol: a frame that moves *)
(* the vehicle is taken only while a command that moves is granted, one    *)
(* frame at a time, and goes out even if the grant has ended since; and    *)
(* the first safe frame of the exit to get through seals the wire: from    *)
(* then on nothing moves the vehicle until the node is launched again.     *)
(***************************************************************************)
VARIABLES
  granted, \* a command that moves is in force, or being applied
  held,    \* a frame that moves was taken and is not sent yet
  moving,  \* the last frame sent moves the vehicle
  sealed   \* a safe frame of the exit has been sent

vars == <<granted, held, moving, sealed>>

Init == ~granted /\ ~held /\ ~moving /\ ~sealed

(* /cmd_vel_final, its silence and the exit decide what is granted.        *)
Grant ==
  /\ ~sealed /\ granted' = TRUE
  /\ UNCHANGED <<held, moving, sealed>>
Revoke ==
  /\ granted' = FALSE
  /\ UNCHANGED <<held, moving, sealed>>

Take ==
  /\ granted /\ ~held
  /\ held' = TRUE
  /\ UNCHANGED <<granted, moving, sealed>>

Move ==
  /\ held /\ held' = FALSE
  /\ moving' = TRUE
  /\ UNCHANGED <<granted, sealed>>

(* The port refuses the frame, or the process is killed with it.           *)
Drop ==
  /\ held /\ held' = FALSE
  /\ UNCHANGED <<granted, moving, sealed>>

(* A frame that does not move the vehicle replaces the last one, when none *)
(* that does is on its way.                                                *)
Still ==
  /\ ~held /\ moving' = FALSE
  /\ UNCHANGED <<granted, held, sealed>>

Seal ==
  /\ ~granted /\ ~held
  /\ moving' = FALSE /\ sealed' = TRUE
  /\ UNCHANGED <<granted, held>>

(* A new process starts without a command; the wire stays as it was left.  *)
Relaunch ==
  /\ ~held
  /\ granted' = FALSE /\ sealed' = FALSE
  /\ UNCHANGED <<held, moving>>

Next == \/ Grant \/ Revoke \/ Take \/ Move \/ Drop \/ Still \/ Seal \/ Relaunch

Spec == Init /\ [][Next]_vars

-----------------------------------------------------------------------------
(* A sealed wire is at rest, and nothing is on its way to it.              *)
SealedIsStill == sealed => ~moving /\ ~held /\ ~granted
=============================================================================
