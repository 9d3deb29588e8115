--------------------------- MODULE DriveAuthority ---------------------------
(***************************************************************************)
(* What nav_command_server promises of /cmd_vel_final, without its         *)
(* threads, goals and messages: one party is in charge at a time, every    *)
(* command that moves the robot was taken from the party then in charge,   *)
(* one command at a time, and it goes out even if the charge has passed on *)
(* since; and a stop for silence stands until the operator commands again. *)
(***************************************************************************)
VARIABLES
  charge,  \* who may move the robot
  held,    \* whose command was taken and is not published yet
  stopped, \* the operator fell silent and the robot was stopped for it
  out      \* the last command published

vars == <<charge, held, stopped, out>>

Drivers == {"nav2", "operator"}
Parties == Drivers \cup {"nobody"}

Init ==
  /\ charge \in {"nobody", "nav2"} /\ held = "none"
  /\ stopped = FALSE /\ out = "zero"

(* Goals, cancels, collisions and manual mode decide who is in charge; the *)
(* operator who takes charge, again or anew, is not silent.                *)
Decide ==
  /\ charge' \in Parties /\ stopped' = FALSE
  /\ UNCHANGED <<held, out>>

(* A command is taken: one that will move the robot, or one that will not. *)
Take(party) ==
  /\ charge = party /\ held = "none"
  /\ held' \in {party, "none"} /\ stopped' = FALSE
  /\ UNCHANGED <<charge, out>>

Move ==
  /\ held # "none" /\ held' = "none"
  /\ out' = "move"
  /\ UNCHANGED <<charge, stopped>>

(* Anyone may stop the robot at any time.                                  *)
Halt ==
  /\ out' \in {"zero", "brake"}
  /\ UNCHANGED <<charge, held, stopped>>

(* The operator is silent: the robot stands, and nothing is on its way.    *)
Silence ==
  /\ charge = "operator" /\ held = "none" /\ out # "move"
  /\ stopped' = TRUE
  /\ UNCHANGED <<charge, held, out>>

Next == \/ Decide \/ \E party \in Drivers : Take(party)
        \/ Move \/ Halt \/ Silence

Spec == Init /\ [][Next]_vars
=============================================================================
