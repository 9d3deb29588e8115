------------------------- MODULE MCControllerServer -------------------------
(* ControllerServer with the parameters of controller_server_node, in      *)
(* units of 2.5 mm/s.                                                      *)
EXTENDS ControllerServer
=============================================================================
