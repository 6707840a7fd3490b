---------------------------- MODULE MCDoorModule ----------------------------
(* Model checking of DoorModule; the cfgs choose the operations of the      *)
(* terminal and of the hub, and the half-steps of a turn.                   *)
EXTENDS DoorModule
=============================================================================
