---------------------------- MODULE MCDoorServer ----------------------------
(* Model checking of DoorServer.                                           *)
EXTENDS DoorServer
=============================================================================
