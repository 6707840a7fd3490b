--------------------------- MODULE MCHubListener ---------------------------
(* Model checking HubListener.                                             *)
EXTENDS HubListener, TLC
=============================================================================
