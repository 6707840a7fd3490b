---------------------------- MODULE MCHubProcess ----------------------------
(* Model checking HubProcess with a short ring and few messages.           *)
EXTENDS HubProcess
=============================================================================
