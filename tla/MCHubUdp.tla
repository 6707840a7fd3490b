------------------------------ MODULE MCHubUdp ------------------------------
(* Model checking HubUdp: every run's .cfg gives the constants.            *)
EXTENDS HubUdp, TLC

\* Model values of one kind are interchangeable.
Symmetric == Permutations(Modules) \cup Permutations(Clients)

\* Those that the HTTP API does not command are.
Bystanders == Permutations(Modules \ HttpTargets)
=============================================================================
