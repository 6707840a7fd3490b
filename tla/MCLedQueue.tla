----------------------------- MODULE MCLedQueue -----------------------------
(* Model checking of LedQueue on a ring of a few slots.                     *)
EXTENDS LedQueue
=============================================================================
