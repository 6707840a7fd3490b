----------------------------- MODULE MCWebPage -----------------------------
(* Model checking WebPage.                                                 *)
EXTENDS WebPage
=============================================================================
