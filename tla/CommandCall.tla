----------------------------- MODULE CommandCall -----------------------------
(***************************************************************************)
(* What hub_udp_send_command (hal/src/hub_udp.c) promises its caller, with  *)
(* whoever else commands the module: calls one after the other, each with a *)
(* number of its own; an attempt, then up to Retries more; success only     *)
(* when the module has answered a command of that action whose number is    *)
(* not a lower one, and failure only after the last attempt.  The failure   *)
(* without any attempt, of a module that is unknown or has no address       *)
(* (lines 757-760), is no outcome here: the only caller, http_api.c:233,    *)
(* finds the module's status first, and a module never loses its address.   *)
(***************************************************************************)
EXTENDS Naturals

CONSTANT Retries    \* attempts after the first

VARIABLES busy,     \* a call is being made
          call,     \* its module, action and number; when idle, the last
          tries,    \* how many attempts of it came to nothing
          answers,  \* what the modules have answered so far (external)
          verdict   \* what the last call returned, undefined while busy

callVars == <<busy, call, tries, answers, verdict>>

Init == busy = FALSE /\ call.cmdid = 0 /\ answers = {}

Ask ==
  /\ busy = FALSE
  /\ busy' = TRUE
  /\ call'.cmdid = call.cmdid + 1
  /\ tries' = 0
  /\ UNCHANGED answers

Retry ==
  /\ busy = TRUE /\ tries < Retries
  /\ tries' = tries + 1
  /\ UNCHANGED <<busy, call, answers, verdict>>

Acknowledge ==
  /\ busy = TRUE
  /\ \E a \in answers :
       a.mod = call.mod /\ a.act = call.act /\ a.cmdid >= call.cmdid
  /\ busy' = FALSE /\ verdict' = "ack"
  /\ UNCHANGED <<call, tries, answers>>

GiveUp ==
  /\ busy = TRUE /\ tries = Retries
  /\ busy' = FALSE /\ verdict' = "no_ack"
  /\ UNCHANGED <<call, tries, answers>>

Answer ==
  /\ answers \subseteq answers'
  /\ UNCHANGED <<busy, call, tries, verdict>>

Next == Ask \/ Retry \/ Acknowledge \/ GiveUp \/ Answer

Spec == Init /\ [][Next]_callVars
=============================================================================
