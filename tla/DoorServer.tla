----------------------------- MODULE DoorServer -----------------------------
(***************************************************************************)
(* The Node.js bridge between web pages and the hub (gui/lib/door_server.js,*)
(* wrapped by gui/server.js): the commands it numbers, the map of pending   *)
(* requests, their timers, and what each request's page is told.            *)
(*                                                                          *)
(* Node runs one callback at a time, so each callback is one action; in     *)
(* which order callbacks run is Node's and the network's choice.  Module,   *)
(* target and action of a request are not modelled: the bridge matches a    *)
(* FEEDBACK by its id alone.  Of what it broadcasts, the model keeps the    *)
(* FEEDBACKs: they carry the id, and reach the page that asked as well.     *)
(***************************************************************************)
EXTENDS Naturals

CONSTANT MaxCmdId  \* bound: commands of one start of the server

ASSUME ServerAssumption == MaxCmdId \in Nat

CmdIds == 1 .. MaxCmdId

\* How a page asks: by a request that ends in sendCommand (send-command,
\* lock-door, unlock-door), or by get-door-info.
Kinds == {"command", "info"}

VARIABLES
  cmdCounter,  \* the next command id
  kind,        \* id -> how its page asked, "none" while the id is unused
  sending,     \* id -> how far udpSocket.send is with its datagram
  pending,     \* ids with an entry in the pending map
  timers,      \* ids with a running timer
  fed,         \* id -> times its page was answered with the FEEDBACK
  failed,      \* id -> times its page was told that there is none
  echoed       \* id -> how far its send was when a FEEDBACK was broadcast

vars == <<cmdCounter, kind, sending, pending, timers, fed, failed, echoed>>

Init ==
  /\ cmdCounter = 1
  /\ kind = [id \in CmdIds |-> "none"]
  /\ sending = [id \in CmdIds |-> "unused"]
  /\ pending = {} /\ timers = {}
  /\ fed = [id \in CmdIds |-> 0]
  /\ failed = [id \in CmdIds |-> 0]
  /\ echoed = [id \in CmdIds |-> {}]

-----------------------------------------------------------------------------
(* Requests of pages                                                       *)

\* A page asks: an id is taken and the datagram handed to the socket.  Only
\* get-door-info starts its timer and enters its request before the send.
Request(k) ==
  /\ cmdCounter \in CmdIds
  /\ cmdCounter' = cmdCounter + 1
  /\ kind' = [kind EXCEPT ![cmdCounter] = k]
  /\ sending' = [sending EXCEPT ![cmdCounter] = "queued"]
  /\ pending' = IF k = "info" THEN pending \cup {cmdCounter} ELSE pending
  /\ timers' = IF k = "info" THEN timers \cup {cmdCounter} ELSE timers
  /\ UNCHANGED <<fed, failed, echoed>>

\* The datagram leaves the machine.  Node does not say whether what the hub
\* sends back may be delivered before the callback of the send.
Transmit(id) ==
  /\ sending[id] = "queued"
  /\ sending' = [sending EXCEPT ![id] = "transmitted"]
  /\ UNCHANGED <<cmdCounter, kind, pending, timers, fed, failed, echoed>>

\* Mutant: the request is entered, but no timer is started for it.
SentUntimed(id) ==
  /\ sending[id] = "transmitted"
  /\ sending' = [sending EXCEPT ![id] = "sent"]
  /\ pending' = IF kind[id] = "command" THEN pending \cup {id} ELSE pending
  /\ UNCHANGED <<cmdCounter, kind, timers, fed, failed, echoed>>

\* The callback of a send that went well: only now does sendCommand start the
\* timer and enter the request.
Sent(id) ==
  /\ sending[id] = "transmitted"
  /\ sending' = [sending EXCEPT ![id] = "sent"]
  /\ pending' = IF kind[id] = "command" THEN pending \cup {id} ELSE pending
  /\ timers' = IF kind[id] = "command" THEN timers \cup {id} ELSE timers
  /\ UNCHANGED <<cmdCounter, kind, fed, failed, echoed>>

\* The callback of a send that failed (the name of the hub is not resolved, no
\* route) tells the page; sendCommand has entered nothing yet,
CommandSendFails(id) ==
  /\ kind[id] = "command" /\ sending[id] = "queued"
  /\ sending' = [sending EXCEPT ![id] = "failed"]
  /\ failed' = [failed EXCEPT ![id] = @ + 1]
  /\ UNCHANGED <<cmdCounter, kind, pending, timers, fed, echoed>>

\* and get-door-info withdraws what it has entered.
InfoSendFails(id) ==
  /\ kind[id] = "info" /\ sending[id] = "queued"
  /\ sending' = [sending EXCEPT ![id] = "failed"]
  /\ pending' = pending \ {id}
  /\ timers' = timers \ {id}
  /\ failed' = [failed EXCEPT ![id] = @ + 1]
  /\ UNCHANGED <<cmdCounter, kind, fed, echoed>>

SendFails(id) == CommandSendFails(id) \/ InfoSendFails(id)

-----------------------------------------------------------------------------
(* Answers                                                                 *)

\* Whether its request is pending or not, a FEEDBACK is broadcast to every page,
\* the one that asked included.
Broadcast(id) == echoed' = [echoed EXCEPT ![id] = @ \cup {sending[id]}]

\* Mutant: the timer of an answered request goes on.
FeedbackKeepsTimer(id) ==
  /\ sending[id] \in {"transmitted", "sent"}
  /\ id \in pending
  /\ pending' = pending \ {id}
  /\ fed' = [fed EXCEPT ![id] = @ + 1]
  /\ Broadcast(id)
  /\ UNCHANGED <<cmdCounter, kind, sending, timers, failed>>

\* A FEEDBACK for a pending request: its page is answered, and the request is
\* forgotten together with its timer.  The datagram may be late or a duplicate.
Feedback(id) ==
  /\ sending[id] \in {"transmitted", "sent"}
  /\ id \in pending
  /\ pending' = pending \ {id}
  /\ timers' = timers \ {id}
  /\ fed' = [fed EXCEPT ![id] = @ + 1]
  /\ Broadcast(id)
  /\ UNCHANGED <<cmdCounter, kind, sending, failed>>

\* A FEEDBACK that nobody waits for, yet or any more, is broadcast all the same.
StrayFeedback(id) ==
  /\ sending[id] \in {"transmitted", "sent"}
  /\ id \notin pending
  /\ Broadcast(id)
  /\ UNCHANGED <<cmdCounter, kind, sending, pending, timers, fed, failed>>

\* Mutant: the request is not forgotten at its timeout.
TimeoutKeepsEntry(id) ==
  /\ id \in timers
  /\ timers' = timers \ {id}
  /\ failed' = [failed EXCEPT ![id] = @ + 1]
  /\ UNCHANGED <<cmdCounter, kind, sending, pending, fed, echoed>>

\* PENDING_TIMEOUT_MS have passed.
Timeout(id) ==
  /\ id \in timers
  /\ timers' = timers \ {id}
  /\ pending' = pending \ {id}
  /\ failed' = [failed EXCEPT ![id] = @ + 1]
  /\ UNCHANGED <<cmdCounter, kind, sending, fed, echoed>>

Next ==
  \/ \E k \in Kinds : Request(k)
  \/ \E id \in CmdIds :
       \/ Transmit(id) \/ Sent(id) \/ SendFails(id)
       \/ Feedback(id) \/ StrayFeedback(id) \/ Timeout(id)

Spec == Init /\ [][Next]_vars

\* Node ends every send and fires every timer; pages and the hub may be silent.
FairSpec ==
  /\ Spec
  /\ \A id \in CmdIds :
       /\ WF_vars(Transmit(id) \/ SendFails(id))
       /\ WF_vars(Sent(id))
       /\ WF_vars(Timeout(id))

-----------------------------------------------------------------------------
(* Properties                                                              *)

\* The counter, the tables and the counts of answers have their types.
TypeOK ==
  /\ cmdCounter \in 1 .. MaxCmdId + 1
  /\ kind \in [CmdIds -> Kinds \cup {"none"}]
  /\ sending \in [CmdIds -> {"unused", "queued", "transmitted", "sent", "failed"}]
  /\ pending \subseteq CmdIds /\ timers \subseteq CmdIds
  /\ fed \in [CmdIds -> Nat] /\ failed \in [CmdIds -> Nat]
  /\ echoed \in [CmdIds -> SUBSET {"transmitted", "sent"}]

\* The answers that are addressed to the page of a request: one at most, however
\* a late or repeated FEEDBACK, the timer and the callback of the send race.  Only
\* get-door-info may say twice that it failed, when its send fails after its
\* timeout (a slow lookup of the hub's name).
OneAnswer ==
  \A id \in CmdIds :
    \/ fed[id] + failed[id] =< 1
    \/ kind[id] = "info" /\ sending[id] = "failed" /\ fed[id] = 0 /\ failed[id] = 2

\* No page gets two contradicting verdicts, as far as the bridge prevents it: it is
\* addressed once, and what it hears by broadcast turns from a failure to the
\* FEEDBACK but not back.  A page that asked with send-command hears the FEEDBACK
\* twice (addressed, and broadcast with its id), and one that was told "No FEEDBACK
\* from hub" may hear it still; but when the bridge tells a failure, every FEEDBACK
\* it has broadcast had overtaken the callback of the send.
OneVerdict ==
  [][/\ OneAnswer'
     /\ \A id \in CmdIds : failed'[id] # failed[id] => "sent" \notin echoed[id]]_vars

\* The pending map does not leak and no timer outlives its request: an entry
\* has a running timer, and a running timer an entry that nobody answered.
EntriesTimed ==
  /\ pending = timers
  /\ \A id \in pending : fed[id] = 0 /\ failed[id] = 0

\* Every request of a page is answered, with the FEEDBACK or with a failure,
\* also when the FEEDBACK is lost or comes before the request is entered.
RequestAnswered ==
  \A id \in CmdIds : kind[id] # "none" ~> fed[id] + failed[id] > 0

-----------------------------------------------------------------------------
(* The inductive invariant of DoorServer_proofs                            *)

\* Per request: what was told so far, by how far its send is.
VerdictSoFar ==
  \A id \in CmdIds :
    LET told == fed[id] + failed[id]
        open == id \in pending
    IN  /\ sending[id] = "unused" => ~ open /\ told = 0
        /\ kind[id] = "command" =>
             /\ sending[id] \in {"queued", "transmitted"} => ~ open /\ told = 0
             /\ sending[id] = "sent" => told = IF open THEN 0 ELSE 1
             /\ sending[id] = "failed" => ~ open /\ told = 1
        /\ kind[id] = "info" =>
             /\ sending[id] # "failed" => told = IF open THEN 0 ELSE 1
             /\ sending[id] \in {"queued", "failed"} => fed[id] = 0
             /\ sending[id] = "failed" => ~ open /\ told \in {1, 2}
        /\ (kind[id] = "none") <=> (sending[id] = "unused")
        /\ open \/ sending[id] # "sent" => "sent" \notin echoed[id]

IdsTaken == \A id \in CmdIds : (sending[id] = "unused") <=> (id >= cmdCounter)

VerdictInv == TypeOK /\ EntriesTimed /\ VerdictSoFar /\ IdsTaken
=============================================================================
