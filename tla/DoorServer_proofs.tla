-------------------------- MODULE DoorServer_proofs --------------------------
(* Theorems about DoorServer: for any number of requests, each page gets    *)
(* one verdict, and the pending map and the timers go together.             *)
EXTENDS DoorServer, TLAPS

(* VerdictInv is inductive.                                                *)
LEMMA InitVerdict == ASSUME Init PROVE VerdictInv
  <1>1. CmdIds \subseteq Nat \ {0}
    BY ServerAssumption DEF CmdIds
  <1>2. TypeOK
    BY ServerAssumption DEF Init, TypeOK
  <1>3. EntriesTimed /\ VerdictSoFar
    BY DEF Init, EntriesTimed, VerdictSoFar
  <1>4. IdsTaken
    BY <1>1 DEF Init, IdsTaken
  <1> QED BY <1>2, <1>3, <1>4 DEF VerdictInv

(* A request starts a command that was not under way in any respect.       *)
LEMMA RequestKeeps ==
  ASSUME VerdictInv, NEW k \in Kinds, Request(k)
  PROVE  VerdictInv'
  <1> DEFINE c == cmdCounter
  <1>1. c \in CmdIds /\ c \in Nat /\ sending[c] = "unused" /\ c \notin pending
        /\ fed[c] = 0 /\ failed[c] = 0
    BY ServerAssumption DEF VerdictInv, VerdictSoFar, IdsTaken, TypeOK, Request, CmdIds
  <1>2. TypeOK'
    BY ServerAssumption, <1>1 DEF VerdictInv, TypeOK, Request, CmdIds, Kinds
  <1>3. EntriesTimed'
    BY <1>1 DEF VerdictInv, EntriesTimed, TypeOK, Request
  <1>4. VerdictSoFar'
    BY <1>1 DEF VerdictInv, VerdictSoFar, TypeOK, Request, Kinds
  <1>5. IdsTaken'
    BY ServerAssumption, <1>1 DEF VerdictInv, IdsTaken, TypeOK, Request, CmdIds
  <1> QED BY <1>2, <1>3, <1>4, <1>5 DEF VerdictInv

(* The progress of a send.                                                 *)
LEMMA SendKeeps ==
  ASSUME VerdictInv, NEW id \in CmdIds, Transmit(id) \/ Sent(id) \/ SendFails(id)
  PROVE  VerdictInv'
  <1>1. CASE Transmit(id)
    <2>1. TypeOK' /\ EntriesTimed' /\ IdsTaken'
      BY <1>1 DEF VerdictInv, TypeOK, EntriesTimed, IdsTaken, Transmit
    <2>2. VerdictSoFar'
      BY <1>1 DEF VerdictInv, VerdictSoFar, TypeOK, Transmit
    <2> QED BY <2>1, <2>2 DEF VerdictInv
  <1>2. CASE Sent(id)
    <2>1. TypeOK' /\ IdsTaken'
      BY <1>2 DEF VerdictInv, TypeOK, IdsTaken, Sent
    <2>2. EntriesTimed'
      BY <1>2 DEF VerdictInv, VerdictSoFar, EntriesTimed, TypeOK, Sent
    <2>3. VerdictSoFar'
      BY <1>2 DEF VerdictInv, VerdictSoFar, TypeOK, Sent, Kinds
    <2> QED BY <2>1, <2>2, <2>3 DEF VerdictInv
  <1>3. CASE CommandSendFails(id)
    <2>1. TypeOK' /\ EntriesTimed' /\ IdsTaken'
      BY <1>3 DEF VerdictInv, VerdictSoFar, TypeOK, EntriesTimed, IdsTaken, CommandSendFails
    <2>2. VerdictSoFar'
      BY <1>3 DEF VerdictInv, VerdictSoFar, TypeOK, CommandSendFails, Kinds
    <2> QED BY <2>1, <2>2 DEF VerdictInv
  <1>4. CASE InfoSendFails(id)
    <2>1. TypeOK' /\ EntriesTimed' /\ IdsTaken'
      BY <1>4 DEF VerdictInv, TypeOK, EntriesTimed, IdsTaken, InfoSendFails
    <2>2. VerdictSoFar'
      BY <1>4 DEF VerdictInv, VerdictSoFar, TypeOK, InfoSendFails, Kinds
    <2> QED BY <2>1, <2>2 DEF VerdictInv
  <1> QED BY <1>1, <1>2, <1>3, <1>4 DEF SendFails

(* The two ways an entry is answered.                                      *)
LEMMA AnswerKeeps ==
  ASSUME VerdictInv, NEW id \in CmdIds, Feedback(id) \/ Timeout(id)
  PROVE  VerdictInv'
  <1>1. id \in pending /\ fed[id] = 0 /\ failed[id] = 0
    BY DEF VerdictInv, EntriesTimed, Feedback, Timeout
  <1>2. TypeOK' /\ EntriesTimed' /\ IdsTaken'
    BY <1>1 DEF VerdictInv, TypeOK, EntriesTimed, IdsTaken, Feedback, Timeout, Broadcast
  <1>3. VerdictSoFar'
    BY <1>1 DEF VerdictInv, VerdictSoFar, TypeOK, Feedback, Timeout, Broadcast, Kinds
  <1> QED BY <1>2, <1>3 DEF VerdictInv

(* A stray FEEDBACK is none of an open request.                            *)
LEMMA StrayKeeps ==
  ASSUME VerdictInv, NEW id \in CmdIds, StrayFeedback(id)
  PROVE  VerdictInv'
  <1>1. TypeOK' /\ EntriesTimed' /\ IdsTaken'
    BY DEF VerdictInv, TypeOK, EntriesTimed, IdsTaken, StrayFeedback, Broadcast
  <1>2. VerdictSoFar'
    BY DEF VerdictInv, VerdictSoFar, TypeOK, StrayFeedback, Broadcast
  <1> QED BY <1>1, <1>2 DEF VerdictInv

LEMMA NextVerdict == ASSUME VerdictInv, [Next]_vars PROVE VerdictInv'
  <1>1. CASE UNCHANGED vars
    BY <1>1 DEF vars, VerdictInv, TypeOK, EntriesTimed, VerdictSoFar, IdsTaken
  <1> QED BY <1>1, RequestKeeps, SendKeeps, AnswerKeeps, StrayKeeps DEF Next

(* What VerdictInv says of a request, bounds its answers.                 *)
LEMMA AnswerIsOne == ASSUME VerdictInv PROVE OneAnswer
  <1> SUFFICES ASSUME NEW id \in CmdIds
               PROVE \/ fed[id] + failed[id] =< 1
                     \/ /\ kind[id] = "info" /\ sending[id] = "failed"
                        /\ fed[id] = 0 /\ failed[id] = 2
    BY DEF OneAnswer
  <1>1. fed[id] \in Nat /\ failed[id] \in Nat
    BY DEF VerdictInv, TypeOK
  <1>2. CASE kind[id] = "none"
    BY <1>1, <1>2 DEF VerdictInv, VerdictSoFar
  <1>3. CASE kind[id] = "command"
    BY <1>1, <1>3 DEF VerdictInv, VerdictSoFar, TypeOK
  <1>4. CASE kind[id] = "info"
    BY <1>1, <1>4 DEF VerdictInv, VerdictSoFar
  <1> QED BY <1>2, <1>3, <1>4 DEF VerdictInv, TypeOK, Kinds

(* A failure is told for a request that is open, or whose send fails.      *)
LEMMA FailureIsFirst ==
  ASSUME VerdictInv, [Next]_vars, NEW id \in CmdIds, failed'[id] # failed[id]
  PROVE  "sent" \notin echoed[id]
  <1>1. PICK c \in CmdIds : SendFails(c) \/ Timeout(c)
    BY DEF Next, vars, Request, Transmit, Sent, Feedback, StrayFeedback
  <1>2. c = id
    BY <1>1 DEF VerdictInv, TypeOK, SendFails, CommandSendFails, InfoSendFails, Timeout
  <1>3. id \in pending \/ sending[id] # "sent"
    BY <1>1, <1>2 DEF VerdictInv, EntriesTimed, SendFails, CommandSendFails, InfoSendFails,
       Timeout
  <1> QED BY <1>3 DEF VerdictInv, VerdictSoFar

LEMMA AlwaysVerdict == Spec => []VerdictInv
  BY InitVerdict, NextVerdict, PTL DEF Spec

\* The bridge's counter, map, timers and counts of answers keep their types
\* (sendCommand, the message handler and the timers of door_server.js).
THEOREM TypeCorrect == Spec => []TypeOK
  BY AlwaysVerdict, PTL DEF VerdictInv

\* For any number of requests: a page is addressed once, save for the second failure
\* of a get-door-info whose send fails after its timeout, and never with a failure
\* when the FEEDBACK came and was broadcast after the callback of the send.
THEOREM VerdictOnce == Spec => OneVerdict
  <1>1. VerdictInv /\ VerdictInv' /\ [Next]_vars
          => [/\ OneAnswer'
              /\ \A id \in CmdIds : failed'[id] # failed[id] => "sent" \notin echoed[id]]_vars
    <2>1. VerdictInv' => OneAnswer'  BY AnswerIsOne, PTL
    <2> QED  BY <2>1, FailureIsFirst
  <1> QED BY <1>1, AlwaysVerdict, PTL DEF Spec, OneVerdict

\* Every entry of the pending map has a running timer, and every running timer
\* belongs to an entry that was not answered: nothing leaks or fires too late.
THEOREM EntriesExpire == Spec => []EntriesTimed
  BY AlwaysVerdict, PTL DEF VerdictInv
=============================================================================
