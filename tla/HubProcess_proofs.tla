-------------------------- MODULE HubProcess_proofs --------------------------
(***************************************************************************)
(* Proofs about WebhookQueue and about HubProcess, which is composed of it  *)
(* and of HistoryRing, for any messages, any size of the ring and any       *)
(* bounds: what was accepted for the webhook is delivered; every step of    *)
(* the process is a step, or none, of each of the two, so that their        *)
(* theorems are theorems of the process; and one thread at a time operates  *)
(* the lock.                                                                *)
(***************************************************************************)
EXTENDS HubProcess, HistoryRing_proofs

-----------------------------------------------------------------------------
(* Sequences                                                               *)

\* The beginning of a concatenation.
LEMMA PrefixOfConcat ==
  ASSUME NEW S, NEW s \in Seq(S), NEW t \in Seq(S)
  PROVE  /\ Len(s) <= Len(s \o t)
         /\ SubSeq(s \o t, 1, Len(s)) = s
<1>1. Len(s) \in Nat /\ Len(t) \in Nat /\ Len(s \o t) = Len(s) + Len(t)
  BY LenProperties, ConcatProperties
<1>2. CASE s = <<>>
  <2>1. Len(s) = 0
    BY <1>2
  <2> QED  BY <1>1, <1>2, <2>1, SubSeqEmpty
<1>3. CASE s # <<>>
  <2>1. 1 \in 1 .. Len(s) /\ Len(s) \in 1 .. Len(s)
    BY <1>1, <1>3, EmptySeq
  <2>2. SubSeq(s \o t, 1, Len(s)) = SubSeq(s, 1, Len(s))
    BY <2>1, SubSeqOfConcat1
  <2> QED  BY <1>1, <2>2, SubSeqFull
<1> QED  BY <1>2, <1>3

\* A prefix stays one when its sequence grows.
LEMMA PrefixOfAppend ==
  ASSUME NEW S, NEW s \in Seq(S), NEW n \in 0 .. Len(s), NEW x \in S
  PROVE  SubSeq(Append(s, x), 1, n) = SubSeq(s, 1, n)
<1>1. Len(s) \in Nat /\ Append(s, x) = s \o <<x>> /\ <<x>> \in Seq(S)
  BY LenProperties, AppendIsConcat
<1>2. CASE n = 0
  BY <1>2, SubSeqEmpty
<1>3. CASE n # 0
  <2>1. 1 \in 1 .. Len(s) /\ n \in 1 .. Len(s)
    BY <1>1, <1>3
  <2> QED  BY <1>1, <2>1, SubSeqOfConcat1
<1> QED  BY <1>2, <1>3

\* The first element may be taken from a queue to what comes before it.
LEMMA ShiftHead ==
  ASSUME NEW S, NEW s \in Seq(S), NEW q \in Seq(S), q # <<>>
  PROVE  s \o q = (s \o <<Head(q)>>) \o Tail(q)
<1>1. Head(q) \in S /\ Tail(q) \in Seq(S) /\ <<Head(q)>> \in Seq(S)
  BY HeadTailProperties
<1>2. q = <<Head(q)>> \o Tail(q)
  BY <1>1
<1> QED  BY <1>1, <1>2, ConcatAssociative

-----------------------------------------------------------------------------
(* The webhook queue                                                       *)

Slips == Messages \cup {Failed}

LEMMA HookInitInv == HookInit => HookInv
<1>1. /\ <<>> \in Seq(Messages) /\ <<>> \in Seq(Messages \cup {Failed})
  BY EmptySeq
<1>2. <<>> \o <<>> = <<>>
  BY <1>1, ConcatEmptySeq
<1> QED  BY <1>1, <1>2 DEF HookInit, HookInv, HookTypeOK, InOrder

LEMMA HookSendKeeps ==
  ASSUME NEW m \in Messages, HookInv, HookSend(m)
  PROVE  HookInv'
<1>1. CASE UNCHANGED hookVars
  BY <1>1 DEF hookVars, HookInv, HookTypeOK, InOrder
<1>2. CASE ~ UNCHANGED hookVars
  <2>1. /\ running
        /\ worker' = Signalled
        /\ UNCHANGED <<running, hand, sent>>
    BY <1>2 DEF HookSend
  <2>2. PICK copy \in Slips :
          queue' = Append(queue, copy) /\ accepted' = Append(accepted, copy)
    BY <1>2 DEF HookSend, Slips
  <2>3. /\ queue \in Seq(Slips) /\ accepted \in Seq(Slips)
        /\ sent \in Seq(Slips) /\ sent \in Seq(Messages) /\ hand \in Slips
    BY SeqMonotonic DEF HookInv, HookTypeOK, Slips
  <2>4. queue' \in Seq(Slips) /\ accepted' \in Seq(Slips)
    BY <2>2, <2>3, AppendProperties
  <2>5. HookTypeOK'
    BY <2>1, <2>3, <2>4 DEF HookInv, HookTypeOK, Signalled, Slips
  <2>6. <<copy>> \in Seq(Slips) /\ <<hand>> \in Seq(Slips)
    BY <2>3
  <2>7. queue' = queue \o <<copy>> /\ accepted' = accepted \o <<copy>>
    BY <2>2, <2>3, AppendIsConcat
  <2>8. worker' \in {"none", "ready", "asleep"} => accepted' = sent' \o queue'
    <3> SUFFICES ASSUME worker' \in {"none", "ready", "asleep"}
                 PROVE  accepted' = sent' \o queue'
      OBVIOUS
    <3>1. accepted = sent \o queue
      BY <2>1 DEF Signalled, HookInv, InOrder
    <3>2. (sent \o queue) \o <<copy>> = sent \o (queue \o <<copy>>)
      BY <2>3, <2>6, ConcatAssociative
    <3> QED  BY <2>1, <2>7, <3>1, <3>2
  <2>9. worker' = "posting" => accepted' = (sent' \o <<hand'>>) \o queue'
    <3> SUFFICES ASSUME worker' = "posting"
                 PROVE  accepted' = (sent' \o <<hand'>>) \o queue'
      OBVIOUS
    <3> DEFINE s == sent \o <<hand>>
    <3>1. accepted = s \o queue
      BY <2>1 DEF Signalled, HookInv, InOrder
    <3>2. s \in Seq(Slips)
      BY <2>3, <2>6, ConcatProperties
    <3> HIDE DEF s
    <3>3. (s \o queue) \o <<copy>> = s \o (queue \o <<copy>>)
      BY <2>3, <2>6, <3>2, ConcatAssociative
    <3> QED  BY <2>1, <2>7, <3>1, <3>3 DEF s
  <2>10. worker' \in {"ended", "joined"} =>
           /\ Len(sent') < Len(accepted')
           /\ sent' = SubSeq(accepted', 1, Len(sent'))
           /\ accepted'[Len(sent') + 1] = Failed
    <3> SUFFICES ASSUME worker' \in {"ended", "joined"}
                 PROVE  /\ Len(sent') < Len(accepted')
                        /\ sent' = SubSeq(accepted', 1, Len(sent'))
                        /\ accepted'[Len(sent') + 1] = Failed
      OBVIOUS
    <3>1. /\ Len(sent) < Len(accepted)
          /\ sent = SubSeq(accepted, 1, Len(sent))
          /\ accepted[Len(sent) + 1] = Failed
      BY <2>1 DEF Signalled, HookInv, InOrder
    <3>2. Len(sent) \in Nat /\ Len(accepted) \in Nat
      BY <2>3, LenProperties
    <3>3. /\ Len(accepted') = Len(accepted) + 1
          /\ \A i \in 1 .. Len(accepted) : accepted'[i] = accepted[i]
      BY <2>2, <2>3, AppendProperties
    <3>4. Len(sent) \in 0 .. Len(accepted) /\ Len(sent) + 1 \in 1 .. Len(accepted)
      BY <3>1, <3>2
    <3>5. SubSeq(accepted', 1, Len(sent)) = SubSeq(accepted, 1, Len(sent))
      BY <2>2, <2>3, <3>4, PrefixOfAppend
    <3> QED  BY <2>1, <3>1, <3>2, <3>3, <3>4, <3>5
  <2> QED  BY <2>5, <2>8, <2>9, <2>10 DEF HookInv, InOrder
<1> QED  BY <1>1, <1>2

LEMMA HookDequeueKeeps == HookInv /\ HookDequeue => HookInv'
<1> SUFFICES ASSUME HookInv, HookDequeue PROVE HookInv'
  OBVIOUS
<1>1. /\ queue \in Seq(Slips) /\ accepted \in Seq(Slips) /\ sent \in Seq(Slips)
      /\ accepted = sent \o queue
      /\ worker = "ready" /\ UNCHANGED <<running, accepted, sent>>
  BY SeqMonotonic DEF HookInv, HookTypeOK, InOrder, HookDequeue, Slips
<1>2. CASE queue = <<>>
  <2>1. sent \o queue = sent
    BY <1>1, <1>2, ConcatEmptySeq
  <2> QED  BY <1>1, <1>2, <2>1 DEF HookDequeue, HookInv, HookTypeOK, InOrder
<1>3. CASE queue # <<>>
  <2>1. Head(queue) \in Slips /\ Tail(queue) \in Seq(Slips)
    BY <1>1, <1>3, HeadTailProperties
  <2>2. /\ queue' = Tail(queue) /\ hand' = Head(queue)
        /\ worker' = IF Head(queue) = Failed THEN "ended" ELSE "posting"
    BY <1>3 DEF HookDequeue
  <2>3. HookTypeOK'
    BY <1>1, <2>1, <2>2 DEF HookInv, HookTypeOK, Slips
  <2>4. accepted = (sent \o <<Head(queue)>>) \o Tail(queue)
    BY <1>1, <1>3, ShiftHead
  <2>5. CASE Head(queue) = Failed
    <3>1. Len(sent) \in Nat /\ Len(queue) \in Nat \ {0}
      BY <1>1, <1>3, LenProperties, EmptySeq
    <3>2. /\ Len(accepted) = Len(sent) + Len(queue)
          /\ accepted[Len(sent) + 1] = queue[1]
      <4>1. Len(sent) + 1 \in 1 .. Len(sent) + Len(queue)
        BY <3>1
      <4>2. accepted[Len(sent) + 1] =
              IF Len(sent) + 1 <= Len(sent) THEN sent[Len(sent) + 1]
              ELSE queue[(Len(sent) + 1) - Len(sent)]
        BY <1>1, <4>1, ConcatProperties
      <4> QED  BY <1>1, <3>1, <4>2, ConcatProperties
    <3>3. sent = SubSeq(accepted, 1, Len(sent))
      BY <1>1, PrefixOfConcat
    <3>4. queue[1] = Failed
      BY <1>1, <2>5
    <3>5. worker' = "ended"
      BY <2>2, <2>5
    <3>6. /\ Len(sent) < Len(accepted)
          /\ accepted[Len(sent) + 1] = Failed
      BY <3>1, <3>2, <3>4
    <3> QED  BY <1>1, <2>3, <3>3, <3>5, <3>6 DEF HookInv, InOrder
  <2>6. CASE Head(queue) # Failed
    BY <1>1, <2>2, <2>3, <2>4, <2>6 DEF HookInv, InOrder
  <2> QED  BY <2>5, <2>6
<1> QED  BY <1>2, <1>3

LEMMA HookPostedKeeps == HookInv /\ HookPosted => HookInv'
<1> SUFFICES ASSUME HookInv, HookPosted PROVE HookInv'
  OBVIOUS
<1>1. /\ sent \in Seq(Messages) /\ hand \in Messages
      /\ accepted = (sent \o <<hand>>) \o queue
      /\ worker = "posting"
  BY DEF HookInv, HookTypeOK, InOrder, HookPosted
<1>2. sent' = sent \o <<hand>> /\ sent' \in Seq(Messages)
  BY <1>1, AppendIsConcat, AppendProperties DEF HookPosted
<1> QED
  BY <1>1, <1>2 DEF HookPosted, HookInv, HookTypeOK, InOrder

LEMMA HookRestKeeps ==
  HookInv /\ (HookStart \/ HookSpuriousWakeup \/ HookStop \/ HookJoin) => HookInv'
<1> SUFFICES ASSUME HookInv,
                    HookStart \/ HookSpuriousWakeup \/ HookStop \/ HookJoin
             PROVE  HookInv'
  OBVIOUS
<1>1. CASE HookStart
  BY <1>1 DEF HookStart, HookInv, HookTypeOK, InOrder
<1>2. CASE HookSpuriousWakeup
  BY <1>2 DEF HookSpuriousWakeup, HookInv, HookTypeOK, InOrder
<1>3. CASE HookStop
  BY <1>3 DEF HookStop, Signalled, HookInv, HookTypeOK, InOrder
<1>4. CASE HookJoin
  BY <1>4, EmptySeq DEF HookJoin, HookInv, HookTypeOK, InOrder
<1> QED  BY <1>1, <1>2, <1>3, <1>4

\* HookInv is an inductive invariant of WebhookQueue.
LEMMA HookInductive == HookSpec => []HookInv
<1>1. HookInv /\ [HookNext]_hookVars => HookInv'
  <2> SUFFICES ASSUME HookInv, [HookNext]_hookVars PROVE HookInv'
    OBVIOUS
  <2>1. CASE \E m \in Messages : HookSend(m)  BY <2>1, HookSendKeeps
  <2>2. CASE HookDequeue  BY <2>2, HookDequeueKeeps
  <2>3. CASE HookPosted   BY <2>3, HookPostedKeeps
  <2>4. CASE HookStart \/ HookSpuriousWakeup \/ HookStop \/ HookJoin
    BY <2>4, HookRestKeeps
  <2>5. CASE UNCHANGED hookVars
    BY <2>5 DEF hookVars, HookInv, HookTypeOK, InOrder
  <2> QED  BY <2>1, <2>2, <2>3, <2>4, <2>5 DEF HookNext, HookWork
<1> QED  BY HookInitInv, <1>1, PTL DEF HookSpec

LEMMA HookInvDelivers == HookInv => AcceptedAreDelivered
<1> SUFFICES ASSUME HookInv PROVE AcceptedAreDelivered
  OBVIOUS
<1>1. /\ queue \in Seq(Slips) /\ sent \in Seq(Slips) /\ hand \in Slips
      /\ accepted \in Seq(Slips) /\ Len(sent) \in Nat
  BY SeqMonotonic, LenProperties DEF HookInv, HookTypeOK, Slips
<1>2. CASE worker \in {"none", "ready", "asleep"}
  <2>1. accepted = sent \o queue
    BY <1>2 DEF HookInv, InOrder
  <2> QED  BY <1>1, <1>2, <2>1, PrefixOfConcat DEF AcceptedAreDelivered
<1>3. CASE worker = "posting"
  <2>1. <<hand>> \in Seq(Slips)
    BY <1>1
  <2>2. <<hand>> \o queue \in Seq(Slips)
    BY <1>1, <2>1, ConcatProperties
  <2>3. accepted = sent \o (<<hand>> \o queue)
    <3>1. accepted = (sent \o <<hand>>) \o queue
      BY <1>3 DEF HookInv, InOrder
    <3>2. (sent \o <<hand>>) \o queue = sent \o (<<hand>> \o queue)
      BY <1>1, <2>1, ConcatAssociative
    <3> QED  BY <3>1, <3>2
  <2> QED  BY <1>1, <1>3, <2>2, <2>3, PrefixOfConcat DEF AcceptedAreDelivered
<1>4. CASE worker \in {"ended", "joined"}
  <2>1. CASE accepted = sent
    BY <1>1, <2>1, SubSeqFull DEF AcceptedAreDelivered
  <2>2. CASE accepted # sent
    <3>1. /\ Len(sent) < Len(accepted)
          /\ sent = SubSeq(accepted, 1, Len(sent))
          /\ accepted[Len(sent) + 1] = Failed
      BY <1>4, <2>2 DEF HookInv, InOrder
    <3> QED  BY <1>1, <3>1, LenProperties DEF AcceptedAreDelivered
  <2> QED  BY <2>1, <2>2
<1> QED  BY <1>2, <1>3, <1>4 DEF HookInv, HookTypeOK

\* Messages are posted in order, none twice; and the shutdown returns with all of
\* them posted, unless a copy failed.  For every way the queue is used.
THEOREM QueueDelivers == HookSpec => []AcceptedAreDelivered
<1> QED  BY HookInvDelivers, HookInductive, PTL

-----------------------------------------------------------------------------
(* The process is made of its components                                   *)

\* A step of the process is a step of the history, or leaves it alone.
LEMMA StepsOfRing == ProcessNext => [Next]_vars
<1> SUFFICES ASSUME ProcessNext, ~ UNCHANGED vars PROVE Next
  OBVIOUS
<1>1. CASE MainGoesOn
  BY <1>1
  DEF MainGoesOn, StartWebhook, StartHttp, StartUdp, JoinUdp, StopHook, JoinHook,
      StopHttp, JoinHttp, OperationDone, ring
<1>2. CASE CliHistory
  BY <1>2, ProcessAssumption DEF CliHistory, Next
<1>3. CASE CliStatus \/ CliQuit \/ EnterOperation \/ EnterInvalid \/ EnterExit
  BY <1>3
  DEF CliStatus, CliQuit, EnterOperation, EnterInvalid, EnterExit, ring
<1>4. CASE \E e \in HubEvents : ListenerRecord(e)
  BY <1>4 DEF ListenerRecord, Next
<1>5. CASE ListenerSelect \/ ListenerDrained \/ ListenerChecked
  BY <1>5 DEF ListenerSelect, ListenerDrained, ListenerChecked, ring
<1>6. CASE ClientConnects \/ AcceptFails \/ ServerReceive \/ ServerAnswer
  BY <1>6 DEF ClientConnects, AcceptFails, ServerReceive, ServerAnswer, ring
<1>7. CASE HookWorks
  BY <1>7 DEF HookWorks, ring
<1> QED
  BY <1>1, <1>2, <1>3, <1>4, <1>5, <1>6, <1>7 DEF ProcessNext, Terminal

\* A step of the process is a step of the webhook queue, or leaves it alone.
LEMMA StepsOfHook == ProcessNext => [HookNext]_hookVars
<1> SUFFICES ASSUME ProcessNext, ~ UNCHANGED hookVars PROVE HookNext
  OBVIOUS
<1>1. CASE StartWebhook  BY <1>1 DEF StartWebhook, HookNext
<1>2. CASE StopHook      BY <1>2 DEF StopHook, HookNext
<1>3. CASE JoinHook      BY <1>3 DEF JoinHook, HookNext
<1>4. CASE CliStatus
  BY <1>4, ProcessAssumption DEF CliStatus, HookNext
<1>5. CASE CliHistory
  <2>1. PICK m \in {"retrieved", "empty"} : HookSend(m)
    BY <1>5 DEF CliHistory
  <2> QED  BY <2>1, ProcessAssumption DEF HookNext
<1>6. CASE HookWorks     BY <1>6 DEF HookWorks, HookNext
<1>7. CASE StartHttp \/ StartUdp \/ JoinUdp \/ StopHttp \/ JoinHttp \/ OperationDone
  BY <1>7
  DEF StartHttp, StartUdp, JoinUdp, StopHttp, JoinHttp, OperationDone
<1>8. CASE CliQuit \/ EnterOperation \/ EnterInvalid \/ EnterExit
  BY <1>8 DEF CliQuit, EnterOperation, EnterInvalid, EnterExit
<1>9. CASE (\E e \in HubEvents : ListenerRecord(e)) \/ ListenerSelect \/ ListenerDrained \/ ListenerChecked
  BY <1>9 DEF ListenerRecord, ListenerSelect, ListenerDrained, ListenerChecked
<1>10. CASE ClientConnects \/ AcceptFails \/ ServerReceive \/ ServerAnswer
  BY <1>10 DEF ClientConnects, AcceptFails, ServerReceive, ServerAnswer
<1> QED
  BY <1>1, <1>2, <1>3, <1>4, <1>5, <1>6, <1>7, <1>8, <1>9, <1>10
  DEF ProcessNext, MainGoesOn, Terminal

\* The process implements its event history,
THEOREM ProcessKeepsHistory == ProcessSpec => Spec
<1>1. ProcessInit => Init  BY DEF ProcessInit
<1>2. [ProcessNext]_processVars => [Next]_vars
  BY StepsOfRing DEF processVars, ring
<1> QED  BY <1>1, <1>2, PTL DEF ProcessSpec, Spec

\* and its webhook queue.
THEOREM ProcessKeepsQueue == ProcessSpec => HookSpec
<1>1. ProcessInit => HookInit  BY DEF ProcessInit
<1>2. [ProcessNext]_processVars => [HookNext]_hookVars
  BY StepsOfHook DEF processVars
<1> QED  BY <1>1, <1>2, PTL DEF ProcessSpec, HookSpec

\* The terminal always gets the oldest events that the ring holds, in order,
\* whatever the listener writes in between.
THEOREM ProcessReads == ProcessSpec => ReadsOldest
BY ProcessKeepsHistory, ReadsFromTheOldest, PTL

\* What the terminal reported is posted in order and, when the hub goes on after
\* the shutdown of the webhook, completely.
THEOREM ProcessDelivers == ProcessSpec => []AcceptedAreDelivered
BY ProcessKeepsQueue, QueueDelivers, PTL

-----------------------------------------------------------------------------
(* The lock                                                                *)

LEMMA ServerInit == ProcessInit => ServerGone
BY DEF ProcessInit, ServerGone

LEMMA ServerKeeps == ServerGone /\ [ProcessNext]_processVars => ServerGone'
<1> SUFFICES ASSUME ServerGone, [ProcessNext]_processVars PROVE ServerGone'
  OBVIOUS
<1>1. CASE StartWebhook \/ StartHttp \/ StartUdp
  BY <1>1 DEF StartWebhook, StartHttp, StartUdp, Goes, ServerGone
<1>2. CASE JoinUdp \/ StopHook \/ JoinHook
  BY <1>2 DEF JoinUdp, StopHook, JoinHook, Goes, ServerGone
<1>3. CASE StopHttp \/ JoinHttp \/ OperationDone
  BY <1>3 DEF StopHttp, JoinHttp, OperationDone, Goes, ServerGone
<1>4. CASE Terminal
  BY <1>4
  DEF Terminal, CliStatus, CliHistory, CliQuit, EnterOperation, EnterInvalid,
      EnterExit, Goes, threads, ServerGone
<1>5. CASE (\E e \in HubEvents : ListenerRecord(e)) \/ ListenerSelect \/ ListenerDrained \/ ListenerChecked
  BY <1>5 DEF ListenerRecord, ListenerSelect, ListenerDrained, ListenerChecked, ServerGone
<1>6. CASE ClientConnects \/ AcceptFails
  BY <1>6 DEF ClientConnects, AcceptFails, ServerGone
<1>7. CASE ServerReceive \/ ServerAnswer
  BY <1>7 DEF ServerReceive, ServerAnswer, NextClient, ServerGone
<1>8. CASE HookWorks \/ UNCHANGED processVars
  BY <1>8 DEF HookWorks, processVars, threads, ServerGone
<1> QED
  BY <1>1, <1>2, <1>3, <1>4, <1>5, <1>6, <1>7, <1>8 DEF ProcessNext, MainGoesOn

\* The HTTP server is gone before the second terminal moves the lock, however the
\* shutdown interleaves with a request that is being served.
THEOREM OneOperates == ProcessSpec => []OneOperator
<1>1. ServerGone => OneOperator  BY DEF ServerGone, OneOperator
<1> QED  BY <1>1, ServerInit, ServerKeeps, PTL DEF ProcessSpec

-----------------------------------------------------------------------------
(* Types                                                                   *)

ThreadsOK ==
  /\ main \in {"webhook", "http", "udp", "cli", "joinUdp", "stopHook", "joinHook",
               "stopHttp", "joinHttp", "number", "operate", "exit"}
  /\ numbered \in BOOLEAN /\ stopping \in BOOLEAN /\ serving \in BOOLEAN
  /\ listener \in {"off", "select", "drain", "check", "ended"}
  /\ server \in {"off", "accept", "recv", "operate", "command", "ended"}
  /\ events \in 0 .. MaxEvents

LEMMA ThreadsInit == ProcessInit => ThreadsOK
<1>1. 0 \in 0 .. MaxEvents
  BY ProcessAssumption
<1> QED  BY <1>1 DEF ProcessInit, ThreadsOK

LEMMA ThreadsKeep == ThreadsOK /\ [ProcessNext]_processVars => ThreadsOK'
<1> SUFFICES ASSUME ThreadsOK, [ProcessNext]_processVars PROVE ThreadsOK'
  OBVIOUS
<1>1. CASE StartWebhook \/ StartHttp \/ StartUdp
  BY <1>1 DEF StartWebhook, StartHttp, StartUdp, Goes, ThreadsOK
<1>2. CASE JoinUdp \/ StopHook \/ JoinHook
  BY <1>2 DEF JoinUdp, StopHook, JoinHook, Goes, ThreadsOK
<1>3. CASE StopHttp \/ JoinHttp \/ OperationDone
  BY <1>3 DEF StopHttp, JoinHttp, OperationDone, Goes, ThreadsOK
<1>4. CASE Terminal
  BY <1>4
  DEF Terminal, CliStatus, CliHistory, CliQuit, EnterOperation, EnterInvalid,
      EnterExit, Goes, threads, ThreadsOK
<1>5. CASE \E e \in HubEvents : ListenerRecord(e)
  BY <1>5, ProcessAssumption DEF ListenerRecord, ThreadsOK
<1>6. CASE ListenerSelect \/ ListenerDrained \/ ListenerChecked
  BY <1>6 DEF ListenerSelect, ListenerDrained, ListenerChecked, ThreadsOK
<1>7. CASE ClientConnects \/ AcceptFails \/ ServerReceive \/ ServerAnswer
  BY <1>7
  DEF ClientConnects, AcceptFails, ServerReceive, ServerAnswer, NextClient, ThreadsOK
<1>8. CASE HookWorks \/ UNCHANGED processVars
  BY <1>8 DEF HookWorks, processVars, threads, ThreadsOK
<1> QED
  BY <1>1, <1>2, <1>3, <1>4, <1>5, <1>6, <1>7, <1>8 DEF ProcessNext, MainGoesOn

\* Types of the process and of its components.
THEOREM ProcessTypeCorrect == ProcessSpec => []ProcessTypeOK
<1>1. HookInv => HookTypeOK  BY DEF HookInv
<1>2. ThreadsOK /\ TypeOK /\ HookTypeOK => ProcessTypeOK
  BY DEF ThreadsOK, ProcessTypeOK
<1>3. ProcessSpec => []ThreadsOK
  BY ThreadsInit, ThreadsKeep, PTL DEF ProcessSpec
<1> QED
  BY <1>1, <1>2, <1>3, ProcessKeepsHistory, RingTypeCorrect, ProcessKeepsQueue,
     HookInductive, PTL
=============================================================================
