---------------------------- MODULE WebhookQueue ----------------------------
(***************************************************************************)
(* The webhook queue (hal/src/system_webhook.c): a linked list of copied     *)
(* messages under queue_lock, a worker thread that posts them to Discord one *)
(* after the other, and the shutdown that lets it finish what is queued.     *)
(*                                                                          *)
(* Every action is one critical section of queue_lock, or a step outside it. *)
(* hub_webhook_send looks at running in one critical section and enqueues in *)
(* a second; only the thread that sends ever changes running, so the two are *)
(* one action.                                                               *)
(***************************************************************************)
EXTENDS Naturals, Sequences

CONSTANTS
  Messages,  \* what the hub's terminal reports
  Failed     \* the msg of a node whose strdup failed (NULL); an empty hand

ASSUME HookAssumption == Failed \notin Messages

VARIABLES
  queue,     \* queue_head .. queue_tail
  running,   \* running
  worker,    \* "none", then "ready" to look at the queue, "asleep" on
             \* queue_cond, "posting", "ended", and "joined"
  hand,      \* the message the worker took
  accepted,  \* history variable: what was put into the queue
  sent       \* history variable: what was given to sendDiscordAlert

hookVars == <<queue, running, worker, hand, accepted, sent>>

HookInit ==
  /\ queue = <<>> /\ running = FALSE /\ worker = "none" /\ hand = Failed
  /\ accepted = <<>> /\ sent = <<>>

Signalled == IF worker = "asleep" THEN "ready" ELSE worker

\* hub_webhook_init, when neither strdup nor pthread_create fails.
HookStart ==
  /\ worker = "none"
  /\ running' = TRUE /\ worker' = "ready"
  /\ UNCHANGED <<queue, hand, accepted, sent>>

\* hub_webhook_send: nothing is queued when there is no worker or no node can
\* be allocated; the copy may fail in a node that is queued all the same.
HookSend(m) ==
  \/ /\ running
     /\ \E copy \in {m, Failed} :
          /\ queue' = Append(queue, copy)
          /\ accepted' = Append(accepted, copy)
     /\ worker' = Signalled
     /\ UNCHANGED <<running, hand, sent>>
  \/ UNCHANGED hookVars

\* Mutant: the worker leaves its queue when the shutdown was called.
HookDequeueWhileRunning ==
  /\ worker = "ready"
  /\ IF ~ running
     THEN worker' = "ended" /\ UNCHANGED <<queue, hand>>
     ELSE IF queue = <<>>
     THEN worker' = "asleep" /\ UNCHANGED <<queue, hand>>
     ELSE /\ queue' = Tail(queue) /\ hand' = Head(queue)
          /\ worker' = IF Head(queue) = Failed THEN "ended" ELSE "posting"
  /\ UNCHANGED <<running, accepted, sent>>

\* dequeue_msg: NULL ends the worker, be it the shutdown or a failed copy.
HookDequeue ==
  /\ worker = "ready"
  /\ IF queue = <<>>
     THEN /\ worker' = IF running THEN "asleep" ELSE "ended"
          /\ UNCHANGED <<queue, hand>>
     ELSE /\ queue' = Tail(queue) /\ hand' = Head(queue)
          /\ worker' = IF Head(queue) = Failed THEN "ended" ELSE "posting"
  /\ UNCHANGED <<running, accepted, sent>>

\* pthread_cond_wait may return without a signal.
HookSpuriousWakeup ==
  /\ worker = "asleep"
  /\ worker' = "ready"
  /\ UNCHANGED <<queue, running, hand, accepted, sent>>

\* sendDiscordAlert returns.
HookPosted ==
  /\ worker = "posting"
  /\ sent' = Append(sent, hand) /\ hand' = Failed
  /\ worker' = "ready"
  /\ UNCHANGED <<queue, running, accepted>>

\* Mutant: running is cleared, but the sleeping worker is not told.
HookStopQuietly ==
  /\ running' = FALSE
  /\ UNCHANGED <<queue, worker, hand, accepted, sent>>

\* hub_webhook_shutdown: stop the worker,
HookStop ==
  /\ running' = FALSE
  /\ worker' = Signalled
  /\ UNCHANGED <<queue, hand, accepted, sent>>

\* join it, and free what a failed copy left in the queue.
HookJoin ==
  /\ worker = "ended"
  /\ worker' = "joined"
  /\ queue' = <<>>
  /\ UNCHANGED <<running, hand, accepted, sent>>

HookWork == HookDequeue \/ HookSpuriousWakeup \/ HookPosted

HookNext ==
  HookStart \/ (\E m \in Messages : HookSend(m)) \/ HookWork \/ HookStop
  \/ HookJoin

HookSpec == HookInit /\ [][HookNext]_hookVars

-----------------------------------------------------------------------------
\* The type invariant.
HookTypeOK ==
  /\ queue \in Seq(Messages \cup {Failed})
  /\ running \in BOOLEAN
  /\ worker \in {"none", "ready", "asleep", "posting", "ended", "joined"}
  /\ hand \in Messages \cup {Failed}
  /\ worker = "posting" => hand # Failed
  /\ accepted \in Seq(Messages \cup {Failed})
  /\ sent \in Seq(Messages)

\* Messages are posted in the order they were accepted, none twice and none
\* left out, and when the shutdown has returned all of them were: only a copy
\* that failed ends the series early, for it ends the worker.
AcceptedAreDelivered ==
  /\ Len(sent) <= Len(accepted)
  /\ sent = SubSeq(accepted, 1, Len(sent))
  /\ worker = "joined" =>
       \/ Len(sent) = Len(accepted)
       \/ accepted[Len(sent) + 1] = Failed

-----------------------------------------------------------------------------
(* The inductive invariant of HubProcess_proofs                            *)

\* While the worker lives, what was accepted is what was sent, what it holds
\* and what is queued.  It ends at the shutdown with everything sent, after which
\* nothing is accepted, or at a failed copy.
InOrder ==
  /\ worker \in {"none", "ready", "asleep"} => accepted = sent \o queue
  /\ worker = "posting" => accepted = (sent \o <<hand>>) \o queue
  /\ worker \in {"ended", "joined"} =>
       \/ ~ running /\ accepted = sent
       \/ /\ Len(sent) < Len(accepted)
          /\ sent = SubSeq(accepted, 1, Len(sent))
          /\ accepted[Len(sent) + 1] = Failed

HookInv == HookTypeOK /\ InOrder
=============================================================================
