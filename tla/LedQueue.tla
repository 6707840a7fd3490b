------------------------------ MODULE LedQueue ------------------------------
(***************************************************************************)
(* The LED worker of hal/src/led_worker.c: a ring of tasks under a mutex    *)
(* and a condition variable, filled by any thread and emptied by the worker *)
(* thread.  Whatever runs under the mutex is one step, up to the wait on    *)
(* the condition variable that releases it.                                 *)
(***************************************************************************)
EXTENDS Integers

CONSTANTS
  Kinds,           \* the LedTaskType values that are told apart
  BlinkRed,        \* LED_TASK_BLINK_RED, the 0 of a static array
  LED_QUEUE_SIZE   \* slots of the ring, one of which stays free

ASSUME LedAssumption ==
  /\ BlinkRed \in Kinds
  /\ LED_QUEUE_SIZE \in Nat /\ LED_QUEUE_SIZE >= 2

VARIABLES
  queue,    \* g_queue
  head,     \* g_q_head, next to pop
  tail,     \* g_q_tail, next to push
  running,  \* g_worker_running
  worker,   \* where worker_fn is
  task,     \* the task it has popped
  joining   \* a caller is in the pthread_join of LED_worker_shutdown

vars == <<queue, head, tail, running, worker, task, joining>>

Slots == 0 .. LED_QUEUE_SIZE - 1

After(i) == (i + 1) % LED_QUEUE_SIZE
Empty == head = tail

Init ==
  /\ queue = [i \in Slots |-> BlinkRed]
  /\ head = 0 /\ tail = 0
  /\ running = FALSE
  /\ worker = "none"
  /\ task = BlinkRed
  /\ joining = FALSE

\* LED_worker_init: nothing happens when the worker runs, or cannot be created.
\* The one thread that calls it is the one that calls LED_worker_shutdown.
Start ==
  /\ ~ running /\ ~ joining
  /\ running' = TRUE
  /\ worker' = "check"
  /\ UNCHANGED <<queue, head, tail, task, joining>>

\* pthread_cond_broadcast: a worker asleep goes back to look at the queue.
Woken == IF worker = "asleep" THEN "check" ELSE worker

\* Mutant: nobody is woken.
EnqueueQuietly(kind) ==
  /\ queue' = [queue EXCEPT ![tail] = kind]
  /\ tail' = After(tail)
  /\ head' = IF After(tail) = head THEN After(head) ELSE head
  /\ UNCHANGED <<running, worker, task, joining>>

\* Mutant: a full queue is not noticed.
EnqueueOverrun(kind) ==
  /\ queue' = [queue EXCEPT ![tail] = kind]
  /\ tail' = After(tail)
  /\ worker' = Woken
  /\ UNCHANGED <<head, running, task, joining>>

\* Every LED_enqueue_* function: a full queue discards its oldest task first.
Enqueue(kind) ==
  /\ queue' = [queue EXCEPT ![tail] = kind]
  /\ tail' = After(tail)
  /\ head' = IF After(tail) = head THEN After(head) ELSE head
  /\ worker' = Woken
  /\ UNCHANGED <<running, task, joining>>

\* Mutant: the worker is not waited for.
ShutdownWithoutJoin ==
  /\ running
  /\ running' = FALSE
  /\ worker' = Woken
  /\ UNCHANGED <<queue, head, tail, task, joining>>

\* Mutant: a sleeping worker is not told.
ShutdownQuietly ==
  /\ running
  /\ running' = FALSE
  /\ joining' = TRUE
  /\ UNCHANGED <<queue, head, tail, worker, task>>

\* LED_worker_shutdown up to its join.
Shutdown ==
  /\ running
  /\ running' = FALSE
  /\ worker' = Woken
  /\ joining' = TRUE
  /\ UNCHANGED <<queue, head, tail, task>>

Join ==
  /\ joining /\ worker = "exited"
  /\ worker' = "none"
  /\ joining' = FALSE
  /\ UNCHANGED <<queue, head, tail, running, task>>

\* worker_fn: sleep while there is nothing to do, leave when told to.
Sleep ==
  /\ worker = "check" /\ Empty /\ running
  /\ worker' = "asleep"
  /\ UNCHANGED <<queue, head, tail, running, task, joining>>

\* Mutant: what still waits is left behind.
ExitAtOnce ==
  /\ worker = "check" /\ ~ running
  /\ worker' = "exited"
  /\ UNCHANGED <<queue, head, tail, running, task, joining>>

Exit ==
  /\ worker = "check" /\ Empty /\ ~ running
  /\ worker' = "exited"
  /\ UNCHANGED <<queue, head, tail, running, task, joining>>

Take ==
  /\ worker = "check" /\ ~ Empty
  /\ task' = queue[head]
  /\ head' = After(head)
  /\ worker' = "play"
  /\ UNCHANGED <<queue, tail, running, joining>>

\* The pattern has been shown; the popped task goes out of scope.
Played ==
  /\ worker = "play"
  /\ worker' = "check"
  /\ task' = BlinkRed
  /\ UNCHANGED <<queue, head, tail, running, joining>>

\* A condition variable may wake without a signal.
SpuriousWakeup ==
  /\ worker = "asleep"
  /\ worker' = "check"
  /\ UNCHANGED <<queue, head, tail, running, task, joining>>

Work == Sleep \/ Exit \/ Take \/ Played

Next ==
  \/ Start \/ Shutdown \/ Join
  \/ \E kind \in Kinds : Enqueue(kind)
  \/ Work \/ SpuriousWakeup

Spec == Init /\ [][Next]_vars

\* The worker thread is scheduled, and so is the one that waits for its end.
FairSpec == Spec /\ WF_vars(Work) /\ WF_vars(Join)

-----------------------------------------------------------------------------
(* Properties                                                              *)

\* The type invariant: the ring's indices stay inside the ring, whatever wraps.
TypeOK ==
  /\ queue \in [Slots -> Kinds]
  /\ head \in Slots /\ tail \in Slots
  /\ running \in BOOLEAN /\ joining \in BOOLEAN
  /\ worker \in {"none", "check", "asleep", "play", "exited"}
  /\ task \in Kinds

\* No lost wakeup: the worker sleeps only while there is neither a task to play
\* nor a shutdown to obey.
SleepsOnlyIdle == worker = "asleep" => Empty /\ running

\* There is one worker at most: it lives exactly while it is wanted or being
\* waited for, so that LED_worker_init never starts a second one.
OneWorker == (worker # "none") <=> (running \/ joining)

\* How many tasks lie between two indices, and these tasks, oldest first.
Length(h, t) == (t - h + LED_QUEUE_SIZE) % LED_QUEUE_SIZE
Contents(q, h, t) ==
  [i \in 1 .. Length(h, t) |-> q[(h + i - 1) % LED_QUEUE_SIZE]]

Tasks == INSTANCE LedTasks
  WITH Capacity <- LED_QUEUE_SIZE - 1,
       waiting <- Contents(queue, head, tail),
       playing <- IF worker = "play" THEN <<task>> ELSE <<>>

\* The ring keeps the promise of LedTasks: first in, first out, and a full queue
\* loses its oldest task and no other.
KeepsPromise == Tasks!Spec

\* A task waiting for a living worker is followed by one being played: neither a
\* sleeping worker nor a shutdown leaves the queue behind.
QueueServed == worker \in {"check", "asleep"} /\ ~ Empty ~> worker = "play"

\* LED_worker_shutdown returns once the requests cease.
ShutdownReturns ==
  <>[][~ \E kind \in Kinds : Enqueue(kind)]_vars => (joining ~> ~ joining)
=============================================================================
