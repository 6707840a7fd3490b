---------------------------- MODULE HistoryRing ----------------------------
(***************************************************************************)
(* The event history of the hub (hal/src/hub_udp.c): a ring that keeps the  *)
(* last HUB_MAX_HISTORY events, and the copy of it that readers ask for.    *)
(* Both run under g_mutex, so that each is one step.                        *)
(***************************************************************************)
EXTENDS Integers, Sequences

CONSTANTS
  HubEvents,        \* what a HubEvent may say
  Blank,            \* a slot of the ring that was never written
  HUB_MAX_HISTORY,  \* slots of the ring
  MaxAsked          \* bound: the largest max_events a reader passes

ASSUME HistoryAssumption ==
  /\ Blank \notin HubEvents
  /\ HUB_MAX_HISTORY \in Nat \ {0}
  /\ MaxAsked \in Nat

VARIABLES
  history,  \* g_history
  head,     \* g_hist_head, the slot to write next
  count,    \* g_hist_count
  got,      \* what the last reader got
  log       \* history variable: the last HUB_MAX_HISTORY events, oldest first

vars == <<history, head, count, got, log>>

Slots == 0 .. HUB_MAX_HISTORY - 1

Init ==
  /\ history = [i \in Slots |-> Blank]
  /\ head = 0 /\ count = 0
  /\ got = <<>>
  /\ log = <<>>

\* What remains of a sequence when only its last n elements are kept.
Newest(n, s) == IF Len(s) <= n THEN s ELSE SubSeq(s, Len(s) - n + 1, Len(s))

\* Mutant: the count is not capped.
add_history_uncapped(e) ==
  /\ history' = [history EXCEPT ![head] = e]
  /\ head' = (head + 1) % HUB_MAX_HISTORY
  /\ count' = count + 1
  /\ log' = Newest(HUB_MAX_HISTORY, Append(log, e))
  /\ UNCHANGED got

add_history(e) ==
  /\ history' = [history EXCEPT ![head] = e]
  /\ head' = (head + 1) % HUB_MAX_HISTORY
  /\ count' = IF count < HUB_MAX_HISTORY THEN count + 1 ELSE count
  /\ log' = Newest(HUB_MAX_HISTORY, Append(log, e))
  /\ UNCHANGED got

\* Mutant: the copy starts at the first slot, wrapped or not.
get_history_unwrapped(max_events) ==
  LET n == IF count < max_events THEN count ELSE max_events
  IN  /\ got' = [i \in 1 .. n |-> history[i - 1]]
      /\ UNCHANGED <<history, head, count, log>>

\* hub_udp_get_history: it copies from the start of the ring's contents.
get_history(max_events) ==
  LET n     == IF count < max_events THEN count ELSE max_events
      start == (head - count + HUB_MAX_HISTORY) % HUB_MAX_HISTORY
  IN  /\ got' = [i \in 1 .. n |-> history[(start + i - 1) % HUB_MAX_HISTORY]]
      /\ UNCHANGED <<history, head, count, log>>

Next ==
  \/ \E e \in HubEvents : add_history(e)
  \/ \E n \in 0 .. MaxAsked : get_history(n)

Spec == Init /\ [][Next]_vars

-----------------------------------------------------------------------------
\* The type invariant: the write position and the count stay in their ranges.
TypeOK ==
  /\ history \in [Slots -> HubEvents \cup {Blank}]
  /\ head \in Slots /\ count \in 0 .. HUB_MAX_HISTORY
  /\ got \in Seq(HubEvents)

\* A reader gets as many events as it asked for or as there are: the OLDEST
\* that the ring still holds, without a gap and in the order they happened,
\* before and after it wraps.  hub_udp.h:65 says the most recent ones; who asks
\* for fewer than there are misses the newest.
ReadsOldest ==
  [][\A n \in 0 .. MaxAsked : get_history(n) =>
       got' = SubSeq(log, 1, IF Len(log) < n THEN Len(log) ELSE n)]_vars

-----------------------------------------------------------------------------
(* The inductive invariant of HistoryRing_proofs                           *)

\* The ring holds the last events from its oldest slot on: the first one until
\* the ring is full, and then the one that is written next.
Oldest == IF count < HUB_MAX_HISTORY THEN 0 ELSE head

RingHoldsLog ==
  /\ count < HUB_MAX_HISTORY => head = count
  /\ log \in Seq(HubEvents) /\ Len(log) = count
  /\ \A i \in 1 .. count : log[i] = history[(Oldest + i - 1) % HUB_MAX_HISTORY]

RingInv == TypeOK /\ RingHoldsLog
=============================================================================
