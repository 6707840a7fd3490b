------------------------------ MODULE LedTasks ------------------------------
(***************************************************************************)
(* What the LED worker promises its callers (hal/include/hal/led_worker.h): *)
(* a bounded queue of light patterns, played one at a time in the order of  *)
(* their requests, which never blocks a caller: a request that finds the    *)
(* queue full takes the place of the oldest one that waits.                 *)
(***************************************************************************)
EXTENDS Naturals, Sequences

CONSTANTS Kinds,      \* the light patterns
          Capacity    \* how many may wait

VARIABLES waiting,    \* the requests, oldest first
          playing     \* the one being shown, as a sequence of at most one

Init == waiting = <<>> /\ playing = <<>>

Enqueue(kind) ==
  /\ waiting' = Append(IF Len(waiting) = Capacity THEN Tail(waiting) ELSE waiting,
                       kind)
  /\ UNCHANGED playing

Take ==
  /\ playing = <<>> /\ waiting # <<>>
  /\ playing' = <<Head(waiting)>>
  /\ waiting' = Tail(waiting)

Done ==
  /\ playing # <<>>
  /\ playing' = <<>>
  /\ UNCHANGED waiting

Next == (\E kind \in Kinds : Enqueue(kind)) \/ Take \/ Done

Spec == Init /\ [][Next]_<<waiting, playing>>
=============================================================================
