------------------------------ MODULE DoorLock ------------------------------
(***************************************************************************)
(* What the lock operations promise those who send a module commands        *)
(* (app/include/doorMod.h: synchronous, they return the updated state): one *)
(* command at a time; the bolt turns only for a command to bring it to its  *)
(* other end, and once turned it is at that end before the outcome is       *)
(* given; the outcome says where the bolt is, or that the door is open.     *)
(***************************************************************************)

VARIABLES bolt,     \* "LOCKED", "UNLOCKED", or "TURNING" in between
          order,    \* the command that is executed, "NONE" between commands
          outcome   \* what came of it, "UNKNOWN" until that is settled

lockVars == <<bolt, order, outcome>>

Orders == {"LOCK", "UNLOCK", "STATUS"}
End(o) == IF o = "LOCK" THEN "LOCKED" ELSE "UNLOCKED"

Init == bolt = "UNLOCKED" /\ order = "NONE" /\ outcome = "UNKNOWN"

Take(o) ==
  /\ order = "NONE"
  /\ order' = o
  /\ UNCHANGED <<bolt, outcome>>

\* A lock that is at the end the command asks for stays where it is.
Turn ==
  /\ order \in {"LOCK", "UNLOCK"} /\ outcome = "UNKNOWN"
  /\ bolt \in {"LOCKED", "UNLOCKED"} \ {End(order)}
  /\ bolt' = "TURNING"
  /\ UNCHANGED <<order, outcome>>

Arrive ==
  /\ bolt = "TURNING"
  /\ bolt' = End(order) /\ outcome' = End(order)
  /\ UNCHANGED order

\* An open door is not locked.
Refuse ==
  /\ order = "LOCK" /\ bolt = "UNLOCKED" /\ outcome = "UNKNOWN"
  /\ outcome' = "OPEN"
  /\ UNCHANGED <<bolt, order>>

Look ==
  /\ order = "STATUS" /\ outcome = "UNKNOWN"
  /\ outcome' \in IF bolt = "LOCKED" THEN {"LOCKED"} ELSE {"UNLOCKED", "OPEN"}
  /\ UNCHANGED <<bolt, order>>

\* The command is answered, also when nothing came of it.
Answer ==
  /\ order # "NONE" /\ bolt # "TURNING"
  /\ order' = "NONE" /\ outcome' = "UNKNOWN"
  /\ UNCHANGED bolt

Next ==
  (\E o \in Orders : Take(o)) \/ Turn \/ Arrive \/ Refuse \/ Look \/ Answer

Spec == Init /\ [][Next]_lockVars
=============================================================================
