------------------------------ MODULE WebPage ------------------------------
(***************************************************************************)
(* What a web page shows of one module (gui/web_control.js), over a network *)
(* that loses and reorders.  The page asks for the state with STATUS         *)
(* commands, every three seconds and, after the FEEDBACK of a LOCK or        *)
(* UNLOCK, in a chain of polls until the display agrees with the command.    *)
(*                                                                          *)
(* In between: the Node server (gui/lib/door_server.js) broadcasts every     *)
(* FEEDBACK to every page, and the module (app/src/door_udp_handler.c)       *)
(* answers a STATUS with its state and any other command with the name of    *)
(* the command, whatever came of it.                                         *)
(***************************************************************************)
EXTENDS Naturals, FiniteSets

CONSTANTS
  None,       \* null
  MaxPolls,   \* maxPolls of a chain
  MaxFlight   \* bound: datagrams under way to the module, and to the page

ASSUME PageAssumption ==
  None \notin BOOLEAN /\ MaxPolls \in Nat \ {0} /\ MaxFlight \in Nat \ {0}

States == {"LOCKED", "UNLOCKED", "OPEN", "UNKNOWN"}
Commands == {"LOCK", "UNLOCK", "STATUS"}
Status == [type : {"status"}, state : States]    \* STATUS_<state>
Echo == [type : {"echo"}, action : {"LOCK", "UNLOCK"}]
Chain == [locked : BOOLEAN, polls : 1 .. MaxPolls]

VARIABLES
  door,      \* what get_door_status finds (external)
  been,      \* history variable: the states it has found so far, but UNKNOWN
  calm,      \* external: from now on nobody moves the door or gives commands
  toDoor,    \* commands under way to the module
  toPage,    \* FEEDBACK under way to the page
  doorOpen, lockLocked,  \* doorStates[module]; None is null
  fresh,     \* the module's row is still as the page was loaded
  chains     \* running poll chains; two that are alike are one

page == <<doorOpen, lockLocked, fresh, chains>>
vars == <<door, been, calm, toDoor, toPage, page>>

Init ==
  /\ door \in States /\ been = {door} \ {"UNKNOWN"} /\ calm = FALSE
  /\ toDoor = {} /\ toPage = {}
  /\ doorOpen = None /\ lockLocked = None /\ fresh = TRUE /\ chains = {}

\* What is under way when d is sent: at the bound another datagram is lost,
Put(flight, d) ==
  IF Cardinality(flight \cup {d}) <= MaxFlight THEN {flight \cup {d}}
  ELSE {(flight \ {x}) \cup {d} : x \in flight}

\* and d may itself be lost at once.
Carries(flight, d) == {flight} \cup Put(flight, d)

-----------------------------------------------------------------------------
(* The module and other people                                             *)

Becomes(s) == door' = s /\ been' = been \cup ({s} \ {"UNKNOWN"})

DoorChanges ==
  /\ ~ calm
  /\ \E s \in States : Becomes(s)
  /\ UNCHANGED <<calm, toDoor, toPage, page>>

\* Another page, or the same user elsewhere.
OthersCommand ==
  /\ ~ calm
  /\ \E c \in Commands : toDoor' \in Carries(toDoor, c)
  /\ UNCHANGED <<door, been, calm, toPage, page>>

Settle == ~ calm /\ calm' = TRUE /\ UNCHANGED <<door, been, toDoor, toPage, page>>

\* A LOCK or UNLOCK reaches its end, changes nothing (refused, already done), or
\* leaves the bolt between the two; the FEEDBACK is the same.
Outcomes(c) ==
  {door, "UNKNOWN"} \cup {IF c = "LOCK" THEN "LOCKED" ELSE "UNLOCKED"}

ModuleMoves(c) ==
  /\ c \in toDoor \ {"STATUS"}
  /\ \E s \in Outcomes(c) : Becomes(s)
  /\ toDoor' = toDoor \ {c}
  /\ toPage' \in Carries(toPage, [type |-> "echo", action |-> c])
  /\ UNCHANGED <<calm, page>>

ModuleAnswers ==
  /\ "STATUS" \in toDoor
  /\ toDoor' = toDoor \ {"STATUS"}
  /\ toPage' \in Put(toPage, [type |-> "status", state |-> door])
  /\ UNCHANGED <<door, been, calm, page>>

Lose ==
  /\ \/ \E c \in toDoor : toDoor' = toDoor \ {c} /\ UNCHANGED toPage
     \/ \E f \in toPage : toPage' = toPage \ {f} /\ UNCHANGED toDoor
  /\ UNCHANGED <<door, been, calm, page>>

-----------------------------------------------------------------------------
(* The page                                                                *)

\* updateUIForModule: the text "open|closed / locked|unlocked", or None for
\* "unknown" as long as one of the two is not known.  A freshly loaded page says
\* "unknown" too,
Shown == IF None \in {doorOpen, lockLocked} THEN None
         ELSE [open |-> doorOpen, locked |-> lockLocked]

\* but its button is enabled; later it is only for a door that is shown closed.
Enabled == fresh \/ (Shown # None /\ doorOpen = FALSE)

\* requestModuleStatus
Asks == toDoor' \in Carries(toDoor, "STATUS")

\* The page is loaded again and asks as soon as it is connected.
Load ==
  /\ ~ calm
  /\ doorOpen' = None /\ lockLocked' = None /\ fresh' = TRUE /\ chains' = {}
  /\ Asks
  /\ UNCHANGED <<door, been, calm, toPage>>

\* Mutant: the page polls only while it has nothing to show.
PeriodicPollAtFirst ==
  /\ IF doorOpen = None THEN Asks ELSE UNCHANGED toDoor
  /\ UNCHANGED <<door, been, calm, toPage, page>>

\* setInterval, every three seconds.
PeriodicPoll ==
  /\ Asks
  /\ UNCHANGED <<door, been, calm, toPage, page>>

\* toggleDoor; when nothing is known yet, it asks to lock.
Click ==
  /\ ~ calm /\ Enabled
  /\ toDoor' \in Carries(toDoor, IF lockLocked = TRUE THEN "UNLOCK" ELSE "LOCK")
  /\ UNCHANGED <<door, been, calm, toPage, page>>

\* applyStatusStateToDoor: a state of the lock implies a closed door, an open
\* door leaves the lock as it was shown.
ReceiveStatus(s) ==
  /\ [type |-> "status", state |-> s] \in toPage
  /\ toPage' = toPage \ {[type |-> "status", state |-> s]}
  /\ doorOpen' = IF s = "UNKNOWN" THEN None ELSE s = "OPEN"
  /\ lockLocked' = IF s = "UNKNOWN" THEN None
                   ELSE IF s = "OPEN" THEN lockLocked ELSE s = "LOCKED"
  /\ fresh' = FALSE
  /\ UNCHANGED <<door, been, calm, toDoor, chains>>

\* Mutant: the FEEDBACK of a command is taken for its success.
ReceiveEchoAsState(a) ==
  /\ [type |-> "echo", action |-> a] \in toPage
  /\ toPage' = toPage \ {[type |-> "echo", action |-> a]}
  /\ doorOpen' = FALSE /\ lockLocked' = (a = "LOCK") /\ fresh' = FALSE
  /\ UNCHANGED <<door, been, calm, toDoor, chains>>

\* The FEEDBACK of a LOCK or UNLOCK says nothing of the state: the row is written
\* anew as it is, and a chain starts with its first poll.
ReceiveEcho(a) ==
  /\ [type |-> "echo", action |-> a] \in toPage
  /\ toPage' = toPage \ {[type |-> "echo", action |-> a]}
  /\ chains' = chains \cup {[locked |-> a = "LOCK", polls |-> 1]}
  /\ Asks
  /\ fresh' = FALSE
  /\ UNCHANGED <<door, been, calm, doorOpen, lockLocked>>

\* Mutant: one poll too many.
ChainEndsLate(c) == lockLocked = c.locked \/ c.polls > MaxPolls

ChainEnds(c) == lockLocked = c.locked \/ c.polls >= MaxPolls

\* Mutant: the counter is not incremented.
ChainContinuesUncounted(c) ==
  /\ chains' = (chains \ {c}) \cup {c}
  /\ Asks

ChainContinues(c) ==
  /\ chains' = (chains \ {c}) \cup {[c EXCEPT !.polls = @ + 1]}
  /\ Asks

\* 500 ms after a poll: the chain ends, or polls again.
ChainLooks(c) ==
  /\ c \in chains
  /\ IF ChainEnds(c) THEN chains' = chains \ {c} /\ UNCHANGED toDoor
     ELSE ChainContinues(c)
  /\ UNCHANGED <<door, been, calm, toPage, doorOpen, lockLocked, fresh>>

-----------------------------------------------------------------------------
Next ==
  \/ DoorChanges \/ OthersCommand \/ Settle \/ Lose
  \/ (\E c \in Commands : ModuleMoves(c)) \/ ModuleAnswers
  \/ Load \/ PeriodicPoll \/ Click
  \/ \E s \in States : ReceiveStatus(s)
  \/ \E a \in {"LOCK", "UNLOCK"} : ReceiveEcho(a)
  \/ \E c \in Chain : ChainLooks(c)

Spec == Init /\ [][Next]_vars

\* Timers fire; and of the STATUS commands that are sent again and again, and
\* of the answers to them, not every one is lost.
FairSpec ==
  /\ Spec
  /\ WF_vars(PeriodicPoll /\ "STATUS" \in toDoor')
  /\ SF_vars(ModuleAnswers)
  /\ SF_vars(\E s \in States : ReceiveStatus(s))
  /\ WF_vars(\E c \in Chain : ChainLooks(c))

-----------------------------------------------------------------------------
(* Properties                                                              *)

\* Every variable has its type; no chain polls more often than maxPolls.
TypeOK ==
  /\ door \in States /\ been \subseteq States /\ calm \in BOOLEAN
  /\ toDoor \subseteq Commands /\ toPage \subseteq Status \cup Echo
  /\ doorOpen \in BOOLEAN \cup {None} /\ lockLocked \in BOOLEAN \cup {None}
  /\ fresh \in BOOLEAN
  /\ chains \subseteq Chain

\* The page shows what the module found and reported, however late it comes,
\* never what a command was meant to achieve: locked only if the door has been
\* locked, open only if it has been open.
ShownWasReported ==
  /\ lockLocked = TRUE => "LOCKED" \in been
  /\ lockLocked = FALSE => "UNLOCKED" \in been
  /\ doorOpen = TRUE => "OPEN" \in been
  /\ doorOpen = FALSE => {"LOCKED", "UNLOCKED"} \cap been # {}

\* The text is the truth of a closed door.  Of an open one it can only be when the
\* lock is known from before: STATUS_OPEN says nothing of the lock, and without it
\* the page goes on saying "unknown".
Right ==
  CASE door = "UNKNOWN" -> Shown = None
    [] door = "OPEN" -> IF lockLocked = None THEN Shown = None ELSE Shown.open
    [] OTHER -> Shown = [open |-> FALSE, locked |-> door = "LOCKED"]

\* Once the door is left alone, every page comes to show it as it is, and stays so:
\* answers that were overtaken by newer ones do not stay on display.  One exception:
\* a page that was loaded while the door was open, or whose module did not know its
\* state before, says "unknown" of it for ever.
PageConverges == <>[](calm => Right)

\* Chains of polls end: each FEEDBACK of a LOCK or UNLOCK starts one in every
\* page, also for a command that was refused, whose state never comes.
PollingEnds == <>[](calm => chains = {})

-----------------------------------------------------------------------------
(* The inductive invariant of WebPage_proofs                               *)

\* An answer under way names a state the door has been in.
AnswersTrue ==
  /\ door \in been \cup {"UNKNOWN"}
  /\ \A s \in States \ {"UNKNOWN"} : [type |-> "status", state |-> s] \in toPage => s \in been

PageInv == TypeOK /\ ShownWasReported /\ AnswersTrue
=============================================================================
