--------------------------- MODULE WebPage_proofs ---------------------------
(***************************************************************************)
(* Proofs about WebPage, for any number of polls of a chain and any number  *)
(* of datagrams under way: types, and that what a page shows was reported.  *)
(***************************************************************************)
EXTENDS WebPage, TLAPS

USE DEF States, Commands

\* What is under way holds nothing but what was under way or is sent.
LEMMA CarriesOnly ==
  ASSUME NEW flight, NEW d, NEW f \in Carries(flight, d)
  PROVE  f \subseteq flight \cup {d}
BY DEF Carries, Put

LEMMA PutOnly ==
  ASSUME NEW flight, NEW d, NEW f \in Put(flight, d)
  PROVE  f \subseteq flight \cup {d}
BY DEF Put

LEMMA InitInv == Init => PageInv
BY PageAssumption DEF Init, PageInv, TypeOK, ShownWasReported, AnswersTrue

-----------------------------------------------------------------------------
(* One lemma per group of actions                                          *)

LEMMA AsksKeeps ==
  ASSUME toDoor \subseteq Commands, Asks
  PROVE  toDoor' \subseteq Commands
BY CarriesOnly DEF Asks

LEMMA DoorChangesKeeps == PageInv /\ DoorChanges => PageInv'
BY DEF PageInv, TypeOK, ShownWasReported, AnswersTrue, DoorChanges, Becomes, page

LEMMA OthersKeep == PageInv /\ (OthersCommand \/ Settle \/ Lose) => PageInv'
<1> SUFFICES ASSUME PageInv, OthersCommand \/ Settle \/ Lose PROVE PageInv'
  OBVIOUS
<1>1. CASE OthersCommand
  <2>1. toDoor' \subseteq Commands
    BY <1>1, CarriesOnly DEF OthersCommand, PageInv, TypeOK
  <2> QED
    BY <1>1, <2>1
    DEF PageInv, TypeOK, ShownWasReported, AnswersTrue, OthersCommand, page
<1>2. CASE Settle \/ Lose
  BY <1>2
  DEF PageInv, TypeOK, ShownWasReported, AnswersTrue, Settle, Lose, page
<1> QED  BY <1>1, <1>2

LEMMA MovesKeeps ==
  ASSUME NEW c \in Commands, PageInv, ModuleMoves(c)
  PROVE  PageInv'
<1> DEFINE e == [type |-> "echo", action |-> c]
<1>1. e \in Echo /\ \A s \in States : [type |-> "status", state |-> s] # e
  BY DEF ModuleMoves, Echo
<1>2. toPage' \subseteq toPage \cup {e}
  BY CarriesOnly DEF ModuleMoves
<1>3. PICK s \in States : Becomes(s)
  BY DEF ModuleMoves, Outcomes, PageInv, TypeOK
<1>4. \A t \in States :
        [type |-> "status", state |-> t] \in toPage' =>
          [type |-> "status", state |-> t] \in toPage
  BY <1>1, <1>2
<1>5. toDoor' \subseteq Commands /\ toPage' \subseteq Status \cup Echo
  BY <1>1, <1>2 DEF ModuleMoves, PageInv, TypeOK
<1> HIDE DEF e
<1> QED
  BY <1>3, <1>4, <1>5
  DEF PageInv, TypeOK, ShownWasReported, AnswersTrue, ModuleMoves, Becomes, page

LEMMA AnswersKeeps == PageInv /\ ModuleAnswers => PageInv'
<1> SUFFICES ASSUME PageInv, ModuleAnswers PROVE PageInv'
  OBVIOUS
<1> DEFINE r == [type |-> "status", state |-> door]
<1>1. r \in Status
  BY DEF PageInv, TypeOK, Status
<1>2. toPage' \subseteq toPage \cup {r}
  BY PutOnly DEF ModuleAnswers
<1>3. \A s \in States :
        [type |-> "status", state |-> s] \in toPage' =>
          \/ [type |-> "status", state |-> s] \in toPage
          \/ s = door
  <2> SUFFICES ASSUME NEW s \in States, [type |-> "status", state |-> s] \in toPage'
               PROVE  [type |-> "status", state |-> s] \in toPage \/ s = door
    OBVIOUS
  <2>1. [type |-> "status", state |-> s] = r => s = door
    OBVIOUS
  <2> QED  BY <1>2, <2>1
<1>4. AnswersTrue'
  BY <1>3 DEF PageInv, AnswersTrue, ModuleAnswers
<1> HIDE DEF r
<1> QED
  BY <1>1, <1>2, <1>4
  DEF PageInv, TypeOK, ShownWasReported, ModuleAnswers, page

LEMMA PageAsksKeeps ==
  PageInv /\ (Load \/ PeriodicPoll \/ Click) => PageInv'
<1> SUFFICES ASSUME PageInv, Load \/ PeriodicPoll \/ Click PROVE PageInv'
  OBVIOUS
<1>1. toDoor' \subseteq Commands
  <2>1. CASE Load \/ PeriodicPoll
    BY <2>1, AsksKeeps DEF Load, PeriodicPoll, PageInv, TypeOK
  <2>2. CASE Click
    <3> DEFINE c == IF lockLocked = TRUE THEN "UNLOCK" ELSE "LOCK"
    <3>1. c \in Commands
      BY Zenon
    <3> HIDE DEF c
    <3>2. toDoor' \in Carries(toDoor, c)
      BY <2>2 DEF Click, c
    <3> QED  BY <3>1, <3>2, CarriesOnly DEF PageInv, TypeOK
  <2> QED  BY <2>1, <2>2
<1> QED
  BY <1>1, PageAssumption
  DEF PageInv, TypeOK, ShownWasReported, AnswersTrue, Load, PeriodicPoll, Click,
      page

\* The display changes only by an answer, to the state it names.
LEMMA StatusKeeps ==
  ASSUME NEW s \in States, PageInv, ReceiveStatus(s)
  PROVE  PageInv'
<1>1. s = "UNKNOWN" \/ s \in been
  BY DEF PageInv, AnswersTrue, ReceiveStatus
<1>2. ShownWasReported'
  BY <1>1, PageAssumption DEF PageInv, ShownWasReported, ReceiveStatus
<1> QED
  BY <1>2 DEF PageInv, TypeOK, AnswersTrue, ReceiveStatus

LEMMA EchoKeeps ==
  ASSUME NEW a \in {"LOCK", "UNLOCK"}, PageInv, ReceiveEcho(a)
  PROVE  PageInv'
<1>1. toDoor' \subseteq Commands
  BY AsksKeeps DEF ReceiveEcho, PageInv, TypeOK
<1>2. chains' \subseteq Chain
  <2> DEFINE b == a = "LOCK"
  <2>1. b \in BOOLEAN
    BY Zenon
  <2>2. chains' = chains \cup {[locked |-> b, polls |-> 1]}
    BY Zenon DEF ReceiveEcho
  <2> HIDE DEF b
  <2>3. [locked |-> b, polls |-> 1] \in Chain
    BY <2>1, PageAssumption DEF Chain
  <2> QED  BY <2>2, <2>3 DEF PageInv, TypeOK
<1> QED
  BY <1>1, <1>2
  DEF PageInv, TypeOK, ShownWasReported, AnswersTrue, ReceiveEcho

LEMMA ChainKeeps ==
  ASSUME NEW c \in Chain, PageInv, ChainLooks(c)
  PROVE  PageInv'
<1>1. toDoor' \subseteq Commands
  BY AsksKeeps DEF ChainLooks, ChainContinues, PageInv, TypeOK
<1>2. chains' \subseteq Chain
  <2>1. CASE ChainEnds(c)
    BY <2>1 DEF ChainLooks, PageInv, TypeOK
  <2>2. CASE ~ ChainEnds(c)
    <3>1. [c EXCEPT !.polls = @ + 1] \in Chain
      BY <2>2, PageAssumption DEF ChainEnds, Chain
    <3> QED  BY <2>2, <3>1 DEF ChainLooks, ChainContinues, PageInv, TypeOK
  <2> QED  BY <2>1, <2>2
<1> QED
  BY <1>1, <1>2
  DEF PageInv, TypeOK, ShownWasReported, AnswersTrue, ChainLooks

-----------------------------------------------------------------------------
\* PageInv is an inductive invariant of WebPage.
LEMMA Inductive == Spec => []PageInv
<1>1. PageInv /\ [Next]_vars => PageInv'
  <2> SUFFICES ASSUME PageInv, [Next]_vars PROVE PageInv'
    OBVIOUS
  <2>1. CASE DoorChanges          BY <2>1, DoorChangesKeeps
  <2>2. CASE OthersCommand \/ Settle \/ Lose  BY <2>2, OthersKeep
  <2>3. CASE \E c \in Commands : ModuleMoves(c)  BY <2>3, MovesKeeps
  <2>4. CASE ModuleAnswers        BY <2>4, AnswersKeeps
  <2>5. CASE Load \/ PeriodicPoll \/ Click  BY <2>5, PageAsksKeeps
  <2>6. CASE \E s \in States : ReceiveStatus(s)  BY <2>6, StatusKeeps
  <2>7. CASE \E a \in {"LOCK", "UNLOCK"} : ReceiveEcho(a)  BY <2>7, EchoKeeps
  <2>8. CASE \E c \in Chain : ChainLooks(c)  BY <2>8, ChainKeeps
  <2>9. CASE UNCHANGED vars
    BY <2>9 DEF vars, page, PageInv, TypeOK, ShownWasReported, AnswersTrue
  <2> QED
    BY <2>1, <2>2, <2>3, <2>4, <2>5, <2>6, <2>7, <2>8, <2>9 DEF Next
<1> QED  BY InitInv, <1>1, PTL DEF Spec

\* Types: in particular no chain of polls is longer than maxPolls.
THEOREM TypeCorrect == Spec => []TypeOK
<1>1. PageInv => TypeOK  BY DEF PageInv
<1> QED  BY <1>1, Inductive, PTL

\* A page shows a state only when the module has found the door in it, whatever
\* commands were refused, answers overtaken and pages loaded meanwhile.
THEOREM ShowsReported == Spec => []ShownWasReported
<1>1. PageInv => ShownWasReported  BY DEF PageInv
<1> QED  BY <1>1, Inductive, PTL
=============================================================================
