------------------------- MODULE DoorModule_proofs -------------------------
(***************************************************************************)
(* Proofs about DoorModule, for every number of half-steps of a turn: the  *)
(* type invariant for any mix of operations; the end of quit when no pin   *)
(* fails; and, when the terminal turns the lock for the cleanup of quit at *)
(* most (SingleMover), that LOCKED is the truth, that the count of steps   *)
(* is exact, and that the lock only ever turns forward.  When no pin fails *)
(* either, UNLOCKED is the truth too, and the module implements the lock   *)
(* of DoorLock.                                                            *)
(***************************************************************************)
EXTENDS DoorModule, TLAPS

-----------------------------------------------------------------------------
(* The arithmetic of the motor                                             *)

\* Half a turn is a whole number of half-steps, more than none.
LEMMA HalfTurn == \E h \in Nat \ {0} : STEPS_PER_REV = 2 * h
<1> DEFINE h == STEPS_PER_REV \div 2
<1>1. h \in Nat \ {0} /\ STEPS_PER_REV = 2 * h
  BY StepsAssumption DEF StepsAssumption
<1> QED  BY <1>1

\* The locked position is half a turn away and reads as 180 degrees.
LEMMA LockedTarget ==
  /\ TargetStep(STEPPER_LOCKED_POSITION) \in Positions
  /\ Locked(TargetStep(STEPPER_LOCKED_POSITION))
<1>1. PICK h \in Nat \ {0} : STEPS_PER_REV = 2 * h
  BY HalfTurn
<1>2. (180 * (2 * h) + 180) \div 360 = h
  OBVIOUS
<1>3. TargetStep(180) = h
  BY <1>1, <1>2 DEF TargetStep
<1>4. (h * 360) \div (2 * h) = 180
  OBVIOUS
<1>5. Degrees(h) = 180
  BY <1>1, <1>4 DEF Degrees
<1> QED  BY <1>1, <1>3, <1>5 DEF Locked, STEPPER_LOCKED_POSITION, Positions

\* The unlocked position is the start of the turn.
LEMMA UnlockedTarget == TargetStep(STEPPER_UNLOCKED_POSITION) = 0
  BY StepsAssumption DEF StepsAssumption, TargetStep, STEPPER_UNLOCKED_POSITION

\* A step forward stays within the turn and wraps at its end.
LEMMA NextStepWraps ==
  ASSUME NEW p \in Positions
  PROVE  /\ NextStep(p) \in Positions
         /\ NextStep(p) = IF p + 1 = STEPS_PER_REV THEN 0 ELSE p + 1
<1> DEFINE S == STEPS_PER_REV
<1>1. S \in Nat \ {0} /\ p \in 0 .. S - 1
  BY StepsAssumption DEF StepsAssumption, Positions
<1>2. CASE p + 1 = S
  <2>1. S % S = 0
    BY <1>1
  <2> QED  BY <1>1, <1>2, <2>1 DEF NextStep, Positions
<1>3. CASE p + 1 # S
  <2>1. p + 1 \in 0 .. S - 1
    BY <1>1, <1>3
  <2>2. (p + 1) % S = p + 1
    BY <1>1, <2>1
  <2> QED  BY <1>3, <2>1, <2>2 DEF NextStep, Positions
<1> QED  BY <1>2, <1>3

\* The steps a rotation plans lead to its goal, in this turn or the next.
LEMMA StepsNeededReach ==
  ASSUME NEW p \in Positions, NEW degrees \in Int,
         TargetStep(degrees) \in Positions
  PROVE  /\ StepsNeeded(p, degrees) \in Positions
         /\ p + StepsNeeded(p, degrees)
              \in {TargetStep(degrees), TargetStep(degrees) + STEPS_PER_REV}
<1> DEFINE S == STEPS_PER_REV
           T == TargetStep(degrees)
           X == T - p + S
<1>1. S \in Nat \ {0} /\ p \in 0 .. S - 1 /\ T \in 0 .. S - 1
  BY StepsAssumption DEF StepsAssumption, Positions
<1>2. StepsNeeded(p, degrees) = X % S
  BY DEF StepsNeeded
<1> HIDE DEF T
<1>3. CASE T < p
  <2>1. X \in 0 .. S - 1
    BY <1>1, <1>3
  <2>2. X % S = X
    BY <1>1, <2>1
  <2> QED  BY <1>1, <1>2, <1>3, <2>1, <2>2 DEF Positions, T
<1>4. CASE T >= p
  <2>1. X \in Nat /\ X >= S /\ X < 2 * S
    BY <1>1, <1>4
  <2>2. X % S = X - S
    BY <1>1, <2>1
  <2> QED  BY <1>1, <1>2, <1>4, <2>2 DEF Positions, T
<1> QED  BY <1>1, <1>3, <1>4

\* Every goal of an operation is a position of the lock.
LEMMA GoalReachable == \A o : Goal(o) \in Int /\ TargetStep(Goal(o)) \in Positions
<1>1. 0 \in Positions
  BY StepsAssumption DEF StepsAssumption, Positions
<1> QED  BY <1>1, LockedTarget, UnlockedTarget
         DEF Goal, STEPPER_LOCKED_POSITION, STEPPER_UNLOCKED_POSITION

\* A step towards a goal leaves one step less, also where the turn begins anew.
LEMMA StepNearsGoal ==
  ASSUME NEW p \in Positions, NEW l \in Positions, l > 0, NEW T \in Positions,
         p + l \in {T, T + STEPS_PER_REV}
  PROVE  NextStep(p) + (l - 1) \in {T, T + STEPS_PER_REV}
<1> DEFINE S == STEPS_PER_REV
<1>1. S \in Nat \ {0} /\ {p, l, T} \subseteq 0 .. S - 1
  BY StepsAssumption DEF StepsAssumption, Positions
<1>2. NextStep(p) = IF p + 1 = S THEN 0 ELSE p + 1
  BY NextStepWraps
<1> QED  BY <1>1, <1>2

\* A rotation that is at the goal has no step to make.
LEMMA NothingNeeded ==
  ASSUME NEW degrees \in Int, TargetStep(degrees) \in Positions
  PROVE  StepsNeeded(TargetStep(degrees), degrees) = 0
<1> DEFINE S == STEPS_PER_REV
           T == TargetStep(degrees)
<1>1. S \in Nat \ {0} /\ T \in 0 .. S - 1
  BY StepsAssumption DEF StepsAssumption, Positions
<1> HIDE DEF T
<1>2. T - T + S = S /\ S % S = 0
  BY <1>1
<1> QED  BY <1>2 DEF StepsNeeded, T

\* The two ends are told apart by what the position reads as.
LEMMA EndsRead ==
  /\ Ends \subseteq Positions
  /\ \A p \in Ends : /\ Locked(p) <=> p = TargetStep(STEPPER_LOCKED_POSITION)
                     /\ Unlocked(p) <=> p = TargetStep(STEPPER_UNLOCKED_POSITION)
<1>1. 0 \in Positions /\ (0 * 360) \div STEPS_PER_REV = 0
  BY StepsAssumption DEF StepsAssumption, Positions
<1>2. Unlocked(TargetStep(STEPPER_UNLOCKED_POSITION))
  BY <1>1, UnlockedTarget DEF Unlocked, Degrees, STEPPER_UNLOCKED_POSITION
<1>3. \A p : ~ (Locked(p) /\ Unlocked(p))
  BY DEF Locked, Unlocked, STEPPER_LOCKED_POSITION, STEPPER_UNLOCKED_POSITION
<1> QED  BY <1>1, <1>2, <1>3, LockedTarget, UnlockedTarget DEF Ends

LEMMA ZeroIsPosition == 0 \in Positions
  BY StepsAssumption DEF StepsAssumption, Positions

-----------------------------------------------------------------------------
(* The type invariant                                                      *)

TypeInv == TypeOK /\ StoreHasLeft

LEMMA TypeInit == ASSUME Init PROVE TypeInv
  BY ZeroIsPosition DEF Init, TypeInv, TypeOK, StoreHasLeft, Threads, DoorStates,
     Distances, Labels, Flags, DoorAssumption, Ops

\* No step of an operation leaves the types.
LEMMA OperateTyped ==
  ASSUME TypeInv, NEW t \in {"cli", "cmd"}, Operate(t)
  PROVE  TypeInv'
<1> USE DEF TypeInv, TypeOK, StoreHasLeft, Threads, Labels, Goto, Set, vars,
            motor, locals, report, running
<1>1. CASE UnlockCheck(t)
  BY <1>1 DEF UnlockCheck
<1>2. CASE Measure(t)
  BY DoorAssumption, <1>2 DEF Measure, DoorAssumption
<1>3. CASE UnlockRecall(t)
  BY <1>3 DEF UnlockRecall
<1>4. CASE LockDecide(t)
  BY <1>4 DEF LockDecide, Conclude, DropDist, DoorStates, Distances
<1>5. CASE UnlockDecide(t)
  BY <1>5 DEF UnlockDecide, Conclude, DropDist, DoorStates, Distances
<1>6. CASE StatusDecide(t)
  BY <1>6 DEF StatusDecide, Conclude, DropDist, DoorStates, Distances
<1>7. CASE Rotate(t)
  BY StepsNeededReach, GoalReachable, <1>7 DEF Rotate
<1>8. CASE StepLoad(t)
  BY NextStepWraps, <1>8 DEF StepLoad
<1>9. CASE StepFails(t)
  BY ZeroIsPosition, <1>9 DEF StepFails, AfterRotate
<1>10. CASE StepStore(t)
  BY NextStepWraps, ZeroIsPosition, StepsAssumption, <1>10 DEF StepStore,
     Positions, StepsAssumption
<1>11. CASE Arrive(t)
  BY <1>11 DEF Arrive, AfterRotate, DoorStates
<1>12. CASE ReportMeasure(t)
  BY DoorAssumption, <1>12 DEF ReportMeasure, DoorAssumption
<1>13. CASE Remember(t)
  BY <1>13 DEF Remember
<1>14. CASE Finish(t)
  BY <1>14 DEF Finish, DoorStates, Ops
<1> QED  BY <1>1, <1>2, <1>3, <1>4, <1>5, <1>6, <1>7, <1>8, <1>9, <1>10, <1>11,
         <1>12, <1>13, <1>14 DEF Operate

\* No step of a report leaves the types.
LEMMA PublishTyped ==
  ASSUME TypeInv, NEW t \in Threads, Publish(t)
  PROVE  TypeInv'
<1> USE DEF TypeInv, TypeOK, StoreHasLeft, Threads, Labels, Goto, Set, vars,
            motor, locals, report, running
<1>1. CASE ReadLock(t)
  BY <1>1 DEF ReadLock, Locked
<1>2. CASE FirstUpdate(t)
  BY <1>2 DEF FirstUpdate
<1>3. CASE SaveFirst(t)
  BY <1>3 DEF SaveFirst, Seen
<1>4. CASE SendFirst(t)
  BY <1>4 DEF SendFirst, Seen, Flags, DropSample, DropDist, Distances
<1>5. CASE Update(t)
  BY <1>5 DEF Update, Seen, Flags, DropSample, DropDist, Distances
<1>6. CASE SavePrevious(t)
  BY <1>6 DEF SavePrevious, Seen, Flags, DropSample, DropDist, Distances
<1> QED  BY <1>1, <1>2, <1>3, <1>4, <1>5, <1>6 DEF Publish

\* Every step keeps the types.
LEMMA TypeStep == ASSUME TypeInv, [Next]_vars PROVE TypeInv'
<1> USE DEF TypeInv, TypeOK, StoreHasLeft, Threads, Labels, Goto, Set, vars,
            motor, locals, report, running
<1>1. ASSUME NEW t \in {"cli", "cmd"}, NEW o \in Ops, Begin(t, o) PROVE TypeInv'
  BY <1>1 DEF Begin, Ops, DoorStates
<1>2. ASSUME NEW s \in Readings, Sense(s) PROVE TypeInv'
  BY <1>2 DEF Sense
<1>3. CASE CmdIgnore
  BY <1>3 DEF CmdIgnore
<1>4. CASE Quit
  BY <1>4 DEF Quit
<1>5. CASE JoinHb
  BY <1>5 DEF JoinHb
<1>6. CASE JoinCmd
  BY <1>6 DEF JoinCmd
<1>7. CASE Rejoin
  BY <1>7 DEF Rejoin
<1>8. CASE CmdLoop
  BY <1>8 DEF CmdLoop
<1>9. CASE HbMeasure
  BY DoorAssumption, <1>9 DEF HbMeasure, DoorAssumption
<1>10. CASE HbLoop
  BY <1>10 DEF HbLoop
<1>11. CASE Period
  BY <1>11 DEF Period
<1>12. CASE UNCHANGED vars
  BY <1>12
<1> QED
  BY <1>1, <1>2, <1>3, <1>4, <1>5, <1>6, <1>7, <1>8, <1>9, <1>10, <1>11, <1>12,
     OperateTyped, PublishTyped
  DEF Next, CliStep, CmdStep, HbStep, Threads

\* Whatever is asked for, by whom, and whatever fails, every variable keeps its
\* type; in particular the position never leaves the turn, even when two
\* rotations overlap.
THEOREM TypeCorrect == Spec => []TypeOK
<1>1. Init => TypeInv
  BY TypeInit
<1>2. TypeInv /\ [Next]_vars => TypeInv'
  BY TypeStep
<1>3. TypeInv => TypeOK
  BY DEF TypeInv
<1> QED  BY <1>1, <1>2, <1>3, PTL DEF Spec
-----------------------------------------------------------------------------
(* Quitting                                                                *)

\* The steps of the quitting terminal.
LEMMA QuitSteps ==
  ASSUME TypeOK, QuietInv, Quit \/ JoinHb \/ JoinCmd \/ Rejoin
  PROVE  QuietInv'
<1>1. CASE Quit    BY <1>1 DEF Quit, Goto, Set, TypeOK, Threads, QuietInv, report
<1>2. CASE JoinHb  BY <1>2 DEF JoinHb, Goto, TypeOK, Threads, QuietInv, locals, report
<1>3. CASE JoinCmd
  BY <1>3 DEF JoinCmd, Goto, TypeOK, Threads, QuietInv, locals
<1>4. CASE Rejoin  BY <1>4 DEF Rejoin, Goto, TypeOK, Threads, QuietInv, locals, report
<1> QED  BY <1>1, <1>2, <1>3, <1>4

\* The other steps of an operation or a rotation.
LEMMA QuietOperate ==
  ASSUME TypeOK, QuietInv, NEW t \in {"cli", "cmd"}, Operate(t)
  PROVE  QuietInv'
<1> USE DEF TypeOK, QuietInv, Threads, Goto, Set, Conclude, DropDist, report, locals
<1>1. CASE UnlockCheck(t) \/ Measure(t) \/ UnlockRecall(t)
  BY <1>1 DEF UnlockCheck, Measure, UnlockRecall
<1>2. CASE LockDecide(t) \/ UnlockDecide(t) \/ StatusDecide(t)
  BY <1>2 DEF LockDecide, UnlockDecide, StatusDecide
<1>3. CASE Rotate(t) \/ StepLoad(t) \/ StepStore(t)
  BY <1>3 DEF Rotate, StepLoad, StepStore
<1>4. CASE StepFails(t) \/ Arrive(t)
  BY <1>4 DEF StepFails, Arrive, AfterRotate
<1>5. CASE ReportMeasure(t) \/ Remember(t) \/ Finish(t)
  BY <1>5 DEF ReportMeasure, Remember, Finish
<1> QED  BY <1>1, <1>2, <1>3, <1>4, <1>5 DEF Operate

\* A thread that reports has not exited.
LEMMA QuietPublish ==
  ASSUME TypeOK, QuietInv, NEW t \in Threads, Publish(t)
  PROVE  QuietInv'
<1> USE DEF TypeOK, QuietInv, Threads, Goto, Set, DropDist, DropSample, locals
<1>1. CASE ReadLock(t)      BY <1>1 DEF ReadLock, report
<1>2. CASE FirstUpdate(t) \/ SendFirst(t)
  BY <1>2 DEF FirstUpdate, SendFirst, report
<1>3. CASE Update(t)        BY <1>3 DEF Update
<1>4. CASE SaveFirst(t)     BY <1>4 DEF SaveFirst
<1>5. CASE SavePrevious(t)
  <2>1. prev'.valid = prev.valid
    BY <1>5 DEF SavePrevious
  <2> QED  BY <1>5, <2>1 DEF SavePrevious
<1> QED  BY <1>1, <1>2, <1>3, <1>4, <1>5 DEF Publish

LEMMA QuietStep == ASSUME TypeOK, QuietInv, [Next]_vars PROVE QuietInv'
<1> USE DEF TypeOK, QuietInv, Threads, Goto, Set, locals, report
<1>1. ASSUME NEW t \in {"cli", "cmd"}, NEW o \in Ops, Begin(t, o) PROVE QuietInv'
  BY <1>1 DEF Begin, Ops
<1>2. CASE CmdIgnore \/ CmdLoop
  BY <1>2 DEF CmdIgnore, CmdLoop
<1>3. CASE Quit \/ JoinHb \/ JoinCmd \/ Rejoin
  BY <1>3, QuitSteps
<1>4. CASE Operate("cli") \/ Operate("cmd")
  BY <1>4, QuietOperate
<1>5. CASE \E t \in Threads : Publish(t)
  BY <1>5, QuietPublish
<1>6. CASE HbMeasure \/ HbLoop
  BY <1>6 DEF HbMeasure, HbLoop
<1>7. CASE (\E s \in Readings : Sense(s)) \/ Period
  BY <1>7 DEF Sense, Period
<1>8. CASE UNCHANGED vars
  BY <1>8 DEF vars
<1> QED
  BY <1>1, <1>2, <1>3, <1>4, <1>5, <1>6, <1>7, <1>8 DEF Next, CliStep, CmdStep, HbStep

\* Whatever the terminal and the COMMANDs ask for: when quit has closed the
\* socket, nobody is left to report through it or to move the lock.
THEOREM QuitIsQuiet == Spec => []QuietAfterClose
<1>1. Init => QuietInv
  BY DEF Init, QuietInv, Threads
<1>2. QuietInv => QuietAfterClose
  BY DEF QuietInv, QuietAfterClose
<1> QED  BY <1>1, <1>2, QuietStep, TypeCorrect, PTL DEF Spec

-----------------------------------------------------------------------------
(* Driving the lock                                                        *)

\* The steps of a rotation.
Drives(t) == Rotate(t) \/ StepLoad(t) \/ StepFails(t) \/ StepStore(t) \/ Arrive(t)

\* The motor stands still, and a thread that drives it goes on doing so.
Still ==
  /\ UNCHANGED motor
  /\ \A t \in Threads : Driving(t) \/ Driving(t)' => pc'[t] = pc[t] /\ op'[t] = op[t]

\* The steps of an operation that are no rotation.
LEMMA OperateStill ==
  ASSUME TypeOK, NEW t \in {"cli", "cmd"}, Operate(t), ~ Drives(t)
  PROVE  Still
<1> USE DEF TypeOK, Threads, Driving, Goto, Set, Conclude, DropDist, locals, Still
<1>1. CASE UnlockCheck(t) \/ Measure(t) \/ UnlockRecall(t)
  BY <1>1 DEF UnlockCheck, Measure, UnlockRecall
<1>2. CASE LockDecide(t)
  BY <1>2 DEF LockDecide
<1>3. CASE UnlockDecide(t)
  BY <1>3 DEF UnlockDecide
<1>4. CASE StatusDecide(t)
  BY <1>4 DEF StatusDecide
<1>5. CASE ReportMeasure(t) \/ Remember(t) \/ Finish(t)
  BY <1>5 DEF ReportMeasure, Remember, Finish
<1> QED  BY <1>1, <1>2, <1>3, <1>4, <1>5 DEF Operate, Drives

LEMMA PublishStill ==
  ASSUME TypeOK, NEW t \in Threads, Publish(t)
  PROVE  Still
<1> USE DEF TypeOK, Threads, Driving, Goto, Set, DropDist, DropSample, locals, Still
<1>1. CASE ReadLock(t)      BY <1>1 DEF ReadLock
<1>2. CASE FirstUpdate(t) \/ SaveFirst(t) \/ SendFirst(t)
  BY <1>2 DEF FirstUpdate, SaveFirst, SendFirst
<1>3. CASE Update(t)        BY <1>3 DEF Update
<1>4. CASE SavePrevious(t)  BY <1>4 DEF SavePrevious
<1> QED  BY <1>1, <1>2, <1>3, <1>4 DEF Publish

\* Every other step of the module is none of a rotation.
LEMMA StepStill ==
  ASSUME TypeOK, [Next]_vars, \A t \in {"cli", "cmd"} : ~ Drives(t)
  PROVE  Still
<1> USE DEF TypeOK, Threads, Driving, Goto, Set, locals, Still
<1>1. ASSUME NEW t \in {"cli", "cmd"}, NEW o \in Ops, Begin(t, o) PROVE Still
  BY <1>1 DEF Begin
<1>2. CASE CmdIgnore \/ CmdLoop
  BY <1>2 DEF CmdIgnore, CmdLoop
<1>3. CASE Quit \/ JoinHb \/ JoinCmd \/ Rejoin
  BY <1>3 DEF Quit, JoinHb, JoinCmd, Rejoin
<1>4. CASE HbMeasure \/ HbLoop
  BY <1>4 DEF HbMeasure, HbLoop
<1>5. CASE (\E s \in Readings : Sense(s)) \/ Period
  BY <1>5 DEF Sense, Period
<1>6. CASE UNCHANGED vars
  BY <1>6 DEF vars
<1> QED
  BY <1>1, <1>2, <1>3, <1>4, <1>5, <1>6, OperateStill, PublishStill
  DEF Next, CliStep, CmdStep, HbStep, Threads

\* Thread t is the only one that drives the lock.
Alone(t) == \A u \in Threads : u # t => ~ Driving(u)

LEMMA StillDrives ==
  ASSUME TypeOK, DriveInv, Still
  PROVE  DriveInv'
<1> USE DEF Still, motor, TypeOK, Driving
<1>1. StoreHasLeft'
  BY DEF DriveInv, StoreHasLeft
<1>2. CountInv'
  BY DEF DriveInv, CountInv, CountIsStepsDriven
<1>3. OnCourse'
  BY DEF DriveInv, OnCourse
<1> QED  BY <1>1, <1>2, <1>3 DEF DriveInv

\* The step of a rotation, of the only thread that drives: it plans its way to
\* the goal, drives a step that it then counts, or ends.
LEMMA DrivesOn ==
  ASSUME TypeOK, DriveInv, NEW t \in {"cli", "cmd"}, Alone(t), Drives(t)
  PROVE  DriveInv'
<1> USE DEF TypeOK, Threads, Driving, Alone, Goto, Set, locals
<1>1. CASE Rotate(t)
  <2>1. /\ pc[t] = "rotate" /\ pc' = [pc EXCEPT ![t] = "step"]
        /\ left' = [left EXCEPT ![t] = StepsNeeded(pos, Goal(op[t]))]
        /\ UNCHANGED <<pos, driven, load, op>>
    BY <1>1 DEF Rotate
  <2>2. StoreHasLeft' /\ CountInv'
    BY <2>1 DEF DriveInv, StoreHasLeft, CountInv, CountIsStepsDriven
  <2>3. pos + StepsNeeded(pos, Goal(op[t]))
          \in {TargetStep(Goal(op[t])), TargetStep(Goal(op[t])) + STEPS_PER_REV}
    BY StepsNeededReach, GoalReachable
  <2>4. OnCourse'
    BY <2>1, <2>3 DEF DriveInv, OnCourse
  <2> QED  BY <2>2, <2>4 DEF DriveInv
<1>2. CASE StepLoad(t)
  <2>1. /\ pc[t] = "step" /\ pc' = [pc EXCEPT ![t] = "store"] /\ left[t] > 0
        /\ driven' = NextStep(driven) /\ load' = [load EXCEPT ![t] = pos]
        /\ UNCHANGED <<pos, left, op>>
    BY <1>2 DEF StepLoad
  <2>2. StoreHasLeft' /\ CountInv'
    BY <2>1 DEF DriveInv, StoreHasLeft, CountInv, CountIsStepsDriven
  <2>3. OnCourse'
    BY <2>1 DEF DriveInv, OnCourse
  <2> QED  BY <2>2, <2>3 DEF DriveInv
<1>3. CASE StepStore(t)
  <2>1. /\ pc[t] = "store" /\ pc' = [pc EXCEPT ![t] = "step"]
        /\ pos' = NextStep(load[t]) /\ left' = [left EXCEPT ![t] = left[t] - 1]
        /\ UNCHANGED <<driven, op>>
    BY <1>3 DEF StepStore
  <2>2. load[t] = pos /\ driven = NextStep(pos) /\ left[t] > 0
    BY <2>1 DEF DriveInv, CountInv, StoreHasLeft
  <2>3. StoreHasLeft' /\ CountInv'
    BY <2>1, <2>2 DEF DriveInv, StoreHasLeft, CountInv, CountIsStepsDriven
  <2>4. pos + left[t] \in {TargetStep(Goal(op[t])),
                           TargetStep(Goal(op[t])) + STEPS_PER_REV}
    BY <2>1 DEF DriveInv, OnCourse
  <2>5. NextStep(pos) + (left[t] - 1) \in {TargetStep(Goal(op[t])),
                                           TargetStep(Goal(op[t])) + STEPS_PER_REV}
    BY <2>2, <2>4, StepNearsGoal, GoalReachable
  <2>6. OnCourse'
    BY <2>1, <2>2, <2>5 DEF DriveInv, OnCourse
  <2> QED  BY <2>3, <2>6 DEF DriveInv
<1>4. CASE StepFails(t) \/ Arrive(t)
  <2>1. /\ pc[t] = "step" /\ pc' \in {[pc EXCEPT ![t] = "rejoin"], [pc EXCEPT ![t] = "report"]}
        /\ left' = [left EXCEPT ![t] = 0]
        /\ UNCHANGED <<pos, driven, load, op>>
    BY <1>4 DEF StepFails, Arrive, AfterRotate, motor
  <2>2. StoreHasLeft' /\ CountInv'
    BY <2>1 DEF DriveInv, StoreHasLeft, CountInv, CountIsStepsDriven
  <2>3. OnCourse'
    BY <2>1 DEF DriveInv, OnCourse
  <2> QED  BY <2>2, <2>3 DEF DriveInv
<1> QED  BY <1>1, <1>2, <1>3, <1>4 DEF Drives

\* A rotation that has no step left stands at its goal.
LEMMA AtGoal ==
  ASSUME TypeOK, DriveInv, NEW t \in {"cli", "cmd"}, Driving(t), left[t] = 0
  PROVE  pos = TargetStep(Goal(op[t]))
<1>1. pos + left[t] \in {TargetStep(Goal(op[t])), TargetStep(Goal(op[t])) + STEPS_PER_REV}
  BY DEF DriveInv, OnCourse, Threads
<1> QED  BY <1>1, GoalReachable, StepsAssumption DEF TypeOK, Positions, StepsAssumption

-----------------------------------------------------------------------------
(* What quitting leaves behind                                             *)

\* The turn at which a cleanup ends.
Home == TargetStep(Goal("QUIT"))

LEMMA HomeIsLocked == Home \in Positions /\ Locked(Home)
  BY LockedTarget DEF Home, Goal

\* The quitting terminal is alone with the lock: the command thread is gone.
CleanupAlone == op["cli"] = "QUIT" /\ pc["cli"] # "join" /\ pc["cmd"] = "exited"

\* Then nobody else changes anything that counts for the cleanup.
LEMMA OthersAreGone ==
  ASSUME TypeOK, QuietInv, CleanupAlone, [Next]_vars,
         ~ Drives("cli"), ~ JoinCmd, ~ Rejoin
  PROVE  /\ UNCHANGED motor
         /\ pc'["cli"] = pc["cli"] /\ pc'["cmd"] = pc["cmd"] /\ op'["cli"] = op["cli"]
<1> USE DEF CleanupAlone, TypeOK, Threads, Goto, Set
<1>1. /\ pc["cli"] \in {"close", "rotate", "step", "store", "rejoin", "exited", "hung"}
      /\ pc["hb"] = "exited"
  BY DEF QuietInv
<1>2. ~ Operate("cli") /\ ~ Operate("cmd")
  BY <1>1 DEF Operate, Drives, Rotate, StepLoad, StepFails, StepStore, Arrive, UnlockCheck,
     Measure, UnlockRecall, LockDecide, UnlockDecide, StatusDecide, ReportMeasure,
     Remember, Finish
<1>3. \A t \in Threads : ~ Publish(t)
  BY <1>1 DEF Publish, ReadLock, FirstUpdate, SaveFirst, SendFirst, Update, SavePrevious
<1>4. ~ JoinHb /\ ~ CmdLoop /\ ~ CmdIgnore /\ ~ HbMeasure /\ ~ HbLoop /\ ~ Quit
  BY <1>1 DEF JoinHb, CmdLoop, CmdIgnore, HbMeasure, HbLoop, Quit
<1>5. \A t \in {"cli", "cmd"}, o \in Ops : ~ Begin(t, o)
  BY <1>1 DEF Begin
<1>6. (\E s \in Readings : Sense(s)) \/ Period \/ UNCHANGED vars
  BY <1>2, <1>3, <1>4, <1>5 DEF Next, CliStep, CmdStep, HbStep
<1> QED  BY <1>6 DEF Sense, Period, vars, locals

\* A step of the rotation of the cleanup.
LEMMA CleanupDrives ==
  ASSUME TypeOK, StoreHasLeft, LocksFrom, ~ PinFaults, Drives("cli")
  PROVE  LocksFrom'
<1> USE DEF TypeOK, Threads, Driving, Goto, Set, locals
<1>a. Home \in Positions /\ Locked(Home)
  BY HomeIsLocked
<1>b. /\ op["cli"] = "QUIT" /\ pc["cmd"] = "exited"
      /\ Driving("cli") => pos + left["cli"] \in {Home, Home + STEPS_PER_REV}
      /\ pc["cli"] = "store" => load["cli"] = pos
  BY DEF LocksFrom, Home
<1>c. /\ op' = op /\ pc'["cmd"] = "exited"
      /\ \/ /\ pc'["cli"] \in {"step", "store"}
            /\ pos' + left'["cli"] \in {Home, Home + STEPS_PER_REV}
            /\ pc'["cli"] = "store" => load'["cli"] = pos'
         \/ pc'["cli"] = "rejoin" /\ Locked(pos')
      => LocksFrom'
  BY <1>b DEF LocksFrom, Home, Locked, Unlocked
<1>1. CASE Rotate("cli")
  <2>1. /\ pc' = [pc EXCEPT !["cli"] = "step"] /\ op' = op /\ pos' = pos
        /\ left' = [left EXCEPT !["cli"] = StepsNeeded(pos, Goal("QUIT"))]
    BY <1>1, <1>b DEF Rotate
  <2>2. pos + StepsNeeded(pos, Goal("QUIT")) \in {Home, Home + STEPS_PER_REV}
    BY StepsNeededReach, GoalReachable DEF Home
  <2> QED  BY <1>b, <1>c, <2>1, <2>2
<1>2. CASE StepLoad("cli")
  BY <1>2, <1>b, <1>c DEF StepLoad
<1>3. CASE StepStore("cli")
  <2>1. /\ pc["cli"] = "store" /\ pc' = [pc EXCEPT !["cli"] = "step"] /\ op' = op
        /\ pos' = NextStep(load["cli"]) /\ left' = [left EXCEPT !["cli"] = left["cli"] - 1]
    BY <1>3 DEF StepStore
  <2>2. load["cli"] = pos /\ left["cli"] > 0 /\ pos + left["cli"] \in {Home, Home + STEPS_PER_REV}
    BY <1>b, <2>1 DEF StoreHasLeft
  <2>3. NextStep(pos) + (left["cli"] - 1) \in {Home, Home + STEPS_PER_REV}
    BY <1>a, <2>2, StepNearsGoal
  <2> QED  BY <1>b, <1>c, <2>1, <2>2, <2>3
<1>4. CASE Arrive("cli")
  <2>1. /\ pc["cli"] = "step" /\ left["cli"] = 0
        /\ pc' = [pc EXCEPT !["cli"] = "rejoin"] /\ op' = op /\ pos' = pos
    BY <1>4, <1>b DEF Arrive, AfterRotate, motor
  <2>2. pos + left["cli"] \in {Home, Home + STEPS_PER_REV}
    BY <1>b, <2>1
  <2>3. pos = Home
    BY <1>a, <2>1, <2>2, StepsAssumption DEF Positions, StepsAssumption
  <2> QED  BY <1>a, <1>b, <1>c, <2>1, <2>3
<1> QED  BY <1>1, <1>2, <1>3, <1>4 DEF Drives, StepFails

\* The cleanup of a lock that was not unlocked goes on.
LEMMA LocksFromStep ==
  ASSUME ~ PinFaults, TypeInv, QuietInv, LocksFrom, [Next]_vars
  PROVE  LocksFrom'
<1> USE DEF TypeInv
<1>1. CASE Drives("cli")
  BY <1>1, CleanupDrives
<1>2. CASE JoinCmd
  BY <1>2 DEF JoinCmd, LocksFrom, Goto, Driving, TypeOK, Threads, motor, locals
<1>3. CASE Rejoin
  BY <1>3 DEF Rejoin, LocksFrom, Goto, Driving, TypeOK, Threads, motor, locals, Locked
<1>4. CASE ~ Drives("cli") /\ ~ JoinCmd /\ ~ Rejoin
  <2>1. CleanupAlone
    BY DEF LocksFrom, CleanupAlone
  <2>2. /\ UNCHANGED <<pos, left, load>>
        /\ pc'["cli"] = pc["cli"] /\ pc'["cmd"] = pc["cmd"] /\ op'["cli"] = op["cli"]
    BY <1>4, <2>1, OthersAreGone DEF motor
  <2> QED  BY <2>2 DEF LocksFrom, Driving, Locked, Unlocked
<1> QED  BY <1>1, <1>2, <1>3, <1>4

\* A lock that was unlocked is left alone.
LEMMA LeavesUnlockedStep ==
  ASSUME TypeOK, QuietInv, LeavesUnlocked, [Next]_vars
  PROVE  LeavesUnlocked'
<1>1. ~ Drives("cli")
  BY DEF LeavesUnlocked, Drives, Rotate, StepLoad, StepFails, StepStore, Arrive
<1>2. CASE JoinCmd
  BY <1>2 DEF JoinCmd, LeavesUnlocked, Goto, TypeOK, Threads, motor, locals, Unlocked
<1>3. CASE Rejoin
  BY <1>3 DEF Rejoin, LeavesUnlocked, Goto, TypeOK, Threads, motor, locals, Unlocked
<1>4. CASE ~ JoinCmd /\ ~ Rejoin
  <2>1. CleanupAlone
    BY DEF LeavesUnlocked, CleanupAlone
  <2>2. /\ UNCHANGED pos
        /\ pc'["cli"] = pc["cli"] /\ pc'["cmd"] = pc["cmd"] /\ op'["cli"] = op["cli"]
    BY <1>1, <1>4, <2>1, OthersAreGone DEF motor
  <2> QED  BY <2>2 DEF LeavesUnlocked, Unlocked
<1> QED  BY <1>2, <1>3, <1>4

\* The steps of the other threads leave the terminal where it is.
LEMMA OthersFrame ==
  ASSUME TypeOK, NEW t \in {"cmd", "hb"},
         Publish(t) \/ (t = "cmd" /\ Operate(t)) \/ CmdIgnore \/ CmdLoop
           \/ HbMeasure \/ HbLoop \/ (\E o \in Ops : Begin("cmd", o))
  PROVE  pc'["cli"] = pc["cli"] /\ op'["cli"] = op["cli"]
<1> USE DEF TypeOK, Threads, Goto, Set, Conclude, DropDist, DropSample, locals
<1>1. CASE Publish(t)
  BY <1>1 DEF Publish, ReadLock, FirstUpdate, SaveFirst, SendFirst, Update, SavePrevious
<1>2. CASE t = "cmd" /\ Operate(t)
  <2>1. CASE Drives(t)
    BY <1>2, <2>1 DEF Drives, Rotate, StepLoad, StepFails, StepStore, Arrive
  <2>2. CASE ~ Drives(t)
    BY <1>2, <2>2 DEF Drives, Operate, UnlockCheck, Measure, UnlockRecall, LockDecide,
       UnlockDecide, StatusDecide, ReportMeasure, Remember, Finish
  <2> QED  BY <2>1, <2>2
<1>3. CASE CmdIgnore \/ CmdLoop \/ HbMeasure \/ HbLoop
  BY <1>3 DEF CmdIgnore, CmdLoop, HbMeasure, HbLoop
<1>4. CASE \E o \in Ops : Begin("cmd", o)
  BY <1>4 DEF Begin
<1> QED  BY <1>1, <1>2, <1>3, <1>4

\* As long as the end is open, the quitting terminal does not get past the join of
\* the command thread.
LEMMA StillOpen ==
  ASSUME TypeOK, QuietInv, Ending = "open", [Next]_vars, op'["cli"] = "QUIT"
  PROVE  pc'["cli"] \in {"join", "close"}
<1> USE DEF TypeOK, Threads, Goto, Set, Conclude, DropDist, DropSample, locals
<1>1. op["cli"] = "QUIT" => pc["cli"] \in {"join", "close"}
  BY DEF QuietInv, Ending
<1>2. CASE pc'["cli"] = pc["cli"] /\ op'["cli"] = op["cli"]
  BY <1>1, <1>2
<1>3. ASSUME NEW o \in Ops, Begin("cli", o) PROVE FALSE
  BY <1>3 DEF Begin, Ops
<1>4. CASE Operate("cli") \/ Publish("cli")
  <2>1. op["cli"] # "QUIT"
    BY <1>1, <1>4 DEF Operate, Rotate, StepLoad, StepFails, StepStore, Arrive,
       UnlockCheck, Measure, UnlockRecall, LockDecide, UnlockDecide, StatusDecide,
       ReportMeasure, Remember, Finish, Publish, ReadLock, FirstUpdate, SaveFirst,
       SendFirst, Update, SavePrevious
  <2>2. op'["cli"] \in {op["cli"], "NONE"}
    BY <1>4 DEF Operate, Rotate, StepLoad, StepFails, StepStore, Arrive, UnlockCheck,
       Measure, UnlockRecall, LockDecide, UnlockDecide, StatusDecide, ReportMeasure,
       Remember, Finish, Publish, ReadLock, FirstUpdate, SaveFirst, SendFirst, Update,
       SavePrevious
  <2> QED  BY <2>1, <2>2
<1>5. CASE Quit \/ JoinHb
  BY <1>5 DEF Quit, JoinHb
<1>6. ~ JoinCmd /\ ~ Rejoin
  BY DEF JoinCmd, Rejoin, Ending
<1>7. CASE (\E s \in Readings : Sense(s)) \/ Period \/ UNCHANGED vars
  BY <1>2, <1>7 DEF Sense, Period, vars
<1> QED
  BY <1>2, <1>3, <1>4, <1>5, <1>6, <1>7, OthersFrame DEF Next, CliStep, CmdStep, HbStep

LEMMA EndingStep ==
  ASSUME ~ PinFaults, TypeInv, QuietInv, EndingInv, [Next]_vars
  PROVE  EndingInv' /\ (Ending # "open" => Ending' = Ending)
<1>0. TypeOK /\ TypeOK' /\ QuietInv'
  BY TypeStep, QuietStep DEF TypeInv
<1>1. CASE LocksFrom
  <2>1. Ending = "locked" /\ LocksFrom'
    BY <1>1, LocksFromStep DEF LocksFrom, Ending
  <2>2. Ending' = "locked"
    BY <2>1 DEF LocksFrom, Ending
  <2> QED  BY <2>1, <2>2 DEF EndingInv
<1>2. CASE LeavesUnlocked
  <2>1. \A p : ~ (Locked(p) /\ Unlocked(p))
    BY DEF Locked, Unlocked, STEPPER_LOCKED_POSITION, STEPPER_UNLOCKED_POSITION
  <2>2. Ending = "unlocked" /\ LeavesUnlocked'
    BY <1>0, <1>2, <2>1, LeavesUnlockedStep DEF LeavesUnlocked, Ending
  <2>3. ~ Locked(pos') /\ Unlocked(pos')
    BY <2>1, <2>2 DEF LeavesUnlocked, Unlocked
  <2>4. Ending' = "unlocked"
    BY <2>2, <2>3 DEF LeavesUnlocked, Ending, Locked, Unlocked
  <2> QED  BY <2>2, <2>4 DEF EndingInv
<1>3. CASE Ending = "open"
  <2> SUFFICES ASSUME Ending' # "open" PROVE (LocksFrom \/ LeavesUnlocked)'
    BY <1>3 DEF EndingInv
  <2>1. op'["cli"] = "QUIT"
    BY <1>0 DEF Ending, QuietInv
  <2>2. pc'["cli"] = "close" /\ pc'["cmd"] = "exited"
    BY <1>0, <1>3, <2>1, StillOpen DEF Ending
  <2> QED  BY <2>1, <2>2 DEF LocksFrom, LeavesUnlocked, Driving
<1> QED  BY <1>1, <1>2, <1>3 DEF EndingInv

\* Whatever terminal and COMMANDs ask for, and even if two rotations that
\* overlapped have left the lock anywhere: unless a pin fails, a quit that finds the
\* lock unlocked leaves it unlocked, and any other quit leaves it locked.
THEOREM QuitSettles == ASSUME ~ PinFaults PROVE Spec => QuitNeverUnlocks
<1> DEFINE I == TypeInv /\ QuietInv /\ EndingInv
<1>1. Init => I
  <2>1. ASSUME Init PROVE Ending = "open"
    BY <2>1 DEF Init, Ending, Threads
  <2> QED  BY <2>1, TypeInit DEF Init, QuietInv, EndingInv, Threads
<1>2. I /\ [Next]_vars => I' /\ (Ending # "open" => Ending' = Ending)
  BY TypeStep, QuietStep, EndingStep DEF TypeInv
<1>3. I /\ [Next]_vars => I' /\ [Ending # "open" => Ending' = Ending]_vars
  BY <1>2
<1> QED  BY <1>1, <1>3, PTL DEF Spec, QuitNeverUnlocks

-----------------------------------------------------------------------------
(* One mover: what the command thread says of the lock is true             *)

\* The steps of the command thread, and the other ones.
CmdActs == CmdStep \/ CmdIgnore \/ (\E o \in Ops : Begin("cmd", o))
OtherActs ==
  \/ CliStep \/ HbStep \/ Quit \/ Period
  \/ (\E o \in Ops : Begin("cli", o))
  \/ (\E s \in Readings : Sense(s))
  \/ UNCHANGED vars

LEMMA ActsSplit == [Next]_vars => CmdActs \/ OtherActs
  BY DEF Next, CmdActs, OtherActs

\* Other threads' steps leave the command thread where it is.
LEMMA OtherActsFrame ==
  ASSUME TypeOK, OtherActs
  PROVE  pc'["cmd"] = pc["cmd"] /\ op'["cmd"] = op["cmd"] /\ st'["cmd"] = st["cmd"]
<1> USE DEF TypeOK, Threads, Goto, Set, Conclude, DropDist, DropSample, locals
<1>1. ASSUME NEW t \in {"cli", "hb"}, Publish(t)
      PROVE  pc'["cmd"] = pc["cmd"] /\ op'["cmd"] = op["cmd"] /\ st'["cmd"] = st["cmd"]
  BY <1>1 DEF Publish, ReadLock, FirstUpdate, SaveFirst, SendFirst, Update, SavePrevious
<1>2. CASE Operate("cli") /\ Drives("cli")
  <2>1. pc'["cmd"] = pc["cmd"] /\ op'["cmd"] = op["cmd"]
    BY <1>2 DEF Drives, Rotate, StepLoad, StepFails, StepStore, Arrive
  <2>2. CASE Arrive("cli")
    <3>1. st' \in {st, [st EXCEPT !["cli"] = "LOCKED"], [st EXCEPT !["cli"] = "UNLOCKED"]}
      BY <2>2, Zenon DEF Arrive
    <3> QED  BY <2>1, <3>1
  <2>3. CASE ~ Arrive("cli")
    BY <1>2, <2>1, <2>3 DEF Drives, Rotate, StepLoad, StepFails, StepStore
  <2> QED  BY <2>2, <2>3
<1>3. CASE Operate("cli") /\ ~ Drives("cli")
  BY <1>3 DEF Drives, Operate, UnlockCheck, Measure, UnlockRecall, LockDecide,
     UnlockDecide, StatusDecide, ReportMeasure, Remember, Finish
<1>4. CASE JoinHb \/ JoinCmd \/ Rejoin \/ HbMeasure \/ HbLoop \/ Quit \/ Period
  BY <1>4 DEF JoinHb, JoinCmd, Rejoin, HbMeasure, HbLoop, Quit, Period
<1>5. CASE (\E o \in Ops : Begin("cli", o)) \/ (\E s \in Readings : Sense(s)) \/ UNCHANGED vars
  BY <1>5 DEF Begin, Sense, vars
<1> QED  BY <1>1, <1>2, <1>3, <1>4, <1>5 DEF OtherActs, CliStep, HbStep

\* The cleanup drives the lock when the command thread is gone, so nobody drives
\* it at the same time as another.
LEMMA OneDrives ==
  ASSUME TypeOK, QuietInv, OnlyCleanup
  PROVE  /\ pc["cli"] = "rotate" \/ Driving("cli") => pc["cmd"] = "exited"
         /\ ~ Driving("hb")
         /\ \A t \in {"cli", "cmd"} : Drives(t) => Alone(t)
<1>1. pc["cli"] = "rotate" \/ Driving("cli") => pc["cmd"] = "exited"
  BY DEF OnlyCleanup, QuietInv, Driving
<1>2. ~ Driving("hb")
  BY DEF QuietInv, Driving
<1>3. \A t \in {"cli", "cmd"} : Drives(t) => pc[t] \in {"rotate", "step", "store"}
  BY DEF Drives, Rotate, StepLoad, StepFails, StepStore, Arrive
<1> QED  BY <1>1, <1>2, <1>3 DEF Alone, Driving, Threads

LEMMA DriveStep ==
  ASSUME TypeOK, QuietInv, OnlyCleanup, DriveInv, [Next]_vars
  PROVE  DriveInv'
<1>1. CASE \E t \in {"cli", "cmd"} : Drives(t)
  BY <1>1, OneDrives, DrivesOn
<1>2. CASE \A t \in {"cli", "cmd"} : ~ Drives(t)
  BY <1>2, StepStill, StillDrives
<1> QED  BY <1>1, <1>2

LEMMA OnlyCleanupStep ==
  ASSUME SingleMover, TypeOK, QuietInv, OnlyCleanup, [Next]_vars
  PROVE  OnlyCleanup'
<1> USE DEF TypeOK, Threads, Goto, Set, Conclude, DropDist, DropSample, locals, Driving, OnlyCleanup
<1>1. ASSUME pc'["cli"] = pc["cli"], op'["cli"] = op["cli"] PROVE OnlyCleanup'
  BY <1>1
<1>2. CASE Operate("cli") /\ Drives("cli")
  BY <1>2 DEF Drives, Rotate, StepLoad, StepFails, StepStore, Arrive, AfterRotate
<1>3. CASE Operate("cli") /\ ~ Drives("cli")
  BY <1>3 DEF Drives, Operate, UnlockCheck, Measure, UnlockRecall, LockDecide,
     UnlockDecide, StatusDecide, ReportMeasure, Remember, Finish
<1>4. CASE Publish("cli")
  BY <1>4 DEF Publish, ReadLock, FirstUpdate, SaveFirst, SendFirst, Update, SavePrevious
<1>5. CASE Quit \/ JoinHb \/ JoinCmd \/ Rejoin
  BY <1>5 DEF Quit, JoinHb, JoinCmd, Rejoin, QuietInv
<1>6. ASSUME NEW o \in Ops, Begin("cli", o) PROVE OnlyCleanup'
  BY <1>6 DEF Begin, SingleMover, Ops
<1>7. CASE (\E s \in Readings : Sense(s)) \/ Period \/ UNCHANGED vars
  BY <1>1, <1>7 DEF Sense, Period, vars
<1> QED
  BY <1>1, <1>2, <1>3, <1>4, <1>5, <1>6, <1>7, OthersFrame
  DEF Next, CliStep, CmdStep, HbStep

\* An operation ends with LOCKED only when it has looked at the locked position
\* or has reached it.
LEMMA OutcomeStep ==
  ASSUME TypeOK, QuietInv, MoverInv, [Next]_vars
  PROVE  OutcomeInv'
<1> USE DEF MoverInv, OutcomeInv, ReportedLockedIsLocked, Concluded, Driving
<1> USE DEF TypeOK, Threads, Goto, Set, Conclude, DropDist, DropSample, locals, motor
<1>1. CASE OtherActs
  <2>1. pc'["cmd"] = pc["cmd"] /\ op'["cmd"] = op["cmd"] /\ st'["cmd"] = st["cmd"]
    BY <1>1, OtherActsFrame
  <2>2. CASE Drives("cli")
    <3>1. pc["cmd"] = "exited"
      BY <2>2, OneDrives DEF Drives, Rotate, StepLoad, StepFails, StepStore, Arrive
    <3> QED  BY <2>1, <3>1
  <2>3. CASE ~ Drives("cli") /\ ~ Drives("cmd")
    <3>1. pos' = pos
      BY <2>3, StepStill DEF Still
    <3> QED  BY <2>1, <3>1 DEF Locked
  <2>4. CASE Drives("cmd")
    <3>1. pc'["cmd"] # pc["cmd"]
      BY <2>4 DEF Drives, Rotate, StepLoad, StepFails, StepStore, Arrive, AfterRotate
    <3> QED  BY <2>1, <3>1
  <2> QED  BY <2>2, <2>3, <2>4
<1>2. CASE Drives("cmd")
  <2>1. CASE Rotate("cmd") \/ StepLoad("cmd") \/ StepFails("cmd") \/ StepStore("cmd")
    BY <2>1 DEF Rotate, StepLoad, StepFails, StepStore, AfterRotate
  <2>2. CASE Arrive("cmd")
    <3>1. pc["cmd"] = "step" /\ left["cmd"] = 0 /\ op["cmd"] \in {"LOCK", "UNLOCK"}
      BY <2>2 DEF Arrive
    <3>2. /\ pc' = [pc EXCEPT !["cmd"] = "report"]
          /\ st' = [st EXCEPT !["cmd"] = IF op["cmd"] = "LOCK" THEN "LOCKED" ELSE "UNLOCKED"]
          /\ UNCHANGED <<pos, op>>
      BY <2>2, <3>1 DEF Arrive, AfterRotate
    <3>3. pos = TargetStep(Goal(op["cmd"]))
      BY <3>1, AtGoal
    <3>4. op["cmd"] = "LOCK" => Locked(pos)
      BY <3>3, LockedTarget DEF Goal
    <3> QED  BY <3>1, <3>2, <3>4 DEF Locked
  <2> QED  BY <1>2, <2>1, <2>2 DEF Drives
<1>3. CASE Operate("cmd") /\ ~ Drives("cmd")
  <2>1. pos' = pos
    BY <1>3, OperateStill DEF Still
  <2>2. CASE UnlockCheck("cmd") \/ Measure("cmd") \/ UnlockRecall("cmd")
    BY <2>1, <2>2 DEF UnlockCheck, Measure, UnlockRecall, Locked
  <2>3. CASE LockDecide("cmd")
    BY <2>1, <2>3 DEF LockDecide, Locked
  <2>4. CASE UnlockDecide("cmd")
    BY <2>1, <2>4 DEF UnlockDecide, Locked
  <2>5. CASE StatusDecide("cmd")
    BY <2>1, <2>5 DEF StatusDecide, Locked
  <2>6. CASE ReportMeasure("cmd") \/ Remember("cmd") \/ Finish("cmd")
    BY <2>1, <2>6 DEF ReportMeasure, Remember, Finish, Locked
  <2> QED  BY <1>3, <2>2, <2>3, <2>4, <2>5, <2>6 DEF Operate, Drives
<1>4. CASE Publish("cmd")
  <2>1. pos' = pos
    BY <1>4, PublishStill DEF Still
  <2> QED
    BY <1>4, <2>1 DEF Publish, ReadLock, FirstUpdate, SaveFirst, SendFirst, Update, SavePrevious, Locked
<1>5. CASE CmdLoop \/ CmdIgnore \/ (\E o \in Ops : Begin("cmd", o))
  BY <1>5 DEF CmdLoop, CmdIgnore, Begin, Locked
<1> QED
  BY <1>1, <1>2, <1>3, <1>4, <1>5, ActsSplit DEF CmdActs, CmdStep

Inv == TypeOK /\ QuietInv /\ MoverInv

LEMMA InvInit == Init => Inv
<1> SUFFICES ASSUME Init PROVE Inv
  OBVIOUS
<1>1. TypeOK
  BY TypeInit DEF TypeInv
<1> QED  BY <1>1 DEF Init, Inv, QuietInv, MoverInv, OnlyCleanup, DriveInv, StoreHasLeft, CountInv,
   CountIsStepsDriven, OnCourse, OutcomeInv, ReportedLockedIsLocked, Driving, Concluded,
   Threads

LEMMA InvStep == ASSUME SingleMover, Inv, [Next]_vars PROVE Inv'
<1> USE DEF Inv, MoverInv
<1>1. TypeOK'
  BY TypeStep DEF TypeInv, DriveInv
<1> QED  BY <1>1, QuietStep, OnlyCleanupStep, DriveStep, OutcomeStep

LEMMA SingleMoverInv == ASSUME SingleMover PROVE Spec => []Inv
  BY InvInit, InvStep, PTL DEF Spec

\* When the terminal moves the lock for the cleanup of quit at most, an operation
\* that answers LOCKED tells the truth from its conclusion to its FEEDBACK, for
\* every number of half-steps and even when rotations fail on their way.
THEOREM LockedIsTrue == ASSUME SingleMover PROVE Spec => []ReportedLockedIsLocked
<1>1. Inv => ReportedLockedIsLocked
  BY DEF Inv, MoverInv, OutcomeInv
<1> QED  BY <1>1, SingleMoverInv, PTL

\* Then the open-loop count equals the steps the pins were driven, and a rotation
\* in progress, also the one of the cleanup, is on its way to its goal.
THEOREM CountIsExact ==
  ASSUME SingleMover PROVE Spec => [](CountIsStepsDriven /\ OnCourse)
<1>1. Inv => CountIsStepsDriven /\ OnCourse
  BY DEF Inv, MoverInv, DriveInv, CountInv
<1> QED  BY <1>1, SingleMoverInv, PTL

\* Then a rotation stays on its way to its goal.
THEOREM StaysOnCourse == ASSUME SingleMover PROVE Spec => []OnCourse
<1>1. CountIsStepsDriven /\ OnCourse => OnCourse
  OBVIOUS
<1> QED  BY <1>1, CountIsExact, PTL

\* Then the count never goes back and never jumps.
THEOREM OnlyForward == ASSUME SingleMover PROVE Spec => ForwardOnly
<1>1. Inv /\ [Next]_vars => [pos' \in {pos, NextStep(pos)}]_vars
  <2> SUFFICES ASSUME Inv, [Next]_vars PROVE pos' \in {pos, NextStep(pos)}
    OBVIOUS
  <2>1. ASSUME NEW t \in {"cli", "cmd"}, StepStore(t) PROVE pos' = NextStep(pos)
    BY <2>1 DEF StepStore, Inv, MoverInv, DriveInv, CountInv, Threads
  <2>2. ASSUME NEW t \in {"cli", "cmd"}, Drives(t), ~ StepStore(t) PROVE pos' = pos
    BY <2>2 DEF Drives, Rotate, StepLoad, StepFails, Arrive, motor
  <2>3. CASE \A t \in {"cli", "cmd"} : ~ Drives(t)
    BY <2>3, StepStill DEF Still, motor, Inv
  <2> QED  BY <2>1, <2>2, <2>3
<1> QED  BY <1>1, SingleMoverInv, PTL DEF Spec, ForwardOnly

-----------------------------------------------------------------------------
(* One mover and sound pins: a lock that does not turn is at an end         *)

LockedEnd == TargetStep(STEPPER_LOCKED_POSITION)
UnlockedEnd == TargetStep(STEPPER_UNLOCKED_POSITION)

\* A thread that has exited does nothing.
LEMMA ActsAlive == CmdActs => pc["cmd"] # "exited"
<1>1. Operate("cmd") => pc["cmd"] # "exited"
  BY DEF Operate, UnlockCheck, Measure, UnlockRecall, LockDecide, UnlockDecide,
     StatusDecide, Rotate, StepLoad, StepFails, StepStore, Arrive, ReportMeasure,
     Remember, Finish
<1>2. Publish("cmd") => pc["cmd"] # "exited"
  BY DEF Publish, ReadLock, FirstUpdate, SaveFirst, SendFirst, Update, SavePrevious
<1> QED  BY <1>1, <1>2 DEF CmdActs, CmdStep, CmdLoop, CmdIgnore, Begin

\* While the command thread executes what is no rotation, the lock is at an end.
LEMMA CmdAtRest ==
  ASSUME TypeOK, QuietInv, MoverInv, RestInv, pc["cmd"] # "exited", ~ Driving("cmd")
  PROVE  /\ pos \in {LockedEnd, UnlockedEnd}
         /\ Locked(pos) <=> pos = LockedEnd
         /\ Unlocked(pos) <=> pos = UnlockedEnd
<1>1. \A t \in Threads : ~ Driving(t)
  BY OneDrives DEF MoverInv, Threads
<1> QED  BY <1>1, EndsRead DEF RestInv, Ends, LockedEnd, UnlockedEnd

\* A step of the command thread that is none of a rotation.
LEMMA CmdRests ==
  ASSUME TypeOK, QuietInv, MoverInv, RestInv, CmdActs, ~ Drives("cmd"), Still
  PROVE  RestInv'
<1> USE DEF TypeOK, Threads, Goto, Set, Conclude, DropDist, DropSample, locals
<1>1. /\ pc["cmd"] # "exited"
      /\ pc'["cli"] = pc["cli"] /\ op'["cli"] = op["cli"]
      /\ \A t \in Threads : Driving(t)' <=> Driving(t)
      /\ UNCHANGED <<pos, left>>
  <2>1. CASE Operate("cmd")
    BY <2>1 DEF Still, motor, Driving, Operate, Drives, UnlockCheck, Measure, UnlockRecall,
       LockDecide, UnlockDecide, StatusDecide, ReportMeasure, Remember, Finish
  <2>2. CASE Publish("cmd")
    BY <2>2 DEF Still, motor, Driving, Publish, ReadLock, FirstUpdate, SaveFirst, SendFirst, Update, SavePrevious
  <2>3. CASE CmdLoop \/ CmdIgnore \/ (\E o \in Ops : Begin("cmd", o))
    BY <2>3 DEF Still, motor, Driving, CmdLoop, CmdIgnore, Begin
  <2> QED  BY <2>1, <2>2, <2>3 DEF CmdActs, CmdStep
<1>2. CASE Driving("cmd")
  <2>1. ~ Drives("cmd") /\ pc'["cmd"] = pc["cmd"] /\ op'["cmd"] = op["cmd"]
    BY <1>2 DEF Still
  <2> QED  BY <1>1, <1>2, <2>1 DEF RestInv, ReportedUnlockedIsWithdrawn, Driving, Concluded, Unlocked
<1>3. CASE ~ Driving("cmd")
  <2>1. /\ pos \in {LockedEnd, UnlockedEnd}
        /\ Locked(pos) <=> pos = LockedEnd
        /\ Unlocked(pos) <=> pos = UnlockedEnd
    BY <1>1, <1>3, CmdAtRest
  <2> USE DEF Concluded
  <2>2. /\ (\A t \in Threads : ~ Driving(t)') => pos' \in Ends
        /\ pc'["cli"] = "rotate" \/ Driving("cli")' => pos' = LockedEnd
        /\ Driving("cli")' => left'["cli"] = 0
    BY <1>1 DEF RestInv, LockedEnd
  <2> DEFINE CmdPart ==
        /\ op["cmd"] = "UNLOCK" /\ pc["cmd"] \in {"measure", "recall", "decide", "rotate"}
             => pos = LockedEnd
        /\ op["cmd"] = "LOCK" /\ pc["cmd"] = "rotate" => pos = UnlockedEnd
        /\ pc["cmd"] \in {"idle", "recv", "exited"} <=> op["cmd"] = "NONE"
        /\ Concluded("cmd") /\ op["cmd"] = "UNLOCK" /\ st["cmd"] = "UNLOCKED"
             => pos = UnlockedEnd
  <2>3. CmdPart
    BY <2>1 DEF RestInv, LockedEnd, UnlockedEnd, ReportedUnlockedIsWithdrawn
  <2>4. ~ Concluded("cmd") => st["cmd"] = "UNKNOWN"
    BY DEF MoverInv, OutcomeInv
  <2>5. CmdPart'
    <3>1. LockedEnd' = LockedEnd /\ UnlockedEnd' = UnlockedEnd
      BY DEF LockedEnd, UnlockedEnd, TargetStep, STEPPER_LOCKED_POSITION, STEPPER_UNLOCKED_POSITION
    <3> USE <1>1, <2>1, <2>3, <2>4, <3>1
    <3>2. CASE UnlockCheck("cmd") \/ Measure("cmd") \/ UnlockRecall("cmd")
      BY <3>2 DEF UnlockCheck, Measure, UnlockRecall
    <3>3. CASE LockDecide("cmd")
      BY <3>3 DEF LockDecide
    <3>4. CASE UnlockDecide("cmd")
      BY <3>4 DEF UnlockDecide
    <3>5. CASE StatusDecide("cmd")
      BY <3>5 DEF StatusDecide
    <3>6. CASE ReportMeasure("cmd") \/ Remember("cmd") \/ Finish("cmd")
      BY <3>6 DEF ReportMeasure, Remember, Finish
    <3>7. CASE Publish("cmd")
      BY <3>7 DEF Publish, ReadLock, FirstUpdate, SaveFirst, SendFirst, Update, SavePrevious
    <3>8. CASE CmdLoop \/ CmdIgnore
      BY <3>8 DEF CmdLoop, CmdIgnore
    <3>9. ASSUME NEW o \in Ops, Begin("cmd", o) PROVE CmdPart'
      BY <3>9 DEF Begin, Ops
    <3> QED
      BY <3>2, <3>3, <3>4, <3>5, <3>6, <3>7, <3>8, <3>9
      DEF CmdActs, CmdStep, Operate, Drives
  <2>6. Unlocked(pos)' <=> Unlocked(pos)
    BY <1>1 DEF Unlocked
  <2> HIDE DEF Concluded
  <2> QED
    BY <1>1, <2>1, <2>2, <2>5, <2>6 DEF RestInv, LockedEnd, UnlockedEnd, ReportedUnlockedIsWithdrawn
<1> QED  BY <1>2, <1>3

\* A step of another thread that is none of a rotation: at most the cleanup of
\* quit sets out to turn the lock.
LEMMA OthersRest ==
  ASSUME TypeOK, QuietInv, MoverInv, RestInv, OtherActs, ~ Drives("cli"), Still
  PROVE  RestInv'
<1> USE DEF TypeOK, Threads, Goto, Set, Conclude, DropDist, DropSample, locals
<1>1. /\ pc'["cmd"] = pc["cmd"] /\ op'["cmd"] = op["cmd"] /\ st'["cmd"] = st["cmd"]
      /\ \A t \in Threads : Driving(t)' <=> Driving(t)
      /\ UNCHANGED <<pos, left>>
  BY OtherActsFrame DEF Still, motor, Driving
<1>2. pc'["cli"] = "rotate" => pos = LockedEnd
  <2> SUFFICES ASSUME pc'["cli"] = "rotate" PROVE pos = LockedEnd
    OBVIOUS
  <2>1. CASE pc["cli"] = "rotate"
    BY <2>1 DEF RestInv, LockedEnd
  <2>2. CASE JoinCmd
    <3>1. \A t \in Threads : ~ Driving(t)
      BY <2>2, OneDrives DEF JoinCmd, MoverInv, Driving
    <3>2. ~ Unlocked(pos)
      BY <2>2 DEF JoinCmd
    <3> QED  BY <3>1, <3>2, EndsRead DEF RestInv, Ends, LockedEnd, UnlockedEnd
  <2>3. CASE LockDecide("cli") \/ UnlockDecide("cli")
    BY <2>3 DEF LockDecide, UnlockDecide, MoverInv, OnlyCleanup
  <2>4. CASE pc["cli"] # "rotate" /\ ~ JoinCmd /\ ~ LockDecide("cli") /\ ~ UnlockDecide("cli")
    <3>1. ~ Operate("cli")
      BY <2>4 DEF Operate, Drives, UnlockCheck, Measure, UnlockRecall,
         StatusDecide, ReportMeasure, Remember, Finish
    <3>2. ~ Publish("cli") /\ ~ HbStep
      BY <2>4 DEF Publish, HbStep, HbMeasure, HbLoop, ReadLock, FirstUpdate, SaveFirst, SendFirst, Update, SavePrevious
    <3> QED
      BY <2>4, <3>1, <3>2 DEF OtherActs, CliStep, JoinHb, Rejoin, Quit, Period, Begin, Sense, vars
  <2> QED  BY <2>1, <2>2, <2>3, <2>4
<1> QED  BY <1>1, <1>2 DEF RestInv, ReportedUnlockedIsWithdrawn, Concluded, Unlocked, LockedEnd

\* A rotation of the command thread is under way, or ends at its goal.
LEMMA CmdTurns ==
  ASSUME ~ PinFaults, TypeOK, QuietInv, MoverInv, RestInv, Drives("cmd")
  PROVE  RestInv'
<1> USE DEF TypeOK, Threads, Goto, Set, locals
<1>1. op["cmd"] \in {"LOCK", "UNLOCK"} /\ pc["cmd"] \in {"rotate", "step", "store"}
  BY DEF MoverInv, OutcomeInv, Driving, Drives, Rotate, StepLoad, StepFails, StepStore, Arrive
<1>2. pc["cli"] # "rotate" /\ ~ Driving("cli") /\ ~ Driving("hb")
  BY <1>1, OneDrives DEF MoverInv
<1>3. CASE Rotate("cmd") \/ StepLoad("cmd") \/ StepStore("cmd")
  <2>1. pc' \in {[pc EXCEPT !["cmd"] = "step"], [pc EXCEPT !["cmd"] = "store"]} /\ op' = op
    BY <1>3 DEF Rotate, StepLoad, StepStore
  <2> QED
    BY <1>1, <1>2, <2>1 DEF RestInv, ReportedUnlockedIsWithdrawn, Concluded, Driving
<1>4. CASE Arrive("cmd")
  <2>1. /\ pc["cmd"] = "step" /\ left["cmd"] = 0
        /\ pc' = [pc EXCEPT !["cmd"] = "report"]
        /\ UNCHANGED <<pos, op, left>>
    BY <1>1, <1>4 DEF Arrive, AfterRotate, motor
  <2>2. pos = TargetStep(Goal(op["cmd"]))
    BY <2>1, AtGoal DEF MoverInv, Driving
  <2>3. pos \in Ends
    BY <2>2 DEF Goal, Ends
  <2>4. op["cmd"] = "UNLOCK" => Unlocked(pos)
    BY <2>2, <2>3, EndsRead DEF Goal
  <2> QED
    BY <1>1, <1>2, <2>1, <2>3, <2>4
    DEF RestInv, ReportedUnlockedIsWithdrawn, Concluded, Driving, Unlocked
<1> QED  BY <1>3, <1>4 DEF Drives, StepFails

\* The cleanup of quit finds the lock where it would turn it to.
LEMMA CleanupTurns ==
  ASSUME ~ PinFaults, TypeOK, QuietInv, MoverInv, RestInv, Drives("cli")
  PROVE  RestInv'
<1> USE DEF TypeOK, Threads, Goto, Set, locals
<1>1. /\ pc["cli"] \in {"rotate", "step", "store"} /\ pc["cmd"] = "exited"
      /\ op["cli"] = "QUIT" /\ op["cmd"] = "NONE" /\ ~ Driving("hb")
      /\ pos = TargetStep(STEPPER_LOCKED_POSITION)
      /\ Driving("cli") => left["cli"] = 0
  <2>1. pc["cli"] \in {"rotate", "step", "store"}
    BY DEF Drives, Rotate, StepLoad, StepFails, StepStore, Arrive
  <2> QED  BY <2>1, OneDrives DEF MoverInv, OnlyCleanup, RestInv, Driving
<1>2. Goal("QUIT") = STEPPER_LOCKED_POSITION
  BY DEF Goal
<1>3. CASE Rotate("cli")
  <2>1. StepsNeeded(pos, Goal(op["cli"])) = 0
    BY <1>1, <1>2, GoalReachable, NothingNeeded
  <2>2. /\ pc' = [pc EXCEPT !["cli"] = "step"] /\ left' = [left EXCEPT !["cli"] = 0]
        /\ UNCHANGED <<pos, op>>
    BY <1>3, <2>1 DEF Rotate
  <2> QED
    BY <1>1, <2>2 DEF RestInv, ReportedUnlockedIsWithdrawn, Concluded, Driving
<1>4. CASE StepLoad("cli") \/ StepStore("cli")
  BY <1>1, <1>4 DEF StepLoad, StepStore, MoverInv, DriveInv, StoreHasLeft, Driving
<1>5. CASE Arrive("cli")
  <2>1. /\ pc' = [pc EXCEPT !["cli"] = "rejoin"] /\ UNCHANGED <<pos, op, left>>
    BY <1>1, <1>5 DEF Arrive, AfterRotate, motor
  <2> QED
    BY <1>1, <2>1 DEF RestInv, ReportedUnlockedIsWithdrawn, Concluded, Driving, Ends
<1> QED  BY <1>3, <1>4, <1>5 DEF Drives, StepFails

LEMMA RestInit == Init => RestInv
<1> SUFFICES ASSUME Init PROVE RestInv
  OBVIOUS
<1>1. pos \in Ends
  BY UnlockedTarget DEF Init, Ends
<1> QED
  BY <1>1 DEF Init, RestInv, ReportedUnlockedIsWithdrawn, Concluded, Driving, Threads

LEMMA RestStep ==
  ASSUME ~ PinFaults, Inv, RestInv, [Next]_vars
  PROVE  RestInv'
<1>1. CASE Drives("cmd")
  BY <1>1, CmdTurns DEF Inv
<1>2. CASE Drives("cli")
  BY <1>2, CleanupTurns DEF Inv
<1>3. CASE ~ Drives("cmd") /\ ~ Drives("cli")
  BY <1>3, StepStill, ActsSplit, CmdRests, OthersRest DEF Inv
<1> QED  BY <1>1, <1>2, <1>3

LEMMA RestAlways == ASSUME SingleMover, ~ PinFaults PROVE Spec => [](Inv /\ RestInv)
<1>1. Inv /\ RestInv /\ [Next]_vars => (Inv /\ RestInv)'
  BY InvStep, RestStep
<1> QED  BY <1>1, InvInit, RestInit, PTL DEF Spec

\* When the terminal moves the lock for the cleanup of quit at most, and no pin
\* fails, a COMMAND that is answered with UNLOCKED has withdrawn the bolt or
\* found it withdrawn, for every number of half-steps and whatever the sensor
\* reads.
THEOREM UnlockedIsTrue ==
  ASSUME SingleMover, ~ PinFaults PROVE Spec => []ReportedUnlockedIsWithdrawn
<1>1. RestInv => ReportedUnlockedIsWithdrawn
  BY DEF RestInv
<1> QED  BY <1>1, RestAlways, PTL

-----------------------------------------------------------------------------
(* The module implements the lock of DoorLock                              *)

bolt == IF Driving("cmd") THEN "TURNING" ELSE IF Locked(pos) THEN "LOCKED" ELSE "UNLOCKED"
promised == <<bolt, op["cmd"], st["cmd"]>>

LEMMA InitMaps == Init => Lock!Init
<1> SUFFICES ASSUME Init PROVE Lock!Init
  OBVIOUS
<1>1. pos \in Ends /\ pos = TargetStep(STEPPER_UNLOCKED_POSITION)
  BY UnlockedTarget DEF Init, Ends
<1>2. Unlocked(pos) /\ ~ Locked(pos)
  BY <1>1, EndsRead DEF Locked, Unlocked, STEPPER_LOCKED_POSITION, STEPPER_UNLOCKED_POSITION
<1> QED  BY <1>2 DEF Init, Lock!Init, Driving, Threads

\* The bolt stays where it is when the position does and no rotation of the
\* command thread begins or ends.
LEMMA SameBolt ==
  ASSUME UNCHANGED pos, Driving("cmd")' <=> Driving("cmd")
  PROVE  UNCHANGED bolt
  BY DEF bolt, Locked

\* The steps of other threads change nothing the command thread's client sees.
LEMMA OthersMap ==
  ASSUME ~ PinFaults, Inv, RestInv, OtherActs
  PROVE  UNCHANGED promised
<1>1. /\ pc'["cmd"] = pc["cmd"] /\ op'["cmd"] = op["cmd"] /\ st'["cmd"] = st["cmd"]
      /\ Driving("cmd")' <=> Driving("cmd")
  BY OtherActsFrame DEF Inv, Driving
<1>2. pos' = pos
  <2>1. CASE Drives("cli")
    <3>1. ~ StepStore("cli")
      <4> SUFFICES ASSUME StepStore("cli") PROVE FALSE
        OBVIOUS
      <4>1. pc["cli"] = "store"
        BY DEF StepStore
      <4> QED
        BY <4>1 DEF RestInv, Driving, Inv, TypeOK, MoverInv, DriveInv, StoreHasLeft, Threads
    <3> QED  BY <2>1, <3>1 DEF Drives, Rotate, StepLoad, StepFails, Arrive, motor
  <2>2. CASE Drives("cmd")
    BY <1>1, <2>2 DEF Inv, TypeOK, Threads, Drives, Rotate, StepLoad, StepFails, StepStore,
       Arrive, AfterRotate, Goto
  <2>3. CASE ~ Drives("cli") /\ ~ Drives("cmd")
    <3>1. [Next]_vars
      BY DEF OtherActs, Next
    <3> QED  BY <2>3, <3>1, StepStill DEF Inv, Still, motor
  <2> QED  BY <2>1, <2>2, <2>3
<1> QED  BY <1>1, <1>2, SameBolt DEF promised

\* A rotation of the command thread turns the bolt to the end its command asks
\* for, which is the other one.
LEMMA TurnMaps ==
  ASSUME ~ PinFaults, Inv, RestInv, Drives("cmd")
  PROVE  Lock!Turn \/ Lock!Arrive \/ UNCHANGED promised
<1> USE DEF Inv, TypeOK, Threads, Goto, Set, locals, bolt, promised
<1>1. op["cmd"] \in {"LOCK", "UNLOCK"} /\ pc["cmd"] \in {"rotate", "step", "store"}
  BY DEF MoverInv, OutcomeInv, Driving, Drives, Rotate, StepLoad, StepFails, StepStore, Arrive
<1>2. st["cmd"] = "UNKNOWN"
  BY <1>1 DEF MoverInv, OutcomeInv, Concluded
<1>3. CASE Rotate("cmd")
  <2>1. pc["cmd"] = "rotate" /\ pc' = [pc EXCEPT !["cmd"] = "step"] /\ UNCHANGED <<op, st>>
    BY <1>3 DEF Rotate
  <2>2. /\ pos \in {LockedEnd, UnlockedEnd}
        /\ Locked(pos) <=> pos = LockedEnd
        /\ Unlocked(pos) <=> pos = UnlockedEnd
    BY <2>1, CmdAtRest DEF Driving
  <2>3. /\ op["cmd"] = "UNLOCK" => pos = LockedEnd
        /\ op["cmd"] = "LOCK" => pos = UnlockedEnd
    BY <2>1 DEF RestInv, LockedEnd, UnlockedEnd
  <2>4. ~ (Locked(pos) /\ Unlocked(pos))
    BY DEF Locked, Unlocked, STEPPER_LOCKED_POSITION, STEPPER_UNLOCKED_POSITION
  <2>5. bolt = IF op["cmd"] = "UNLOCK" THEN "LOCKED" ELSE "UNLOCKED"
    BY <1>1, <2>1, <2>2, <2>3, <2>4 DEF Driving
  <2>6. bolt' = "TURNING" /\ op'["cmd"] = op["cmd"] /\ st'["cmd"] = st["cmd"]
    BY <2>1 DEF Driving
  <2>7. Lock!Turn
    BY <1>1, <1>2, <2>5, <2>6 DEF Lock!Turn, Lock!End
  <2> QED  BY <2>7
<1>4. CASE StepLoad("cmd") \/ StepStore("cmd")
  <2>1. /\ pc["cmd"] \in {"step", "store"} /\ pc'["cmd"] \in {"step", "store"}
        /\ UNCHANGED <<op, st>>
    BY <1>4 DEF StepLoad, StepStore
  <2> QED  BY <2>1 DEF Driving
<1>5. CASE Arrive("cmd")
  <2>1. /\ pc["cmd"] = "step" /\ left["cmd"] = 0
        /\ pc' = [pc EXCEPT !["cmd"] = "report"]
        /\ UNCHANGED <<pos, op>>
        /\ st' = [st EXCEPT !["cmd"] = IF op["cmd"] = "LOCK" THEN "LOCKED" ELSE "UNLOCKED"]
    BY <1>1, <1>5 DEF Arrive, AfterRotate, motor
  <2>2. pos = TargetStep(Goal(op["cmd"])) /\ pos \in Ends
    BY <2>1, AtGoal DEF MoverInv, Driving, Goal, Ends
  <2>3. Locked(pos) <=> op["cmd"] = "LOCK"
    <3>1. Locked(LockedEnd) /\ Unlocked(UnlockedEnd)
      BY EndsRead DEF Ends, LockedEnd, UnlockedEnd
    <3>2. \A p : ~ (Locked(p) /\ Unlocked(p))
      BY DEF Locked, Unlocked, STEPPER_LOCKED_POSITION, STEPPER_UNLOCKED_POSITION
    <3> QED  BY <1>1, <2>2, <3>1, <3>2 DEF Goal, LockedEnd, UnlockedEnd
  <2>4. bolt = "TURNING" /\ bolt' = (IF op["cmd"] = "LOCK" THEN "LOCKED" ELSE "UNLOCKED")
    BY <2>1, <2>3 DEF Driving, Locked
  <2>5. Lock!Arrive
    BY <2>1, <2>4 DEF Lock!Arrive, Lock!End
  <2> QED  BY <2>5
<1> QED  BY <1>3, <1>4, <1>5 DEF Drives, StepFails

\* What the command thread does besides is to take a command, to refuse to lock
\* an open door, to look, and to answer.
LEMMA CommandMaps ==
  ASSUME Inv, RestInv, CmdActs, ~ Drives("cmd"), Still
  PROVE  \/ (\E o \in Lock!Orders : Lock!Take(o)) \/ Lock!Refuse \/ Lock!Look \/ Lock!Answer
         \/ UNCHANGED promised
<1> USE DEF Inv, TypeOK, Threads, Goto, Set, Conclude, DropDist, DropSample, locals
<1>1. UNCHANGED bolt
  BY SameBolt DEF Still, motor, Driving
<1>2. ~ Concluded("cmd") => st["cmd"] = "UNKNOWN"
  BY DEF MoverInv, OutcomeInv
<1>3. bolt # "TURNING" => (bolt = "LOCKED" <=> Locked(pos)) /\ bolt \in {"LOCKED", "UNLOCKED"}
  BY DEF bolt
<1>4. bolt = "TURNING" <=> Driving("cmd")
  BY DEF bolt
<1> USE DEF promised, Concluded, Driving
<1>5. ASSUME NEW o \in Ops, Begin("cmd", o) PROVE o \in Lock!Orders /\ Lock!Take(o)
  <2>1. op["cmd"] = "NONE" /\ st["cmd"] = "UNKNOWN" /\ op'["cmd"] = o /\ st'["cmd"] = "UNKNOWN"
    BY <1>2, <1>5 DEF Begin, RestInv
  <2> QED  BY <1>1, <2>1 DEF Lock!Take, Lock!Orders, Ops, bolt
<1>6. CASE LockDecide("cmd")
  <2>1. pc["cmd"] = "decide" /\ op["cmd"] = "LOCK" /\ op' = op /\ st["cmd"] = "UNKNOWN"
    BY <1>2, <1>6 DEF LockDecide
  <2>2. CASE st'["cmd"] = st["cmd"]
    BY <1>1, <2>1, <2>2
  <2>3. CASE st'["cmd"] # st["cmd"]
    <3>1. ~ Locked(pos) /\ st'["cmd"] = "OPEN"
      BY <1>6, <2>1, <2>3 DEF LockDecide
    <3> QED  BY <1>1, <1>3, <1>4, <2>1, <3>1 DEF Lock!Refuse, bolt
  <2> QED  BY <2>2, <2>3
<1>7. CASE UnlockDecide("cmd")
  <2>1. pc["cmd"] = "decide" /\ op["cmd"] = "UNLOCK" /\ op' = op
    BY <1>7 DEF UnlockDecide
  <2>2. Locked(pos)
    BY <2>1, EndsRead DEF RestInv, Ends
  <2>3. st'["cmd"] = st["cmd"]
    BY <1>7, <2>2 DEF UnlockDecide
  <2> QED  BY <1>1, <2>1, <2>3
<1>8. CASE StatusDecide("cmd")
  <2>1. pc["cmd"] = "decide" /\ op["cmd"] = "STATUS" /\ op' = op /\ st["cmd"] = "UNKNOWN"
    BY <1>2, <1>8 DEF StatusDecide
  <2>2. \/ Locked(pos) /\ st'["cmd"] = "LOCKED"
        \/ ~ Locked(pos) /\ st'["cmd"] \in {"UNLOCKED", "OPEN"}
        \/ st'["cmd"] = st["cmd"]
    BY <1>8 DEF StatusDecide
  <2> QED  BY <1>1, <1>3, <1>4, <2>1, <2>2 DEF Lock!Look, bolt
<1>9. CASE Finish("cmd")
  <2>1. /\ pc["cmd"] = "finish" /\ op'["cmd"] = "NONE" /\ st'["cmd"] = "UNKNOWN"
        /\ op["cmd"] # "NONE"
    BY <1>9 DEF Finish, RestInv
  <2> QED  BY <1>1, <1>4, <2>1 DEF Lock!Answer, bolt
<1>10. CASE \/ UnlockCheck("cmd") \/ Measure("cmd") \/ UnlockRecall("cmd")
            \/ ReportMeasure("cmd") \/ Remember("cmd")
  BY <1>1, <1>10 DEF UnlockCheck, Measure, UnlockRecall, ReportMeasure, Remember
<1>11. CASE Publish("cmd")
  BY <1>1, <1>11 DEF Publish, ReadLock, FirstUpdate, SaveFirst, SendFirst, Update, SavePrevious
<1>12. CASE CmdLoop \/ CmdIgnore
  BY <1>1, <1>12 DEF CmdLoop, CmdIgnore
<1> QED
  BY <1>5, <1>6, <1>7, <1>8, <1>9, <1>10, <1>11, <1>12 DEF CmdActs, CmdStep, Operate, Drives

LEMMA StepMaps ==
  ASSUME ~ PinFaults, Inv, RestInv, [Next]_vars
  PROVE  Lock!Next \/ UNCHANGED promised
<1>1. CASE OtherActs
  BY <1>1, OthersMap
<1>2. CASE Drives("cmd")
  BY <1>2, TurnMaps DEF Lock!Next
<1>3. CASE Drives("cli")
  <2>1. pc["cmd"] = "exited"
    BY <1>3, OneDrives DEF Inv, MoverInv, Driving, Drives, Rotate, StepLoad, StepFails, StepStore, Arrive
  <2> QED  BY <1>1, <2>1, ActsAlive, ActsSplit
<1>4. CASE CmdActs /\ ~ Drives("cmd") /\ ~ Drives("cli")
  BY <1>4, StepStill, CommandMaps DEF Lock!Next, Inv
<1> QED  BY <1>1, <1>2, <1>3, <1>4, ActsSplit

\* Then the COMMANDs of the hub find a lock that keeps the promise of DoorLock:
\* it turns once per command, only away from the other end and never for the
\* cleanup of quit, and the outcome it answers is where the bolt is.
THEOREM ImplementsLock == ASSUME SingleMover, ~ PinFaults PROVE Spec => KeepsPromise
<1>1. Init => Lock!Init
  BY InitMaps
<1>2. Inv /\ RestInv /\ [Next]_vars
        => [Lock!Next]_<<IF Driving("cmd") THEN "TURNING"
                         ELSE IF Locked(pos) THEN "LOCKED" ELSE "UNLOCKED",
                         op["cmd"], st["cmd"]>>
  BY StepMaps DEF promised, bolt
<1> QED  BY <1>1, <1>2, RestAlways, PTL DEF Spec, KeepsPromise, Lock!Spec, Lock!lockVars
=============================================================================
