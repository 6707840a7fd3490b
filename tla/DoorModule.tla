----------------------------- MODULE DoorModule -----------------------------
(***************************************************************************)
(* A door module process (app/src/doorMod.c, doorMod_cli.c,                *)
(* door_udp_handler.c, hal/src/door_udp.c): the lock, unlock and status     *)
(* operations, the stepper motor they drive, and the reporting to the hub.  *)
(*                                                                          *)
(* Three threads share the motor position and the reporting state without a *)
(* lock (only the last-known door state has one):                           *)
(*   cli  main() of doorMod_cli: operations typed at the terminal, and quit *)
(*   cmd  door_cmd_thread: executes COMMAND datagrams, answers FEEDBACK     *)
(*   hb   heartbeat_worker: reports the state periodically                  *)
(* A thread's step is one access to shared state: a read of the sensor, a   *)
(* load or a store of the motor position, the comparison with the previous  *)
(* report together with the sends it decides, or the save of that report.   *)
(* A local variable is cleared once the code reads it no more.              *)
(***************************************************************************)
EXTENDS StepperMotor

CONSTANTS
  CliOps,     \* what the terminal user asks for: subset of Ops \cup {"QUIT"}
  CmdOps,     \* what COMMAND datagrams ask for: subset of Ops
  PinFaults,  \* whether writing the motor pins may fail
  Readings    \* what the sensor may read: near (< 10 cm), far (>= 10 cm),
              \* or err (get_distance() = -1)

Ops == {"LOCK", "UNLOCK", "STATUS"}
Threads == {"cli", "cmd", "hb"}
DoorStates == {"LOCKED", "UNLOCKED", "OPEN", "UNKNOWN"}
Distances == {"near", "far", "err"}

ASSUME DoorAssumption ==
  /\ CliOps \subseteq Ops \cup {"QUIT"}
  /\ CmdOps \subseteq Ops
  /\ PinFaults \in BOOLEAN
  /\ Readings \subseteq Distances

VARIABLES
  sensor,     \* what the ultrasonic sensor measures now (external)
  pos,        \* current_step_position
  driven,     \* half-steps the pins were driven, modulo one turn (external)
  pc,         \* where each thread is
  op,         \* the operation a thread performs
  st,         \* the Door_t.state a driver passes in and gets back
  dist,       \* a thread's last distance reading
  left,       \* steps_needed - current_step of a rotation
  load,       \* the position a motor step has loaded but not yet stored
  was,        \* last_was_locked of unlockDoor
  lock,       \* the d1_locked a thread is about to report
  lastKnown,  \* __last_known_door.state
  prev,       \* g_prev_valid, g_prev_d0_open, g_prev_d1_locked
  hbDue,      \* a heartbeat period has passed since g_last_heartbeat_ms
  told,       \* what the datagrams sent so far say, read in the order sent
  hbRunning,  \* __heartbeat_running
  cmdRunning  \* g_cmd_running

motor == <<pos, driven, left, load>>
running == <<hbRunning, cmdRunning>>
locals == <<op, st, dist, was, lock>>
report == <<prev, hbDue, told>>
vars == <<sensor, motor, pc, locals, lastKnown, report, running>>

Init ==
  /\ sensor \in Readings
  /\ pos = 0
  /\ driven = 0
  /\ pc = [t \in Threads |-> IF t = "hb" THEN "sleep" ELSE "idle"]
  /\ op = [t \in Threads |-> "NONE"]
  /\ st = [t \in Threads |-> "UNKNOWN"]
  /\ dist = [t \in Threads |-> "err"]
  /\ left = [t \in Threads |-> 0]
  /\ load = [t \in Threads |-> 0]
  /\ was = [t \in Threads |-> FALSE]
  /\ lock = [t \in Threads |-> FALSE]
  /\ lastKnown = "UNKNOWN"
  /\ prev = [valid |-> FALSE, open |-> FALSE, locked |-> FALSE]
  /\ hbDue = FALSE
  /\ told = [open |-> FALSE, locked |-> FALSE]
  /\ hbRunning = TRUE
  /\ cmdRunning = TRUE

Goto(t, label) == pc' = [pc EXCEPT ![t] = label]
Set(f, t, v) == [f EXCEPT ![t] = v]

\* The operation's outcome goes to the caller's Door_t, and is reported.
Conclude(t, state) == st' = Set(st, t, state) /\ Goto(t, "report")

\* The distance a thread measured, and the lock state it took, are out of use.
DropDist(t) == dist' = Set(dist, t, "err")
DropSample(t) == DropDist(t) /\ lock' = Set(lock, t, FALSE)

-----------------------------------------------------------------------------
(* lockDoor, unlockDoor, get_door_status                                   *)

\* door_cmd_thread looks at its flag and blocks in recvfrom: door_udp_init2
\* sets no receive timeout, so that only a datagram gets it out of there.
CmdLoop ==
  /\ pc["cmd"] = "idle"
  /\ Goto("cmd", IF cmdRunning THEN "recv" ELSE "exited")
  /\ UNCHANGED <<sensor, motor, locals, lastKnown, report, running>>

\* A datagram that is not a COMMAND for this module.
CmdIgnore ==
  /\ pc["cmd"] = "recv"
  /\ Goto("cmd", "idle")
  /\ UNCHANGED <<sensor, motor, locals, lastKnown, report, running>>

\* A COMMAND handler starts from an UNKNOWN Door_t, the terminal from the one
\* of its previous operation.
Begin(t, o) ==
  /\ \/ t = "cli" /\ pc[t] = "idle" /\ o \in CliOps
     \/ t = "cmd" /\ pc[t] = "recv" /\ o \in CmdOps
  /\ st' = IF t = "cmd" THEN Set(st, t, "UNKNOWN") ELSE st
  /\ op' = Set(op, t, o)
  /\ Goto(t, IF o = "UNLOCK" THEN "check" ELSE "measure")
  /\ UNCHANGED <<sensor, motor, dist, was, lock, lastKnown, report, running>>

\* unlockDoor looks at the position before it measures.
UnlockCheck(t) ==
  /\ pc[t] = "check"
  /\ Goto(t, IF Unlocked(pos) THEN "report" ELSE "measure")
  /\ UNCHANGED <<sensor, motor, locals, lastKnown, report, running>>

\* get_distance, or the average of a 100 ms window in lockDoor.
Measure(t) ==
  /\ pc[t] = "measure"
  /\ dist' = Set(dist, t, sensor)
  /\ Goto(t, IF op[t] = "UNLOCK" THEN "recall" ELSE "decide")
  /\ UNCHANGED <<sensor, motor, op, st, was, lock, lastKnown, report, running>>

UnlockRecall(t) ==
  /\ pc[t] = "recall"
  /\ was' = Set(was, t, lastKnown = "LOCKED")
  /\ Goto(t, "decide")
  /\ UNCHANGED <<sensor, motor, op, st, dist, lock, lastKnown, report, running>>

LockDecide(t) ==
  /\ pc[t] = "decide" /\ op[t] = "LOCK"
  /\ \/ Locked(pos) /\ Conclude(t, st[t])
     \/ ~ Locked(pos) /\ dist[t] = "far" /\ Conclude(t, "OPEN")
     \/ ~ Locked(pos) /\ dist[t] = "err" /\ Conclude(t, "UNKNOWN")
     \/ ~ Locked(pos) /\ dist[t] = "near" /\ Goto(t, "rotate") /\ UNCHANGED st
  /\ DropDist(t)
  /\ UNCHANGED <<sensor, motor, op, was, lock, lastKnown, report, running>>

\* Mutant: the sensor alone decides whether there is something to unlock.
UnlockDecideBySensor(t) ==
  /\ pc[t] = "decide" /\ op[t] = "UNLOCK"
  /\ \/ dist[t] = "far" /\ Conclude(t, "OPEN")
     \/ dist[t] # "far" /\ Conclude(t, "UNLOCKED")
  /\ DropDist(t) /\ was' = Set(was, t, FALSE)
  /\ UNCHANGED <<sensor, motor, op, lock, lastKnown, report, running>>

UnlockDecide(t) ==
  LET forced == was[t] \/ Locked(pos)   \* unlock whatever the sensor says
  IN  /\ pc[t] = "decide" /\ op[t] = "UNLOCK"
      /\ \/ forced /\ Goto(t, "rotate") /\ UNCHANGED st
         \/ ~ forced /\ dist[t] = "far" /\ Conclude(t, "OPEN")
         \/ ~ forced /\ dist[t] # "far" /\ Conclude(t, "UNLOCKED")
      /\ DropDist(t) /\ was' = Set(was, t, FALSE)
      /\ UNCHANGED <<sensor, motor, op, lock, lastKnown, report, running>>

StatusDecide(t) ==
  /\ pc[t] = "decide" /\ op[t] = "STATUS"
  /\ \/ Locked(pos) /\ Conclude(t, "LOCKED")
     \/ ~ Locked(pos) /\ dist[t] = "near" /\ Conclude(t, "UNLOCKED")
     \/ ~ Locked(pos) /\ dist[t] = "far" /\ Conclude(t, "OPEN")
     \/ ~ Locked(pos) /\ dist[t] = "err" /\ Conclude(t, st[t])
  /\ DropDist(t)
  /\ UNCHANGED <<sensor, motor, op, was, lock, lastKnown, report, running>>

-----------------------------------------------------------------------------
(* StepperMotor_Rotate                                                     *)

\* Mutant: the cleanup turns to where its comment says.
GoalOfComment(o) == IF o = "LOCK" THEN STEPPER_LOCKED_POSITION
                                  ELSE STEPPER_UNLOCKED_POSITION

\* Where an operation turns to; the cleanup of quit turns to 180, like LOCK.
Goal(o) == IF o = "UNLOCK" THEN STEPPER_UNLOCKED_POSITION
                           ELSE STEPPER_LOCKED_POSITION

\* Mutant: the steps are planned as if the motor stood at 0.
RotateFromZero(t) ==
  /\ pc[t] = "rotate"
  /\ left' = Set(left, t, StepsNeeded(0, Goal(op[t])))
  /\ Goto(t, "step")
  /\ UNCHANGED <<sensor, pos, driven, load, locals, lastKnown, report, running>>

Rotate(t) ==
  /\ pc[t] = "rotate"
  /\ left' = Set(left, t, StepsNeeded(pos, Goal(op[t])))
  /\ Goto(t, "step")
  /\ UNCHANGED <<sensor, pos, driven, load, locals, lastKnown, report, running>>

\* Where a rotation returns to: the operation's report, or the end of cleanup.
AfterRotate(t) == IF op[t] = "QUIT" THEN "rejoin" ELSE "report"

\* The pins are driven, and the position is read to be incremented.
StepLoad(t) ==
  /\ pc[t] = "step" /\ left[t] > 0
  /\ driven' = NextStep(driven)
  /\ load' = Set(load, t, pos)
  /\ Goto(t, "store")
  /\ UNCHANGED <<sensor, pos, left, locals, lastKnown, report, running>>

\* Mutant: the caller ignores that the rotation failed.
StepFailsUnnoticed(t) ==
  /\ PinFaults
  /\ pc[t] = "step" /\ left[t] > 0
  /\ st' = Set(st, t, IF op[t] = "LOCK" THEN "LOCKED" ELSE "UNLOCKED")
  /\ left' = Set(left, t, 0)
  /\ Goto(t, AfterRotate(t))
  /\ UNCHANGED <<sensor, pos, driven, load, op, dist, was, lock, lastKnown,
                 report, running>>

\* Mutant: the failure is noticed when the step was already driven.
StepFailsDriven(t) ==
  /\ PinFaults
  /\ pc[t] = "step" /\ left[t] > 0
  /\ driven' = NextStep(driven)
  /\ left' = Set(left, t, 0)
  /\ Goto(t, AfterRotate(t))
  /\ UNCHANGED <<sensor, pos, load, locals, lastKnown, report, running>>

\* set_motor_pins failed: the rotation ends where it is, the state is kept.
StepFails(t) ==
  /\ PinFaults
  /\ pc[t] = "step" /\ left[t] > 0
  /\ Goto(t, AfterRotate(t))
  /\ left' = Set(left, t, 0)
  /\ UNCHANGED <<sensor, pos, driven, load, locals, lastKnown, report, running>>

\* Mutant: the steps made are not counted.
StepStoreUncounted(t) ==
  /\ pc[t] = "store"
  /\ pos' = NextStep(load[t])
  /\ load' = Set(load, t, 0)
  /\ Goto(t, "step")
  /\ UNCHANGED <<sensor, driven, left, locals, lastKnown, report, running>>

StepStore(t) ==
  /\ pc[t] = "store"
  /\ pos' = NextStep(load[t])
  /\ load' = Set(load, t, 0)
  /\ left' = Set(left, t, left[t] - 1)
  /\ Goto(t, "step")
  /\ UNCHANGED <<sensor, driven, locals, lastKnown, report, running>>

Arrive(t) ==
  /\ pc[t] = "step" /\ left[t] = 0
  /\ st' = CASE op[t] = "LOCK"   -> Set(st, t, "LOCKED")
             [] op[t] = "UNLOCK" -> Set(st, t, "UNLOCKED")
             [] OTHER -> st
  /\ Goto(t, AfterRotate(t))
  /\ UNCHANGED <<sensor, motor, op, dist, was, lock, lastKnown, report, running>>

-----------------------------------------------------------------------------
(* report_door_state_udp, heartbeat_worker and door_udp_update             *)

\* A failed measurement ends the report of an operation.
ReportMeasure(t) ==
  /\ pc[t] = "report"
  /\ dist' = Set(dist, t, sensor)
  /\ Goto(t, IF sensor = "err" THEN "finish" ELSE "lockpos")
  /\ UNCHANGED <<sensor, motor, op, st, was, lock, lastKnown, report, running>>

\* The heartbeat thread wakes and measures; it goes on with a failed reading.
HbMeasure ==
  /\ pc["hb"] = "sleep"
  /\ dist' = Set(dist, "hb", sensor)
  /\ Goto("hb", "lockpos")
  /\ UNCHANGED <<sensor, motor, op, st, was, lock, lastKnown, report, running>>

ReadLock(t) ==
  /\ pc[t] = "lockpos"
  /\ lock' = Set(lock, t, Locked(pos))
  /\ Goto(t, "update")
  /\ UNCHANGED <<sensor, motor, op, st, dist, was, lastKnown, report, running>>

\* The state a thread reports: a reading that is not "far" counts as closed.
Seen(t) == [open |-> dist[t] = "far", locked |-> lock[t]]

\* There is no previous report yet: another thread may find that too,
FirstUpdate(t) ==
  /\ pc[t] = "update" /\ ~ prev.valid
  /\ Goto(t, "first")
  /\ UNCHANGED <<sensor, motor, locals, lastKnown, report, running>>

\* before this one saves its report
SaveFirst(t) ==
  /\ pc[t] = "first"
  /\ prev' = [valid |-> TRUE, open |-> Seen(t).open, locked |-> Seen(t).locked]
  /\ hbDue' = FALSE
  /\ Goto(t, "greet")
  /\ UNCHANGED <<sensor, motor, locals, lastKnown, told, running>>

\* and sends the heartbeat that says it.
SendFirst(t) ==
  /\ pc[t] = "greet"
  /\ told' = Seen(t)
  /\ Goto(t, IF t = "hb" THEN "loop" ELSE "known")
  /\ DropSample(t)
  /\ UNCHANGED <<sensor, motor, op, st, was, lastKnown, prev, hbDue, running>>

\* Mutant: no heartbeat repeats what the EVENTs said.
UpdateEventsOnly(t) ==
  /\ pc[t] = "update" /\ prev.valid
  /\ told' = [open   |-> IF Seen(t).open # prev.open THEN Seen(t).open ELSE told.open,
              locked |-> IF Seen(t).locked # prev.locked THEN Seen(t).locked
                                                         ELSE told.locked]
  /\ hbDue' = FALSE
  /\ Goto(t, "save")
  /\ UNCHANGED <<sensor, motor, locals, lastKnown, prev, running>>

\* EVENTs for what differs from the previous report, then the heartbeat.
Update(t) ==
  LET doorEvent == Seen(t).open # prev.open
      lockEvent == Seen(t).locked # prev.locked
  IN  /\ pc[t] = "update" /\ prev.valid
      /\ told' = [open   |-> IF doorEvent \/ hbDue THEN Seen(t).open ELSE told.open,
                  locked |-> IF lockEvent \/ hbDue THEN Seen(t).locked ELSE told.locked]
      /\ hbDue' = FALSE
      /\ Goto(t, "save")
      /\ UNCHANGED <<sensor, motor, locals, lastKnown, prev, running>>

SavePrevious(t) ==
  /\ pc[t] = "save"
  /\ prev' = [prev EXCEPT !.open = Seen(t).open, !.locked = Seen(t).locked]
  /\ Goto(t, IF t = "hb" THEN "loop" ELSE "known")
  /\ DropSample(t)
  /\ UNCHANGED <<sensor, motor, op, st, was, lastKnown, hbDue, told, running>>

\* update_last_known_state
Remember(t) ==
  /\ pc[t] = "known"
  /\ lastKnown' = st[t]
  /\ Goto(t, "finish")
  /\ UNCHANGED <<sensor, motor, locals, report, running>>

\* The operation returns; a COMMAND is answered with FEEDBACK, whatever the
\* outcome was, and its Door_t is gone.
Finish(t) ==
  /\ pc[t] = "finish"
  /\ Goto(t, "idle")
  /\ op' = Set(op, t, "NONE")
  /\ st' = IF t = "cmd" THEN Set(st, t, "UNKNOWN") ELSE st
  /\ UNCHANGED <<sensor, motor, dist, was, lock, lastKnown, report, running>>

HbLoop ==
  /\ pc["hb"] = "loop"
  /\ Goto("hb", IF hbRunning THEN "sleep" ELSE "exited")
  /\ UNCHANGED <<sensor, motor, locals, lastKnown, report, running>>

-----------------------------------------------------------------------------
(* quit: door_reporting_stop, then doorMod_cleanup                         *)

Quit ==
  /\ pc["cli"] = "idle" /\ "QUIT" \in CliOps
  /\ op' = Set(op, "cli", "QUIT")
  /\ hbRunning' = FALSE
  /\ Goto("cli", "join")
  /\ UNCHANGED <<sensor, motor, st, dist, was, lock, lastKnown, report, cmdRunning>>

\* The heartbeat thread is joined; door_udp_close stops the command thread.
JoinHb ==
  /\ pc["cli"] = "join" /\ pc["hb"] = "exited"
  /\ cmdRunning' = FALSE
  /\ Goto("cli", "close")
  /\ UNCHANGED <<sensor, motor, locals, lastKnown, report, hbRunning>>

\* Mutant: the socket is closed without waiting for the command thread.
JoinCmdAtOnce ==
  /\ pc["cli"] = "close"
  /\ prev' = [prev EXCEPT !.valid = FALSE]
  /\ Goto("cli", IF Unlocked(pos) THEN "rejoin" ELSE "rotate")
  /\ UNCHANGED <<sensor, motor, locals, lastKnown, hbDue, told, running>>

\* The command thread is joined and the socket closed; the cleanup rotates
\* unless the lock is at 0 degrees.
JoinCmd ==
  /\ pc["cli"] = "close" /\ pc["cmd"] = "exited"
  /\ prev' = [prev EXCEPT !.valid = FALSE]
  /\ Goto("cli", IF Unlocked(pos) THEN "rejoin" ELSE "rotate")
  /\ UNCHANGED <<sensor, motor, locals, lastKnown, hbDue, told, running>>

\* door_reporting_stop runs again and joins the heartbeat thread a second time,
\* which is undefined: the join may return or never do so.
Rejoin ==
  /\ pc["cli"] = "rejoin"
  /\ Goto("cli", "exited") \/ Goto("cli", "hung")
  /\ UNCHANGED <<sensor, motor, locals, lastKnown, report, running>>

-----------------------------------------------------------------------------
\* The door moves, or the sensor fails or recovers (external).
Sense(s) ==
  /\ sensor' = s
  /\ UNCHANGED <<motor, pc, locals, lastKnown, report, running>>

Period ==
  /\ hbDue' = TRUE
  /\ UNCHANGED <<sensor, motor, pc, locals, lastKnown, prev, told, running>>

\* What a driver thread does once it has begun an operation.
Operate(t) ==
  \/ UnlockCheck(t) \/ Measure(t) \/ UnlockRecall(t)
  \/ LockDecide(t) \/ UnlockDecide(t) \/ StatusDecide(t)
  \/ Rotate(t) \/ StepLoad(t) \/ StepFails(t) \/ StepStore(t) \/ Arrive(t)
  \/ ReportMeasure(t) \/ Remember(t) \/ Finish(t)

Publish(t) == \/ ReadLock(t) \/ FirstUpdate(t) \/ SaveFirst(t) \/ SendFirst(t)
              \/ Update(t) \/ SavePrevious(t)

CliStep == Operate("cli") \/ Publish("cli") \/ JoinHb \/ JoinCmd \/ Rejoin
CmdStep == Operate("cmd") \/ Publish("cmd") \/ CmdLoop
HbStep  == HbMeasure \/ Publish("hb") \/ HbLoop

Next ==
  \/ \E t \in {"cli", "cmd"}, o \in Ops : Begin(t, o)
  \/ CmdIgnore \/ Quit
  \/ CliStep \/ CmdStep \/ HbStep
  \/ \E s \in Readings : Sense(s)
  \/ Period

Spec == Init /\ [][Next]_vars

\* The scheduler runs every thread that can go on, and time passes.
FairSpec == Spec /\ WF_vars(CliStep) /\ WF_vars(CmdStep) /\ WF_vars(HbStep)
                 /\ WF_vars(Period)

-----------------------------------------------------------------------------
(* Properties                                                              *)

Labels == {"idle", "recv", "check", "measure", "recall", "decide", "rotate",
           "step", "store", "report", "lockpos", "update", "first", "greet",
           "save", "known", "finish", "sleep", "loop", "join", "close",
           "rejoin", "exited", "hung"}
Flags == [open : BOOLEAN, locked : BOOLEAN]

\* The type invariant: every variable keeps its type, and the position stays
\* within one turn.
TypeOK ==
  /\ sensor \in Readings
  /\ pos \in Positions /\ driven \in Positions
  /\ pc \in [Threads -> Labels]
  /\ op \in [Threads -> Ops \cup {"QUIT", "NONE"}]
  /\ st \in [Threads -> DoorStates]
  /\ dist \in [Threads -> Distances]
  /\ left \in [Threads -> Positions]
  /\ load \in [Threads -> Positions]
  /\ was \in [Threads -> BOOLEAN]
  /\ lock \in [Threads -> BOOLEAN]
  /\ lastKnown \in DoorStates
  /\ prev \in [valid : BOOLEAN, open : BOOLEAN, locked : BOOLEAN]
  /\ hbDue \in BOOLEAN
  /\ told \in Flags
  /\ hbRunning \in BOOLEAN /\ cmdRunning \in BOOLEAN

\* The operation has its outcome, which is still to be reported and returned.
Concluded(t) == pc[t] \in {"report", "lockpos", "update", "first", "greet",
                           "save", "known", "finish"}
Driving(t) == pc[t] \in {"step", "store"}

\* No operation of the terminal moves the motor, but the cleanup of quit, which
\* waits for the end of the command thread.
SingleMover == CliOps \subseteq {"STATUS", "QUIT"}

\* lockDoor, unlockDoor and get_door_status answer a COMMAND with LOCKED only
\* while the lock is at its locked position.
ReportedLockedIsLocked ==
  Concluded("cmd") /\ st["cmd"] = "LOCKED" => Locked(pos)

\* unlockDoor answers a COMMAND with UNLOCKED only when the bolt is withdrawn.
ReportedUnlockedIsWithdrawn ==
  Concluded("cmd") /\ op["cmd"] = "UNLOCK" /\ st["cmd"] = "UNLOCKED" => Unlocked(pos)

\* The motor is open-loop: the position counts the steps the pins were driven,
\* except between the driving of a step and its counting.
CountIsStepsDriven == (\A t \in Threads : pc[t] # "store") => pos = driven

\* A rotation in progress is on its way to its goal: position and remaining
\* steps add up to it, in this turn or the next.
OnCourse ==
  \A t \in Threads : Driving(t) =>
    pos + left[t] \in {TargetStep(Goal(op[t])), TargetStep(Goal(op[t])) + STEPS_PER_REV}

\* The count never goes back and never jumps: StepperMotor_Rotate turns the
\* lock forward, one step at a time.
ForwardOnly == [][pos' \in {pos, NextStep(pos)}]_vars

\* Once door_udp_close has closed the socket, no thread can still report
\* through it or move the lock, but the cleanup of the quitting thread.
QuietAfterClose ==
  op["cli"] = "QUIT" /\ pc["cli"] \notin {"join", "close"}
    => pc["hb"] = "exited" /\ pc["cmd"] = "exited" /\ ~ prev.valid

\* What quitting leaves the lock at, once the command thread has ended: as long as
\* the terminal has not looked at it, what it has to find there; while the cleanup
\* turns it, the locked position; and then where it is.
Ending ==
  CASE pc["cli"] = "close" /\ pc["cmd"] = "exited" ->
         IF Unlocked(pos) THEN "unlocked" ELSE "locked"
    [] op["cli"] = "QUIT" /\ pc["cli"] \in {"rotate", "step", "store"} -> "locked"
    [] pc["cli"] \in {"rejoin", "exited", "hung"} ->
         IF Locked(pos) THEN "locked" ELSE IF Unlocked(pos) THEN "unlocked" ELSE "between"
    [] OTHER -> "open"

\* Quitting never withdraws the bolt, although the comment in doorMod_cleanup
\* says that it unlocks the door: where the last COMMAND left the lock unlocked,
\* it stays unlocked; where it left it locked, or stopped half-way, it ends locked.
QuitNeverUnlocks == [][Ending # "open" => Ending' = Ending]_vars

Lock == INSTANCE DoorLock
  WITH bolt <- IF Driving("cmd") THEN "TURNING"
               ELSE IF Locked(pos) THEN "LOCKED" ELSE "UNLOCKED",
       order <- op["cmd"],
       outcome <- st["cmd"]

\* The COMMANDs of the hub find a lock that keeps the promise of DoorLock,
\* whatever the sensor reads and whenever quit is typed: it turns once per
\* command and only away from the other end, and never for the cleanup.
KeepsPromise == Lock!Spec

\* Every COMMAND that is begun is answered: the rotation ends, and so does the
\* report.
CommandAnswered == Driving("cmd") ~> pc["cmd"] = "idle"

\* Once the door stands still and no operation is asked for, what the hub was
\* told becomes and stays the truth, in spite of the reports of two threads
\* overtaking each other: the heartbeat repairs what the EVENTs left wrong.
ReportsConverge ==
  \A s \in Readings :
    <>[](sensor = s /\ pc["cli"] = "idle" /\ pc["cmd"] = "recv")
      => <>[](told = [open |-> s = "far", locked |-> Locked(pos)])

-----------------------------------------------------------------------------
(* The inductive invariants behind the theorems of DoorModule_proofs       *)

\* A step that is being counted was still to be made.
StoreHasLeft == \A t \in Threads : pc[t] = "store" => left[t] > 0

\* The quitting terminal waits for one thread after the other, and only then
\* turns the lock; the heartbeat never does.
QuietInv ==
  /\ pc["hb"] \notin {"rotate", "step", "store"}
  /\ pc["cli"] \in {"join", "close", "rejoin", "exited", "hung"} => op["cli"] = "QUIT"
  /\ op["cli"] = "QUIT" =>
       /\ pc["cli"] \in {"join", "close", "rotate", "step", "store", "rejoin",
                         "exited", "hung"}
       /\ pc["cli"] # "join" => pc["hb"] = "exited"
       /\ pc["cli"] \notin {"join", "close"} => pc["cmd"] = "exited" /\ ~ prev.valid

\* From the end of the command thread on, a cleanup that found the lock not
\* unlocked brings it to the locked position, in steps that it counts one by one;
\* one that found it unlocked leaves it so.
LocksFrom ==
  /\ op["cli"] = "QUIT" /\ pc["cmd"] = "exited"
  /\ pc["cli"] \in {"close", "rotate", "step", "store", "rejoin", "exited", "hung"}
  /\ pc["cli"] = "close" => ~ Unlocked(pos)
  /\ Driving("cli") => pos + left["cli"] \in
       {TargetStep(Goal("QUIT")), TargetStep(Goal("QUIT")) + STEPS_PER_REV}
  /\ pc["cli"] = "store" => load["cli"] = pos
  /\ pc["cli"] \in {"rejoin", "exited", "hung"} => Locked(pos)

LeavesUnlocked ==
  /\ op["cli"] = "QUIT" /\ pc["cmd"] = "exited"
  /\ pc["cli"] \in {"close", "rejoin", "exited", "hung"}
  /\ Unlocked(pos)

EndingInv == Ending # "open" => LocksFrom \/ LeavesUnlocked

\* The terminal turns the lock for its cleanup only, if at all.
OnlyCleanup ==
  /\ op["cli"] \notin {"LOCK", "UNLOCK"}
  /\ pc["cli"] = "rotate" \/ Driving("cli") => op["cli"] = "QUIT"

\* The thread that drives a step counts from the position it loaded, which
\* nobody changed.
CountInv ==
  /\ \A t \in Threads : pc[t] = "store" => load[t] = pos /\ driven = NextStep(pos)
  /\ CountIsStepsDriven

\* What the command thread knows of the lock is not undone under its feet.
OutcomeInv ==
  /\ pc["cmd"] = "rotate" \/ Driving("cmd") => op["cmd"] \in {"LOCK", "UNLOCK"}
  /\ ~ Concluded("cmd") => st["cmd"] = "UNKNOWN"
  /\ ReportedLockedIsLocked

DriveInv == StoreHasLeft /\ CountInv /\ OnCourse
MoverInv == OnlyCleanup /\ DriveInv /\ OutcomeInv

\* When no pin fails, a lock that is not turning is at one of its ends; an UNLOCK
\* that has looked at it finds it locked, a LOCK unlocked; and for the cleanup
\* there is nothing left to turn.
Ends == {TargetStep(STEPPER_LOCKED_POSITION), TargetStep(STEPPER_UNLOCKED_POSITION)}

RestInv ==
  /\ (\A t \in Threads : ~ Driving(t)) => pos \in Ends
  /\ op["cmd"] = "UNLOCK" /\ pc["cmd"] \in {"measure", "recall", "decide", "rotate"}
       => pos = TargetStep(STEPPER_LOCKED_POSITION)
  /\ op["cmd"] = "LOCK" /\ pc["cmd"] = "rotate"
       => pos = TargetStep(STEPPER_UNLOCKED_POSITION)
  /\ pc["cli"] = "rotate" \/ Driving("cli") => pos = TargetStep(STEPPER_LOCKED_POSITION)
  /\ Driving("cli") => left["cli"] = 0
  /\ pc["cmd"] \in {"idle", "recv", "exited"} <=> op["cmd"] = "NONE"
  /\ ReportedUnlockedIsWithdrawn

-----------------------------------------------------------------------------
(* What a comment says, which the code does not do                         *)

\* door_udp.c: the command thread can exit on its receive timeout, so that
\* quitting gets past door_udp_close.
QuitGetsThrough == pc["cli"] = "join" ~> pc["cli"] \in {"exited", "hung"}
=============================================================================
