---------------------------- MODULE StepperMotor ----------------------------
(***************************************************************************)
(* The arithmetic of the lock motor (hal/src/StepperMotor.c).  The motor is *)
(* open-loop: the position is a count of half-steps kept modulo one turn,   *)
(* and every rotation goes forward.                                         *)
(***************************************************************************)
EXTENDS Integers

CONSTANT STEPS_PER_REV   \* half-steps of one turn, 4096 in StepperMotor.h

\* Half a turn is a whole number of steps, as it is for the real 4096.
ASSUME StepsAssumption == STEPS_PER_REV \in Nat \ {0} /\ STEPS_PER_REV % 2 = 0

Positions == 0 .. STEPS_PER_REV - 1

STEPPER_LOCKED_POSITION == 180
STEPPER_UNLOCKED_POSITION == 0

\* target_step_position of StepperMotor_Rotate: degrees rounded to a step.
TargetStep(degrees) == (degrees * STEPS_PER_REV + 180) \div 360

\* steps_needed: the way forward from p to the target.
StepsNeeded(p, degrees) ==
  (TargetStep(degrees) - p + STEPS_PER_REV) % STEPS_PER_REV

\* Mutant: the count does not wrap.
NextStepUnwrapped(p) == p + 1

NextStep(p) == (p + 1) % STEPS_PER_REV

\* StepperMotor_GetPosition: degrees, rounded down.
Degrees(p) == (p * 360) \div STEPS_PER_REV

Locked(p) == Degrees(p) = STEPPER_LOCKED_POSITION
Unlocked(p) == Degrees(p) = STEPPER_UNLOCKED_POSITION
=============================================================================
