------------------------------ MODULE MCStepper ------------------------------
(***************************************************************************)
(* A stepper as its programs use it, for TLC: with accelerations (Stepper),*)
(* at constant speeds (Stepper again) and by stepper_goto() (Arm).  part   *)
(* says which is checked; each of them uses some of the constants.         *)
(***************************************************************************)
EXTENDS Arm

CONSTANT Parts  \* the parts that are checked

VARIABLE part

Joint == -6..12  \* positions of the arm's joint, up to 18 steps apart
Either == {-10, 0, 30}  \* speeds either way, none, and one beyond the greatest

\* What each part uses: the greatest speed it sets, and the targets; the ramp takes up
\* to three steps.
Greatest == [accelerated |-> 200, constant |-> 20, arm |-> 300]
Targets == [accelerated |-> -2..3, constant |-> {-3, 0, 1, 4}, arm |-> Joint]
Uses == maxSpeed' \in {maxSpeed, Greatest[part]} /\ targetPos' \in Targets[part]
-----------------------------------------------------------------------------
stepVars == <<part, armVars>>

\* Half steps of four wires accelerate; every kind runs at constant speeds.
StepsInit ==
  /\ part \in Parts /\ Init /\ stepper_configured = FALSE /\ pc = "sketch"
  /\ part # "constant" => interface = HALF4WIRE
StepsNext ==
  /\ \/ part = "accelerated" /\ Accelerated /\ UNCHANGED <<stepper_configured, pc>>
     \/ part = "constant" /\ AtConstantSpeed /\ UNCHANGED <<stepper_configured, pc>>
     \/ part = "arm" /\ ArmNext
  /\ Uses /\ UNCHANGED part

Fairness ==
  /\ WF_vars(part = "accelerated" /\ Run)
  /\ WF_vars(part = "constant" /\ RunSpeedToPosition)
  /\ WF_armVars(part = "arm" /\ (RunToPosition \/ GotoReturns))

StepsSpec == StepsInit /\ [][StepsNext]_stepVars /\ Fairness
-----------------------------------------------------------------------------
(* The properties of the parts *)

\* Ramps are run down before the motor turns round, and in time not to pass the
\* target: see ReversesSlowly of Stepper and Approaches of Arm.
RampsDown ==
  [][/\ part = "accelerated" => ReversesSlowly
     /\ part = "arm" => Approaches]_stepVars

\* Every motor arrives: see Arrives and ArrivesAtSpeed of Stepper, GotoArrives of Arm.
EachArrives ==
  /\ part = "accelerated" => Arrives
  /\ part = "constant" => ArrivesAtSpeed
  /\ part = "arm" => GotoArrives
=============================================================================
