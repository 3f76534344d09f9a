-------------------------------- MODULE Arm ---------------------------------
(***************************************************************************)
(* A joint of the robot arm (2018arm/stepper_aux.cpp): a compiled program  *)
(* calls stepper_goto(), which configures the motors the first time, moves *)
(* one of them to a position and returns when it has stopped there.  The   *)
(* three motors do not share state: this is one of them.                   *)
(***************************************************************************)
EXTENDS Stepper

CONSTANTS
  ArmSpeed, ArmAcceleration  \* what stepper_goto() configures (4000, 1000)

ASSUME ArmAssumption ==
  HALF4WIRE \in Kinds /\ ArmSpeed \in MaxSpeeds /\ ArmAcceleration \in Accelerations

VARIABLES
  stepper_configured,
  pc                  \* "sketch", or "run" in runToPosition()

armVars == <<vars, stepper_configured, pc>>

ArmInit == Init /\ interface = HALF4WIRE /\ stepper_configured = FALSE /\ pc = "sketch"

\* setMaxSpeed() and setAcceleration(), the first time; of a motor at rest they leave
\* the motion as it is.
Configure ==
  IF stepper_configured THEN UNCHANGED limits
  ELSE maxSpeed' = ArmSpeed /\ cmin' = IntervalAt(ArmSpeed) /\ acceleration' = ArmAcceleration

\* stepper_goto() as far as the loop of runToPosition().
Goto(p) ==
  /\ pc = "sketch" /\ pc' = "run" /\ stepper_configured' = TRUE
  /\ Configure
  /\ targetPos' = p
  /\ motion' = IF targetPos = p THEN motion
               ELSE computeNewSpeed(motion, p - currentPos, acceleration', cmin')
  /\ UNCHANGED <<currentPos, motor>>

\* What run() returns.
Running == motion.speed # 0 \/ currentPos # targetPos

RunToPosition ==
  /\ pc = "run" /\ Running /\ Run
  /\ UNCHANGED <<stepper_configured, pc>>

\* disableOutputs(): every pin of the motor low.
GotoReturns ==
  /\ pc = "run" /\ ~ Running /\ pc' = "sketch"
  /\ output' = {}
  /\ UNCHANGED <<interface, currentPos, targetPos, motion, limits, angle, lost,
                 stepper_configured>>

ArmNext == RunToPosition \/ GotoReturns \/ \E p \in Positions : Goto(p)

\* The processor does nothing else until stepper_goto() returns.
ArmSpec == ArmInit /\ [][ArmNext]_armVars /\ WF_armVars(RunToPosition \/ GotoReturns)

-----------------------------------------------------------------------------
(* Properties *)

\* The arm never moves past the position it was sent to: every step brings it nearer
\* (AccelStepper.cpp 97-177, the ramp of computeNewSpeed() run from rest to rest).
Approaches ==
  currentPos' # currentPos =>
    Magnitude(targetPos - currentPos') < Magnitude(targetPos - currentPos)

\* stepper_goto() returns, with the motor where it was sent, at rest and without power
\* (AccelStepper.cpp 613-617, 631-635; stepper_aux.cpp 39-41).
GotoArrives ==
  (pc = "run") ~> (pc = "sketch" /\ currentPos = targetPos /\ motion.speed = 0 /\ output = {})

=============================================================================
