------------------------------ MODULE Stepper -------------------------------
(***************************************************************************)
(* A stepper motor (2018arm/AccelStepper.cpp): a target that the program   *)
(* may move at any time, an interval to the next step computed after each, *)
(* and the step itself.                                                    *)
(*                                                                         *)
(* Reals are rounded: times are whole ticks (where the code has            *)
(* microseconds), speeds SCALE-ths of a step per second.                   *)
(* Whether a step is due is left open: the code compares micros() with the *)
(* interval, and the program may ask at any time.                          *)
(***************************************************************************)
EXTENDS Coils, FiniteSets

CONSTANTS
  Kinds,          \* how motors are driven
  SECOND,         \* ticks to the second
  Positions,      \* targets of the program
  Moves,          \* arguments of move()
  MaxSpeeds,      \* arguments of setMaxSpeed()
  Accelerations,  \* arguments of setAcceleration(), in steps per second per second
  Speeds,         \* arguments of setSpeed()
  Homes,          \* arguments of setCurrentPosition()
  Reach,          \* bound: the program's targets are at most this far from the origin
  MaxN            \* bound: the program moves the target only while _n is at most this

SCALE == 10

\* Functions of the program that make the steps are not followed.  A tick is short enough
\* for every maximum speed, and for the first interval of every acceleration.
ASSUME StepperAssumption ==
  /\ Kinds \subseteq Interfaces \ {FUNCTION}
  /\ Positions \subseteq Int /\ Moves \subseteq Int /\ Homes \subseteq Int /\ Speeds \subseteq Int
  /\ SECOND \in Nat /\ SECOND > 1 /\ MaxSpeeds \subseteq SCALE..(SCALE * SECOND)
  /\ Accelerations \subseteq {a \in Nat \ {0} : 1000 * a <= 914 * SECOND * SECOND}
  /\ Reach \in Nat /\ MaxN \in Nat

CCW == 0
CW == 1

VARIABLES
  interface,     \* how the motor is driven
  currentPos, targetPos,
  motion,        \* _speed, _stepInterval, _n, _cn and _direction
  maxSpeed, cmin, acceleration,
  output,        \* the pins that are high
  angle,         \* where the motor stands
  lost           \* whether it has missed a step or made one the wrong way (history)

limits == <<maxSpeed, cmin, acceleration>>
motor == <<interface, output, angle, lost>>
vars == <<currentPos, targetPos, motion, limits, motor>>

-----------------------------------------------------------------------------
(* Speed *)

Magnitude(x) == IF x < 0 THEN -x ELSE x
Larger(x, y) == IF x > y THEN x ELSE y
Quotient(a, b) ==
  LET q == Magnitude(a) \div Magnitude(b) IN IF (a < 0) = (b < 0) THEN q ELSE -q

\* Equation 16: the steps it takes to stop from a speed.
stepsToStop(speed, a) == (speed * speed) \div (2 * a * SCALE * SCALE)

\* Equation 15: 0.676 * sqrt(2 / a) seconds, the interval before the second step; a root
\* is the number of integers whose square is no more.
c0 == [a \in {1} \cup Accelerations |->
         LET square == (SECOND * SECOND * 914) \div (1000 * a)
         IN  Cardinality({r \in 1..SECOND : r * r <= square})]

Stopped(m) == [m EXCEPT !.stepInterval = 0, !.speed = 0, !.n = 0]

\* Mistaken: the ramp is begun anew instead of run down.
TurnedToStart(m, d, toward, stop) ==
  IF m.n > 0 /\ (stop >= d \/ m.direction # toward) THEN 0
  ELSE IF m.n < 0 /\ stop < d /\ m.direction = toward THEN -m.n
  ELSE m.n
\* The position in the ramp: braking when the way left is no longer than it takes to
\* stop or leads elsewhere, accelerating again when it is longer.
TurnedTo(m, d, toward, stop) ==
  IF m.n > 0 /\ (stop >= d \/ m.direction # toward) THEN -stop
  ELSE IF m.n < 0 /\ stop < d /\ m.direction = toward THEN -m.n
  ELSE m.n

\* computeNewSpeed(), with the distance to go, the acceleration and _cmin.
computeNewSpeed(m, distanceTo, a, c) ==
  LET stop == stepsToStop(m.speed, a)
      toward == IF distanceTo > 0 THEN CW ELSE CCW
      n == IF distanceTo = 0 THEN m.n ELSE TurnedTo(m, Magnitude(distanceTo), toward, stop)
      cn == IF n = 0 THEN c0[a] ELSE Larger(m.cn - Quotient(2 * m.cn, 4 * n + 1), c)
      direction == IF n = 0 THEN toward ELSE m.direction
  IN  IF distanceTo = 0 /\ stop <= 1 THEN Stopped(m)
      ELSE [n |-> n + 1, cn |-> cn, direction |-> direction, stepInterval |-> cn,
            speed |-> (IF direction = CW THEN 1 ELSE -1) * ((SCALE * SECOND) \div cn)]

-----------------------------------------------------------------------------
(* Steps *)

\* AccelStepper(): no speed, and the acceleration of one step per second per second;
\* _cmin is 1, whatever the maximum speed of 1.0.
Init ==
  /\ interface \in Kinds
  /\ currentPos = 0 /\ targetPos = 0
  /\ motion = [speed |-> 0, stepInterval |-> 0, n |-> 0, cn |-> 0, direction |-> CCW]
  /\ maxSpeed = SCALE /\ cmin = 1 /\ acceleration = 1
  /\ output = {} /\ lost = FALSE
  /\ angle \in IF interface \in {FUNCTION, DRIVER} THEN {0}
               ELSE Angles(interface, Outputs(interface, 0, FALSE)[1])

\* step(): the pins are set, and the motor follows them as far as it can.
Step(position, direction) ==
  LET outputs == Outputs(interface, position, direction = CW)
      pulled == IF outputs = <<>> THEN {} ELSE Angles(interface, outputs[1])
      way == position - currentPos
      made == CASE interface = FUNCTION -> IF motion.speed > 0 THEN 1 ELSE -1
                [] interface = DRIVER -> Driven(output, outputs)
                [] OTHER -> IF pulled = {} THEN 0
                            ELSE Turned(interface, angle, CHOOSE k \in pulled : TRUE)
  IN  /\ output' = IF outputs = <<>> THEN output ELSE outputs[Len(outputs)]
      /\ angle' = IF pulled = {} \/ interface \in {FUNCTION, DRIVER} THEN angle
                  ELSE CHOOSE k \in pulled : TRUE
      /\ lost' = (lost \/ made # way) /\ UNCHANGED interface

\* runSpeed(), a step due, towards the direction.
runSpeed(direction) ==
  /\ motion.stepInterval # 0
  /\ currentPos' = currentPos + (IF direction = CW THEN 1 ELSE -1)
  /\ Step(currentPos', direction)

\* run(): a step, and the interval to the next.
Run ==
  /\ runSpeed(motion.direction)
  /\ motion' = computeNewSpeed(motion, targetPos - currentPos', acceleration, cmin)
  /\ UNCHANGED <<targetPos, limits>>

\* runSpeedToPosition(): a step towards the target, at whatever the interval is.
RunSpeedToPosition ==
  LET direction == IF targetPos > currentPos THEN CW ELSE CCW
  IN  /\ targetPos # currentPos
      /\ runSpeed(direction)
      /\ motion' = [motion EXCEPT !.direction = direction]
      /\ UNCHANGED <<targetPos, limits>>

-----------------------------------------------------------------------------
(* Calls of the program *)

\* moveTo()
MoveTo(p) ==
  /\ motion.n <= MaxN /\ Magnitude(p) <= Reach /\ targetPos # p
  /\ targetPos' = p
  /\ motion' = computeNewSpeed(motion, p - currentPos, acceleration, cmin)
  /\ UNCHANGED <<currentPos, limits, motor>>

\* move()
Move(d) == MoveTo(currentPos + d)

\* stop(): as near a target as the motor can stop at.
Stop ==
  /\ motion.speed # 0
  /\ LET s == stepsToStop(motion.speed, acceleration) + 1
     IN  Move(IF motion.speed > 0 THEN s ELSE -s)

\* The interval between steps at a speed.
IntervalAt(speed) == (SCALE * SECOND) \div speed

setMaxSpeed(speed) ==
  /\ maxSpeed # speed
  /\ maxSpeed' = speed /\ cmin' = IntervalAt(speed)
  /\ motion' = IF motion.n > 0
               THEN computeNewSpeed([motion EXCEPT !.n = stepsToStop(motion.speed, acceleration)],
                                    targetPos - currentPos, acceleration, cmin')
               ELSE motion
  /\ UNCHANGED <<currentPos, targetPos, acceleration, motor>>

\* setAcceleration(): _n by Equation 17.
setAcceleration(a) ==
  /\ acceleration # a
  /\ acceleration' = a
  /\ motion' = computeNewSpeed([motion EXCEPT !.n = Quotient(motion.n * acceleration, a)],
                               targetPos - currentPos, a, cmin)
  /\ UNCHANGED <<currentPos, targetPos, maxSpeed, cmin, motor>>

\* Mistaken: the interval of a negative speed is taken as it is.
setSpeedSigned(speed) ==
  LET v == IF speed > maxSpeed THEN maxSpeed ELSE IF speed < -maxSpeed THEN -maxSpeed ELSE speed
  IN  /\ speed # motion.speed
      /\ motion' = [motion EXCEPT !.speed = v,
                                  !.stepInterval = IF v <= 0 THEN 0 ELSE IntervalAt(v)]
      /\ UNCHANGED <<currentPos, targetPos, limits, motor>>
\* setSpeed(): within the maximum speed; the interval and the direction with it.
setSpeed(speed) ==
  LET v == IF speed > maxSpeed THEN maxSpeed ELSE IF speed < -maxSpeed THEN -maxSpeed ELSE speed
  IN  /\ speed # motion.speed
      /\ motion' = IF v = 0 THEN [motion EXCEPT !.speed = 0, !.stepInterval = 0]
                   ELSE [motion EXCEPT !.speed = v,
                                       !.stepInterval = IntervalAt(Magnitude(v)),
                                       !.direction = IF v > 0 THEN CW ELSE CCW]
      /\ UNCHANGED <<currentPos, targetPos, limits, motor>>

setCurrentPosition(p) ==
  /\ currentPos' = p /\ targetPos' = p
  /\ motion' = Stopped(motion)
  /\ UNCHANGED <<limits, motor>>

-----------------------------------------------------------------------------
(* Programs *)

\* A program that lets the motor accelerate, and calls run() again and again.  A motor
\* may run past its target: one of three wires must not, where it is the origin.
Accelerated ==
  \/ Run \/ Stop
  \/ \E p \in Positions : MoveTo(p)
  \/ \E d \in Moves : Move(d)
  \/ \E s \in MaxSpeeds : setMaxSpeed(s)
  \/ \E a \in Accelerations : setAcceleration(a)
Spec == Init /\ interface \notin ThreeWires /\ [][Accelerated]_vars /\ WF_vars(Run)

\* One that runs it at constant speeds, and calls runSpeedToPosition() again and again.
\* Of three wires only positions from the origin up have a case, since the remainder of a
\* negative one is negative; and only a driver can be told another position, since the
\* coils stay where they are.
AtConstantSpeed ==
  \/ RunSpeedToPosition
  \/ \E p \in Positions : (interface \in ThreeWires => p >= 0) /\ MoveTo(p)
  \/ \E s \in MaxSpeeds : setMaxSpeed(s)
  \/ \E v \in Speeds : setSpeed(v)
  \/ interface = DRIVER /\ \E p \in Homes : setCurrentPosition(p)
ConstantSpec == Init /\ [][AtConstantSpeed]_vars /\ WF_vars(RunSpeedToPosition)

-----------------------------------------------------------------------------
(* Properties *)

StepperTypeOK ==
  /\ interface \in Kinds
  /\ currentPos \in Int /\ targetPos \in Int
  /\ motion.direction \in {CCW, CW} /\ motion.speed \in Int /\ motion.n \in Int
  /\ motion.stepInterval \in Nat /\ motion.cn \in Nat
  /\ maxSpeed \in {SCALE} \cup MaxSpeeds /\ cmin \in 1..SECOND /\ acceleration \in {1} \cup Accelerations
  /\ output \subseteq 0..3 /\ angle \in 0..(Turn(interface) - 1) /\ lost \in BOOLEAN

\* The motor makes every step the position counts, the way it counts it, whatever the
\* program has asked for between steps (AccelStepper.cpp 48-61: the position is
\* counted, and the pins set for it, without the motor being asked).
MotorFollows == ~ lost

\* A motor turns round only at a speed from which it can stop within a step
\* (AccelStepper.cpp 112-145, a ramp down starts where stopping takes it).
ReversesSlowly ==
  motion'.direction # motion.direction => stepsToStop(motion.speed, acceleration') <= 1

\* Once the program only calls run(), the motor comes to rest, and at its target.
Arrives ==
  <>[][Run]_vars => <>[](currentPos = targetPos /\ motion.speed = 0)

\* A motor run at a constant speed reaches its target, once the program only calls
\* runSpeedToPosition(), with a speed set.
ArrivesAtSpeed ==
  <>[][RunSpeedToPosition]_vars /\ []<>(motion.speed # 0) => []<>(currentPos = targetPos)

\* The type invariant, and a motor that follows (AccelStepper.cpp 48-61, 361-568).
StepperInv == StepperTypeOK /\ MotorFollows

=============================================================================
