------------------------------- MODULE Coils --------------------------------
(***************************************************************************)
(* The coils of a stepper motor (2018arm/AccelStepper.cpp, step() and what *)
(* it calls): the pins each kind of interface raises for a step, and, from *)
(* the outside, how far the motor turns by it.  A mask is the set of its   *)
(* pins.                                                                   *)
(***************************************************************************)
EXTENDS Integers, Sequences

FUNCTION == 0
DRIVER == 1
FULL2WIRE == 2
FULL3WIRE == 3
FULL4WIRE == 4
HALF3WIRE == 6
HALF4WIRE == 8
Interfaces == {FUNCTION, DRIVER, FULL2WIRE, FULL3WIRE, FULL4WIRE, HALF3WIRE, HALF4WIRE}
ThreeWires == {FULL3WIRE, HALF3WIRE}

\* C's remainder has the sign of its dividend.
Remainder(a, b) == IF a < 0 THEN -((-a) % b) ELSE a % b

\* step2(), step3(), step4(), step6() and step8(): the masks of their cases.
Full2 == <<{1}, {0, 1}, {0}, {}>>
Full3 == <<{2}, {0}, {1}>>
Full4 == <<{0, 2}, {1, 2}, {1, 3}, {0, 3}>>
Half3 == <<{2}, {0, 2}, {0}, {0, 1}, {1}, {1, 2}>>
\* Mistaken: two cases swapped.
Half4Swapped == <<{0}, {0, 2}, {2}, {1, 2}, {1, 3}, {1}, {3}, {0, 3}>>
Half4 == <<{0}, {0, 2}, {2}, {1, 2}, {1}, {1, 3}, {3}, {0, 3}>>

\* The case of a step: a mask of its low bits, or a remainder.
Case(cases, step, bits) ==
  LET k == 1 + (IF bits THEN step % Len(cases) ELSE Remainder(step, Len(cases)))
  IN  IF k \in 1..Len(cases) THEN <<cases[k]>> ELSE <<>>

\* step1(): the direction, then a pulse of the step line.
Drive(clockwise) ==
  LET d == IF clockwise THEN {1} ELSE {} IN <<d, d \cup {0}, d>>

\* step(): what setOutputPins() is called with, in order.
Outputs(interface, step, clockwise) ==
  CASE interface = FUNCTION -> <<>>
    [] interface = DRIVER -> Drive(clockwise)
    [] interface = FULL2WIRE -> Case(Full2, step, TRUE)
    [] interface = FULL3WIRE -> Case(Full3, step, FALSE)
    [] interface = FULL4WIRE -> Case(Full4, step, TRUE)
    [] interface = HALF3WIRE -> Case(Half3, step, FALSE)
    [] interface = HALF4WIRE -> Case(Half4, step, TRUE)

-----------------------------------------------------------------------------
(* The motor *)

\* The field of a motor, as an angle in eighths of an electrical turn: the coils of
\* pins 0 and 1 are opposite, and so are those of pins 2 and 3.
Compass == <<<<1, 0>>, <<1, 1>>, <<0, 1>>, <<-1, 1>>, <<-1, 0>>, <<-1, -1>>, <<0, -1>>, <<1, -1>>>>
Level(pin, pins) == IF pin \in pins THEN 1 ELSE 0
Fields(x, y) == {k \in 0..7 : Compass[k + 1] = <<x, y>>}
\* The three coils of a motor of three wires, in sixths of a turn.
Three == [k \in 0..5 |-> Half3[k + 1]]

\* The angles a mask may pull the motor to: one, or none when no coil is energised.
Angles(interface, pins) ==
  CASE interface \in ThreeWires -> {k \in 0..5 : Three[k] = pins}
    [] interface = FULL2WIRE -> Fields(2 * Level(0, pins) - 1, 1 - 2 * Level(1, pins))
    [] OTHER -> Fields(Level(0, pins) - Level(1, pins), Level(2, pins) - Level(3, pins))

Turn(interface) == IF interface \in ThreeWires THEN 6 ELSE 8
StepAngle(interface) == IF interface \in {HALF3WIRE, HALF4WIRE} THEN 1 ELSE 2

\* The steps a motor makes from one angle to the next: one either way, or none that
\* can be told.
Turned(interface, from, to) ==
  LET d == (to - from) % Turn(interface)
  IN  IF d = StepAngle(interface) THEN 1
      ELSE IF d = Turn(interface) - StepAngle(interface) THEN -1 ELSE 0

\* A driver steps when its step line rises, by a direction line that stands.
Driven(before, outputs) ==
  LET all == <<before>> \o outputs
      rises == {k \in 1..Len(outputs) : 0 \in all[k + 1] \ all[k]}
      steady == {k \in rises : (1 \in all[k]) = (1 \in all[k + 1])}
  IN  IF rises # steady \/ rises = {} THEN 0
      ELSE IF \A k \in rises : 1 \in all[k] THEN 1 ELSE -1

=============================================================================
