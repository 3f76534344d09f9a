---------------------------- MODULE ServoAngles -----------------------------
(***************************************************************************)
(* The arithmetic of one servo (2018arm/Servo.cpp and Servo.h): from an    *)
(* angle or a pulse width to the ticks the timer counts, within the limits *)
(* given when the servo was attached, and back.                            *)
(***************************************************************************)
EXTENDS Integers

CONSTANTS
  Clocks,   \* processor clocks, in MHz
  Limits,   \* the <<min, max>> attach() is called with, in microseconds
  Values    \* the values write() and writeMicroseconds() are called with

\* The clocks of the boards, 8, 16 and 20 MHz, are among these: a microsecond is at
\* least a tick, and eight times the ticks of the longest pulse fit 16 bits.
ASSUME AnglesAssumption ==
  /\ Clocks \subseteq 8..22 /\ Values \subseteq Int
  /\ Limits \subseteq Int \X Int

MIN_PULSE_WIDTH == 544
MAX_PULSE_WIDTH == 2400
DEFAULT_PULSE_WIDTH == 1500
TRIM_DURATION == 2

VARIABLES
  clock,      \* clockCyclesPerMicrosecond()
  min, max,   \* the limits of the object, in units of four microseconds
  limits,     \* what attach() was called with (history)
  servoTicks, \* servos[servoIndex].ticks
  written     \* the last call that set it, and its value (history)

angleVars == <<clock, min, max, limits, servoTicks, written>>

\* Division in C truncates; an int8_t keeps eight bits, an unsigned int sixteen.
Quotient(a, b) == IF a >= 0 THEN a \div b ELSE -((-a) \div b)
Int8(x) == ((x + 128) % 256) - 128
UInt16 == 0..65535

usToTicks(us) == Quotient(clock * us, 8)
ticksToUs(n) == ((n * 8) % 65536) \div clock
SERVO_MIN == MIN_PULSE_WIDTH - min * 4
SERVO_MAX == MAX_PULSE_WIDTH - max * 4

map(x, inMin, inMax, outMin, outMax) ==
  Quotient((x - inMin) * (outMax - outMin), inMax - inMin) + outMin

\* A new object, a static one: no limits, the default pulse.
AnglesInit ==
  /\ clock \in Clocks
  /\ min = 0 /\ max = 0 /\ limits = <<MIN_PULSE_WIDTH, MAX_PULSE_WIDTH>>
  /\ servoTicks = usToTicks(DEFAULT_PULSE_WIDTH)
  /\ written = <<"Servo", 0>>

Attach ==
  /\ \E l \in Limits :
       /\ min' = Int8(Quotient(MIN_PULSE_WIDTH - l[1], 4))
       /\ max' = Int8(Quotient(MAX_PULSE_WIDTH - l[2], 4))
       /\ limits' = l
  /\ written' = <<"Servo", 0>> /\ UNCHANGED <<clock, servoTicks>>

\* `ensure pulse width is valid'.
Bounded(us) ==
  IF us < SERVO_MIN THEN SERVO_MIN ELSE IF us > SERVO_MAX THEN SERVO_MAX ELSE us

Store(us) == servoTicks' = usToTicks(Bounded(us) - TRIM_DURATION)

WriteMicroseconds ==
  /\ \E us \in Values : Store(us) /\ written' = <<"writeMicroseconds", us>>
  /\ UNCHANGED <<clock, min, max, limits>>

\* A value below the shortest pulse is an angle.
Angle(value) == IF value < 0 THEN 0 ELSE IF value > 180 THEN 180 ELSE value
WriteAngle ==
  /\ \E value \in Values :
       /\ Store(IF value < MIN_PULSE_WIDTH
                THEN map(Angle(value), 0, 180, SERVO_MIN, SERVO_MAX) ELSE value)
       /\ written' = <<"write", value>>
  /\ UNCHANGED <<clock, min, max, limits>>

AnglesNext == Attach \/ WriteMicroseconds \/ WriteAngle

AnglesSpec == AnglesInit /\ [][AnglesNext]_angleVars

readMicroseconds == ticksToUs(servoTicks) + TRIM_DURATION
\* Mistaken: without the microsecond that undoes the truncations.
ReadTruncated == map(readMicroseconds, SERVO_MIN, SERVO_MAX, 0, 180)
read == map(readMicroseconds + 1, SERVO_MIN, SERVO_MAX, 0, 180)

-----------------------------------------------------------------------------
(* Properties *)

ServoAnglesTypeOK ==
  /\ clock \in Clocks /\ limits \in Limits \cup {<<MIN_PULSE_WIDTH, MAX_PULSE_WIDTH>>}
  /\ min \in -128..127 /\ max \in -128..127 /\ servoTicks \in UInt16

\* The limits of attach() are those of a byte: its members hold them.
InByte ==
  /\ min = Quotient(MIN_PULSE_WIDTH - limits[1], 4)
  /\ max = Quotient(MAX_PULSE_WIDTH - limits[2], 4)

\* No value, however absurd, moves the servo beyond its limits, but for the four
\* microseconds of their resolution and the tick lost to the clock
\* (Servo.cpp 269-299).
PulseWithinLimits ==
  written[1] # "Servo" /\ InByte =>
    readMicroseconds \in (limits[1] - 5)..(limits[2] + 4)

\* An angle that was written is read back: the truncations of both directions
\* cancel when a microsecond is a whole number of ticks, and cost a degree at most
\* when it is not (the `+1' of Servo.cpp 303; Servo.h 42).
AngleReadBack ==
  written[1] = "write" /\ InByte /\ written[2] < MIN_PULSE_WIDTH =>
    IF clock % 8 = 0 THEN read = Angle(written[2])
    ELSE read \in (Angle(written[2]) - 1)..Angle(written[2])

\* The type invariant, and pulses within the limits that give back the angle they
\* were asked for (Servo.cpp 241-306).
AnglesInv == ServoAnglesTypeOK /\ PulseWithinLimits /\ AngleReadBack

=============================================================================
