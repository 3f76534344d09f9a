------------------------------ MODULE MCServo -------------------------------
(* Three servos for a timer of two, with short pulses. *)
EXTENDS Servo

MCObjects == 0..2
MCTimers == {0}
=============================================================================
