------------------------------ MODULE MCLibrary ------------------------------
(***************************************************************************)
(* What the run-time library does beside interrupt handlers, for TLC: the  *)
(* time of timer 0 (Timer0), external interrupts (Interrupts), pins (Pins) *)
(* and the arithmetic of a servo (ServoAngles).  They share no register,   *)
(* so part says which of them runs; the others keep their initial state.   *)
(***************************************************************************)
EXTENDS Timer0, Interrupts, ServoAngles, Pins

CONSTANT Parts  \* the parts that are checked

VARIABLE part

\* Two lines of each processor, those whose bits are not their numbers among them.
ExtLines ==
  {<<"m328", {0, 1}>>, <<"m1284", {0, 2}>>, <<"m32U4", {0, 4}>>,
   <<"m2560", {0, 2}>>, <<"m2560", {1, 5}>>}

\* Two pins of a board: neighbours, and those on outputs of one timer.  The bytes
\* after the tables happen to be zero.
OneTimer == [m328 |-> {{3, 11}, {5, 6}, {9, 10}}, m32U4 |-> {{3, 11}, {9, 10}}]
Neighbours == [m328 |-> {{p, p + 1} : p \in 0..18}, m32U4 |-> {{p, p + 1} : p \in 0..28}]
TwoPins == UNION {{c} \X (OneTimer[c] \cup Neighbours[c]) : c \in {"m328", "m32U4"}}
NoPin == {NOT_A_PIN}
SomeDuties == {0, 200, 255}

\* Limits that fit a byte, every angle and some pulse widths.
ByteLimits == {<<544, 2400>>, <<1000, 2000>>, <<600, 2398>>}
AnglesAndPulses == -1..181 \cup {300, 543, 544, 545, 999, 1001, 1500, 2100, 2401, 9000}

ASSUME DelayFits /\ BeyondApart
-----------------------------------------------------------------------------
libraryVars == <<part, timerVars, vars, pinVars, angleVars>>

LibraryInit ==
  /\ part \in Parts
  /\ part # "interrupts" => chip = "m328" /\ lines = {0, 1}
  /\ part # "pins" => board = "m328" /\ used = {3, 11}
  /\ part # "angles" => clock = 16
  /\ TimerInit /\ Init /\ PinsInit /\ AnglesInit

LibraryNext ==
  \/ part = "timer0" /\ TimerNext /\ UNCHANGED <<part, vars, pinVars, angleVars>>
  \/ part = "interrupts" /\ Next /\ UNCHANGED <<part, timerVars, pinVars, angleVars>>
  \/ part = "pins" /\ PinsNext /\ UNCHANGED <<part, timerVars, vars, angleVars>>
  \/ part = "angles" /\ AnglesNext /\ UNCHANGED <<part, timerVars, vars, pinVars>>

LibrarySpec == LibraryInit /\ [][LibraryNext]_libraryVars
=============================================================================
