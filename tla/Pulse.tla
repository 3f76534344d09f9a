------------------------------- MODULE Pulse --------------------------------
(***************************************************************************)
(* Measuring a pulse (wiring_pulse.c, pulseInLong()): three loops that     *)
(* read a pin and the clock in turn, and give up when the time allowed is  *)
(* over, whichever of them the program is in.                              *)
(*                                                                         *)
(* The pin changes when it likes, but stays as it is for Hold ticks; at    *)
(* most Pace ticks pass between two accesses of the program.  The clock,   *)
(* micros(), is read modulo Wrap.                                          *)
(***************************************************************************)
EXTENDS Integers

CONSTANTS
  Wrap,     \* values of micros() (2^32)
  timeout,  \* the ticks allowed
  Pace,     \* the most ticks between two accesses of the program
  Hold      \* the least time the pin stays at a level

\* The first turn is made whatever the time allowed.
Allowed == IF timeout > Pace THEN timeout ELSE Pace

\* A loop, two accesses, is shorter than the pin holds a level.
ASSUME PulseAssumption ==
  /\ timeout \in Nat /\ Pace \in Nat \ {0} /\ Hold \in Nat /\ Hold > 3 * Pace
  /\ Wrap \in Nat /\ Allowed + 4 * Pace < Wrap

VARIABLES
  now,           \* micros()
  level,         \* whether the pin is at the state whose pulse is measured
  pulsePc,       \* the next access: "sketch", or one of the call
  startMicros, start,
  pulseResult,   \* what the last call returned
  slack,         \* ticks since the program's last access
  age,           \* ticks the pin has been at its level, (history)
  pulse,         \* the length of the last pulse, (history)
  elapsed        \* ticks since the call's first access (history)

pulseVars ==
  <<now, level, pulsePc, startMicros, start, pulseResult, slack, age, pulse, elapsed>>

\* As far as time is counted.
Longest == Allowed + 5 * Pace + Hold
Capped(t) == IF t > Longest THEN Longest ELSE t
Since(t) == (now - t) % Wrap

PulseInit ==
  /\ now \in 0..(Wrap - 1) /\ level \in BOOLEAN /\ pulsePc = "sketch"
  /\ startMicros = 0 /\ start = 0 /\ pulseResult = 0
  /\ slack = 0 /\ age = Longest /\ pulse = Longest /\ elapsed = 0

-----------------------------------------------------------------------------
(* Time and the pin *)

Tick ==
  /\ pulsePc # "sketch" /\ slack < Pace
  /\ now' = (now + 1) % Wrap /\ slack' = slack + 1
  /\ age' = Capped(age + 1) /\ elapsed' = Capped(elapsed + 1)
  /\ UNCHANGED <<level, pulsePc, startMicros, start, pulseResult, pulse>>

Change ==
  /\ pulsePc # "sketch" /\ age >= Hold
  /\ level' = ~ level /\ age' = 0
  /\ pulse' = IF level THEN age ELSE pulse
  /\ UNCHANGED <<now, pulsePc, startMicros, start, pulseResult, slack, elapsed>>

-----------------------------------------------------------------------------
(* pulseInLong() *)

\* An access of the program, after which it is at a label.
Access(label) ==
  /\ pulsePc' = label /\ slack' = 0
  /\ UNCHANGED <<now, level, age, pulse>>

CallPulse ==
  /\ pulsePc = "sketch" /\ Access("previous")
  /\ startMicros' = now /\ elapsed' = 0
  /\ start' = 0 /\ pulseResult' = 0

\* The access after one that does not end a loop.
Check(label) ==
  CASE label = "previous" -> "previousTime"
    [] label = "beginning" -> "beginningTime"
    [] label = "end" -> "endTime"

\* A loop reads the pin, at a level it waits to leave, and is left for the next access ...
Watch(label, while, next) ==
  /\ pulsePc = label /\ Access(IF level = while THEN Check(label) ELSE next)
  /\ UNCHANGED <<startMicros, start, pulseResult, elapsed>>

Late == Since(startMicros) > timeout

\* ... or the clock, and is given up.
CheckTime(label) ==
  /\ pulsePc = Check(label)
  /\ IF Late THEN Access("sketch") /\ pulseResult' = 0
             ELSE Access(label) /\ UNCHANGED pulseResult
  /\ UNCHANGED <<startMicros, start, elapsed>>

Begin ==
  /\ pulsePc = "begin" /\ Access("end")
  /\ start' = now
  /\ UNCHANGED <<startMicros, pulseResult, elapsed>>

\* Mistaken: the length is taken from the beginning of the call.
ReturnsAll ==
  /\ pulsePc = "return" /\ Access("sketch")
  /\ pulseResult' = Since(startMicros)
  /\ UNCHANGED <<startMicros, start, elapsed>>
Returns ==
  /\ pulsePc = "return" /\ Access("sketch")
  /\ pulseResult' = Since(start)
  /\ UNCHANGED <<startMicros, start, elapsed>>

pulseInLong ==
  \/ Watch("previous", TRUE, "beginning")
  \/ Watch("beginning", FALSE, "begin")
  \/ Begin
  \/ Watch("end", TRUE, "return")
  \/ \E label \in {"previous", "beginning", "end"} : CheckTime(label)
  \/ Returns

PulseNext == Tick \/ Change \/ CallPulse \/ pulseInLong

\* Time goes on while the program runs, and the program with it.
PulseSpec == PulseInit /\ [][PulseNext]_pulseVars /\ WF_pulseVars(Tick) /\ WF_pulseVars(pulseInLong)

-----------------------------------------------------------------------------
(* Properties *)

PulseTypeOK ==
  /\ now \in 0..(Wrap - 1) /\ startMicros \in 0..(Wrap - 1) /\ start \in 0..(Wrap - 1)
  /\ pulseResult \in 0..(Wrap - 1) /\ level \in BOOLEAN /\ slack \in 0..Pace
  /\ elapsed \in 0..Longest /\ age \in 0..Longest /\ pulse \in 0..Longest

\* What the call returns, unless nothing, is the length of a pulse that began and ended
\* during the call, up to the time of one turn of a loop at either end, though the clock
\* may wrap on the way (wiring_pulse.c 82-94).
MeasuresAPulse ==
  [][pulseResult' # pulseResult /\ pulseResult' # 0 =>
       pulseResult' \in (pulse - 3 * Pace)..(pulse + 3 * Pace)]_pulseVars

\* The call returns, in the time it was allowed and that of two turns of a loop,
\* whatever the pin does (wiring_pulse.c 77-93).
ReturnsInTime == elapsed <= Allowed + 4 * Pace
CallReturns == (pulsePc # "sketch") ~> (pulsePc = "sketch")

\* The type invariant, and a call that comes back in time and with a pulse, if with
\* anything (wiring_pulse.c 69-95).
PulseInv == PulseTypeOK /\ ReturnsInTime
PulsesMeasured == []PulseInv /\ MeasuresAPulse

=============================================================================
