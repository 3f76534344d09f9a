------------------------------ MODULE BusyWait ------------------------------
(***************************************************************************)
(* The busy waits of the run-time library (arduinowire/wiring.c):          *)
(* delayMicroseconds(), in its six versions for six processor clocks, and  *)
(* delay2(), which calls it once per millisecond.                          *)
(*                                                                         *)
(* An unsigned int has Word values.  The cycles of a stretch of            *)
(* instructions are those the source's comments count, for a delay that is *)
(* a constant; those of the loop are the two instructions it is made of.   *)
(***************************************************************************)
EXTENDS Integers

CONSTANTS
  Word,    \* values of an unsigned int (2^16)
  Milli,   \* microseconds in a millisecond (1000)
  MaxMs    \* the longest delay2() asked for

\* No version returns at once from a millisecond, but that for 1 MHz if it is short.
ASSUME BusyWaitAssumption ==
  /\ Word \in Nat /\ Milli \in 3..(Word - 1) /\ MaxMs \in 1..(Word - 1)

Clocks == {1, 8, 12, 16, 20, 24}

\* A call that returns at once takes Returned cycles; this many microseconds do so.
Early == [fr \in Clocks |-> CASE fr = 24 -> 0 [] fr \in {20, 16, 12} -> 1
                             [] fr = 8 -> 2 [] fr = 1 -> 25]
Returned == [fr \in Clocks |-> IF fr = 20 THEN 18 ELSE 14]

\* The cycles before and after the loop, and the turns taken off for them.
Burned == [fr \in Clocks |-> CASE fr = 24 -> 22 [] fr = 20 -> 26 [] fr = 16 -> 19
                              [] fr = 12 -> 20 [] fr = 8 -> 17 [] fr = 1 -> 22]

\* Mistaken: five turns are taken off at 20 MHz too.
TurnsSame(fr, n) ==
  IF fr = 1 THEN (n - 22) \div 4
  ELSE ((fr \div 4) * n - (IF fr = 8 THEN 4 ELSE 5)) % Word
\* The count the loop starts from: `us *= 6; us -= 5', `us <<= 2; us -= 5', ...
Turns(fr, n) ==
  IF fr = 1 THEN (n - 22) \div 4
  ELSE ((fr \div 4) * n -
        CASE fr \in {24, 16, 12} -> 5 [] fr = 20 -> 7 [] fr = 8 -> 4) % Word

\* The waits whose count does not wrap.
InRange(fr, n) == fr = 1 \/ (fr \div 4) * n < Word

VARIABLES
  f,          \* F_CPU in MHz
  waitPc,     \* "sketch", "call", "loop" or "return"
  us,         \* the argument, then the count of the loop
  ms,         \* calls delay2() has yet to make
  cycles,     \* cycles since the sketch's call (history)
  waitAsked,  \* microseconds it asked for (history)
  waitCalls   \* calls of delayMicroseconds() made for it (history)

waitVars == <<f, waitPc, us, ms, cycles, waitAsked, waitCalls>>

WaitInit ==
  /\ f \in Clocks
  /\ waitPc = "sketch" /\ us = 0 /\ ms = 0 /\ cycles = 0 /\ waitAsked = 0 /\ waitCalls = 0

\* The sketch waits for some microseconds, or for some milliseconds.
DelayMicroseconds ==
  /\ waitPc = "sketch"
  /\ \E n \in 0..(Word - 1) : us' = n /\ waitAsked' = n
  /\ waitPc' = "call" /\ waitCalls' = 1 /\ UNCHANGED <<f, ms, cycles>>

Delay2 ==
  /\ waitPc = "sketch"
  /\ \E n \in 1..MaxMs : ms' = n /\ waitAsked' = n * Milli
  /\ waitPc' = "return" /\ UNCHANGED <<f, us, cycles, waitCalls>>

\* `while (ms > 0) { delayMicroseconds(1000); ms--; }'
Delay2Again ==
  /\ waitPc = "return" /\ ms > 0
  /\ waitPc' = "call" /\ us' = Milli /\ ms' = ms - 1 /\ waitCalls' = waitCalls + 1
  /\ UNCHANGED <<f, cycles, waitAsked>>

\* Too short a wait to need the loop.
ReturnEarly ==
  /\ waitPc = "call" /\ us <= Early[f]
  /\ waitPc' = "return" /\ us' = 0 /\ cycles' = cycles + Returned[f]
  /\ UNCHANGED <<f, ms, waitAsked, waitCalls>>

Prepare ==
  /\ waitPc = "call" /\ us > Early[f]
  /\ waitPc' = "loop" /\ us' = Turns(f, us) /\ cycles' = cycles + Burned[f]
  /\ UNCHANGED <<f, ms, waitAsked, waitCalls>>

\* `sbiw %0,1; brne 1b': four cycles, three when the branch is not taken.
Loop ==
  /\ waitPc = "loop"
  /\ us' = (us - 1) % Word
  /\ IF us' = 0 THEN waitPc' = "return" /\ cycles' = cycles + 3
     ELSE waitPc' = "loop" /\ cycles' = cycles + 4
  /\ UNCHANGED <<f, ms, waitAsked, waitCalls>>

Return ==
  /\ waitPc = "return" /\ ms = 0
  /\ waitPc' = "sketch" /\ cycles' = 0 /\ waitAsked' = 0 /\ waitCalls' = 0 /\ UNCHANGED <<f, us, ms>>

WaitNext ==
  \/ DelayMicroseconds \/ Delay2 \/ Delay2Again \/ ReturnEarly \/ Prepare \/ Loop \/ Return

\* The processor executes a call it has begun.
Busy == Delay2Again \/ ReturnEarly \/ Prepare \/ Loop \/ Return
WaitSpec == WaitInit /\ [][WaitNext]_waitVars /\ WF_waitVars(Busy)

-----------------------------------------------------------------------------
(* Properties *)

\* The cycles a call may be off by: the loop counts in fours; at 1 MHz a call takes
\* longer than the shortest waits, and returns early from those up to 25.
Slack == IF f = 1 THEN 11 ELSE 3

BusyWaitTypeOK ==
  /\ f \in Clocks /\ waitPc \in {"sketch", "call", "loop", "return"}
  /\ us \in 0..(Word - 1) /\ ms \in 0..MaxMs /\ cycles \in Nat /\ waitCalls \in 0..MaxMs

\* The count of a wait in range is never zero when the loop begins, where it would
\* stand for 65536 turns (the comment at wiring.c 238, `no zero delay bug').
NoZeroDelay ==
  waitPc = "call" /\ us > Early[f] /\ InRange(f, us) => Turns(f, us) > 0

\* A wait in range takes the time asked for, however the version for the clock
\* scales the count and pays for its own instructions (wiring.c 131-250); the
\* shortest take the time of a call.  delay2() is off by as much per call.
WaitAccurate ==
  waitPc = "return" /\ ms = 0 /\ InRange(f, waitAsked \div waitCalls) =>
    /\ cycles >= waitAsked * f - waitCalls * Slack
    /\ cycles <= waitAsked * f + waitCalls * Slack \/ cycles <= Returned[f]

\* Every wait ends.
WaitEnds == (waitPc # "sketch") ~> (waitPc = "sketch")

\* The type invariant, and waits that take the time asked for (wiring.c 131-250).
WaitInv == BusyWaitTypeOK /\ NoZeroDelay /\ WaitAccurate

=============================================================================
