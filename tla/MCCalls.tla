------------------------------- MODULE MCCalls -------------------------------
(***************************************************************************)
(* The calls of the run-time library that wait, for TLC: delay() and the   *)
(* clock (Timer0), busy waiting (BusyWait), conversions (Adc), pulses      *)
(* (Pulse) and shifts (Shift).  They share no state, so part says which of *)
(* them runs; the others keep their initial state.  Each is fair to the    *)
(* part it belongs to.                                                     *)
(***************************************************************************)
EXTENDS Adc, BusyWait, Pulse, Shift, Sequences

CONSTANT Parts  \* the parts that are checked

VARIABLES
  part,                                                                            \* with those of the modules above
  ticks, tov, pending, ie, timer0_overflow_count, timer0_millis, timer0_fract,     \* Timer0
  handler, step, frame, begin, idle, delay

\* Four counts per overflow, three microseconds to the millisecond, clocks of 8
\* values.
T == INSTANCE Timer0 WITH
  Top <- 4, US <- 1, MS <- 3, Grain <- 1, Word <- 8, Half <- 4,
  MaxLatency <- 2, MaxYield <- 1, MaxMs <- 1

ASSUME T!ClockAssumption
-----------------------------------------------------------------------------
timerVars ==
  <<ticks, tov, pending, ie, timer0_overflow_count, timer0_millis, timer0_fract,
    handler, step, frame, begin, idle, delay>>
callsVars == <<part, timerVars, waitVars, vars, pulseVars, shiftVars>>

CallsInit ==
  /\ part \in Parts
  /\ part # "wait" => f = 16
  /\ part # "adc" => volts = [ch \in Channels |-> 0]
  /\ part # "pulse" => now = 0 /\ level = FALSE
  /\ T!TimerInit /\ WaitInit /\ Init /\ PulseInit /\ ShiftInit

CallsNext ==
  \/ part = "delay" /\ T!TimerNext /\ UNCHANGED <<part, waitVars, vars, pulseVars, shiftVars>>
  \/ part = "wait" /\ WaitNext /\ UNCHANGED <<part, timerVars, vars, pulseVars, shiftVars>>
  \/ part = "adc" /\ Next /\ UNCHANGED <<part, timerVars, waitVars, pulseVars, shiftVars>>
  \/ part = "pulse" /\ PulseNext /\ UNCHANGED <<part, timerVars, waitVars, vars, shiftVars>>
  \/ part = "shift" /\ ShiftNext /\ UNCHANGED <<part, timerVars, waitVars, vars, pulseVars>>

Fairness ==
  /\ SF_timerVars(part = "delay" /\ T!Tick) /\ SF_timerVars(part = "delay" /\ T!Overflow)
  /\ WF_timerVars(part = "delay" /\ T!Busy)
  /\ WF_waitVars(part = "wait" /\ Busy)
  /\ WF_vars(part = "adc" /\ Convert)
  /\ WF_vars(part = "adc" /\ analogRead("handler"))
  /\ SF_vars(part = "adc" /\ analogRead("sketch"))
  /\ WF_pulseVars(part = "pulse" /\ Tick) /\ WF_pulseVars(part = "pulse" /\ pulseInLong)

CallsSpec == CallsInit /\ [][CallsNext]_callsVars /\ Fairness
-----------------------------------------------------------------------------
(* The properties of the parts *)

\* Whatever is called returns: see CallsReturn of Timer0, WaitEnds of BusyWait,
\* ReadsReturn of Adc and CallReturns of Pulse.
EveryCallReturns == T!CallsReturn /\ WaitEnds /\ ReadsReturn /\ CallReturns
=============================================================================
