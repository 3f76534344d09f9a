------------------------------- MODULE Timer0 -------------------------------
(***************************************************************************)
(* The clock of the run-time library (arduinowire/wiring.c, hooks.c): the  *)
(* overflow interrupt of timer 0, millis(), micros() and delay().          *)
(*                                                                         *)
(* The processor and the timer run side by side: Tick is one increment of  *)
(* the counter TCNT0, the interrupt runs between two instructions whenever *)
(* interrupts are enabled, and a call reads what it reads one register, or *)
(* one half of a variable, at a time.  True time is `ticks'; the program   *)
(* never sees it.                                                          *)
(***************************************************************************)
EXTENDS Integers

CONSTANTS
  Top,          \* counts of TCNT0 per overflow (256)
  US,           \* microseconds per count (4 at 16 MHz)
  MS,           \* microseconds per millisecond (1000)
  Grain,        \* microseconds per unit of timer0_fract (8: the shift by three)
  Word,         \* values of an unsigned long (2^32)
  Half,         \* values of the half of it that one step reads
  MaxLatency,   \* the longest an overflow waits for its interrupt, in counts
  MaxYield,     \* the longest yield() and the code between two calls, in counts
  MaxMs         \* the longest delay asked for

ClockAssumption ==
  /\ {Top, US, MS, Grain, Word, Half, MaxYield, MaxMs} \subseteq Nat \ {0}
  /\ Word % (Top * US) = 0 /\ Word % Half = 0
  /\ MS % Grain = 0 /\ (Top * US) % Grain = 0
  /\ Top > 2 /\ MaxLatency \in 0..(Top - 2)

ASSUME TimerAssumption == ClockAssumption

MICROSECONDS_PER_TIMER0_OVERFLOW == Top * US
MILLIS_INC == MICROSECONDS_PER_TIMER0_OVERFLOW \div MS
FRACT_INC  == (MICROSECONDS_PER_TIMER0_OVERFLOW % MS) \div Grain
FRACT_MAX  == MS \div Grain

\* `ticks' is kept modulo a common period of every counter below.
Period == Word * Top * FRACT_MAX

VARIABLES
  ticks,                  \* counts of timer 0 since reset
  tov, pending,           \* flag TOV0, and how long ago it was raised
  ie,                     \* the I bit of SREG
  timer0_overflow_count,
  timer0_millis,
  timer0_fract,
  handler,                \* the program is in an interrupt handler of its own
  step,                   \* what the program does
  frame,                  \* oldSREG, m and t of millis() and micros()
  begin,                  \* the clock at the call (history)
  idle,                   \* counts since the last step of the program
  delay                   \* ms and start of delay(), and what was asked (history)

timer == <<ticks, tov, pending>>
counts == <<timer0_overflow_count, timer0_millis, timer0_fract>>
timerVars == <<timer, ie, counts, handler, step, frame, begin, idle, delay>>

TCNT0 == ticks % Top
NoDelay == [ms |-> 0, start |-> 0, asked |-> 0, since |-> 0]

TimerInit ==
  /\ ticks = 0 /\ tov = FALSE /\ pending = 0 /\ ie = TRUE
  /\ timer0_overflow_count = 0 /\ timer0_millis = 0 /\ timer0_fract = 0
  /\ handler = FALSE /\ step = "sketch" /\ idle = 0
  /\ frame = [sreg |-> TRUE, m |-> 0, t |-> 0] /\ begin = 0
  /\ delay = NoDelay

-----------------------------------------------------------------------------
(* The hardware *)

\* The most counts that pass before the program gets on: micros() with interrupts
\* off takes less than the 64 cycles of one count, yield() any work it likes.
Limit == IF ie /\ step \in {"sketch", "yield"} THEN MaxYield ELSE 1

\* The history of a delay goes no further than the longest accurate one.
MaxSince == (MaxMs * MS) \div US + MaxYield + 6

\* The counter advances; wrapping to zero raises TOV0.  The previous overflow
\* was served in time: an interrupt is never held off for a whole period.
Tick ==
  /\ idle < Limit
  /\ tov => pending < MaxLatency
  /\ idle' = idle + 1
  /\ ticks' = (ticks + 1) % Period
  /\ tov' = (tov \/ (ticks + 1) % Top = 0)
  /\ pending' = IF tov THEN pending + 1 ELSE 0
  /\ delay' = IF delay.asked = 0 \/ delay.since = MaxSince THEN delay
              ELSE [delay EXCEPT !.since = @ + 1]
  /\ UNCHANGED <<ie, counts, handler, step, frame, begin>>

\* Mistaken: `f > FRACT_MAX'.
OverflowLate ==
  /\ tov /\ ie
  /\ tov' = FALSE /\ pending' = 0
  /\ LET m == timer0_millis + MILLIS_INC
         f == timer0_fract + FRACT_INC
     IN IF f > FRACT_MAX
        THEN timer0_fract' = f - FRACT_MAX /\ timer0_millis' = (m + 1) % Word
        ELSE timer0_fract' = f /\ timer0_millis' = m % Word
  /\ timer0_overflow_count' = (timer0_overflow_count + 1) % Word
  /\ UNCHANGED <<ticks, ie, handler, step, frame, begin, idle, delay>>

\* ISR(TIMER0_OVF_vect); entering it clears TOV0, and nothing interrupts it.
Overflow ==
  /\ tov /\ ie
  /\ tov' = FALSE /\ pending' = 0
  /\ LET m == timer0_millis + MILLIS_INC
         f == timer0_fract + FRACT_INC
     IN IF f >= FRACT_MAX
        THEN timer0_fract' = f - FRACT_MAX /\ timer0_millis' = (m + 1) % Word
        ELSE timer0_fract' = f /\ timer0_millis' = m % Word
  /\ timer0_overflow_count' = (timer0_overflow_count + 1) % Word
  /\ UNCHANGED <<ticks, ie, handler, step, frame, begin, idle, delay>>

-----------------------------------------------------------------------------
(* The program: a sketch, and interrupt handlers that read the clock too *)

\* The program gets on, at a moment when it was the program's turn.
Step == idle' = 0

\* Another interrupt's handler starts and ends, with interrupts off throughout.
EnterHandler ==
  /\ step = "sketch" /\ ie
  /\ handler' = TRUE /\ ie' = FALSE /\ Step
  /\ UNCHANGED <<timer, counts, step, frame, begin, delay>>
LeaveHandler ==
  /\ step = "sketch" /\ handler
  /\ handler' = FALSE /\ ie' = TRUE /\ Step
  /\ UNCHANGED <<timer, counts, step, frame, begin, delay>>

Now == ticks * US

\* millis(): save SREG, cli, and the low half of the counter.
CallMillis ==
  /\ step = "sketch"
  /\ step' = "millis" /\ begin' = timer0_millis
  /\ frame' = [frame EXCEPT !.sreg = ie, !.m = timer0_millis % Half]
  /\ ie' = FALSE /\ Step
  /\ UNCHANGED <<timer, counts, handler, delay>>

\* The high half, `SREG = oldSREG', and the return.
Millis ==
  /\ step = "millis"
  /\ step' = "gotMillis"
  /\ frame' = [frame EXCEPT !.m = @ + (timer0_millis \div Half) * Half]
  /\ ie' = frame.sreg /\ Step
  /\ UNCHANGED <<timer, counts, handler, begin, delay>>

\* micros(): save SREG, cli, and read the overflow count, for whoever calls it.
EnterMicros(next) ==
  /\ step' = next
  /\ frame' = [frame EXCEPT !.sreg = ie, !.m = timer0_overflow_count]
  /\ ie' = FALSE /\ Step
  /\ UNCHANGED <<timer, counts, handler>>

CallMicros ==
  /\ step = "sketch"
  /\ begin' = Now /\ EnterMicros("TCNT0") /\ UNCHANGED delay

\* `t = TCNT0'.
ReadTCNT0 ==
  /\ step = "TCNT0"
  /\ step' = "TIFR0" /\ frame' = [frame EXCEPT !.t = TCNT0]
  /\ UNCHANGED <<timer, ie, counts, handler, begin, idle, delay>>

\* The value micros() computes from m, t and the flag as it is now.
\* Mistaken: without the test that t was read after the overflow.
MicrosUnguarded == (((frame.m + (IF tov THEN 1 ELSE 0)) * Top + frame.t) * US) % Word
Micros ==
  LET m == IF tov /\ frame.t < Top - 1 THEN frame.m + 1 ELSE frame.m
  IN  ((m * Top + frame.t) * US) % Word

\* Mistaken: `start = micros()' at every millisecond.
ElapsedRestart(v, d) ==
  IF d.ms > 0 /\ (v - d.start) % Word >= MS THEN [d EXCEPT !.ms = @ - 1, !.start = v]
  ELSE d
\* Mistaken: times compared as plain numbers, `micros() >= start + 1000'.
ElapsedPlain(v, d) ==
  IF d.ms > 0 /\ v - d.start >= MS
  THEN [d EXCEPT !.ms = @ - 1, !.start = (@ + MS) % Word]
  ELSE d
\* One evaluation of `ms > 0 && (micros() - start) >= 1000' and its body.
Elapsed(v, d) ==
  IF d.ms > 0 /\ (v - d.start) % Word >= MS
  THEN [d EXCEPT !.ms = @ - 1, !.start = (@ + MS) % Word]
  ELSE d

\* Where micros() returns to: the sketch; delay(), whose first call sets start; or
\* the inner loop, which reads the clock again at once after a whole millisecond.
Return(v) ==
  \/ /\ delay.asked = 0
     /\ step' = "gotMicros" /\ frame' = [frame EXCEPT !.m = v] /\ UNCHANGED delay
  \/ /\ delay.asked > 0 /\ delay.start < 0
     /\ step' = "delay" /\ delay' = [delay EXCEPT !.start = v] /\ UNCHANGED frame
  \/ /\ delay.asked > 0 /\ delay.start >= 0
     /\ delay' = Elapsed(v, delay)
     /\ step' = IF delay' = delay THEN "delay" ELSE "delayAgain"
     /\ UNCHANGED frame

\* The test of TIFR0, `SREG = oldSREG' and the return.
MicrosReturns ==
  /\ step = "TIFR0"
  /\ ie' = frame.sreg /\ Step /\ Return(Micros)
  /\ UNCHANGED <<timer, counts, handler, begin>>

\* The sketch has its value, or has waited.
Use ==
  /\ step \in {"gotMillis", "gotMicros", "delayed"}
  /\ step' = "sketch" /\ frame' = [frame EXCEPT !.m = 0, !.t = 0]
  /\ begin' = 0 /\ delay' = NoDelay /\ Step
  /\ UNCHANGED <<timer, ie, counts, handler>>

\* delay(ms): `start = micros()'.
CallDelay ==
  /\ step = "sketch" /\ ~handler
  /\ \E ms \in 1..MaxMs : delay' = [ms |-> ms, start |-> -1, asked |-> ms, since |-> 0]
  /\ EnterMicros("TCNT0") /\ UNCHANGED begin

\* The outer loop: yield(), the empty hook a sketch may replace.
Yield ==
  /\ step = "delay" /\ delay.ms > 0
  /\ step' = "yield" /\ Step
  /\ UNCHANGED <<timer, ie, counts, handler, frame, begin, delay>>

\* The condition of the inner loop reads the clock.
DelayReads ==
  /\ step \in {"yield", "delayAgain"} /\ delay.ms > 0
  /\ EnterMicros("TCNT0") /\ UNCHANGED <<begin, delay>>

DelayReturns ==
  /\ step = "delayAgain" /\ delay.ms = 0
  /\ step' = "delayed" /\ Step
  /\ UNCHANGED <<timer, ie, counts, handler, frame, begin, delay>>

Program ==
  \/ EnterHandler \/ LeaveHandler
  \/ CallMillis \/ Millis
  \/ CallMicros \/ ReadTCNT0 \/ MicrosReturns \/ Use
  \/ CallDelay \/ Yield \/ DelayReads \/ DelayReturns

\* What the program does once it has begun: a call returns, a handler ends.
Busy == Program /\ (step # "sketch" \/ handler)

TimerNext == Tick \/ Overflow \/ Program

\* Time passes.  A pending interrupt is served after at most one instruction with
\* interrupts on, so it is not put off for ever.  The processor executes.
TimerSpec ==
  /\ TimerInit /\ [][TimerNext]_timerVars
  /\ SF_timerVars(Tick) /\ SF_timerVars(Overflow) /\ WF_timerVars(Busy)

-----------------------------------------------------------------------------
(* Properties *)

Timer0TypeOK ==
  /\ ticks \in 0..(Period - 1) /\ tov \in BOOLEAN /\ ie \in BOOLEAN
  /\ pending \in 0..MaxLatency
  /\ timer0_overflow_count \in 0..(Word - 1) /\ timer0_millis \in 0..(Word - 1)
  /\ timer0_fract \in 0..(FRACT_MAX - 1)
  /\ handler => step \in {"sketch", "millis", "gotMillis", "TCNT0",
                         "TIFR0", "gotMicros"}
  /\ frame.sreg \in BOOLEAN /\ frame.m \in 0..(Word - 1) /\ frame.t \in 0..(Top - 1)
  /\ delay.ms \in 0..delay.asked /\ delay.asked \in 0..MaxMs

\* The overflows so far, but one that is pending.
Served == (ticks \div Top - (IF tov THEN 1 ELSE 0)) % (Word * FRACT_MAX)

\* The interrupt keeps time: every overflow but one still pending is counted, and
\* the milliseconds are the elapsed microseconds divided by a thousand, without
\* the drift an accumulated remainder could cause, even as the counters wrap
\* (ISR, wiring.c 48-66; the comment on FRACT_INC claims it for 8 and 16 MHz).
TimeKept ==
  /\ timer0_overflow_count = Served % Word
  /\ timer0_millis = ((Served * MICROSECONDS_PER_TIMER0_OVERFLOW) \div MS) % Word

\* micros() returns a time between its call and its return, whichever of its
\* three reads an overflow, served or not, falls between: never a time 1024
\* microseconds in the past or in the future (wiring.c 82-107).
MicrosBetween ==
  step = "gotMicros" => (frame.m - begin) % Word <= (Now - begin) % Word

\* millis() returns a value the counter had during the call, not one put together
\* from the bytes of two (the comment in wiring.c 73-74).
MillisWhole ==
  step = "gotMillis" => (frame.m - begin) % Word <= (timer0_millis - begin) % Word

\* A handler is never interrupted, though it calls millis() and micros(), which
\* turn interrupts off and restore them: `SREG = oldSREG'.
HandlersNotInterrupted == handler => ~ie

\* A millisecond is a whole number of counts, and long enough for the two calls of
\* micros() that may pass before the loop looks again; a millisecond and the turn of
\* yield() after it fit the clock (1000 and 2^32 microseconds).
DelayFits ==
  /\ MS % US = 0 /\ 2 * US <= MS
  /\ MS + (MaxYield + 3) * US < Word

\* delay() waits the time asked for, and longer only by one turn of yield() and the
\* calls around it: however late it notices each millisecond, the lateness does
\* not add up (`start += 1000', wiring.c 109-120).
DelayAccurate ==
  step = "delayed" =>
    /\ delay.since * US >= delay.asked * MS
    /\ delay.since * US <= delay.asked * MS + (MaxYield + 5) * US

\* Every call returns; delay() too, with the clock wrapping around and other
\* interrupts running (wiring.c 113-119).
CallsReturn == (step # "sketch") ~> (step = "sketch")

\* The type invariant, and a clock that counts what the timer counts, also for
\* handlers, which stay uninterrupted (wiring.c 48-107).
ClockInv == Timer0TypeOK /\ TimeKept /\ HandlersNotInterrupted

\* What a program reads of the clock is the time of its call (wiring.c 68-107).
ClockRead == MicrosBetween /\ MillisWhole

=============================================================================
