------------------------------- MODULE Servo --------------------------------
(***************************************************************************)
(* Servos (2018arm/Servo.cpp): objects that are given a channel each, and  *)
(* the compare interrupt of a 16-bit timer, which pulses the channels of   *)
(* its timer one after another and waits for the refresh interval to end.  *)
(*                                                                         *)
(* The interrupt comes when the timer reaches its compare register, up to  *)
(* MaxLate ticks late, and between any two accesses of the program.  A     *)
(* register set to fewer than Margin ticks ahead may be passed already:    *)
(* the interrupt then waits until the count has gone round.  All times are *)
(* in ticks of the timer, which the program reads modulo Wrap.             *)
(***************************************************************************)
EXTENDS Integers, FiniteSets

CONSTANTS
  Objects,            \* the servo objects, in the order they are constructed
  Timers,             \* the 16-bit timers, 0 .. _Nbr_16timers - 1
  SERVOS_PER_TIMER,
  Widths,             \* the pulse widths, in ticks
  REFRESH_INTERVAL,   \* in ticks
  Margin,             \* the few ticks within which a match may be missed (4)
  Wrap,               \* values of TCNTn (2^16)
  MaxLate             \* the interrupt's greatest lateness

\* The channels of a timer fit one turn of its count, and a pulse a refresh interval.
ASSUME ServoAssumption ==
  /\ IsFiniteSet(Timers) /\ Timers = 0..(Cardinality(Timers) - 1)
  /\ Objects \subseteq Nat /\ SERVOS_PER_TIMER \in Nat \ {0}
  /\ Widths \subseteq Nat \ {0} /\ Widths # {}
  /\ Wrap \in Nat /\ REFRESH_INTERVAL \in 1..(Wrap - 1)
  /\ Margin \in 0..REFRESH_INTERVAL /\ MaxLate \in 0..(Margin - 1)
  /\ \A w \in Widths : /\ w >= Margin
                       /\ SERVOS_PER_TIMER * (w + MaxLate) + Margin < Wrap
                       /\ w + MaxLate <= REFRESH_INTERVAL

MAX_SERVOS == Cardinality(Timers) * SERVOS_PER_TIMER
INVALID_SERVO == 255
Default == CHOOSE w \in Widths : TRUE
MaxWidth == CHOOSE w \in Widths : \A v \in Widths : v <= w
MinWidth == CHOOSE w \in Widths : \A v \in Widths : w <= v

VARIABLES
  servoIndex,  \* each object's channel; NotMade before its construction
  ServoCount,
  isActive,    \* the channels that are attached
  ticks,       \* each channel's pulse width, 0 before there is one
  Channel,     \* each timer's channel, or -1 for the refresh interval
  TCNT, OCR,   \* each timer's count, when last looked at, and compare register
  running,     \* the timers whose interrupt is enabled
  high,        \* the channels whose pin is high
  pc, object,  \* what the program does, and to which object
  since,       \* ticks since each channel was last raised (history)
  width,       \* the width its pulse was to have (history)
  early,       \* channels raised again too soon (history)
  stuck        \* channels detached during their pulse (history)

timers == <<Channel, TCNT, OCR, running, high, since, width, early>>
vars == <<servoIndex, ServoCount, isActive, ticks, timers, pc, object, stuck>>

Channels == 0..(MAX_SERVOS - 1)
NotMade == -1
SERVO_INDEX(t, c) == t * SERVOS_PER_TIMER + c
TimerOf(i) == i \div SERVOS_PER_TIMER
ChannelsOf(t) == {i \in Channels : TimerOf(i) = t}

Init ==
  /\ servoIndex = [o \in Objects |-> NotMade] /\ ServoCount = 0
  /\ isActive = {} /\ ticks = [i \in Channels |-> 0]
  /\ Channel = [t \in Timers |-> 0]
  /\ TCNT = [t \in Timers |-> 0] /\ OCR = [t \in Timers |-> 0]
  /\ running = {} /\ high = {}
  /\ pc = "sketch" /\ object = 0
  /\ since = [i \in Channels |-> REFRESH_INTERVAL] /\ width = [i \in Channels |-> 0]
  /\ early = {} /\ stuck = {}

-----------------------------------------------------------------------------
(* The interrupt *)

\* When all channels are done: the end of the refresh interval, or at once.
Gap(now) == IF now + Margin < REFRESH_INTERVAL THEN REFRESH_INTERVAL ELSE now + Margin

\* Time since a pulse began, as far as the refresh interval.
After(i, d) == IF since[i] + d > REFRESH_INTERVAL THEN REFRESH_INTERVAL ELSE since[i] + d
Aged(t, d) == [i \in Channels |-> IF TimerOf(i) = t THEN After(i, d) ELSE since[i]]

\* What the other pulses of its timer may take off the time between two of a channel.
Spread == MaxWidth - MinWidth + MaxLate
Jitter(i) == (i % SERVOS_PER_TIMER) * Spread

\* Mistaken: `> 0' for `>= 0', the first channel is never lowered.
LoweredLater(t) ==
  {i \in isActive : Channel[t] > 0 /\ i = SERVO_INDEX(t, Channel[t]) /\ i < ServoCount}
\* The channel whose pulse ends.
Lowered(t) ==
  {i \in isActive : Channel[t] >= 0 /\ i = SERVO_INDEX(t, Channel[t]) /\ i < ServoCount}

\* Whether another channel is to be pulsed before the refresh interval is waited for.
More(t) ==
  LET c == Channel[t] + 1 IN SERVO_INDEX(t, c) < ServoCount /\ c < SERVOS_PER_TIMER

\* Mistaken: the counter starts again at the first channel, and is then incremented.
NextChannelFirst(t) == IF More(t) THEN Channel[t] + 1 ELSE 0
NextChannel(t) == IF More(t) THEN Channel[t] + 1 ELSE -1

\* handle_interrupts(), d ticks after the last look at the timer: the count starts
\* again after a refresh interval; the pulse of the channel ends; the next
\* channel's begins, or the interval is waited for.
Handle(t, d) ==
  LET now == IF Channel[t] < 0 THEN 0 ELSE (TCNT[t] + d) % Wrap
      new == SERVO_INDEX(t, Channel[t] + 1)
      raised == {i \in isActive : More(t) /\ i = new}
  IN  /\ TCNT' = [TCNT EXCEPT ![t] = now]
      /\ Channel' = [Channel EXCEPT ![t] = NextChannel(t)]
      /\ OCR' = [OCR EXCEPT ![t] = (IF More(t) THEN now + ticks[new] ELSE Gap(now)) % Wrap]
      /\ high' = (high \ Lowered(t)) \cup raised
      /\ since' = [i \in Channels |-> IF i \in raised THEN 0 ELSE Aged(t, d)[i]]
      /\ early' = early \cup {i \in raised : After(i, d) < REFRESH_INTERVAL - Jitter(i)}
      /\ stuck' = stuck \ (Lowered(t) \cup raised)
      /\ width' = [i \in Channels |-> IF i \in raised THEN ticks[i] ELSE width[i]]

\* Ticks until a timer reaches its compare register, or has gone round to it.
Left(t) == (OCR[t] - TCNT[t]) % Wrap
Matches(t) == {Left(t)} \cup (IF Left(t) < Margin THEN {Left(t) + Wrap} ELSE {})

Interrupt(t) ==
  /\ t \in running
  /\ \E left \in Matches(t), late \in 0..MaxLate : Handle(t, left + late)
  /\ UNCHANGED <<servoIndex, ServoCount, isActive, ticks, running, pc, object>>

-----------------------------------------------------------------------------
(* The program *)

Room == ServoCount < MAX_SERVOS

\* Servo(): the channel is counted, then gets its width.
Construct(o) ==
  /\ pc = "sketch" /\ servoIndex[o] = NotMade
  /\ \A p \in Objects : p < o => servoIndex[p] # NotMade
  /\ IF Room
     THEN /\ servoIndex' = [servoIndex EXCEPT ![o] = ServoCount]
          /\ ServoCount' = ServoCount + 1
          /\ pc' = "ticks" /\ object' = o
     ELSE /\ servoIndex' = [servoIndex EXCEPT ![o] = INVALID_SERVO]
          /\ UNCHANGED <<ServoCount, pc, object>>
  /\ UNCHANGED <<isActive, ticks, timers, stuck>>

StoreDefault ==
  /\ pc = "ticks" /\ pc' = "sketch"
  /\ ticks' = [ticks EXCEPT ![servoIndex[object]] = Default]
  /\ UNCHANGED <<servoIndex, ServoCount, isActive, timers, object, stuck>>

\* attach(): the pin becomes an output, and its timer is started if no servo is
\* active on it, before the servo becomes active.
CallAttach(o) ==
  /\ pc = "sketch" /\ servoIndex[o] \in Channels
  /\ pc' = "isTimerActive" /\ object' = o
  /\ UNCHANGED <<servoIndex, ServoCount, isActive, ticks, timers, stuck>>

\* Mistaken: the timer's first servo only.
isTimerActiveFirst(t) == SERVO_INDEX(t, 0) \in isActive
isTimerActive(t) == isActive \cap ChannelsOf(t) # {}

\* initISR(): the count from zero and the interrupt enabled, at some moment before
\* the next match.
StartTimer ==
  /\ pc = "isTimerActive" /\ pc' = "isActive"
  /\ LET t == TimerOf(servoIndex[object])
     IN  IF ~ isTimerActive(t)
         THEN /\ TCNT' = [TCNT EXCEPT ![t] = 0] /\ running' = running \cup {t}
              /\ \E left \in Matches(t) : \E d \in 0..left : since' = Aged(t, d)
         ELSE UNCHANGED <<TCNT, running, since>>
  /\ UNCHANGED <<servoIndex, ServoCount, isActive, ticks, Channel, OCR, high, width,
                 early, object, stuck>>

Activate ==
  /\ pc = "isActive" /\ pc' = "sketch"
  /\ isActive' = isActive \cup {servoIndex[object]}
  /\ UNCHANGED <<servoIndex, ServoCount, ticks, timers, object, stuck>>

\* detach(): the timer of a board is never stopped, finISR() does nothing.  The
\* objects detached have a channel: the code does not look, and clears a bit behind
\* the array of servos for one that has none.
Detach(o) ==
  /\ pc = "sketch" /\ servoIndex[o] \in Channels
  /\ isActive' = isActive \ {servoIndex[o]}
  /\ stuck' = IF servoIndex[o] \in high THEN stuck \cup {servoIndex[o]} ELSE stuck
  /\ UNCHANGED <<servoIndex, ServoCount, ticks, timers, pc, object>>

\* writeMicroseconds(), its value already within the limits; one step, by cli().
Write(o, w) ==
  /\ pc = "sketch" /\ servoIndex[o] \in Channels
  /\ ticks' = [ticks EXCEPT ![servoIndex[o]] = w]
  /\ UNCHANGED <<servoIndex, ServoCount, isActive, timers, pc, object, stuck>>

Next ==
  \/ \E t \in Timers : Interrupt(t)
  \/ \E o \in Objects : Construct(o) \/ CallAttach(o) \/ Detach(o) \/ \E w \in Widths : Write(o, w)
  \/ StoreDefault \/ StartTimer \/ Activate

\* A running timer reaches its compare register.
Spec == Init /\ [][Next]_vars /\ \A t \in Timers : WF_vars(Interrupt(t))

-----------------------------------------------------------------------------
(* Properties *)

ServoTypeOK ==
  /\ servoIndex \in [Objects -> Channels \cup {NotMade, INVALID_SERVO}]
  /\ ServoCount \in 0..MAX_SERVOS /\ isActive \subseteq Channels /\ high \subseteq Channels
  /\ Channel \in [Timers -> -1..(SERVOS_PER_TIMER - 1)]
  /\ TCNT \in [Timers -> 0..(Wrap - 1)] /\ OCR \in [Timers -> 0..(Wrap - 1)]

\* A timer pulses one channel at a time, whatever the program attaches, detaches or
\* writes between its interrupts (Servo.cpp 57-80).
OnePulseAtATime ==
  \A t \in Timers : Cardinality((high \ stuck) \cap ChannelsOf(t)) <= 1

\* A pulse has the width its servo had when it began, up to the lateness of one
\* interrupt: a width written during it, a servo attached to the same timer, and
\* the count's restart do not disturb it (Servo.cpp 68, 253-255: the timer is
\* started only while no servo of it is active).
PulseAccurate ==
  [][\A i \in (high \ high') \ stuck : since'[i] \in width[i]..(width[i] + MaxLate)]_vars

\* No servo is pulsed again before the refresh interval has passed, but for the
\* changes of the pulses before its own (Servo.cpp 74-78).
NotTooOften == early = {}

\* A servo that stays attached is pulsed again and again (Servo.cpp 66-80).
AttachedArePulsed ==
  \A i \in Channels : <>[](i \in isActive) => []<><<i \in high' \ high>>_vars

\* The end of the refresh interval is not missed, however late the last channel is done
\* and whenever the count is restarted (Servo.cpp:74, "allow a few ticks to ensure the
\* next OCR1A not missed").
RefreshNotMissed == \A t \in Timers : Channel[t] < 0 => Left(t) >= Margin

\* The type invariant, pulses that keep apart, those of a timer and those of a servo,
\* and a refresh interval that ends (Servo.cpp 55-80).
ServoInv == ServoTypeOK /\ OnePulseAtATime /\ NotTooOften /\ RefreshNotMissed

=============================================================================
