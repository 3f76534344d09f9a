---------------------------- MODULE Servo_proofs ----------------------------
(***************************************************************************)
(* Theorems about Servo: for every number of servos and timers, all pulse  *)
(* widths and every lateness of the interrupt, the pulses of a timer do    *)
(* not overlap, have their width and do not come too soon.  And about      *)
(* ServoAngles: whatever is written, the pulse keeps to the limits and the *)
(* angle is read back.                                                     *)
(***************************************************************************)
EXTENDS Servo, ServoAngles, TLAPS, FiniteSetTheorems, WellFoundedInduction

\* A channel's turn among those of its timer, and the counts between which it
\* may be raised.
Turn(i) == i % SERVOS_PER_TIMER
Latest(k) == k * (MaxWidth + MaxLate)
Earliest(k) == k * MinWidth

\* The types of what only the histories and the program need.
Histories ==
  /\ since \in [Channels -> 0..REFRESH_INTERVAL] /\ width \in [Channels -> Nat]
  /\ ticks \in [Channels -> Widths \cup {0}]
  /\ pc # "sketch" => object \in Objects /\ servoIndex[object] \in Channels

\* A channel is counted before it has a width: the last one, which no servo is attached
\* to yet.  Those behind it have never been raised.
Constructed ==
  /\ \A o \in Objects : servoIndex[o] \in Channels => servoIndex[o] < ServoCount
  /\ \A i \in isActive : i < ServoCount
  /\ \A i \in Channels :
        i < ServoCount /\ ticks[i] = 0 =>
          pc = "ticks" /\ i = servoIndex[object] /\ i + 1 = ServoCount /\ i \notin isActive
  /\ \A i \in Channels : i >= ServoCount => since[i] = REFRESH_INTERVAL

\* The channel whose pin is high is the one its timer is at; the timer has not been
\* looked at since, and is set to the width of the pulse.
PulseUnderWay ==
  \A i \in high \ stuck :
    LET t == TimerOf(i)
    IN  /\ i \in isActive /\ i < ServoCount
        /\ Channel[t] >= 0 /\ i = SERVO_INDEX(t, Channel[t])
        /\ since[i] = 0 /\ width[i] \in Widths /\ OCR[t] = TCNT[t] + width[i]

\* A timer is looked at before its compare register, which is early enough for the
\* channel it is at, and late enough when the refresh interval is waited for.
Counts ==
  \A t \in Timers :
    /\ TCNT[t] <= OCR[t]
    /\ IF Channel[t] >= 0 THEN OCR[t] <= Latest(Channel[t]) + MaxWidth
                          ELSE OCR[t] >= REFRESH_INTERVAL /\ OCR[t] >= TCNT[t] + Margin

\* How long ago a channel was raised: in the round before this one when its turn is
\* still to come.
Waited(i, c, count, match) ==
  \/ since[i] = REFRESH_INTERVAL
  \/ IF Turn(i) > c /\ c >= 0
     THEN since[i] >= REFRESH_INTERVAL + count - Latest(Turn(i)) /\ match >= Earliest(c + 1)
     ELSE since[i] >= count - Latest(Turn(i))
Turns ==
  \A i \in Channels :
    Waited(i, Channel[TimerOf(i)], TCNT[TimerOf(i)], OCR[TimerOf(i)])

\* The inductive invariant.
IInv == ServoTypeOK /\ Histories /\ Constructed /\ PulseUnderWay /\ Counts /\ Turns /\ NotTooOften

-----------------------------------------------------------------------------
(* Widths, turns and channels *)

\* There is a least and a greatest pulse width.
LEMMA WidthBounds ==
  /\ MaxWidth \in Widths /\ MinWidth \in Widths
  /\ \A w \in Widths : w \in Nat /\ 0 < MinWidth /\ MinWidth <= w /\ w <= MaxWidth /\ Margin <= w
<1>1. Widths \subseteq Nat \ {0} /\ Widths # {} /\ Wrap \in Nat
  BY ServoAssumption
<1>2. \A w \in Widths : w < Wrap
  <2>1. SUFFICES ASSUME NEW w \in Widths PROVE w < Wrap
    OBVIOUS
  <2>2. w \in Nat /\ SERVOS_PER_TIMER \in Nat \ {0} /\ MaxLate \in Nat /\ Margin \in Nat
        /\ SERVOS_PER_TIMER * (w + MaxLate) + Margin < Wrap
    BY <2>1, ServoAssumption
  <2>3. \A s \in Nat \ {0}, x \in Nat : s * x >= x
    OBVIOUS
  <2>4. SERVOS_PER_TIMER * (w + MaxLate) >= w + MaxLate
    BY <2>2, <2>3
  <2>5. SERVOS_PER_TIMER * (w + MaxLate) \in Nat
    BY <2>2
  <2> QED
    BY <1>1, <2>2, <2>4, <2>5
<1>3. \E w \in Widths : \A v \in Widths : w <= v
  <2>1. Widths \subseteq Nat
    BY <1>1
  <2>2. PICK w \in Widths : \A v \in Widths : ~ (<<v, w>> \in OpToRel(<, Nat))
    BY <1>1, <2>1, NatLessThanWellFounded, WFMin
  <2>3. \A v \in Widths : ~ (v < w)
    BY <2>1, <2>2, Zenon DEF OpToRel
  <2> QED
    BY <2>1, <2>3
<1>4. \E w \in Widths : \A v \in Widths : v <= w
  <2> DEFINE above == {m \in Nat : \A v \in Widths : v <= m}
  <2>1. Wrap \in above
    BY <1>1, <1>2
  <2>2. PICK m \in above : \A l \in above : ~ (<<l, m>> \in OpToRel(<, Nat))
    BY <2>1, NatLessThanWellFounded, WFMin
  <2>3. \A l \in above : ~ (l < m)
    BY <2>2, Zenon DEF OpToRel
  <2>4. m \in Widths
    <3>1. SUFFICES ASSUME m \notin Widths PROVE FALSE
      OBVIOUS
    <3>2. PICK v \in Widths : TRUE
      BY <1>1
    <3>3. m > 0 /\ \A u \in Widths : u <= m - 1
      BY <1>1, <3>1, <3>2
    <3>4. m - 1 \in above
      BY <3>3
    <3> QED
      BY <2>3, <3>4
  <2> QED
    BY <2>4
<1>5. MaxWidth \in Widths /\ \A v \in Widths : v <= MaxWidth
  BY <1>4 DEF MaxWidth
<1>6. MinWidth \in Widths /\ \A v \in Widths : MinWidth <= v
  BY <1>3 DEF MinWidth
<1>7. \A w \in Widths : Margin <= w
  BY ServoAssumption
<1> QED
  BY <1>1, <1>5, <1>6, <1>7

\* The constants as numbers.
LEMMA Numbers ==
  /\ SERVOS_PER_TIMER \in Nat \ {0} /\ Wrap \in Nat \ {0} /\ Margin \in Nat \ {0} /\ MaxLate \in Nat
  /\ REFRESH_INTERVAL \in Nat \ {0} /\ REFRESH_INTERVAL < Wrap /\ MaxLate < Margin
  /\ Margin <= REFRESH_INTERVAL
  /\ MaxWidth \in Nat \ {0} /\ MinWidth \in Nat \ {0} /\ MaxWidth + MaxLate <= REFRESH_INTERVAL
BY ServoAssumption, WidthBounds

\* The counts of successive turns; those of a round fit the timer.
LEMMA Sums ==
  /\ Latest(0) = 0 /\ Earliest(0) = 0
  /\ \A k \in Nat : /\ Latest(k) \in Nat /\ Latest(k + 1) = Latest(k) + MaxWidth + MaxLate
                    /\ Earliest(k) \in Nat /\ Earliest(k + 1) = Earliest(k) + MinWidth
  /\ \A k \in 0..SERVOS_PER_TIMER : Latest(k) + Margin < Wrap
<1>1. \A x \in Nat, k \in Nat : 0 * x = 0 /\ k * x \in Nat /\ (k + 1) * x = k * x + x
  OBVIOUS
<1>2. MaxWidth + MaxLate \in Nat /\ MinWidth \in Nat /\ SERVOS_PER_TIMER \in Nat
  BY Numbers
<1>3. SERVOS_PER_TIMER * (MaxWidth + MaxLate) + Margin < Wrap
  BY WidthBounds, ServoAssumption
<1>4. \A x \in Nat, s \in Nat : \A k \in 0..s : k * x <= s * x
  OBVIOUS
<1>5. \A k \in 0..SERVOS_PER_TIMER : Latest(k) + Margin < Wrap
  <2>1. SUFFICES ASSUME NEW k \in 0..SERVOS_PER_TIMER PROVE Latest(k) + Margin < Wrap
    OBVIOUS
  <2> DEFINE x == MaxWidth + MaxLate
  <2>2. k * x <= SERVOS_PER_TIMER * x
    BY <1>2, <1>4, <2>1
  <2>3. k * x \in Nat /\ SERVOS_PER_TIMER * x \in Nat
    BY <1>1, <1>2, <2>1
  <2> HIDE DEF x
  <2>4. SERVOS_PER_TIMER * x + Margin < Wrap
    BY <1>3 DEF x
  <2> QED
    BY <2>2, <2>3, <2>4, Numbers DEF Latest, x
<1>6. \A k \in Nat : (k + 1) * (MaxWidth + MaxLate) = k * (MaxWidth + MaxLate) + (MaxWidth + MaxLate)
  BY <1>1, <1>2
<1>7. \A k \in Nat : Latest(k + 1) = Latest(k) + MaxWidth + MaxLate
  <2>1. SUFFICES ASSUME NEW k \in Nat PROVE Latest(k + 1) = Latest(k) + MaxWidth + MaxLate
    OBVIOUS
  <2>2. k * (MaxWidth + MaxLate) \in Nat
    BY <1>1, <1>2
  <2> QED
    BY <1>6, <2>2, Numbers DEF Latest
<1> QED
  BY <1>1, <1>2, <1>5, <1>7 DEF Latest, Earliest

\* A turn's earliest count is not after its latest.
LEMMA EarliestFirst == \A k \in Nat : Earliest(k) <= Latest(k)
<1>1. \A k \in Nat, a \in Nat, b \in Nat : a <= b => k * a <= k * b
  OBVIOUS
<1> QED
  BY <1>1, Numbers, WidthBounds DEF Earliest, Latest

\* The jitter allowed to a channel is what its turn may vary by.
LEMMA JitterIs ==
  \A i \in Channels : Turn(i) \in Nat => Jitter(i) = Latest(Turn(i)) - Earliest(Turn(i))
<1>1. \A k \in Nat, a \in Nat, b \in Nat, c \in Nat : k * (a - b + c) = k * (a + c) - k * b
  OBVIOUS
<1> QED
  BY <1>1, Numbers DEF Jitter, Spread, Turn, Latest, Earliest

\* Division.
LEMMA Division ==
  ASSUME NEW s \in Nat \ {0}
  PROVE  /\ \A i \in Nat : /\ i \div s \in Nat /\ i % s \in 0..(s - 1)
                           /\ i = (i \div s) * s + (i % s)
         /\ \A t \in Nat, c \in 0..(s - 1) : (t * s + c) \div s = t /\ (t * s + c) % s = c
<1>1. \A i \in Nat : /\ i \div s \in Nat /\ i % s \in 0..(s - 1) /\ i = (i \div s) * s + (i % s)
  OBVIOUS
<1>2. ASSUME NEW t \in Nat, NEW c \in 0..(s - 1)
      PROVE  (t * s + c) \div s = t /\ (t * s + c) % s = c
  OBVIOUS
<1> QED
  BY <1>1, <1>2

\* The channels of a timer, counted by their turns.
LEMMA ChannelsAre ==
  /\ MAX_SERVOS \in Nat
  /\ \A i \in Channels : /\ i \in Nat /\ TimerOf(i) \in Timers /\ Turn(i) \in 0..(SERVOS_PER_TIMER - 1)
                         /\ i = SERVO_INDEX(TimerOf(i), Turn(i))
  /\ \A t \in Timers, c \in 0..(SERVOS_PER_TIMER - 1) :
        /\ SERVO_INDEX(t, c) \in Channels
        /\ TimerOf(SERVO_INDEX(t, c)) = t /\ Turn(SERVO_INDEX(t, c)) = c
<1> DEFINE n == Cardinality(Timers)
           s == SERVOS_PER_TIMER
<1>1. n \in Nat /\ Timers = 0..(n - 1) /\ s \in Nat \ {0}
  BY ServoAssumption, FS_CardinalityType
<1> HIDE DEF n, s
<1>2. /\ \A i \in Nat : /\ i \div s \in Nat /\ i % s \in 0..(s - 1)
                        /\ i = (i \div s) * s + (i % s)
      /\ \A t \in Nat, c \in 0..(s - 1) : (t * s + c) \div s = t /\ (t * s + c) % s = c
  BY <1>1, Division
<1>3. \A t \in 0..(n - 1), c \in 0..(s - 1) : t * s + c \in 0..(n * s - 1)
  <2>1. SUFFICES ASSUME NEW t \in 0..(n - 1), NEW c \in 0..(s - 1)
                 PROVE t * s + c \in 0..(n * s - 1)
    OBVIOUS
  <2>2. (t + 1) * s <= n * s
    BY <1>1
  <2>3. (t + 1) * s = t * s + s /\ t * s \in Nat /\ n * s \in Nat
    BY <1>1
  <2> QED
    BY <1>1, <2>2, <2>3
<1>4. \A i \in 0..(n * s - 1) : i \div s \in 0..(n - 1)
  <2>1. SUFFICES ASSUME NEW i \in 0..(n * s - 1) PROVE i \div s \in 0..(n - 1)
    OBVIOUS
  <2> DEFINE q == i \div s
  <2>2. n * s \in Nat /\ i \in Nat
    BY <1>1
  <2>3. q \in Nat /\ q * s <= i
    <3> DEFINE r == i % s
    <3>1. q \in Nat /\ r \in 0..(s - 1) /\ i = q * s + r
      BY <1>2, <2>2, Zenon
    <3> HIDE DEF q, r
    <3>2. q * s \in Nat /\ r \in Nat
      BY <1>1, <3>1
    <3> QED
      BY <2>2, <3>1, <3>2
  <2> HIDE DEF q
  <2>4. q < n
    <3>1. SUFFICES ASSUME q >= n PROVE FALSE
      BY <1>1, <2>3
    <3>2. q * s >= n * s
      BY <1>1, <2>3, <3>1
    <3>3. q * s \in Nat
      BY <1>1, <2>3
    <3> QED
      BY <2>2, <2>3, <3>2, <3>3
  <2> QED
    BY <1>1, <2>3, <2>4 DEF q
<1>5. Channels = 0..(n * s - 1) /\ MAX_SERVOS = n * s
  BY DEF Channels, MAX_SERVOS, n, s
<1>6. \A i \in Channels : /\ i \in Nat /\ TimerOf(i) \in Timers /\ Turn(i) \in 0..(s - 1)
                          /\ i = SERVO_INDEX(TimerOf(i), Turn(i))
  <2>1. ASSUME NEW i \in 0..(n * s - 1)
        PROVE  /\ i \in Nat /\ i \div s \in 0..(n - 1) /\ i % s \in 0..(s - 1)
               /\ i = (i \div s) * s + (i % s)
    <3>1. n * s \in Nat
      BY <1>1
    <3>2. i \in Nat
      BY <2>1, <3>1
    <3> QED
      BY <1>4, <1>2, <2>1, <3>2, Zenon
  <2> QED
    BY <1>1, <1>5, <2>1, Zenon DEF TimerOf, Turn, SERVO_INDEX, s
<1>7. \A t \in Timers, c \in 0..(s - 1) :
        /\ SERVO_INDEX(t, c) \in Channels
        /\ TimerOf(SERVO_INDEX(t, c)) = t /\ Turn(SERVO_INDEX(t, c)) = c
  <2>1. SUFFICES ASSUME NEW t \in 0..(n - 1), NEW c \in 0..(s - 1)
                 PROVE  /\ t * s + c \in 0..(n * s - 1)
                        /\ (t * s + c) \div s = t /\ (t * s + c) % s = c
    BY <1>1, <1>5 DEF TimerOf, Turn, SERVO_INDEX, s
  <2>2. t \in Nat
    BY <1>1
  <2> QED
    BY <1>3, <1>2, <2>2
<1>8. n * s \in Nat
  BY <1>1
<1> QED
  BY <1>5, <1>6, <1>7, <1>8 DEF s

\* Timers are numbers.
LEMMA TimersAre == Timers \subseteq Nat
<1> DEFINE n == Cardinality(Timers)
<1>1. n \in Nat /\ Timers = 0..(n - 1)
  BY ServoAssumption, FS_CardinalityType
<1> HIDE DEF n
<1> QED
  BY <1>1

-----------------------------------------------------------------------------
(* The interrupt *)

New(t) == SERVO_INDEX(t, Channel[t] + 1)
Raised(t) == {i \in isActive : More(t) /\ i = New(t)}

\* What an interrupt of timer t does that finds the count now, d ticks after the last
\* look: no count wraps, so a timer is looked at late ticks after its compare register,
\* and a turn later still if that was too close.
Handled(t, late, d, now) ==
  /\ d \in Nat /\ d >= OCR[t] - TCNT[t] + late
  /\ OCR[t] - TCNT[t] >= Margin => d = OCR[t] - TCNT[t] + late
  /\ now = (IF Channel[t] < 0 THEN 0 ELSE OCR[t] + late)
  /\ now \in 0..(Wrap - 1) /\ now <= Latest(Channel[t] + 1)
  /\ TCNT' = [TCNT EXCEPT ![t] = now]
  /\ \/ /\ Channel[t] + 1 < SERVOS_PER_TIMER
        /\ New(t) \in Channels /\ New(t) < ServoCount
        /\ Channel' = [Channel EXCEPT ![t] = Channel[t] + 1]
        /\ OCR' = [OCR EXCEPT ![t] = now + ticks[New(t)]] /\ now + ticks[New(t)] < Wrap
     \/ /\ Raised(t) = {}
        /\ Channel' = [Channel EXCEPT ![t] = -1]
        /\ \E gap \in 0..(Wrap - 1) : /\ gap >= REFRESH_INTERVAL /\ gap >= now + Margin
                                      /\ OCR' = [OCR EXCEPT ![t] = gap]
  /\ high' = (high \ Lowered(t)) \cup Raised(t)
  /\ since' = [i \in Channels |-> IF i \in Raised(t) THEN 0 ELSE Aged(t, d)[i]]
  /\ early' = early \cup {i \in Raised(t) : After(i, d) < REFRESH_INTERVAL - Jitter(i)}
  /\ stuck' = stuck \ (Lowered(t) \cup Raised(t))
  /\ width' = [i \in Channels |-> IF i \in Raised(t) THEN ticks[i] ELSE width[i]]
  /\ UNCHANGED <<servoIndex, ServoCount, isActive, ticks, running, pc, object>>

\* The ticks of a channel are those of a pulse, or none yet.
LEMMA TicksAre ==
  ASSUME IInv, NEW i \in Channels
  PROVE  /\ ticks[i] \in Widths \cup {0} /\ ticks[i] \in Nat /\ ticks[i] <= MaxWidth
         /\ i \in isActive => ticks[i] \in Widths
<1>1. ticks[i] \in Widths \cup {0}
  BY DEF IInv, Histories
<1>2. i \in isActive => ticks[i] # 0
  BY DEF IInv, Constructed
<1>3. CASE ticks[i] = 0
  BY <1>1, <1>2, <1>3, Numbers
<1>4. CASE ticks[i] \in Widths
  BY <1>1, <1>4, WidthBounds
<1> QED
  BY <1>1, <1>3, <1>4

\* A number below the modulus is its own remainder.
LEMMA Remainder ==
  ASSUME NEW w \in Nat \ {0} PROVE \A x \in 0..(w - 1) : x % w = x /\ (x + w) % w = x
OBVIOUS

\* The types that the steps of a proof keep needing.
LEMMA TimerTypes ==
  ASSUME IInv, NEW t \in Timers
  PROVE  /\ Channel[t] \in -1..(SERVOS_PER_TIMER - 1)
         /\ TCNT[t] \in 0..(Wrap - 1) /\ OCR[t] \in 0..(Wrap - 1) /\ TCNT[t] <= OCR[t]
BY DEF IInv, ServoTypeOK, Counts

\* The compare register is ahead of the count.
LEMMA LeftIs == ASSUME IInv, NEW t \in Timers PROVE Left(t) = OCR[t] - TCNT[t]
<1>1. OCR[t] - TCNT[t] \in 0..(Wrap - 1)
  BY TimerTypes, Numbers
<1> QED
  BY <1>1, Remainder, Numbers DEF Left

\* Every interrupt is of that kind.
LEMMA InterruptIsHandled ==
  ASSUME IInv, NEW t \in Timers, Interrupt(t)
  PROVE  \E late \in 0..MaxLate : \E d, now : Handled(t, late, d, now)
<1>1. PICK left \in Matches(t), late \in 0..MaxLate : Handle(t, left + late)
  BY DEF Interrupt
<1> DEFINE c == Channel[t]
           d == left + late
           now == IF c < 0 THEN 0 ELSE (TCNT[t] + d) % Wrap
           next == IF More(t) THEN now + ticks[New(t)] ELSE Gap(now)
<1>2. /\ c \in -1..(SERVOS_PER_TIMER - 1)
      /\ TCNT[t] \in 0..(Wrap - 1) /\ OCR[t] \in 0..(Wrap - 1) /\ TCNT[t] <= OCR[t]
  BY TimerTypes
<1>3. /\ d \in Nat /\ d >= OCR[t] - TCNT[t] + late
      /\ OCR[t] - TCNT[t] >= Margin => d = OCR[t] - TCNT[t] + late
      /\ d = OCR[t] - TCNT[t] + late \/ d = OCR[t] - TCNT[t] + late + Wrap
  <2>1. OCR[t] - TCNT[t] \in 0..(Wrap - 1)
    BY <1>2, Numbers
  <2>2. Left(t) = OCR[t] - TCNT[t]
    BY LeftIs
  <2>3. left = Left(t) \/ (Left(t) < Margin /\ left = Left(t) + Wrap)
    BY DEF Matches
  <2> QED
    BY <2>1, <2>2, <2>3, Numbers
<1>4. c + 1 \in 0..SERVOS_PER_TIMER
  BY <1>2, Numbers
<1>5. Latest(c + 1) + Margin < Wrap /\ Latest(c + 1) \in Nat
  BY <1>4, Sums, Numbers
<1>6. /\ now = (IF c < 0 THEN 0 ELSE OCR[t] + late)
      /\ now \in 0..(Wrap - 1) /\ now <= Latest(c + 1)
  <2>1. CASE c < 0
    BY <1>5, <2>1, Numbers
  <2>2. CASE ~ (c < 0)
    <3>1. c \in Nat
      BY <1>2, <2>2
    <3>2. OCR[t] <= Latest(c) + MaxWidth
      BY <3>1 DEF IInv, Counts
    <3>3. Latest(c) \in Nat /\ Latest(c + 1) = Latest(c) + MaxWidth + MaxLate
      BY <3>1, Sums
    <3>4. late <= MaxLate /\ late \in Nat
      BY Numbers
    <3>5. OCR[t] + late <= Latest(c + 1)
      BY <1>2, <3>2, <3>3, <3>4, Numbers
    <3>6. OCR[t] + late \in 0..(Wrap - 1)
      BY <1>2, <1>5, <3>4, <3>5, Numbers
    <3>7. TCNT[t] + d = OCR[t] + late \/ TCNT[t] + d = (OCR[t] + late) + Wrap
      BY <1>2, <1>3, <3>4, Numbers
    <3> DEFINE x == OCR[t] + late
    <3>8. x % Wrap = x /\ (x + Wrap) % Wrap = x
      <4> HIDE DEF x
      <4> QED
        BY <3>6, Remainder, Numbers DEF x
    <3>9. (TCNT[t] + d) % Wrap = x
      <4> HIDE DEF d
      <4> QED
        BY <3>7, <3>8
    <3> QED
      BY <2>2, <3>5, <3>6, <3>9
  <2> QED
    BY <2>1, <2>2
<1>7. /\ TCNT' = [TCNT EXCEPT ![t] = now]
      /\ Channel' = [Channel EXCEPT ![t] = NextChannel(t)]
      /\ OCR' = [OCR EXCEPT ![t] = next % Wrap]
      /\ high' = (high \ Lowered(t)) \cup Raised(t)
      /\ since' = [i \in Channels |-> IF i \in Raised(t) THEN 0 ELSE Aged(t, d)[i]]
      /\ early' = early \cup {i \in Raised(t) : After(i, d) < REFRESH_INTERVAL - Jitter(i)}
      /\ stuck' = stuck \ (Lowered(t) \cup Raised(t))
      /\ width' = [i \in Channels |-> IF i \in Raised(t) THEN ticks[i] ELSE width[i]]
  BY <1>1, Zenon DEF Handle, New, Raised
<1> HIDE DEF c, d, now, next
<1>8. UNCHANGED <<servoIndex, ServoCount, isActive, ticks, running, pc, object>>
  BY DEF Interrupt
<1>9. CASE More(t)
  <2>1. c + 1 < SERVOS_PER_TIMER /\ New(t) < ServoCount
    BY <1>9 DEF More, New, c
  <2>2. New(t) \in Channels
    BY <1>4, <2>1, ChannelsAre, Numbers DEF New, c
  <2>3. ticks[New(t)] \in Nat /\ ticks[New(t)] <= MaxWidth
    BY <2>2, TicksAre
  <2>4. now + ticks[New(t)] < Wrap
    <3>1. c + 2 \in 0..SERVOS_PER_TIMER /\ c + 1 \in Nat /\ (c + 1) + 1 = c + 2
      BY <1>2, <2>1, Numbers
    <3>2. Latest(c + 2) = Latest(c + 1) + MaxWidth + MaxLate /\ Latest(c + 2) + Margin < Wrap
      BY <3>1, Sums
    <3> QED
      BY <1>5, <1>6, <2>3, <3>2, Numbers
  <2>5. next % Wrap = now + ticks[New(t)]
    <3>1. next = now + ticks[New(t)]
      BY <1>9 DEF next
    <3>2. next \in 0..(Wrap - 1)
      BY <1>6, <2>3, <2>4, <3>1, Numbers
    <3> QED
      BY <3>1, <3>2, Remainder, Numbers
  <2>6. NextChannel(t) = c + 1
    BY <1>9 DEF NextChannel, c
  <2>7. Handled(t, late, d, now)
    BY <1>3, <1>6, <1>7, <1>8, <2>1, <2>2, <2>3, <2>4, <2>5, <2>6 DEF Handled, c
  <2> QED
    BY <2>7
<1>10. CASE ~ More(t)
  <2>1. Raised(t) = {} /\ NextChannel(t) = -1 /\ next = Gap(now)
    BY <1>10 DEF Raised, NextChannel, next
  <2>2. now + Margin < Wrap
    BY <1>5, <1>6, Numbers
  <2>3. Gap(now) \in 0..(Wrap - 1) /\ Gap(now) >= REFRESH_INTERVAL /\ Gap(now) >= now + Margin
    BY <1>6, <2>2, Numbers DEF Gap
  <2>4. next % Wrap = Gap(now)
    BY <2>1, <2>3, Remainder, Numbers
  <2>5. Handled(t, late, d, now)
    BY <1>3, <1>6, <1>7, <1>8, <2>1, <2>3, <2>4 DEF Handled, c
  <2> QED
    BY <2>5
<1> QED
  BY <1>9, <1>10

\* Time since a pulse stays within its bound.
LEMMA AfterType ==
  ASSUME IInv, NEW i \in Channels, NEW d \in Nat
  PROVE  /\ since[i] \in 0..REFRESH_INTERVAL /\ After(i, d) \in 0..REFRESH_INTERVAL
         /\ After(i, d) = REFRESH_INTERVAL \/ After(i, d) = since[i] + d
         /\ since[i] = REFRESH_INTERVAL => After(i, d) = REFRESH_INTERVAL
<1>1. since[i] \in 0..REFRESH_INTERVAL
  BY DEF IInv, Histories
<1> QED
  BY <1>1, Numbers DEF After

\* The channel that is raised.
LEMMA RaisedIs ==
  ASSUME IInv, NEW t \in Timers, NEW late \in 0..MaxLate, NEW d, NEW now, Handled(t, late, d, now),
         NEW i \in Raised(t)
  PROVE  /\ i = New(t) /\ i \in isActive /\ i \in Channels /\ i < ServoCount /\ ticks[i] \in Widths
         /\ TimerOf(i) = t /\ Turn(i) = Channel[t] + 1 /\ Turn(i) \in Nat
         /\ Channel' = [Channel EXCEPT ![t] = Channel[t] + 1]
         /\ OCR' = [OCR EXCEPT ![t] = now + ticks[i]]
<1>1. i = New(t) /\ i \in isActive /\ Raised(t) # {}
  BY DEF Raised
<1>2. /\ Channel[t] + 1 < SERVOS_PER_TIMER
      /\ New(t) \in Channels /\ New(t) < ServoCount
      /\ Channel' = [Channel EXCEPT ![t] = Channel[t] + 1]
      /\ OCR' = [OCR EXCEPT ![t] = now + ticks[New(t)]]
  BY <1>1 DEF Handled
<1>3. Channel[t] + 1 \in 0..(SERVOS_PER_TIMER - 1)
  BY <1>2, TimerTypes, Numbers
<1>4. TimerOf(New(t)) = t /\ Turn(New(t)) = Channel[t] + 1
  BY <1>3, ChannelsAre DEF New
<1>5. ticks[i] \in Widths
  BY <1>1, <1>2, TicksAre
<1> QED
  BY <1>1, <1>2, <1>3, <1>4, <1>5

\* The one that is lowered.
LEMMA LoweredIs ==
  ASSUME IInv, NEW t \in Timers, NEW i \in Lowered(t)
  PROVE  Channel[t] >= 0 /\ i = SERVO_INDEX(t, Channel[t]) /\ TimerOf(i) = t
<1>1. Channel[t] >= 0 /\ i = SERVO_INDEX(t, Channel[t])
  BY DEF Lowered
<1>2. Channel[t] \in 0..(SERVOS_PER_TIMER - 1)
  BY <1>1, TimerTypes
<1> QED
  BY <1>1, <1>2, ChannelsAre

\* The pulse that is under way on a timer is that of the channel it lowers.
LEMMA UnderWayIsLowered ==
  ASSUME IInv, NEW i \in high \ stuck, NEW t \in Timers, TimerOf(i) = t
  PROVE  i \in Lowered(t)
BY DEF IInv, PulseUnderWay, Lowered

\* Another timer's channel.
LEMMA OtherTimer ==
  ASSUME IInv, NEW t \in Timers, NEW late \in 0..MaxLate, NEW d, NEW now, Handled(t, late, d, now),
         NEW i \in Channels, TimerOf(i) # t
  PROVE  /\ Channel'[TimerOf(i)] = Channel[TimerOf(i)] /\ TCNT'[TimerOf(i)] = TCNT[TimerOf(i)]
         /\ OCR'[TimerOf(i)] = OCR[TimerOf(i)]
         /\ since'[i] = since[i] /\ width'[i] = width[i]
<1>1. i \notin Raised(t)
  BY RaisedIs
<1>2. TimerOf(i) \in Timers
  BY ChannelsAre
<1>3. /\ Channel'[TimerOf(i)] = Channel[TimerOf(i)] /\ TCNT'[TimerOf(i)] = TCNT[TimerOf(i)]
      /\ OCR'[TimerOf(i)] = OCR[TimerOf(i)]
  BY <1>2 DEF Handled, IInv, ServoTypeOK
<1>4. since'[i] = since[i] /\ width'[i] = width[i]
  BY <1>1 DEF Handled, Aged
<1> QED
  BY <1>3, <1>4

\* The types.
LEMMA TypesHandled ==
  ASSUME IInv, NEW t \in Timers, NEW late \in 0..MaxLate, NEW d, NEW now, Handled(t, late, d, now)
  PROVE  ServoTypeOK' /\ Histories' /\ Constructed'
<1>1. UNCHANGED <<servoIndex, ServoCount, isActive, ticks, running, pc, object>> /\ d \in Nat
  BY DEF Handled
<1>2. high' \subseteq Channels
  BY DEF Handled, IInv, ServoTypeOK, Raised
<1>3. Channel' \in [Timers -> -1..(SERVOS_PER_TIMER - 1)]
  <2>1. Channel[t] + 1 < SERVOS_PER_TIMER => Channel[t] + 1 \in -1..(SERVOS_PER_TIMER - 1)
    BY TimerTypes, Numbers
  <2>2. -1 \in -1..(SERVOS_PER_TIMER - 1)
    BY Numbers
  <2> QED
    BY <2>1, <2>2 DEF Handled, IInv, ServoTypeOK
<1>4. TCNT' \in [Timers -> 0..(Wrap - 1)]
  BY DEF Handled, IInv, ServoTypeOK
<1>5. OCR' \in [Timers -> 0..(Wrap - 1)]
  <2>1. \A w \in Nat : now \in 0..(Wrap - 1) /\ now + w < Wrap => now + w \in 0..(Wrap - 1)
    BY Numbers
  <2>2. \E next \in 0..(Wrap - 1) : OCR' = [OCR EXCEPT ![t] = next]
    BY <2>1, TicksAre DEF Handled
  <2> QED
    BY <2>2 DEF IInv, ServoTypeOK
<1>6. since' \in [Channels -> 0..REFRESH_INTERVAL]
  <2>1. \A i \in Channels : since[i] \in 0..REFRESH_INTERVAL /\ After(i, d) \in 0..REFRESH_INTERVAL
    BY <1>1, AfterType
  <2> QED
    BY <2>1, Numbers DEF Handled, Aged
<1>7. width' \in [Channels -> Nat]
  <2>1. \A i \in Raised(t) : ticks[i] \in Nat
    BY RaisedIs, WidthBounds
  <2> QED
    BY <2>1 DEF Handled, IInv, Histories
<1>8. Constructed'
  <2>1. ASSUME NEW i \in Channels, i >= ServoCount PROVE since'[i] = REFRESH_INTERVAL
    <3>1. since[i] = REFRESH_INTERVAL
      BY <2>1 DEF IInv, Constructed
    <3>2. i \notin Raised(t)
      <4>1. i \in Nat /\ ServoCount \in Nat
        BY ChannelsAre DEF IInv, ServoTypeOK
      <4> QED
        BY <2>1, <4>1, RaisedIs
    <3>3. After(i, d) = REFRESH_INTERVAL
      BY <1>1, <3>1, AfterType
    <3> QED
      BY <3>1, <3>2, <3>3 DEF Handled, Aged
  <2> QED
    BY <1>1, <2>1 DEF IInv, Constructed
<1>9. Histories'
  BY <1>1, <1>6, <1>7 DEF IInv, Histories
<1> QED
  BY <1>1, <1>2, <1>3, <1>4, <1>5, <1>8, <1>9 DEF IInv, ServoTypeOK

\* Pulses: the channel that was high goes low, the next one's pulse begins.
LEMMA PulseHandled ==
  ASSUME IInv, NEW t \in Timers, NEW late \in 0..MaxLate, NEW d, NEW now, Handled(t, late, d, now)
  PROVE  PulseUnderWay'
<1> SUFFICES ASSUME NEW i \in high' \ stuck'
             PROVE  LET u == TimerOf(i)
                    IN  /\ i \in isActive' /\ i < ServoCount'
                        /\ Channel'[u] >= 0 /\ i = SERVO_INDEX(u, Channel'[u])
                        /\ since'[i] = 0 /\ width'[i] \in Widths /\ OCR'[u] = TCNT'[u] + width'[i]
  BY DEF PulseUnderWay
<1>1. isActive' = isActive /\ ServoCount' = ServoCount
  BY DEF Handled
<1>2. CASE i \in Raised(t)
  <2>1. /\ i = New(t) /\ i \in isActive /\ i \in Channels /\ i < ServoCount /\ ticks[i] \in Widths
        /\ TimerOf(i) = t /\ Turn(i) = Channel[t] + 1 /\ Turn(i) \in Nat
        /\ Channel' = [Channel EXCEPT ![t] = Channel[t] + 1]
        /\ OCR' = [OCR EXCEPT ![t] = now + ticks[i]]
    BY <1>2, RaisedIs
  <2>2. since'[i] = 0 /\ width'[i] = ticks[i] /\ TCNT' = [TCNT EXCEPT ![t] = now]
    BY <1>2, <2>1 DEF Handled
  <2>3. Channel'[t] = Channel[t] + 1 /\ OCR'[t] = now + ticks[i] /\ TCNT'[t] = now
    BY <2>1, <2>2 DEF IInv, ServoTypeOK
  <2> QED
    BY <1>1, <2>1, <2>2, <2>3 DEF New
<1>3. CASE i \notin Raised(t)
  <2>1. i \in high \ stuck /\ i \notin Lowered(t)
    BY <1>3 DEF Handled
  <2>2. i \in Channels
    BY <2>1 DEF IInv, ServoTypeOK
  <2>3. TimerOf(i) # t
    BY <2>1, UnderWayIsLowered
  <2> QED
    BY <1>1, <2>1, <2>2, <2>3, OtherTimer DEF IInv, PulseUnderWay
<1> QED
  BY <1>2, <1>3

\* Counts and compare registers.
LEMMA CountsHandled ==
  ASSUME IInv, NEW t \in Timers, NEW late \in 0..MaxLate, NEW d, NEW now, Handled(t, late, d, now)
  PROVE  Counts'
<1> SUFFICES ASSUME NEW u \in Timers
             PROVE  /\ TCNT'[u] <= OCR'[u]
                    /\ IF Channel'[u] >= 0
                       THEN OCR'[u] <= Latest(Channel'[u]) + MaxWidth
                       ELSE OCR'[u] >= REFRESH_INTERVAL /\ OCR'[u] >= TCNT'[u] + Margin
  BY DEF Counts, Latest
<1>1. CASE u # t
  <2>1. TCNT'[u] = TCNT[u] /\ OCR'[u] = OCR[u] /\ Channel'[u] = Channel[u]
    BY <1>1 DEF Handled, IInv, ServoTypeOK
  <2> QED
    BY <2>1 DEF IInv, Counts
<1>2. CASE u = t
  <2>1. TCNT'[t] = now /\ now \in Nat /\ now <= Latest(Channel[t] + 1)
    BY Numbers DEF Handled, IInv, ServoTypeOK
  <2>2. CASE /\ New(t) \in Channels
             /\ Channel' = [Channel EXCEPT ![t] = Channel[t] + 1]
             /\ OCR' = [OCR EXCEPT ![t] = now + ticks[New(t)]]
    <3>1. Channel'[t] = Channel[t] + 1 /\ OCR'[t] = now + ticks[New(t)]
      BY <2>2 DEF IInv, ServoTypeOK
    <3>2. ticks[New(t)] \in Nat /\ ticks[New(t)] <= MaxWidth
      BY <2>2, TicksAre
    <3>3. Channel[t] + 1 >= 0 /\ Latest(Channel[t] + 1) \in Nat
      BY TimerTypes, Sums
    <3> QED
      BY <1>2, <2>1, <3>1, <3>2, <3>3, Numbers
  <2>3. CASE \E gap \in 0..(Wrap - 1) : /\ gap >= REFRESH_INTERVAL /\ gap >= now + Margin
                                        /\ OCR' = [OCR EXCEPT ![t] = gap]
                                        /\ Channel' = [Channel EXCEPT ![t] = -1]
    <3>1. Channel'[t] = -1 /\ OCR'[t] \in Nat /\ OCR'[t] >= REFRESH_INTERVAL
          /\ OCR'[t] >= now + Margin
      BY <2>3 DEF IInv, ServoTypeOK
    <3> QED
      BY <1>2, <2>1, <3>1, Numbers
  <2> QED
    BY <2>2, <2>3 DEF Handled
<1> QED
  BY <1>1, <1>2

\* What is known of a channel of the timer once d ticks have passed.
LEMMA AgedWaited ==
  ASSUME IInv, NEW t \in Timers, NEW late \in 0..MaxLate, NEW d, NEW now, Handled(t, late, d, now),
         NEW i \in Channels, TimerOf(i) = t
  PROVE  \/ After(i, d) = REFRESH_INTERVAL
         \/ IF Turn(i) > Channel[t]
            THEN /\ After(i, d) >= REFRESH_INTERVAL + now - Latest(Turn(i))
                 /\ now >= Earliest(Channel[t] + 1)
            ELSE After(i, d) >= now - Latest(Turn(i))
<1> DEFINE c == Channel[t]
           k == Turn(i)
<1>1. /\ c \in Int /\ c >= -1 /\ k \in Nat /\ TCNT[t] \in Nat /\ OCR[t] \in Nat
      /\ late \in Nat /\ d \in Nat /\ now \in Nat
      /\ d >= OCR[t] - TCNT[t] + late /\ now = (IF c < 0 THEN 0 ELSE OCR[t] + late)
  BY TimerTypes, ChannelsAre, Numbers DEF Handled
<1>2. Latest(k) \in Nat /\ Earliest(0) = 0
  BY <1>1, Sums
<1>3. /\ After(i, d) = REFRESH_INTERVAL \/ After(i, d) = since[i] + d
      /\ since[i] = REFRESH_INTERVAL => After(i, d) = REFRESH_INTERVAL
      /\ since[i] \in Nat
  BY <1>1, AfterType, Numbers
<1>4. Waited(i, c, TCNT[t], OCR[t])
  BY DEF IInv, Turns
<1>5. c < 0 => OCR[t] >= REFRESH_INTERVAL /\ c = -1
  BY <1>1 DEF IInv, Counts
<1>6. c >= 0 => Earliest(c + 1) \in Nat
  BY <1>1, Sums
<1> SUFFICES ASSUME After(i, d) # REFRESH_INTERVAL
             PROVE  IF k > c
                    THEN /\ After(i, d) >= REFRESH_INTERVAL + now - Latest(k)
                         /\ now >= Earliest(c + 1)
                    ELSE After(i, d) >= now - Latest(k)
  OBVIOUS
<1>7. After(i, d) = since[i] + d /\ since[i] # REFRESH_INTERVAL
  BY <1>3
<1> HIDE DEF c, k
<1>8. CASE c < 0
  <2>1. since[i] >= TCNT[t] - Latest(k)
    BY <1>1, <1>4, <1>7, <1>8 DEF Waited, k
  <2>2. c = -1 /\ now = 0 /\ k > c /\ c + 1 = 0
    BY <1>1, <1>5, <1>8
  <2>3. since[i] + d >= REFRESH_INTERVAL - Latest(k)
    BY <1>1, <1>2, <1>3, <1>5, <1>8, <2>1, Numbers
  <2> QED
    BY <1>2, <1>7, <2>2, <2>3, Numbers
<1>9. CASE c >= 0
  <2>1. now <= TCNT[t] + d /\ now >= OCR[t]
    BY <1>1, <1>9
  <2>2. CASE k > c
    <3>1. since[i] >= REFRESH_INTERVAL + TCNT[t] - Latest(k) /\ OCR[t] >= Earliest(c + 1)
      BY <1>4, <1>7, <1>9, <2>2 DEF Waited, k
    <3> QED
      BY <1>1, <1>2, <1>3, <1>6, <1>7, <1>9, <2>1, <2>2, <3>1, Numbers
  <2>3. CASE ~ (k > c)
    <3>1. since[i] >= TCNT[t] - Latest(k)
      BY <1>4, <1>7, <2>3 DEF Waited, k
    <3> QED
      BY <1>1, <1>2, <1>3, <1>7, <2>1, <2>3, <3>1
  <2> QED
    BY <2>2, <2>3
<1> QED
  BY <1>1, <1>8, <1>9

\* Turns come round.
LEMMA TurnsHandled ==
  ASSUME IInv, NEW t \in Timers, NEW late \in 0..MaxLate, NEW d, NEW now, Handled(t, late, d, now)
  PROVE  Turns'
<1> SUFFICES ASSUME NEW i \in Channels
             PROVE  Waited(i, Channel[TimerOf(i)], TCNT[TimerOf(i)], OCR[TimerOf(i)])'
  BY DEF Turns
<1>1. CASE TimerOf(i) # t
  <2>1. /\ Channel'[TimerOf(i)] = Channel[TimerOf(i)] /\ TCNT'[TimerOf(i)] = TCNT[TimerOf(i)]
        /\ OCR'[TimerOf(i)] = OCR[TimerOf(i)] /\ since'[i] = since[i]
    BY <1>1, OtherTimer
  <2>2. Waited(i, Channel[TimerOf(i)], TCNT[TimerOf(i)], OCR[TimerOf(i)])
    BY DEF IInv, Turns
  <2> QED
    BY <2>1, <2>2 DEF Waited, Latest, Earliest, Turn
<1>2. CASE TimerOf(i) = t
  <2> DEFINE c == Channel[t]
             k == Turn(i)
             s == since'[i]
             n == Channel'[t]
             match == OCR'[t]
  <2>1. /\ c \in Int /\ c >= -1 /\ k \in Nat /\ now \in Nat /\ now <= Latest(c + 1) /\ TCNT'[t] = now
    BY TimerTypes, ChannelsAre, Numbers DEF Handled, IInv, ServoTypeOK
  <2>2. Latest(k) \in Nat /\ Latest(c + 1) \in Nat /\ Earliest(c + 1) \in Nat
    BY <2>1, Sums
  <2>3. SUFFICES \/ s = REFRESH_INTERVAL
                 \/ IF k > n /\ n >= 0
                    THEN s >= REFRESH_INTERVAL + now - Latest(k) /\ match >= Earliest(n + 1)
                    ELSE s >= now - Latest(k)
    BY <1>2, <2>1 DEF Waited, Latest, Earliest, Turn
  <2>4. CASE i \in Raised(t)
    <3>1. n = c + 1 /\ k = c + 1 /\ s = 0
      <4>1. k = c + 1 /\ Channel' = [Channel EXCEPT ![t] = c + 1]
        BY <2>4, RaisedIs
      <4>2. s = 0
        BY <2>4 DEF Handled
      <4> QED
        BY <4>1, <4>2 DEF IInv, ServoTypeOK
    <3> HIDE DEF c, k, s, n, match
    <3>2. ~ (k > n)
      BY <2>1, <3>1
    <3>3. s >= now - Latest(k)
      BY <2>1, <2>2, <3>1
    <3> QED
      BY <3>2, <3>3
  <2>5. CASE i \notin Raised(t)
    <3>1. s = After(i, d)
      BY <1>2, <2>5 DEF Handled, Aged
    <3>2. \/ s = REFRESH_INTERVAL
          \/ IF k > c THEN s >= REFRESH_INTERVAL + now - Latest(k) /\ now >= Earliest(c + 1)
                      ELSE s >= now - Latest(k)
      BY <1>2, <3>1, AgedWaited
    <3>3. s \in Nat
      BY <3>1, AfterType, Numbers DEF Handled
    <3>4. \/ n = -1
          \/ n = c + 1 /\ \E w \in Widths : match = now + w
          \/ n = c + 1 /\ (k > n => s = REFRESH_INTERVAL)
      <4>1. CASE /\ c + 1 < SERVOS_PER_TIMER /\ New(t) \in Channels /\ New(t) < ServoCount
                 /\ Channel' = [Channel EXCEPT ![t] = Channel[t] + 1]
                 /\ OCR' = [OCR EXCEPT ![t] = now + ticks[New(t)]]
        <5>1. n = c + 1 /\ match = now + ticks[New(t)]
          BY <4>1 DEF IInv, ServoTypeOK
        <5>2. CASE ticks[New(t)] \in Widths
          BY <5>1, <5>2
        <5>3. CASE ticks[New(t)] = 0
          <6>1. New(t) + 1 = ServoCount
            BY <4>1, <5>3 DEF IInv, Constructed
          <6>2. ASSUME k > c + 1 PROVE i >= ServoCount
            <7>1. i = SERVO_INDEX(t, k) /\ New(t) = SERVO_INDEX(t, c + 1)
              BY <1>2, ChannelsAre DEF New
            <7>2. t \in Nat /\ SERVOS_PER_TIMER \in Nat
              BY TimersAre, Numbers
            <7>3. t * SERVOS_PER_TIMER \in Nat
              BY <7>2
            <7> HIDE DEF c, k
            <7> QED
              BY <2>1, <6>1, <6>2, <7>1, <7>3 DEF SERVO_INDEX
          <6>3. ASSUME k > c + 1 PROVE s = REFRESH_INTERVAL
            <7>1. since[i] = REFRESH_INTERVAL
              BY <6>2, <6>3 DEF IInv, Constructed
            <7>2. d \in Nat
              BY DEF Handled
            <7> QED
              BY <3>1, <7>1, <7>2, AfterType
          <6> QED
            BY <5>1, <6>3
        <5> QED
          BY <4>1, <5>2, <5>3, TicksAre
      <4>2. CASE Channel' = [Channel EXCEPT ![t] = -1]
        BY <4>2 DEF IInv, ServoTypeOK
      <4> QED
        BY <4>1, <4>2 DEF Handled
    <3> HIDE DEF c, k, s, n, match
    <3>5. s = REFRESH_INTERVAL \/ s >= now - Latest(k)
      BY <2>1, <2>2, <3>2, <3>3, Numbers
    <3>6. CASE n = -1
      BY <3>5, <3>6
    <3>7. CASE n = c + 1 /\ \E w \in Widths : match = now + w
      <4>1. PICK w \in Widths : match = now + w
        BY <3>7
      <4>2. w \in Nat /\ w >= MinWidth
        BY WidthBounds
      <4>3. c + 1 \in Nat /\ Earliest(n + 1) = Earliest(c + 1) + MinWidth
        BY <2>1, <3>7, Sums
      <4>4. ASSUME k > n, s # REFRESH_INTERVAL
            PROVE  s >= REFRESH_INTERVAL + now - Latest(k) /\ match >= Earliest(n + 1)
        <5>1. k > c
          BY <2>1, <3>7, <4>4
        <5>2. s >= REFRESH_INTERVAL + now - Latest(k) /\ now >= Earliest(c + 1)
          BY <3>2, <4>4, <5>1
        <5> QED
          BY <2>1, <2>2, <4>1, <4>2, <4>3, <5>2, Numbers
      <4> QED
        BY <3>5, <4>4
    <3>8. CASE n = c + 1 /\ (k > n => s = REFRESH_INTERVAL)
      BY <3>5, <3>8
    <3> QED
      BY <3>4, <3>6, <3>7, <3>8
  <2> QED
    BY <2>4, <2>5
<1> QED
  BY <1>1, <1>2

\* No channel is raised too early: the round before this one lasted a refresh interval,
\* and its turn in either is between its earliest and its latest.
LEMMA RaisedInTime ==
  ASSUME IInv, NEW t \in Timers, NEW late \in 0..MaxLate, NEW d, NEW now, Handled(t, late, d, now)
  PROVE  early' = {}
<1> SUFFICES ASSUME NEW i \in Raised(t) PROVE ~ (After(i, d) < REFRESH_INTERVAL - Jitter(i))
  BY DEF Handled, IInv, NotTooOften
<1>1. i \in Channels /\ TimerOf(i) = t /\ Turn(i) = Channel[t] + 1 /\ Turn(i) \in Nat
  BY RaisedIs
<1> DEFINE k == Turn(i)
<1>2. Jitter(i) = Latest(k) - Earliest(k)
  BY <1>1, JitterIs
<1>3. Latest(k) \in Nat /\ Earliest(k) \in Nat /\ Earliest(k) <= Latest(k)
  BY <1>1, Sums, EarliestFirst
<1>4. \/ After(i, d) = REFRESH_INTERVAL
      \/ After(i, d) >= REFRESH_INTERVAL + now - Latest(k) /\ now >= Earliest(k)
  <2>1. Turn(i) > Channel[t]
    BY <1>1, TimerTypes
  <2> QED
    BY <1>1, <2>1, AgedWaited
<1>5. After(i, d) \in Nat /\ now \in Nat
  BY <1>1, AfterType, Numbers DEF Handled
<1> HIDE DEF k
<1> QED
  BY <1>2, <1>3, <1>4, <1>5, Numbers

\* An interrupt keeps the invariant.
LEMMA InterruptStep == ASSUME IInv, NEW t \in Timers, Interrupt(t) PROVE IInv'
<1>1. PICK late \in 0..MaxLate : \E d, now : Handled(t, late, d, now)
  BY InterruptIsHandled
<1>2. PICK d, now : Handled(t, late, d, now)
  BY <1>1
<1> QED
  BY <1>2, TypesHandled, PulseHandled, CountsHandled, TurnsHandled, RaisedInTime
  DEF IInv, NotTooOften

-----------------------------------------------------------------------------
(* The program *)

\* Steps of the program that leave the timers, the counts and the histories alone.
LEMMA ProgramStep ==
  ASSUME IInv, ServoTypeOK', Histories', Constructed', UNCHANGED timers,
         ServoCount' >= ServoCount, high \ stuck' \subseteq high \ stuck,
         \A i \in high \ stuck' : i \in isActive'
  PROVE  IInv'
<1>1. PulseUnderWay'
  <2>1. SUFFICES ASSUME NEW i \in high \ stuck'
                 PROVE  LET u == TimerOf(i)
                        IN  /\ i \in isActive' /\ i < ServoCount'
                            /\ Channel[u] >= 0 /\ i = SERVO_INDEX(u, Channel[u])
                            /\ since[i] = 0 /\ width[i] \in Widths /\ OCR[u] = TCNT[u] + width[i]
    BY DEF PulseUnderWay, timers
  <2>2. i \in high \ stuck /\ i \in isActive'
    BY <2>1
  <2>3. i < ServoCount /\ i \in Channels
    BY <2>2 DEF IInv, PulseUnderWay, ServoTypeOK
  <2>4. i < ServoCount'
    BY <2>3, ChannelsAre DEF IInv, ServoTypeOK
  <2> QED
    BY <2>2, <2>4 DEF IInv, PulseUnderWay
<1>2. Counts' /\ NotTooOften'
  BY DEF IInv, Counts, NotTooOften, timers, Latest
<1>3. Turns'
  BY DEF IInv, Turns, Waited, timers, Latest, Earliest, Turn
<1> QED
  BY <1>1, <1>2, <1>3 DEF IInv

\* Construction counts a channel that no servo is attached to.
LEMMA ConstructStep == ASSUME IInv, NEW o \in Objects, Construct(o) PROVE IInv'
<1>1. MAX_SERVOS \in Nat /\ ServoCount \in 0..MAX_SERVOS
  BY ChannelsAre DEF IInv, ServoTypeOK
<1>2. UNCHANGED <<isActive, ticks, timers, stuck>> /\ pc = "sketch"
  BY DEF Construct
<1>3. \A i \in Channels : i \in Nat
  BY ChannelsAre
<1>4. CASE Room
  <2>1. ServoCount \in Channels /\ ServoCount + 1 \in 0..MAX_SERVOS
    BY <1>1, <1>4 DEF Room, Channels
  <2>2. /\ servoIndex' = [servoIndex EXCEPT ![o] = ServoCount]
        /\ ServoCount' = ServoCount + 1
        /\ pc' = "ticks" /\ object' = o
    BY <1>4 DEF Construct
  <2>3. ServoTypeOK'
    BY <1>2, <2>1, <2>2 DEF IInv, ServoTypeOK, timers
  <2>4. servoIndex'[o] = ServoCount /\ \A p \in Objects : p # o => servoIndex'[p] = servoIndex[p]
    BY <2>2 DEF IInv, ServoTypeOK
  <2>5. Histories'
    BY <1>2, <2>1, <2>2, <2>4 DEF IInv, Histories, timers
  <2>6. Constructed'
    <3>1. \A p \in Objects : servoIndex'[p] \in Channels => servoIndex'[p] < ServoCount'
      BY <1>1, <1>3, <2>2, <2>4 DEF IInv, Constructed
    <3>2. \A i \in isActive : i < ServoCount /\ i \in Nat
      BY <1>3 DEF IInv, Constructed, ServoTypeOK
    <3>3. ASSUME NEW i \in Channels, i < ServoCount', ticks[i] = 0
          PROVE  i = ServoCount /\ i \notin isActive
      <4>1. ~ (i < ServoCount)
        BY <1>2, <3>3 DEF IInv, Constructed
      <4> QED
        BY <1>1, <1>3, <2>2, <3>2, <3>3, <4>1
    <3>4. \A i \in Channels : i >= ServoCount' => since[i] = REFRESH_INTERVAL
      BY <1>1, <1>3, <2>2 DEF IInv, Constructed
    <3>5. UNCHANGED <<isActive, ticks, since>>
      BY <1>2 DEF timers
    <3> QED
      BY <1>1, <2>2, <2>4, <3>1, <3>2, <3>3, <3>4, <3>5 DEF Constructed
  <2> QED
    BY <1>1, <1>2, <2>2, <2>3, <2>5, <2>6, ProgramStep DEF IInv, PulseUnderWay
<1>5. CASE ~ Room
  <2>1. /\ servoIndex' = [servoIndex EXCEPT ![o] = INVALID_SERVO]
        /\ UNCHANGED <<ServoCount, pc, object>>
    BY <1>5 DEF Construct
  <2>2. ServoTypeOK'
    BY <1>2, <2>1 DEF IInv, ServoTypeOK, timers
  <2>3. Histories'
    BY <1>2, <2>1 DEF IInv, Histories, timers
  <2>4. Constructed'
    <3>1. ServoCount = MAX_SERVOS
      BY <1>1, <1>5 DEF Room
    <3>2. \A p \in Objects : servoIndex'[p] \in Channels => servoIndex'[p] < ServoCount
      BY <1>1, <3>1 DEF Channels
    <3>3. \A i \in Channels : i < ServoCount => ticks[i] # 0
      BY <1>2 DEF IInv, Constructed
    <3>4. UNCHANGED <<isActive, ticks, since>>
      BY <1>2 DEF timers
    <3> QED
      BY <2>1, <3>2, <3>3, <3>4 DEF IInv, Constructed
  <2> QED
    BY <1>1, <1>2, <2>1, <2>2, <2>3, <2>4, ProgramStep DEF IInv, PulseUnderWay
<1> QED
  BY <1>4, <1>5

\* And then gives it its width.
LEMMA StoreDefaultStep == ASSUME IInv, StoreDefault PROVE IInv'
<1>1. /\ UNCHANGED <<servoIndex, ServoCount, isActive, timers, object, stuck>>
      /\ pc = "ticks" /\ pc' = "sketch" /\ ticks' = [ticks EXCEPT ![servoIndex[object]] = Default]
  BY DEF StoreDefault
<1>2. servoIndex[object] \in Channels /\ Default \in Widths /\ Default # 0
  BY <1>1, WidthBounds DEF IInv, Histories, Default
<1>3. \A i \in Channels : ticks'[i] = IF i = servoIndex[object] THEN Default ELSE ticks[i]
  BY <1>1 DEF IInv, Histories
<1>4. ServoTypeOK'
  BY <1>1 DEF IInv, ServoTypeOK, timers
<1>5. Histories'
  BY <1>1, <1>2 DEF IInv, Histories, timers
<1>6. Constructed'
  BY <1>1, <1>2, <1>3 DEF IInv, Constructed, timers
<1>7. ServoCount \in Nat
  BY ChannelsAre DEF IInv, ServoTypeOK
<1> QED
  BY <1>1, <1>4, <1>5, <1>6, <1>7, ProgramStep DEF IInv, PulseUnderWay

\* The steps of attach() that start no timer.
LEMMA AttachStep ==
  ASSUME IInv, Activate \/ \E o \in Objects : CallAttach(o)
  PROVE  IInv'
<1>1. /\ UNCHANGED <<servoIndex, ServoCount, ticks, timers, stuck>>
      /\ isActive \subseteq isActive' /\ isActive' \subseteq Channels
      /\ pc' # "sketch" => object' \in Objects /\ servoIndex[object'] \in Channels
  BY DEF Activate, CallAttach, IInv, ServoTypeOK, Histories
<1>2. ServoTypeOK' /\ Histories'
  BY <1>1 DEF IInv, ServoTypeOK, Histories, timers
<1>3. ServoCount \in Nat
  BY ChannelsAre DEF IInv, ServoTypeOK
<1>4. pc # "ticks" /\ \A i \in isActive' : i < ServoCount
  BY DEF Activate, CallAttach, IInv, Histories, Constructed
<1>5. Constructed'
  BY <1>1, <1>4 DEF IInv, Constructed, timers
<1> QED
  BY <1>1, <1>2, <1>3, <1>5, ProgramStep DEF IInv, PulseUnderWay

\* A channel detached during its pulse is stuck.
LEMMA DetachStep == ASSUME IInv, NEW o \in Objects, Detach(o) PROVE IInv'
<1>1. /\ UNCHANGED <<servoIndex, ServoCount, ticks, timers, pc, object>>
      /\ isActive' = isActive \ {servoIndex[o]}
      /\ stuck' = IF servoIndex[o] \in high THEN stuck \cup {servoIndex[o]} ELSE stuck
  BY DEF Detach
<1>2. ServoTypeOK' /\ Histories' /\ Constructed'
  BY <1>1 DEF IInv, ServoTypeOK, Histories, Constructed, timers
<1>3. ServoCount \in Nat
  BY ChannelsAre DEF IInv, ServoTypeOK
<1> QED
  BY <1>1, <1>2, <1>3, ProgramStep DEF IInv, PulseUnderWay

\* A width written is that of the next pulse.
LEMMA WriteStep == ASSUME IInv, NEW o \in Objects, NEW w \in Widths, Write(o, w) PROVE IInv'
<1>1. /\ UNCHANGED <<servoIndex, ServoCount, isActive, timers, pc, object, stuck>>
      /\ ticks' = [ticks EXCEPT ![servoIndex[o]] = w] /\ pc = "sketch"
  BY DEF Write
<1>2. w # 0 /\ \A i \in Channels : ticks'[i] = ticks[i] \/ ticks'[i] = w
  BY <1>1, WidthBounds DEF IInv, Histories
<1>3. ServoTypeOK' /\ Histories' /\ Constructed'
  BY <1>1, <1>2 DEF IInv, ServoTypeOK, Histories, Constructed, timers
<1>4. ServoCount \in Nat
  BY ChannelsAre DEF IInv, ServoTypeOK
<1> QED
  BY <1>1, <1>3, <1>4, ProgramStep DEF IInv, PulseUnderWay

\* A timer is started again only while no servo of it is active, so there is no pulse to
\* disturb, and the count it forgets only makes the next pulses later.
LEMMA StartTimerStep == ASSUME IInv, StartTimer PROVE IInv'
<1> DEFINE t == TimerOf(servoIndex[object])
<1>1. /\ UNCHANGED <<servoIndex, ServoCount, isActive, ticks, Channel, OCR, high, width,
                     early, object, stuck>>
      /\ pc = "isTimerActive"
  BY DEF StartTimer
<1>2. servoIndex[object] \in Channels /\ object \in Objects /\ t \in Timers
  BY <1>1, ChannelsAre DEF IInv, Histories
<1>3. CASE isTimerActive(t)
  <2>1. UNCHANGED timers
    BY <1>1, <1>3 DEF StartTimer, timers
  <2>2. ServoTypeOK' /\ Histories' /\ Constructed'
    BY <1>1, <1>2, <2>1 DEF IInv, ServoTypeOK, Histories, Constructed, timers
  <2>3. ServoCount \in Nat
    BY ChannelsAre DEF IInv, ServoTypeOK
  <2> QED
    BY <1>1, <2>1, <2>2, <2>3, ProgramStep DEF IInv, PulseUnderWay
<1>4. CASE ~ isTimerActive(t)
  <2>0. PICK left \in Matches(t) : \E d \in 0..left : since' = Aged(t, d)
    BY <1>4 DEF StartTimer
  <2>1. PICK d \in 0..left : since' = Aged(t, d)
    BY <2>0
  <2>2. TCNT' = [TCNT EXCEPT ![t] = 0]
    BY <1>4 DEF StartTimer
  <2> HIDE DEF t
  <2>3. d \in Nat
    <3>1. left \in Int
      <4>1. left = Left(t) \/ left = Left(t) + Wrap
        BY DEF Matches
      <4>2. Left(t) \in Int
        BY <1>2, LeftIs, TimerTypes, Numbers
      <4> QED
        BY <4>1, <4>2, Numbers
    <3> QED
      BY <2>1, <3>1, Numbers
  <2>4. \A i \in Channels :
           /\ since[i] \in 0..REFRESH_INTERVAL /\ After(i, d) \in 0..REFRESH_INTERVAL
           /\ After(i, d) = REFRESH_INTERVAL \/ After(i, d) = since[i] + d
           /\ since[i] = REFRESH_INTERVAL => After(i, d) = REFRESH_INTERVAL
    BY <2>3, AfterType
  <2>5. \A i \in Channels : since'[i] = IF TimerOf(i) = t THEN After(i, d) ELSE since[i]
    BY <2>1 DEF Aged
  <2>6. ServoTypeOK'
    <3>1. TCNT' \in [Timers -> 0..(Wrap - 1)]
      <4>1. 0 \in 0..(Wrap - 1)
        BY Numbers
      <4> QED
        BY <2>2, <4>1 DEF IInv, ServoTypeOK
    <3> QED
      BY <1>1, <3>1 DEF IInv, ServoTypeOK
  <2>7. Histories'
    <3>1. since' \in [Channels -> 0..REFRESH_INTERVAL]
      BY <2>1, <2>4 DEF Aged
    <3> QED
      BY <1>1, <1>2, <3>1 DEF IInv, Histories
  <2>11. Constructed'
    <3>1. \A i \in Channels : i >= ServoCount => since'[i] = REFRESH_INTERVAL
      BY <2>4, <2>5 DEF IInv, Constructed
    <3>2. \A i \in Channels : i < ServoCount => ticks[i] # 0
      BY <1>1 DEF IInv, Constructed
    <3> QED
      BY <1>1, <3>1, <3>2 DEF IInv, Constructed
  <2>8. PulseUnderWay'
    <3>1. SUFFICES ASSUME NEW i \in high \ stuck
                   PROVE  LET u == TimerOf(i)
                          IN  /\ i \in isActive /\ i < ServoCount
                              /\ Channel[u] >= 0 /\ i = SERVO_INDEX(u, Channel[u])
                              /\ since'[i] = 0 /\ width[i] \in Widths /\ OCR[u] = TCNT'[u] + width[i]
      BY <1>1 DEF PulseUnderWay
    <3>2. i \in isActive /\ i \in Channels /\ TimerOf(i) \in Timers
      BY <3>1, ChannelsAre DEF IInv, PulseUnderWay, ServoTypeOK
    <3>3. TimerOf(i) # t
      BY <1>4, <3>2 DEF isTimerActive, ChannelsOf, t
    <3>4. since'[i] = since[i] /\ TCNT'[TimerOf(i)] = TCNT[TimerOf(i)]
      BY <1>2, <2>2, <2>5, <3>2, <3>3 DEF IInv, ServoTypeOK
    <3> QED
      BY <3>1, <3>4 DEF IInv, PulseUnderWay
  <2>9. Counts'
    <3>1. SUFFICES ASSUME NEW u \in Timers
                   PROVE  /\ TCNT'[u] <= OCR[u]
                          /\ IF Channel[u] >= 0
                             THEN OCR[u] <= Latest(Channel[u]) + MaxWidth
                             ELSE OCR[u] >= REFRESH_INTERVAL /\ OCR[u] >= TCNT'[u] + Margin
      BY <1>1 DEF Counts, Latest
    <3>2. OCR[u] \in Nat /\ TCNT[u] <= OCR[u]
      BY <3>1, TimerTypes, Numbers
    <3>3. TCNT'[u] = 0 \/ TCNT'[u] = TCNT[u]
      BY <2>2, <3>1 DEF IInv, ServoTypeOK
    <3> QED
      BY <3>1, <3>2, <3>3, Numbers DEF IInv, Counts
  <2>10. Turns'
    <3>1. SUFFICES ASSUME NEW i \in Channels
                   PROVE  LET u == TimerOf(i)
                          IN  \/ since'[i] = REFRESH_INTERVAL
                              \/ IF Turn(i) > Channel[u] /\ Channel[u] >= 0
                                 THEN /\ since'[i] >= REFRESH_INTERVAL + TCNT'[u] - Latest(Turn(i))
                                      /\ OCR[u] >= Earliest(Channel[u] + 1)
                                 ELSE since'[i] >= TCNT'[u] - Latest(Turn(i))
      BY <1>1 DEF Turns, Waited, Latest, Earliest, Turn
    <3> DEFINE u == TimerOf(i)
    <3>2. u \in Timers /\ Turn(i) \in Nat /\ Latest(Turn(i)) \in Nat
      BY <3>1, ChannelsAre, Sums
    <3>3. Waited(i, Channel[u], TCNT[u], OCR[u])
      BY <3>1 DEF IInv, Turns
    <3>4. CASE u # t
      <4>1. since'[i] = since[i] /\ TCNT'[u] = TCNT[u]
        BY <1>2, <2>2, <2>5, <3>1, <3>2, <3>4 DEF IInv, ServoTypeOK
      <4> QED
        BY <3>3, <4>1 DEF Waited
    <3>5. CASE u = t
      <4>1. since'[i] = After(i, d) /\ TCNT'[u] = 0 /\ TCNT[u] \in Nat
        BY <1>2, <2>2, <2>5, <3>1, <3>5, TimerTypes DEF IInv, ServoTypeOK
      <4>2. since[i] \in Nat /\ (After(i, d) = REFRESH_INTERVAL \/ After(i, d) = since[i] + d)
            /\ (since[i] = REFRESH_INTERVAL => After(i, d) = REFRESH_INTERVAL)
        BY <2>4, <3>1, Numbers
      <4> HIDE DEF u
      <4> QED
        BY <2>3, <3>2, <3>3, <4>1, <4>2, Numbers DEF Waited, u
    <3> QED
      BY <3>4, <3>5
  <2> QED
    BY <1>1, <2>6, <2>7, <2>8, <2>9, <2>10, <2>11 DEF IInv, NotTooOften
<1> QED
  BY <1>3, <1>4

-----------------------------------------------------------------------------
(* The theorems *)

\* At first no channel has been raised.
LEMMA InitIInv == ASSUME Init PROVE IInv
<1>1. MAX_SERVOS \in Nat /\ 0 \in 0..(Wrap - 1) /\ 0 \in -1..(SERVOS_PER_TIMER - 1)
  BY ChannelsAre, Numbers
<1>2. ServoTypeOK
  BY <1>1 DEF Init, ServoTypeOK
<1>3. Histories
  <2>1. since = [i \in Channels |-> REFRESH_INTERVAL] /\ REFRESH_INTERVAL \in 0..REFRESH_INTERVAL
    BY Numbers DEF Init
  <2> QED
    BY <2>1 DEF Init, Histories
<1>7. Constructed
  <2>1. \A i \in Channels : ~ (i < ServoCount)
    BY ChannelsAre DEF Init
  <2>2. \A o \in Objects : servoIndex[o] \notin Channels
    <3>1. -1 \notin Channels
      BY ChannelsAre
    <3> QED
      BY <3>1 DEF Init, NotMade
  <2> QED
    BY <2>1, <2>2 DEF Init, Constructed
<1>4. PulseUnderWay
  BY DEF Init, PulseUnderWay
<1>5. Counts
  <2>1. Latest(0) = 0 /\ 0 <= 0 + MaxWidth
    BY Sums, Numbers
  <2> QED
    BY <2>1 DEF Init, Counts
<1>6. Turns
  BY DEF Init, Turns, Waited
<1> QED
  BY <1>2, <1>3, <1>4, <1>5, <1>6, <1>7 DEF IInv, Init, NotTooOften

\* Every step keeps the invariant.
LEMMA NextIInv == ASSUME IInv, [Next]_vars PROVE IInv'
<1>1. CASE UNCHANGED vars
  <2>1. UNCHANGED timers /\ UNCHANGED <<servoIndex, ServoCount, isActive, ticks, pc, object, stuck>>
    BY <1>1 DEF vars
  <2>2. ServoTypeOK' /\ Histories' /\ Constructed'
    BY <2>1 DEF IInv, ServoTypeOK, Histories, Constructed, timers
  <2>3. ServoCount \in Nat
    BY ChannelsAre DEF IInv, ServoTypeOK
  <2> QED
    BY <2>1, <2>2, <2>3, ProgramStep DEF IInv, PulseUnderWay
<1> QED
  BY <1>1, InterruptStep, ConstructStep, StoreDefaultStep, AttachStep, DetachStep, WriteStep, StartTimerStep
  DEF Next

\* One channel at most is high and not stuck: the one the timer is at.
LEMMA OneAtATime == ASSUME IInv PROVE OnePulseAtATime
<1> SUFFICES ASSUME NEW t \in Timers
             PROVE  Cardinality((high \ stuck) \cap ChannelsOf(t)) <= 1
  BY DEF OnePulseAtATime
<1> DEFINE one == SERVO_INDEX(t, Channel[t])
           S == (high \ stuck) \cap ChannelsOf(t)
<1>1. \A i \in S : i = one
  BY DEF IInv, PulseUnderWay, ChannelsOf
<1>2. S = {} \/ S = {one}
  BY <1>1, Zenon
<1> HIDE DEF one, S
<1>3. Cardinality(S) = 0 \/ Cardinality(S) = 1
  BY <1>2, FS_EmptySet, FS_Singleton
<1>4. Cardinality(S) <= 1
  BY <1>3
<1> QED
  BY <1>4 DEF S

\* The refresh interval ends a few ticks ahead at least.
LEMMA RefreshAhead == ASSUME IInv PROVE RefreshNotMissed
<1> SUFFICES ASSUME NEW t \in Timers, Channel[t] < 0 PROVE Left(t) >= Margin
  BY DEF RefreshNotMissed
<1>1. Channel[t] \in Int /\ TCNT[t] \in Nat /\ OCR[t] \in Nat
  BY TimerTypes, Numbers
<1>2. OCR[t] >= TCNT[t] + Margin
  BY <1>1 DEF IInv, Counts
<1> QED
  BY <1>1, <1>2, LeftIs, Numbers

\* Servos of any number, on any number of timers: no two of a timer are pulsed at once, none
\* is pulsed again before the refresh interval has passed, but for what the widths of the
\* pulses before its own may have changed by, and the end of the interval is not missed
\* (Servo.cpp 55-80).
THEOREM ServosKept == Spec => []ServoInv
<1>1. Init => IInv
  BY InitIInv
<1>2. IInv /\ [Next]_vars => IInv'
  BY NextIInv
<1>3. IInv => ServoInv
  BY OneAtATime, RefreshAhead DEF IInv, ServoInv
<1> QED
  BY <1>1, <1>2, <1>3, PTL DEF Spec

\* What PulseAccurate says of a step.
Accurate == \A i \in (high \ high') \ stuck : since'[i] \in width[i]..(width[i] + MaxLate)

\* The pulse that an interrupt ends has had its width.
LEMMA NextAccurate == ASSUME IInv, [Next]_vars PROVE Accurate
<1>1. CASE high' = high
  BY <1>1 DEF Accurate
<1>2. ASSUME NEW t \in Timers, Interrupt(t) PROVE Accurate
  <2>1. PICK late \in 0..MaxLate : \E d, now : Handled(t, late, d, now)
    BY <1>2, InterruptIsHandled
  <2>2. PICK d, now : Handled(t, late, d, now)
    BY <2>1
  <2> SUFFICES ASSUME NEW i \in (high \ high') \ stuck
               PROVE  since'[i] \in width[i]..(width[i] + MaxLate)
    BY DEF Accurate
  <2>3. i \in Lowered(t) /\ i \notin Raised(t)
    BY <2>2 DEF Handled
  <2>4. TimerOf(i) = t /\ i \in Channels
    BY <2>3, LoweredIs DEF IInv, ServoTypeOK
  <2>5. since[i] = 0 /\ width[i] \in Widths /\ OCR[t] = TCNT[t] + width[i]
    BY <2>4 DEF IInv, PulseUnderWay
  <2>9. width[i] \in Nat /\ width[i] <= MaxWidth /\ late \in 0..MaxLate
    BY <2>5, WidthBounds
  <2>6. d \in Nat /\ d = width[i] + late
    <3>1. TCNT[t] \in Nat
      BY TimerTypes, Numbers
    <3>2. d \in Nat /\ (OCR[t] - TCNT[t] >= Margin => d = OCR[t] - TCNT[t] + late)
      BY <2>2 DEF Handled
    <3>3. Margin <= width[i]
      BY <2>5, WidthBounds
    <3> QED
      BY <2>5, <2>9, <3>1, <3>2, <3>3, Numbers
  <2>7. d <= REFRESH_INTERVAL
    BY <2>9, <2>6, Numbers
  <2>8. since'[i] = d
    <3>1. since'[i] = After(i, d)
      BY <2>2, <2>3, <2>4 DEF Handled, Aged
    <3> QED
      BY <2>5, <2>6, <2>7, <3>1, Numbers DEF After
  <2> QED
    BY <2>9, <2>6, <2>8, Numbers
<1>3. ASSUME ~ (high' = high), Next PROVE \E t \in Timers : Interrupt(t)
  BY <1>3 DEF Next, Construct, StoreDefault, CallAttach, Detach, Write, StartTimer, Activate, timers
<1>4. CASE UNCHANGED vars
  BY <1>1, <1>4 DEF vars, timers
<1> QED
  BY <1>1, <1>2, <1>3, <1>4

\* Every pulse has the width its servo had when it began, up to the lateness of one
\* interrupt, whatever the program does meanwhile (Servo.cpp 57-64, 253-255).
THEOREM PulsesAccurate == Spec => PulseAccurate
<1>1. Init => IInv
  BY InitIInv
<1>2. IInv /\ [Next]_vars => IInv'
  BY NextIInv
<1>3. IInv /\ [Next]_vars => [Accurate]_vars
  BY NextAccurate
<1>4. Spec => [][Accurate]_vars
  BY <1>1, <1>2, <1>3, PTL DEF Spec
<1> QED
  BY <1>4 DEF Accurate, PulseAccurate

-----------------------------------------------------------------------------
(* The arithmetic of angles *)

\* The microseconds the timer may be asked to count.
Pulses == 34..2910

\* What a call asked for, within the limits, in microseconds.
Asked(w) ==
  IF w[1] = "write" /\ w[2] < MIN_PULSE_WIDTH
  THEN Bounded(map(Angle(w[2]), 0, 180, SERVO_MIN, SERVO_MAX))
  ELSE Bounded(w[2])

\* The inductive invariant: the ticks are those of what was asked for.
AnglesIInv ==
  /\ ServoAnglesTypeOK
  /\ written \in {"Servo", "writeMicroseconds", "write"} \X Int
  /\ written[1] # "Servo" => servoTicks = usToTicks(Asked(written) - TRIM_DURATION)

\* An int8_t holds what is stored in it.
LEMMA ByteFits == ASSUME NEW x \in Int PROVE Int8(x) \in -128..127
  BY SMT DEF Int8

LEMMA QuotientType == ASSUME NEW x \in Int, NEW y \in Nat \ {0} PROVE Quotient(x, y) \in Int
  BY SMT DEF Quotient

\* The limits of a servo, whatever was attached: a byte keeps them apart.
LEMMA LimitsApart ==
  ASSUME ServoAnglesTypeOK
  PROVE  /\ SERVO_MIN \in 36..1056 /\ SERVO_MAX \in 1892..2912
         /\ SERVO_MAX - SERVO_MIN > 180
  BY SMT DEF ServoAnglesTypeOK, SERVO_MIN, SERVO_MAX, MIN_PULSE_WIDTH, MAX_PULSE_WIDTH

\* What is within them may be counted.
LEMMA WithinLimits ==
  ASSUME ServoAnglesTypeOK, NEW b \in SERVO_MIN..SERVO_MAX
  PROVE  b \in Int /\ b - TRIM_DURATION \in Pulses
<1> DEFINE lo == SERVO_MIN
           hi == SERVO_MAX
<1>1. lo \in Int /\ lo >= 36 /\ hi \in Int /\ hi <= 2912
  BY LimitsApart, SMT
<1>2. b \in lo..hi
  OBVIOUS
<1> HIDE DEF lo, hi
<1>3. b \in Int /\ b >= 36 /\ b <= 2912
  BY <1>1, <1>2, SMT
<1>4. b - 2 \in Pulses
  BY <1>3, SMT DEF Pulses
<1> QED BY <1>3, <1>4 DEF TRIM_DURATION

\* The limits are kept to, and change nothing within.
LEMMA BoundedIs ==
  ASSUME ServoAnglesTypeOK, NEW us \in Int
  PROVE  /\ Bounded(us) \in SERVO_MIN..SERVO_MAX
         /\ us \in SERVO_MIN..SERVO_MAX => Bounded(us) = us
<1> DEFINE lo == SERVO_MIN
           hi == SERVO_MAX
<1>1. lo \in Int /\ hi \in Int /\ lo < hi
  BY LimitsApart, SMT
<1>2. Bounded(us) = IF us < lo THEN lo ELSE IF us > hi THEN hi ELSE us
  BY DEF Bounded
<1> HIDE DEF lo, hi
<1>3. Bounded(us) \in lo..hi /\ (us \in lo..hi => Bounded(us) = us)
  BY <1>1, <1>2, SMT
<1> QED BY <1>3 DEF lo, hi

\* Microseconds to ticks and back: the truncations lose less than a microsecond, and
\* nothing where a microsecond is a whole number of ticks.
LEMMA TicksAndBack ==
  ASSUME ServoAnglesTypeOK, NEW u \in Pulses
  PROVE  /\ usToTicks(u) \in UInt16
         /\ ticksToUs(usToTicks(u)) \in (u - 1)..u
         /\ clock % 8 = 0 => ticksToUs(usToTicks(u)) = u
<1> DEFINE c == clock
           p == c * u
           n == p \div 8
           m == n * 8
           d == m \div c
<1>1. c \in 8..22 /\ u \in 34..2910
  BY AnglesAssumption, SMT DEF ServoAnglesTypeOK, Pulses
<1>2. usToTicks(u) = Quotient(p, 8) /\ \A k : ticksToUs(k) = ((k * 8) % 65536) \div c
  BY DEF usToTicks, ticksToUs
<1> HIDE DEF c
<1>3. c = 8 \/ c = 9 \/ c = 10 \/ c = 11 \/ c = 12 \/ c = 13 \/ c = 14 \/ c = 15 \/ c = 16
      \/ c = 17 \/ c = 18 \/ c = 19 \/ c = 20 \/ c = 21 \/ c = 22
  BY <1>1, SMT
<1>4. p \in Int /\ p >= 0 /\ p <= 64020
  BY <1>1, <1>3, SMT
<1>5. n \in Int /\ n >= 0 /\ n <= 8002 /\ m \in (p - 7)..p
  <2> HIDE DEF p
  <2> QED BY <1>4, SMT
<1>6. Quotient(p, 8) = n
  <2> HIDE DEF p
  <2> QED BY <1>4, SMT DEF Quotient
<1>7. m % 65536 = m
  <2>1. m \in Int /\ m >= 0 /\ m < 65536
    <3> HIDE DEF n, p
    <3> QED BY <1>4, <1>5, SMT
  <2> HIDE DEF m
  <2> QED BY <2>1, SMT
<1>8. d \in (u - 1)..u
  <2> HIDE DEF n
  <2> QED BY <1>1, <1>3, <1>5, SMT
<1>9. ASSUME c % 8 = 0 PROVE d = u
  <2>1. c = 8 \/ c = 16
    BY <1>3, <1>9, SMT
  <2> QED BY <2>1, <1>1, SMT
<1>10. usToTicks(u) = n /\ ticksToUs(n) = d
  BY <1>2, <1>6, <1>7
<1>11. ticksToUs(usToTicks(u)) = d
  BY <1>10
<1>12. n \in UInt16
  <2> HIDE DEF n
  <2>1. n \in 0..8002
    BY <1>5, SMT
  <2> HIDE <1>5
  <2> QED BY <2>1, SMT DEF UInt16
<1> HIDE DEF n, d
<1> QED BY <1>8, <1>9, <1>10, <1>11, <1>12 DEF c

LEMMA DivisionLemma ==
  ASSUME NEW k \in Int, NEW d \in Nat \ {0}, NEW r \in 0..(d - 1)
  PROVE  (k * d + r) \div d = k
  BY SMT

LEMMA AngleIs ==
  ASSUME NEW v \in Int
  PROVE  Angle(v) \in 0..180
  BY SMT DEF Angle

\* The pulse of an angle, which is within the limits, and the angle of that pulse or
\* of a microsecond less.
LEMMA AnglePulse ==
  ASSUME ServoAnglesTypeOK, NEW a \in 0..180
  PROVE  LET us == map(a, 0, 180, SERVO_MIN, SERVO_MAX)
         IN  /\ us \in SERVO_MIN..SERVO_MAX
             /\ map(us + 1, SERVO_MIN, SERVO_MAX, 0, 180) = a
             /\ map(us, SERVO_MIN, SERVO_MAX, 0, 180) \in (a - 1)..a
<1> DEFINE lo == SERVO_MIN
           hi == SERVO_MAX
           D == hi - lo
           P == a * D
           q == P \div 180
           r == P % 180
           us == map(a, 0, 180, SERVO_MIN, SERVO_MAX)
<1>1. lo \in Int /\ hi \in Int /\ D \in Int /\ D > 180
  BY LimitsApart, SMT
<1>2. P \in Nat /\ P <= 180 * D
  <2> HIDE DEF D
  <2> QED BY <1>1, SMT
<1>3. P = 180 * q + r /\ r \in 0..179 /\ q \in 0..D
  <2> HIDE DEF P, D
  <2> QED BY <1>1, <1>2, SMT
<1>4. us = q + lo
  <2>1. us = Quotient((a - 0) * D, 180 - 0) + lo
    BY DEF map
  <2>2. (a - 0) * D = P /\ 180 - 0 = 180
    BY <1>1, SMT
  <2>3. Quotient(P, 180) = q
    <3> HIDE DEF P
    <3> QED BY <1>2, SMT DEF Quotient
  <2> QED BY <2>1, <2>2, <2>3
<1>5. \A x \in Int : map(lo + x, lo, hi, 0, 180) = Quotient(x * 180, D)
  <2> SUFFICES ASSUME NEW x \in Int
               PROVE  map(lo + x, lo, hi, 0, 180) = Quotient(x * 180, D)
    OBVIOUS
  <2> DEFINE y == lo + x
             z == (y - lo) * (180 - 0)
  <2>1. map(y, lo, hi, 0, 180) = Quotient(z, hi - lo) + 0
    BY DEF map
  <2> HIDE DEF lo, hi
  <2>2. z = x * 180
    BY <1>1, SMT
  <2> HIDE DEF z
  <2>3. D = hi - lo /\ D \in Nat \ {0}
    BY <1>1, SMT
  <2> HIDE DEF D, y
  <2>4. Quotient(z, D) + 0 = Quotient(z, D)
    BY <1>1, <2>2, <2>3, QuotientType, SMT
  <2>5. map(y, lo, hi, 0, 180) = Quotient(x * 180, D)
    BY <2>1, <2>2, <2>3, <2>4
  <2> QED BY <2>5 DEF y
<1>6. Quotient((q + 1) * 180, D) = a
  <2>1. (q + 1) * 180 = a * D + (180 - r)
    <3> HIDE DEF q, r, D
    <3> QED BY <1>1, <1>2, <1>3, SMT
  <2>2. (a * D + (180 - r)) \div D = a
    <3> HIDE DEF q, r, D
    <3> QED BY <1>1, <1>3, DivisionLemma, SMT
  <2>3. (q + 1) * 180 >= 0
    <3> HIDE DEF q, D
    <3> QED BY <1>3, SMT
  <2> HIDE DEF q, D
  <2> QED BY <2>1, <2>2, <2>3 DEF Quotient
<1>7. Quotient(q * 180, D) \in (a - 1)..a
  <2>1. q * 180 = a * D - r
    <3> HIDE DEF q, r, D
    <3> QED BY <1>1, <1>2, <1>3, SMT
  <2>2. (a * D - r) \div D \in (a - 1)..a
    <3> HIDE DEF q, r, D
    <3>1. CASE r = 0
      BY <3>1, <1>1, <1>3, DivisionLemma, SMT
    <3>2. CASE r # 0
      <4>1. a * D - r = (a - 1) * D + (D - r) /\ D - r \in 0..(D - 1)
        BY <3>2, <1>1, <1>3, SMT
      <4>2. ((a - 1) * D + (D - r)) \div D = a - 1
        BY <4>1, <1>1, <1>3, DivisionLemma, SMT
      <4> QED BY <4>1, <4>2, SMT
    <3> QED BY <3>1, <3>2
  <2>3. q * 180 >= 0
    <3> HIDE DEF q, D
    <3> QED BY <1>3, SMT
  <2> HIDE DEF q, D
  <2> QED BY <2>1, <2>2, <2>3 DEF Quotient
<1>8. us \in lo..hi /\ us = lo + q /\ us + 1 = lo + (q + 1) /\ q \in Int /\ q + 1 \in Int
  <2> HIDE DEF us, q, lo, hi
  <2> QED BY <1>1, <1>3, <1>4, SMT
<1> QED BY <1>5, <1>6, <1>7, <1>8

LEMMA AnglesTyped == ASSUME AnglesIInv PROVE ServoAnglesTypeOK
  BY DEF AnglesIInv

\* What a call asks for is within the limits, and its ticks fit 16 bits.
LEMMA AskedFits ==
  ASSUME ServoAnglesTypeOK, NEW w, w[2] \in Int
  PROVE  /\ Asked(w) \in SERVO_MIN..SERVO_MAX
         /\ Asked(w) - TRIM_DURATION \in Pulses
         /\ usToTicks(Asked(w) - TRIM_DURATION) \in UInt16
<1>1. map(Angle(w[2]), 0, 180, SERVO_MIN, SERVO_MAX) \in Int
  <2>1. Angle(w[2]) \in 0..180
    BY AngleIs
  <2> DEFINE a == Angle(w[2])
  <2> HIDE DEF a
  <2>2. map(a, 0, 180, SERVO_MIN, SERVO_MAX) \in SERVO_MIN..SERVO_MAX
    BY <2>1, AnglePulse DEF a
  <2> QED BY <2>2, WithinLimits DEF a
<1>2. Asked(w) \in SERVO_MIN..SERVO_MAX
  BY <1>1, BoundedIs DEF Asked
<1>3. Asked(w) - TRIM_DURATION \in Pulses
  BY <1>2, WithinLimits
<1> DEFINE u == Asked(w) - TRIM_DURATION
<1> HIDE DEF u
<1>4. usToTicks(u) \in UInt16
  <2>1. u \in Pulses
    BY <1>3 DEF u
  <2> QED BY <2>1, TicksAndBack
<1> QED BY <1>2, <1>3, <1>4 DEF u

\* What was asked for, while the limits and the clock stay.
LEMMA LimitsStay ==
  ASSUME UNCHANGED <<clock, min, max, limits>>
  PROVE  /\ \A w : Asked(w)' = Asked(w)
         /\ \A u : usToTicks(u)' = usToTicks(u)
         /\ ServoAnglesTypeOK /\ servoTicks' \in UInt16 => ServoAnglesTypeOK'
<1>1. SERVO_MIN' = SERVO_MIN /\ SERVO_MAX' = SERVO_MAX
  BY DEF SERVO_MIN, SERVO_MAX
<1>2. \A x : Bounded(x)' = Bounded(x)
  BY <1>1 DEF Bounded
<1>3. \A w : Asked(w)' = Asked(w)
  BY <1>1, <1>2 DEF Asked
<1>4. \A u : usToTicks(u)' = usToTicks(u)
  BY DEF usToTicks
<1>5. ServoAnglesTypeOK /\ servoTicks' \in UInt16 => ServoAnglesTypeOK'
  BY DEF ServoAnglesTypeOK
<1> QED BY <1>3, <1>4, <1>5

\* A call that stores a pulse.
LEMMA StoreStep ==
  ASSUME AnglesIInv, NEW us \in Int, NEW name \in {"writeMicroseconds", "write"}, NEW v \in Int,
         Store(us), written' = <<name, v>>, UNCHANGED <<clock, min, max, limits>>,
         Asked(<<name, v>>) = Bounded(us)
  PROVE  AnglesIInv'
<1> DEFINE w == <<name, v>>
<1>1. w[2] \in Int /\ w \in {"Servo", "writeMicroseconds", "write"} \X Int
  OBVIOUS
<1>2. Asked(w) = Bounded(us) /\ written' = w
  OBVIOUS
<1> HIDE DEF w
<1>3. servoTicks' = usToTicks(Asked(w) - TRIM_DURATION)
  BY <1>2 DEF Store
<1>4. usToTicks(Asked(w) - TRIM_DURATION) \in UInt16
  BY <1>1, AnglesTyped, AskedFits
<1>5. ServoAnglesTypeOK'
  <2>1. servoTicks' \in UInt16
    BY <1>3, <1>4
  <2> QED BY <2>1, LimitsStay, AnglesTyped
<1>6. (usToTicks(Asked(written) - TRIM_DURATION))' = usToTicks(Asked(w) - TRIM_DURATION)
  <2>1. Asked(w)' = Asked(w) /\ \A u : usToTicks(u)' = usToTicks(u)
    BY LimitsStay
  <2>2. (Asked(written))' = Asked(w)
    BY <2>1, <1>2
  <2>3. (Asked(written) - TRIM_DURATION)' = Asked(w) - TRIM_DURATION
    BY <2>2 DEF TRIM_DURATION
  <2> QED BY <2>1, <2>3
<1> QED BY <1>1, <1>2, <1>3, <1>5, <1>6 DEF AnglesIInv

LEMMA AnglesInitIInv == ASSUME AnglesInit PROVE AnglesIInv
<1>1. clock \in Clocks /\ min = 0 /\ max = 0 /\ limits = <<MIN_PULSE_WIDTH, MAX_PULSE_WIDTH>>
      /\ written = <<"Servo", 0>> /\ servoTicks = usToTicks(DEFAULT_PULSE_WIDTH)
  BY DEF AnglesInit
<1>2. clock \in 8..22
  BY <1>1, AnglesAssumption
<1>3. servoTicks = Quotient(clock * 1500, 8)
  BY <1>1 DEF usToTicks, DEFAULT_PULSE_WIDTH
<1>4. servoTicks \in UInt16
  <2>1. servoTicks \in 0..8000
    BY <1>2, <1>3, SMT DEF Quotient
  <2> QED BY <2>1, SMT DEF UInt16
<1>5. min \in -128..127 /\ max \in -128..127
  BY <1>1, SMT
<1>6. ServoAnglesTypeOK
  BY <1>1, <1>4, <1>5 DEF ServoAnglesTypeOK
<1>7. written \in {"Servo", "writeMicroseconds", "write"} \X Int /\ written[1] = "Servo"
  BY <1>1
<1> QED BY <1>6, <1>7 DEF AnglesIInv

LEMMA AnglesStep == ASSUME AnglesIInv, [AnglesNext]_angleVars PROVE AnglesIInv'
<1>1. CASE Attach
  <2>1. PICK l \in Limits :
          /\ min' = Int8(Quotient(MIN_PULSE_WIDTH - l[1], 4))
          /\ max' = Int8(Quotient(MAX_PULSE_WIDTH - l[2], 4))
          /\ limits' = l
    BY <1>1 DEF Attach
  <2>2. l[1] \in Int /\ l[2] \in Int
    BY AnglesAssumption
  <2>3. \A x \in Int : Int8(Quotient(x, 4)) \in -128..127
    <3> SUFFICES ASSUME NEW x \in Int PROVE Int8(Quotient(x, 4)) \in -128..127
      OBVIOUS
    <3>1. 4 \in Nat \ {0}
      BY SMT
    <3>2. Quotient(x, 4) \in Int
      BY <3>1, QuotientType
    <3> QED BY <3>2, ByteFits
  <2>4. MIN_PULSE_WIDTH - l[1] \in Int /\ MAX_PULSE_WIDTH - l[2] \in Int
    BY <2>2, SMT DEF MIN_PULSE_WIDTH, MAX_PULSE_WIDTH
  <2>5. min' \in -128..127 /\ max' \in -128..127
    BY <2>1, <2>3, <2>4
  <2>6. written' = <<"Servo", 0>> /\ clock' = clock /\ servoTicks' = servoTicks
    BY <1>1 DEF Attach
  <2>7. ServoAnglesTypeOK'
    BY <2>1, <2>5, <2>6, AnglesTyped DEF ServoAnglesTypeOK
  <2>8. written' \in {"Servo", "writeMicroseconds", "write"} \X Int /\ written'[1] = "Servo"
    BY <2>6
  <2> QED BY <2>7, <2>8 DEF AnglesIInv
<1>2. CASE WriteMicroseconds
  <2>1. PICK us \in Values : Store(us) /\ written' = <<"writeMicroseconds", us>>
    BY <1>2 DEF WriteMicroseconds
  <2>2. us \in Int /\ UNCHANGED <<clock, min, max, limits>>
    BY <1>2, AnglesAssumption DEF WriteMicroseconds
  <2>3. Asked(<<"writeMicroseconds", us>>) = Bounded(us)
    BY DEF Asked
  <2> QED BY <2>1, <2>2, <2>3, StoreStep
<1>3. CASE WriteAngle
  <2>1. PICK v \in Values :
          /\ Store(IF v < MIN_PULSE_WIDTH
                   THEN map(Angle(v), 0, 180, SERVO_MIN, SERVO_MAX) ELSE v)
          /\ written' = <<"write", v>>
    BY <1>3 DEF WriteAngle
  <2> DEFINE us == IF v < MIN_PULSE_WIDTH
                   THEN map(Angle(v), 0, 180, SERVO_MIN, SERVO_MAX) ELSE v
  <2>2. v \in Int /\ UNCHANGED <<clock, min, max, limits>>
    BY <1>3, AnglesAssumption DEF WriteAngle
  <2>3. Asked(<<"write", v>>) = Bounded(us)
    BY DEF Asked
  <2>4. us \in Int
    <3>1. map(Angle(v), 0, 180, SERVO_MIN, SERVO_MAX) \in SERVO_MIN..SERVO_MAX
      <4>1. Angle(v) \in 0..180
        BY <2>2, AngleIs
      <4> DEFINE a == Angle(v)
      <4> HIDE DEF a
      <4>2. map(a, 0, 180, SERVO_MIN, SERVO_MAX) \in SERVO_MIN..SERVO_MAX
        BY <4>1, AnglePulse, AnglesTyped DEF a
      <4> QED BY <4>2 DEF a
    <3>2. map(Angle(v), 0, 180, SERVO_MIN, SERVO_MAX) \in Int
      BY <3>1, WithinLimits, AnglesTyped
    <3> QED BY <2>2, <3>2
  <2>5. Store(us)
    BY <2>1
  <2> HIDE DEF us
  <2> QED BY <2>1, <2>2, <2>3, <2>4, <2>5, StoreStep
<1>4. CASE UNCHANGED angleVars
  <2>1. ServoAnglesTypeOK'
    BY <1>4, LimitsStay, AnglesTyped DEF angleVars, ServoAnglesTypeOK
  <2>2. UNCHANGED <<clock, min, max, limits>> /\ servoTicks' = servoTicks /\ written' = written
    BY <1>4 DEF angleVars
  <2>3. (usToTicks(Asked(written) - TRIM_DURATION))' = usToTicks(Asked(written) - TRIM_DURATION)
    <3>1. \A w : Asked(w)' = Asked(w)
      BY <2>2, LimitsStay
    <3>2. \A u : usToTicks(u)' = usToTicks(u)
      BY <2>2, LimitsStay
    <3>3. (Asked(written) - TRIM_DURATION)' = Asked(written) - TRIM_DURATION
      BY <2>2, <3>1 DEF TRIM_DURATION
    <3> QED BY <3>2, <3>3
  <2> QED BY <2>1, <2>2, <2>3 DEF AnglesIInv
<1> QED BY <1>1, <1>2, <1>3, <1>4 DEF AnglesNext

\* A division by four, as C truncates it.
LEMMA Quarter ==
  ASSUME NEW x \in Int
  PROVE  4 * Quotient(x, 4) \in (x - 3)..(x + 3)
  BY SMT DEF Quotient

\* What is read is what was asked for, or a microsecond less.
LEMMA PulseRead ==
  ASSUME AnglesIInv, written[1] # "Servo"
  PROVE  /\ Asked(written) \in SERVO_MIN..SERVO_MAX
         /\ readMicroseconds \in (Asked(written) - 1)..Asked(written)
         /\ clock % 8 = 0 => readMicroseconds = Asked(written)
<1> DEFINE w == written
           b == Asked(written)
           u == b - TRIM_DURATION
<1>1. w[2] \in Int /\ servoTicks = usToTicks(u)
  BY DEF AnglesIInv
<1>2. b \in SERVO_MIN..SERVO_MAX /\ u \in Pulses
  <2> HIDE DEF w
  <2>1. Asked(w) \in SERVO_MIN..SERVO_MAX /\ Asked(w) - TRIM_DURATION \in Pulses
    BY <1>1, AskedFits, AnglesTyped
  <2> QED BY <2>1 DEF w
<1>3. b \in Int /\ u = b - 2
  BY <1>2, WithinLimits, AnglesTyped DEF TRIM_DURATION
<1>4. readMicroseconds = ticksToUs(usToTicks(u)) + 2
  BY <1>1 DEF readMicroseconds, TRIM_DURATION
<1> HIDE DEF u
<1>5. ticksToUs(usToTicks(u)) \in (u - 1)..u /\ (clock % 8 = 0 => ticksToUs(usToTicks(u)) = u)
  BY <1>2, TicksAndBack, AnglesTyped
<1> HIDE DEF b
<1>6. readMicroseconds \in (b - 1)..b /\ (clock % 8 = 0 => readMicroseconds = b)
  BY <1>3, <1>4, <1>5, SMT
<1> QED BY <1>2, <1>6 DEF b

LEMMA PulsesInLimits == ASSUME AnglesIInv PROVE PulseWithinLimits
<1> SUFFICES ASSUME written[1] # "Servo", InByte
             PROVE  readMicroseconds \in (limits[1] - 5)..(limits[2] + 4)
  BY DEF PulseWithinLimits
<1>1. limits[1] \in Int /\ limits[2] \in Int
  BY AnglesAssumption, AnglesTyped DEF ServoAnglesTypeOK, MIN_PULSE_WIDTH, MAX_PULSE_WIDTH
<1>2. SERVO_MIN >= limits[1] - 3 /\ SERVO_MAX <= limits[2] + 3
  <2> DEFINE x == 544 - limits[1]
             y == 2400 - limits[2]
  <2>1. min = Quotient(x, 4) /\ max = Quotient(y, 4)
    BY DEF InByte, MIN_PULSE_WIDTH, MAX_PULSE_WIDTH
  <2>2. x \in Int /\ y \in Int /\ min \in Int /\ max \in Int
    BY <1>1, AnglesTyped, SMT DEF ServoAnglesTypeOK
  <2>3. SERVO_MIN = 544 - min * 4 /\ SERVO_MAX = 2400 - max * 4
    BY DEF SERVO_MIN, SERVO_MAX, MIN_PULSE_WIDTH, MAX_PULSE_WIDTH
  <2> HIDE DEF x, y
  <2>4. 4 * min \in (x - 3)..(x + 3) /\ 4 * max \in (y - 3)..(y + 3)
    BY <2>1, <2>2, Quarter
  <2> QED BY <1>1, <2>2, <2>3, <2>4, SMT DEF x, y
<1> DEFINE b == Asked(written)
<1>3. b \in SERVO_MIN..SERVO_MAX /\ readMicroseconds \in (b - 1)..b
  BY PulseRead
<1>4. SERVO_MIN \in Int /\ SERVO_MAX \in Int
  BY LimitsApart, AnglesTyped, SMT
<1> HIDE DEF b
<1> QED BY <1>1, <1>2, <1>3, <1>4, SMT

LEMMA AnglesReadBack == ASSUME AnglesIInv PROVE AngleReadBack
<1> SUFFICES ASSUME written[1] = "write", written[2] < MIN_PULSE_WIDTH
             PROVE  IF clock % 8 = 0 THEN read = Angle(written[2])
                    ELSE read \in (Angle(written[2]) - 1)..Angle(written[2])
  BY DEF AngleReadBack
<1> DEFINE a == Angle(written[2])
           us == map(a, 0, 180, SERVO_MIN, SERVO_MAX)
           R == readMicroseconds
<1>1. a \in 0..180
  BY AngleIs DEF AnglesIInv
<1> HIDE DEF a
<1>2. /\ us \in SERVO_MIN..SERVO_MAX
      /\ map(us + 1, SERVO_MIN, SERVO_MAX, 0, 180) = a
      /\ map(us, SERVO_MIN, SERVO_MAX, 0, 180) \in (a - 1)..a
  BY <1>1, AnglePulse, AnglesTyped
<1>3. Asked(written) = Bounded(us)
  BY DEF Asked, a
<1> HIDE DEF us
<1>4. us \in Int /\ Bounded(us) = us
  <2>1. us \in Int
    BY <1>2, WithinLimits, AnglesTyped
  <2> QED BY <1>2, <2>1, BoundedIs, AnglesTyped
<1>5. R \in (us - 1)..us /\ (clock % 8 = 0 => R = us)
  BY <1>3, <1>4, PulseRead
<1>6. read = map(R + 1, SERVO_MIN, SERVO_MAX, 0, 180)
  BY DEF read
<1> HIDE DEF R
<1>7. CASE R = us
  <2>1. read = a
    BY <1>2, <1>6, <1>7
  <2> QED BY <2>1, <1>1, SMT DEF a
<1>8. CASE R # us
  <2>1. R + 1 = us /\ clock % 8 # 0
    BY <1>4, <1>5, <1>8, SMT
  <2>2. read \in (a - 1)..a
    BY <1>2, <1>6, <2>1
  <2> QED BY <2>1, <2>2 DEF a
<1> QED BY <1>7, <1>8

\* For all limits, values and clocks of the boards, a servo's pulse stays within the
\* limits it was attached with, and an angle that was written is read back, or a
\* degree less where the clock does not divide evenly (Servo.cpp 241-306).
THEOREM AnglesKept == AnglesSpec => []AnglesInv
<1>1. AnglesInit => AnglesIInv
  BY AnglesInitIInv
<1>2. AnglesIInv /\ [AnglesNext]_angleVars => AnglesIInv'
  BY AnglesStep
<1>3. AnglesIInv => AnglesInv
  BY AnglesTyped, PulsesInLimits, AnglesReadBack DEF AnglesInv
<1> QED BY <1>1, <1>2, <1>3, PTL DEF AnglesSpec

=============================================================================
