----------------------------- MODULE Calls_proofs ----------------------------
(***************************************************************************)
(* Theorems about calls of the run-time library that wait.                 *)
(*                                                                         *)
(* Adc: a call of analogRead() which no other call interrupts returns what *)
(* it was asked for, whatever interrupted calls have left behind in the    *)
(* converter, for any board, pins, references and voltages.  The invariant *)
(* follows such a call through its accesses, and says of all calls what it *)
(* relies on: a conversion is under way only while a call waits for it,    *)
(* and the result is locked only between the readings of its two bytes.    *)
(*                                                                         *)
(* BusyWait: a wait takes the time asked for, at each processor clock and  *)
(* for every width of the count.  The invariant adds up the calls a wait   *)
(* is made of, and counts four cycles for each turn a loop has yet to do.  *)
(*                                                                         *)
(* Pulse: a result is the length of a pulse that began and ended in the    *)
(* call, which returns in time.  The invariant says what the call knows at *)
(* each access of the pin and of its own lateness, and how far the clock   *)
(* of the pulse is from what is measured.                                  *)
(*                                                                         *)
(* Shift: what shiftIn() takes back from the register is the byte that     *)
(* shiftOut() sent.  The invariant says which bits of the byte have        *)
(* crossed the wires, where they are in the register and what they add to. *)
(***************************************************************************)
EXTENDS Adc, BusyWait, Pulse, Shift, SequenceTheorems, TLAPS

-----------------------------------------------------------------------------
(* Adc: readings *)

Results == [value : 0..3, reference : References]
Stages == {"ADCSRB", "ADMUX", "ADSC", "wait", "ADCL", "ADCH"}

RegistersOK ==
  /\ analog_reference \in References /\ volts \in [Channels -> Voltages]
  /\ MUX5 \in {0, 1} /\ ADMUX \in [channel : 0..7, reference : References]
  /\ ADSC \in Results \cup {Nothing} /\ ADC \in Results /\ locked \in BOOLEAN
  /\ ~is32U4 => MUX5 = 0

CallsOK ==
  /\ pc \in [Contexts -> Stages \cup {Idle}] /\ low \in [Contexts -> {0, 1}]
  /\ pin \in [Contexts -> Nat] /\ overlapped \in [Contexts -> BOOLEAN]
  /\ asked \in [Contexts -> Results \cup {Nothing}]
  /\ result \in [Contexts -> Results \cup {Nothing}]
  /\ \A c \in Contexts : pc[c] # Idle => pin[c] \in Pins /\ result[c] = Nothing
  /\ \A c \in Contexts : pc[c] = "ADCSRB" => is32U4

\* A conversion is under way only while a call waits for its end ...
ConversionAwaited == ADSC # Nothing => \E c \in Contexts : pc[c] = "wait"

\* ... and the result is locked only while a call is about to read its high byte.
LockReleased == locked => \E c \in Contexts : pc[c] = "ADCH"

\* A call under way that no other has interrupted, and that has interrupted none.
Undisturbed(c) == pc[c] # Idle /\ ~overlapped[c]

\* What such a call has done so far.
Progress(c) ==
  /\ \A d \in Contexts : d # c => pc[d] = Idle
  /\ pc[c] \in {"ADMUX", "ADSC"} => MUX5 = HighBit(ChannelOf(pin[c]))
  /\ pc[c] = "ADSC" =>
       ADMUX = [channel |-> LowBits(ChannelOf(pin[c])), reference |-> analog_reference]
  /\ pc[c] = "wait" => asked[c] = IF ADSC = Nothing THEN ADC ELSE ADSC
  /\ pc[c] \in {"ADCL", "ADCH"} => asked[c] = ADC
  /\ pc[c] = "ADCH" => low[c] = ADC.value % 2

Undistracted == \A c \in Contexts : Undisturbed(c) => Progress(c)

AdcIInv ==
  /\ RegistersOK /\ CallsOK /\ ConversionAwaited /\ LockReleased
  /\ Undistracted /\ ReadsWhatWasAsked

-----------------------------------------------------------------------------
(* Channels *)

\* A channel of the board's table, and the bits it is made of.
LEMMA TableBits ==
  ASSUME NEW k \in 0..11
  PROVE  /\ analogPinToChannel(k) \in 0..13
         /\ 8 * HighBit(analogPinToChannel(k)) + LowBits(analogPinToChannel(k)) = analogPinToChannel(k)
<1>1. CASE k \in 0..3
  BY <1>1 DEF analogPinToChannel, HighBit, LowBits
<1>2. CASE k \in 4..7
  BY <1>2 DEF analogPinToChannel, HighBit, LowBits
<1>3. CASE k \in 8..11
  BY <1>3 DEF analogPinToChannel, HighBit, LowBits
<1> QED
  BY <1>1, <1>2, <1>3

\* What analogRead() writes to the multiplexer selects the channel of its pin.
LEMMA ChannelsFit ==
  ASSUME NEW p \in Pins
  PROVE  /\ ChannelOf(p) \in Channels
         /\ HighBit(ChannelOf(p)) \in {0, 1} /\ LowBits(ChannelOf(p)) \in 0..7
         /\ 8 * HighBit(ChannelOf(p)) + LowBits(ChannelOf(p)) = ChannelOf(p)
         /\ ~is32U4 => HighBit(ChannelOf(p)) = 0
<1>1. ChannelOf(p) \in Channels
  BY DEF Channels
<1>2. ChannelOf(p) \in 0..13 /\ 8 * HighBit(ChannelOf(p)) + LowBits(ChannelOf(p)) = ChannelOf(p)
  <2>1. CASE is32U4
    <3> DEFINE k == IF p >= 18 THEN p - 18 ELSE p
    <3>1. k \in 0..11
      BY <2>1, AdcAssumption
    <3>2. ChannelOf(p) = analogPinToChannel(k)
      BY <2>1 DEF ChannelOf
    <3> HIDE DEF k
    <3> QED
      BY <3>1, <3>2, TableBits
  <2>2. CASE ~is32U4
    <3>1. ChannelOf(p) \in 0..7
      BY <2>2, AdcAssumption DEF ChannelOf
    <3> QED
      BY <3>1 DEF HighBit, LowBits
  <2> QED
    BY <2>1, <2>2
<1>3. HighBit(ChannelOf(p)) \in {0, 1} /\ LowBits(ChannelOf(p)) \in 0..7
  BY <1>2 DEF HighBit, LowBits
<1>4. ~is32U4 => HighBit(ChannelOf(p)) = 0
  BY AdcAssumption DEF ChannelOf, HighBit
<1> QED
  BY <1>1, <1>2, <1>3, <1>4

\* A conversion yields a value the registers hold.
LEMMA SignalFits ==
  ASSUME RegistersOK, NEW ch \in Int
  PROVE  Signal(ch) \in 0..3
<1>1. CASE ch \in Channels
  <2>1. volts[ch] \in Voltages
    BY <1>1 DEF RegistersOK
  <2> QED
    BY <1>1, <2>1, AdcAssumption DEF Signal
<1>2. CASE ch \notin Channels
  BY <1>2 DEF Signal
<1> QED
  BY <1>1, <1>2

\* A result is what nothing is not.
LEMMA NothingApart == Nothing \notin Results
  BY DEF Nothing, Results

\* A result is made of the bytes it is read in.
LEMMA BytesMakeResult ==
  ASSUME NEW r \in Results
  PROVE  [value |-> 2 * (r.value \div 2) + (r.value % 2), reference |-> r.reference] = r
<1>1. r = [value |-> r.value, reference |-> r.reference] /\ r.value \in 0..3
  BY DEF Results
<1>2. 2 * (r.value \div 2) + (r.value % 2) = r.value
  BY <1>1
<1> QED
  BY <1>1, <1>2

-----------------------------------------------------------------------------
(* The steps *)

LEMMA AdcStarts == Init => AdcIInv
<1> SUFFICES ASSUME Init PROVE AdcIInv
  OBVIOUS
<1>1. RegistersOK
  <2>1. [value |-> 0, reference |-> DEFAULT] \in Results
    BY AdcAssumption DEF Results
  <2>2. [channel |-> 0, reference |-> DEFAULT] \in [channel : 0..7, reference : References]
    BY AdcAssumption
  <2> QED
    BY <2>1, <2>2, AdcAssumption DEF Init, RegistersOK
<1>2. CallsOK
  BY DEF Init, CallsOK, Idle, Stages
<1>3. ConversionAwaited /\ LockReleased /\ Undistracted /\ ReadsWhatWasAsked
  BY DEF Init, ConversionAwaited, LockReleased, Undistracted, Undisturbed, ReadsWhatWasAsked
<1> QED
  BY <1>1, <1>2, <1>3 DEF AdcIInv

\* While a call is under way and its context runs, no other is undisturbed.
LEMMA OnlyOneUndisturbed ==
  ASSUME Undistracted, NEW c \in Contexts, pc[c] # Idle, NEW d \in Contexts, d # c
  PROVE  ~Undisturbed(d)
  BY DEF Undistracted, Progress

LEMMA ConvertKeeps ==
  ASSUME AdcIInv, Convert
  PROVE  AdcIInv'
<1> USE DEF AdcIInv
<1>1. RegistersOK' /\ CallsOK'
  <2>1. ADSC \in Results
    BY DEF Convert, RegistersOK
  <2> QED
    BY <2>1 DEF Convert, calls, RegistersOK, CallsOK
<1>2. ConversionAwaited' /\ LockReleased' /\ ReadsWhatWasAsked'
  BY DEF Convert, calls, ConversionAwaited, LockReleased, ReadsWhatWasAsked
<1>3. Undistracted'
  <2> SUFFICES ASSUME NEW c \in Contexts, Undisturbed(c)' PROVE Progress(c)'
    BY DEF Undistracted
  <2>1. Undisturbed(c) /\ Progress(c)
    BY DEF Convert, calls, Undisturbed, Undistracted
  <2>2. pc[c] = "wait"
    BY <2>1 DEF Convert, ConversionAwaited, Progress, Idle
  <2>3. ~locked
    BY <2>1, <2>2 DEF LockReleased, Progress, Idle
  <2>4. asked'[c] = ADC' /\ ADSC' = Nothing
    BY <2>1, <2>2, <2>3 DEF Convert, calls, Progress
  <2> QED
    BY <2>1, <2>2, <2>4 DEF Convert, calls, Progress
<1> QED
  BY <1>1, <1>2, <1>3

LEMMA VaryKeeps ==
  ASSUME AdcIInv, Vary
  PROVE  AdcIInv'
<1>1. volts' \in [Channels -> Voltages]
  BY DEF AdcIInv, Vary, RegistersOK
<1> QED
  BY <1>1 DEF AdcIInv, Vary, registers, calls, RegistersOK, CallsOK, ConversionAwaited,
    LockReleased, Undistracted, Undisturbed, Progress, ReadsWhatWasAsked

LEMMA ReferenceKeeps ==
  ASSUME AdcIInv, NEW mode \in References, analogReference(mode)
  PROVE  AdcIInv'
<1>1. \A c \in Contexts : pc[c] = Idle
  BY DEF analogReference, At, Runs, Contexts
<1> QED
  BY <1>1 DEF AdcIInv, analogReference, registers, calls, RegistersOK, CallsOK, ConversionAwaited,
    LockReleased, Undistracted, Undisturbed, ReadsWhatWasAsked

-----------------------------------------------------------------------------
(* The steps of a call *)

LEMMA CallKeeps ==
  ASSUME AdcIInv, NEW c \in Contexts, NEW p \in Pins, Call(c, p)
  PROVE  AdcIInv'
<1> USE DEF AdcIInv
<1>1. /\ pc[c] = Idle /\ pc' = [pc EXCEPT ![c] = IF is32U4 THEN "ADCSRB" ELSE "ADMUX"]
      /\ pin' = [pin EXCEPT ![c] = p] /\ result' = [result EXCEPT ![c] = Nothing]
      /\ c = "sketch" => pc["handler"] = Idle
  BY DEF Call, At, Goto, Runs
<1>2. p \in Nat
  BY AdcAssumption
<1>3. RegistersOK'
  BY DEF Call, registers, RegistersOK
<1>4. CallsOK'
  <2>1. pc' \in [Contexts -> Stages \cup {Idle}] /\ pin' \in [Contexts -> Nat]
    BY <1>1, <1>2 DEF CallsOK, Stages
  <2>2. overlapped' \in [Contexts -> BOOLEAN]
    BY DEF Call, CallsOK
  <2>3. result' \in [Contexts -> Results \cup {Nothing}]
    BY <1>1 DEF CallsOK
  <2>4. \A d \in Contexts : pc'[d] # Idle => pin'[d] \in Pins /\ result'[d] = Nothing
    BY <1>1 DEF CallsOK
  <2>5. \A d \in Contexts : pc'[d] = "ADCSRB" => is32U4
    BY <1>1 DEF CallsOK
  <2> QED
    BY <2>1, <2>2, <2>3, <2>4, <2>5 DEF Call, CallsOK
<1>5. ConversionAwaited' /\ LockReleased'
  <2>1. \A d \in Contexts : pc[d] # Idle => pc'[d] = pc[d]
    BY <1>1 DEF CallsOK
  <2> QED
    BY <2>1 DEF Call, registers, ConversionAwaited, LockReleased, Idle
<1>6. Undistracted'
  <2> SUFFICES ASSUME NEW d \in Contexts, Undisturbed(d)' PROVE Progress(d)'
    BY DEF Undistracted
  <2>1. d = c
    BY <1>1 DEF Call, Undisturbed, CallsOK
  <2>2. \A e \in Contexts : e # c => pc'[e] = Idle
    <3>1. overlapped'[c] = (c = "handler" /\ pc["sketch"] # Idle)
      BY DEF Call
    <3>2. c = "handler" => pc["sketch"] = Idle
      BY <2>1, <3>1 DEF Undisturbed
    <3>3. \A e \in Contexts : e # c => pc[e] = Idle
      BY <1>1, <3>2 DEF Contexts
    <3> QED
      BY <1>1, <3>3 DEF CallsOK
  <2>3. pc'[c] = (IF is32U4 THEN "ADCSRB" ELSE "ADMUX") /\ pin'[c] = p
    BY <1>1 DEF CallsOK
  <2>4. ~is32U4 => MUX5 = HighBit(ChannelOf(p))
    BY ChannelsFit DEF RegistersOK
  <2> QED
    BY <2>1, <2>2, <2>3, <2>4 DEF Call, registers, Progress
<1>7. ReadsWhatWasAsked'
  <2> SUFFICES ASSUME NEW d \in Contexts, result'[d] # Nothing, ~overlapped'[d]
               PROVE  result'[d] = asked'[d]
    BY DEF ReadsWhatWasAsked
  <2>1. d # c
    BY <1>1 DEF CallsOK
  <2>2. result[d] # Nothing /\ ~overlapped[d] /\ result'[d] = result[d]
    BY <1>1, <2>1 DEF Call, CallsOK
  <2> QED
    BY <2>2 DEF Call, ReadsWhatWasAsked
<1> QED
  BY <1>3, <1>4, <1>5, <1>6, <1>7

\* What every access of a call leaves alone.
Advances(c, from, to) ==
  /\ pc[c] = from /\ from # Idle /\ pc' = [pc EXCEPT ![c] = to]
  /\ UNCHANGED <<analog_reference, volts, pin, overlapped>>

\* An access changes the progress of no call but its own.
LEMMA AdvanceUndistracted ==
  ASSUME AdcIInv, NEW c \in Contexts, NEW from, NEW to, Advances(c, from, to),
         Undisturbed(c) /\ pc'[c] # Idle => Progress(c)'
  PROVE  Undistracted'
<1> SUFFICES ASSUME NEW d \in Contexts, Undisturbed(d)' PROVE Progress(d)'
  BY DEF Undistracted
<1>1. d = c
  <2>1. ASSUME d # c PROVE Undisturbed(d)
    BY <2>1 DEF Advances, Undisturbed, AdcIInv, CallsOK
  <2> QED
    BY <2>1, OnlyOneUndisturbed DEF Advances, AdcIInv
<1>2. Undisturbed(c) /\ pc'[c] # Idle
  BY <1>1 DEF Advances, Undisturbed
<1> QED
  BY <1>1, <1>2

\* Nor does it affect the types of the calls.
LEMMA AdvanceCallsOK ==
  ASSUME AdcIInv, NEW c \in Contexts, NEW from, NEW to, Advances(c, from, to),
         to \in (Stages \ {"ADCSRB"}) \cup {Idle},
         low' \in [Contexts -> {0, 1}],
         asked' \in [Contexts -> Results \cup {Nothing}],
         result' \in [Contexts -> Results \cup {Nothing}],
         \A d \in Contexts : pc'[d] # Idle => result'[d] = result[d]
  PROVE  CallsOK'
<1>1. pc' \in [Contexts -> Stages \cup {Idle}]
  BY DEF Advances, AdcIInv, CallsOK
<1>2. \A d \in Contexts : pc'[d] # Idle => pc[d] # Idle
  BY DEF Advances, AdcIInv, CallsOK
<1>3. \A d \in Contexts : pc'[d] = "ADCSRB" => pc[d] = "ADCSRB"
  BY DEF Advances, AdcIInv, CallsOK, Idle
<1> QED
  BY <1>1, <1>2, <1>3 DEF Advances, AdcIInv, CallsOK

LEMMA SelectHighKeeps ==
  ASSUME AdcIInv, NEW c \in Contexts, SelectHigh(c)
  PROVE  AdcIInv'
<1>1. Advances(c, "ADCSRB", "ADMUX")
  BY DEF SelectHigh, At, Goto, Advances, Idle
<1>2. pin[c] \in Pins /\ is32U4 /\ MUX5' = HighBit(ChannelOf(pin[c]))
  BY <1>1 DEF AdcIInv, CallsOK, SelectHigh, Advances
<1>3. RegistersOK'
  <2>1. MUX5' \in {0, 1}
    BY <1>2, ChannelsFit
  <2> QED
    BY <1>2, <2>1 DEF AdcIInv, SelectHigh, RegistersOK
<1>4. CallsOK'
  <2>1. UNCHANGED <<low, asked, result>> /\ "ADMUX" \in (Stages \ {"ADCSRB"}) \cup {Idle}
    BY DEF SelectHigh, Stages
  <2> QED
    BY <1>1, <2>1, AdvanceCallsOK DEF AdcIInv, CallsOK
<1>5. ConversionAwaited' /\ LockReleased'
  BY <1>1 DEF AdcIInv, CallsOK, Advances, SelectHigh, ConversionAwaited, LockReleased
<1>6. Undisturbed(c) => Progress(c)'
  <2> SUFFICES ASSUME Undisturbed(c) PROVE Progress(c)'
    OBVIOUS
  <2>1. \A d \in Contexts : d # c => pc'[d] = Idle
    BY <1>1 DEF AdcIInv, CallsOK, Undistracted, Progress, Advances
  <2>2. pc'[c] = "ADMUX" /\ pin' = pin
    BY <1>1 DEF AdcIInv, CallsOK, Advances
  <2> QED
    BY <1>2, <2>1, <2>2 DEF Progress
<1>7. Undistracted'
  BY <1>1, <1>6, AdvanceUndistracted
<1>8. ReadsWhatWasAsked'
  BY DEF AdcIInv, SelectHigh, ReadsWhatWasAsked
<1> QED
  BY <1>3, <1>4, <1>5, <1>7, <1>8 DEF AdcIInv

LEMMA SelectKeeps ==
  ASSUME AdcIInv, NEW c \in Contexts, Select(c)
  PROVE  AdcIInv'
<1>1. Advances(c, "ADMUX", "ADSC")
  BY DEF Select, At, Goto, Advances, Idle
<1>2. pin[c] \in Pins
  BY <1>1 DEF AdcIInv, CallsOK, Advances
<1>3. RegistersOK'
  <2>1. ADMUX' \in [channel : 0..7, reference : References]
    BY <1>2, ChannelsFit DEF AdcIInv, Select, RegistersOK
  <2> QED
    BY <2>1 DEF AdcIInv, Select, RegistersOK
<1>4. CallsOK'
  <2>1. UNCHANGED <<low, asked, result>> /\ "ADSC" \in (Stages \ {"ADCSRB"}) \cup {Idle}
    BY DEF Select, Stages
  <2> QED
    BY <1>1, <2>1, AdvanceCallsOK DEF AdcIInv, CallsOK
<1>5. ConversionAwaited' /\ LockReleased'
  BY <1>1 DEF AdcIInv, CallsOK, Advances, Select, ConversionAwaited, LockReleased
<1>6. Undisturbed(c) => Progress(c)'
  <2> SUFFICES ASSUME Undisturbed(c) PROVE Progress(c)'
    OBVIOUS
  <2>1. Progress(c)
    BY DEF AdcIInv, Undistracted
  <2>2. \A d \in Contexts : d # c => pc'[d] = Idle
    BY <1>1, <2>1 DEF AdcIInv, CallsOK, Progress, Advances
  <2>3. pc'[c] = "ADSC" /\ pin' = pin /\ analog_reference' = analog_reference
    BY <1>1 DEF AdcIInv, CallsOK, Advances
  <2>4. MUX5' = HighBit(ChannelOf(pin[c]))
    BY <1>1, <2>1 DEF Progress, Advances, Select
  <2> QED
    BY <2>2, <2>3, <2>4 DEF Progress, Select
<1>7. Undistracted'
  BY <1>1, <1>6, AdvanceUndistracted
<1>8. ReadsWhatWasAsked'
  BY DEF AdcIInv, Select, ReadsWhatWasAsked
<1> QED
  BY <1>3, <1>4, <1>5, <1>7, <1>8 DEF AdcIInv

LEMMA StartKeeps ==
  ASSUME AdcIInv, NEW c \in Contexts, Start(c)
  PROVE  AdcIInv'
<1>1. Advances(c, "ADSC", "wait")
  BY DEF Start, At, Goto, Advances, Idle
<1>2. pin[c] \in Pins
  BY <1>1 DEF AdcIInv, CallsOK, Advances
<1> DEFINE taken == [value |-> Signal(Selected), reference |-> ADMUX.reference]
           wanted == [value |-> volts[ChannelOf(pin[c])], reference |-> analog_reference]
<1>3. taken \in Results /\ wanted \in Results
  <2>1. Selected \in Int /\ ADMUX.reference \in References /\ analog_reference \in References
    BY DEF AdcIInv, RegistersOK, Selected
  <2>2. volts[ChannelOf(pin[c])] \in 0..3
    BY <1>2, ChannelsFit, AdcAssumption DEF AdcIInv, RegistersOK
  <2>3. Signal(Selected) \in 0..3
    BY <2>1, SignalFits DEF AdcIInv
  <2> QED
    BY <2>1, <2>2, <2>3 DEF Results
<1>4. ADSC' = (IF ADSC # Nothing THEN ADSC ELSE taken) /\ asked' = [asked EXCEPT ![c] = wanted]
  BY DEF Start
<1> HIDE DEF wanted
<1>5. RegistersOK'
  <2> HIDE DEF taken
  <2> QED
    BY <1>3, <1>4 DEF AdcIInv, Start, RegistersOK
<1>6. CallsOK'
  <2>1. asked' \in [Contexts -> Results \cup {Nothing}]
    BY <1>3, <1>4 DEF AdcIInv, CallsOK
  <2>2. UNCHANGED <<low, result>> /\ "wait" \in (Stages \ {"ADCSRB"}) \cup {Idle}
    BY DEF Start, Stages
  <2> QED
    BY <1>1, <2>1, <2>2, AdvanceCallsOK DEF AdcIInv, CallsOK
<1>7. ConversionAwaited' /\ LockReleased'
  BY <1>1 DEF AdcIInv, CallsOK, Advances, Start, ConversionAwaited, LockReleased
<1>8. Undisturbed(c) => Progress(c)'
  <2> SUFFICES ASSUME Undisturbed(c) PROVE Progress(c)'
    OBVIOUS
  <2>1. Progress(c)
    BY DEF AdcIInv, Undistracted
  <2>2. \A d \in Contexts : d # c => pc'[d] = Idle
    BY <1>1, <2>1 DEF AdcIInv, CallsOK, Progress, Advances
  <2>3. pc'[c] = "wait"
    BY <1>1 DEF AdcIInv, CallsOK, Advances
  <2>4. ADSC = Nothing
    BY <1>1, <2>1 DEF AdcIInv, ConversionAwaited, Progress, Advances, Idle
  <2>5. taken = wanted
    <3>1. Selected = ChannelOf(pin[c])
      BY <1>1, <1>2, <2>1, ChannelsFit DEF Progress, Advances, Selected
    <3>2. ADMUX.reference = analog_reference
      BY <1>1, <2>1 DEF Progress, Advances
    <3> QED
      BY <1>2, <3>1, <3>2, ChannelsFit DEF Signal, wanted
  <2>6. ADSC' = wanted /\ asked'[c] = wanted
    BY <1>4, <2>4, <2>5 DEF AdcIInv, CallsOK
  <2>7. ADSC' # Nothing
    BY <1>3, <2>6, NothingApart
  <2>8. asked'[c] = IF ADSC' = Nothing THEN ADC' ELSE ADSC'
    BY <2>6, <2>7
  <2>9. Nothing' = Nothing
    BY DEF Nothing
  <2> QED
    BY <2>2, <2>3, <2>8, <2>9 DEF Progress
<1>9. Undistracted'
  BY <1>1, <1>8, AdvanceUndistracted
<1>10. ReadsWhatWasAsked'
  <2> SUFFICES ASSUME NEW d \in Contexts, result[d] # Nothing, ~overlapped[d]
               PROVE  result[d] = asked'[d]
    BY DEF Start, ReadsWhatWasAsked
  <2>1. d # c
    BY <1>1 DEF AdcIInv, CallsOK, Advances
  <2> QED
    BY <1>4, <2>1 DEF AdcIInv, CallsOK, ReadsWhatWasAsked
<1> QED
  BY <1>5, <1>6, <1>7, <1>9, <1>10 DEF AdcIInv

LEMMA WaitKeeps ==
  ASSUME AdcIInv, NEW c \in Contexts, Wait(c)
  PROVE  AdcIInv'
<1>1. Advances(c, "wait", "ADCL") /\ ADSC = Nothing
  BY DEF Wait, registers, At, Goto, Advances, Idle
<1>2. RegistersOK'
  BY DEF AdcIInv, Wait, registers, RegistersOK
<1>3. CallsOK'
  <2>1. UNCHANGED <<low, asked, result>> /\ "ADCL" \in (Stages \ {"ADCSRB"}) \cup {Idle}
    BY DEF Wait, Stages
  <2> QED
    BY <1>1, <2>1, AdvanceCallsOK DEF AdcIInv, CallsOK
<1>4. ConversionAwaited' /\ LockReleased'
  BY <1>1 DEF AdcIInv, CallsOK, Advances, Wait, registers, ConversionAwaited, LockReleased
<1>5. Undisturbed(c) => Progress(c)'
  <2> SUFFICES ASSUME Undisturbed(c) PROVE Progress(c)'
    OBVIOUS
  <2>1. Progress(c)
    BY DEF AdcIInv, Undistracted
  <2>2. \A d \in Contexts : d # c => pc'[d] = Idle
    BY <1>1, <2>1 DEF AdcIInv, CallsOK, Progress, Advances
  <2>3. pc'[c] = "ADCL"
    BY <1>1 DEF AdcIInv, CallsOK, Advances
  <2>4. asked'[c] = ADC'
    BY <1>1, <2>1 DEF Progress, Advances, Wait, registers
  <2> QED
    BY <2>2, <2>3, <2>4 DEF Progress
<1>6. Undistracted'
  BY <1>1, <1>5, AdvanceUndistracted
<1>7. ReadsWhatWasAsked'
  BY DEF AdcIInv, Wait, ReadsWhatWasAsked
<1> QED
  BY <1>2, <1>3, <1>4, <1>6, <1>7 DEF AdcIInv

LEMMA ReadLowKeeps ==
  ASSUME AdcIInv, NEW c \in Contexts, ReadLow(c)
  PROVE  AdcIInv'
<1>1. Advances(c, "ADCL", "ADCH") /\ low' = [low EXCEPT ![c] = ADC.value % 2]
  BY DEF ReadLow, At, Goto, Advances, Idle
<1>2. RegistersOK'
  BY DEF AdcIInv, ReadLow, RegistersOK
<1>3. CallsOK'
  <2>1. UNCHANGED <<asked, result>> /\ "ADCH" \in (Stages \ {"ADCSRB"}) \cup {Idle}
    BY DEF ReadLow, Stages
  <2>2. ADC.value % 2 \in {0, 1}
    BY DEF AdcIInv, RegistersOK, Results
  <2>3. low' \in [Contexts -> {0, 1}]
    BY <1>1, <2>2 DEF AdcIInv, CallsOK
  <2> QED
    BY <1>1, <2>1, <2>3, AdvanceCallsOK DEF AdcIInv, CallsOK
<1>4. ConversionAwaited' /\ LockReleased'
  <2>1. pc'[c] = "ADCH"
    BY <1>1 DEF AdcIInv, CallsOK, Advances
  <2>2. \A d \in Contexts : pc[d] = "wait" => pc'[d] = "wait"
    BY <1>1 DEF AdcIInv, CallsOK, Advances
  <2> QED
    BY <2>1, <2>2 DEF AdcIInv, ReadLow, ConversionAwaited, LockReleased
<1>5. Undisturbed(c) => Progress(c)'
  <2> SUFFICES ASSUME Undisturbed(c) PROVE Progress(c)'
    OBVIOUS
  <2>1. Progress(c)
    BY DEF AdcIInv, Undistracted
  <2>2. \A d \in Contexts : d # c => pc'[d] = Idle
    BY <1>1, <2>1 DEF AdcIInv, CallsOK, Progress, Advances
  <2>3. pc'[c] = "ADCH"
    BY <1>1 DEF AdcIInv, CallsOK, Advances
  <2>4. asked'[c] = ADC'
    BY <1>1, <2>1 DEF Progress, Advances, ReadLow
  <2>5. low'[c] = ADC'.value % 2
    BY <1>1 DEF AdcIInv, CallsOK, ReadLow
  <2> QED
    BY <2>2, <2>3, <2>4, <2>5 DEF Progress
<1>6. Undistracted'
  BY <1>1, <1>5, AdvanceUndistracted
<1>7. ReadsWhatWasAsked'
  BY DEF AdcIInv, ReadLow, ReadsWhatWasAsked
<1> QED
  BY <1>2, <1>3, <1>4, <1>6, <1>7 DEF AdcIInv

LEMMA ReadHighKeeps ==
  ASSUME AdcIInv, NEW c \in Contexts, ReadHigh(c)
  PROVE  AdcIInv'
<1> DEFINE read == [value |-> 2 * (ADC.value \div 2) + low[c], reference |-> ADC.reference]
<1>1. Advances(c, "ADCH", Idle) /\ result' = [result EXCEPT ![c] = read]
  BY DEF ReadHigh, At, Goto, Advances, Idle
<1>2. read \in Results
  <2>1. ADC.value \in 0..3 /\ ADC.reference \in References /\ low[c] \in {0, 1}
    BY DEF AdcIInv, RegistersOK, CallsOK, Results
  <2>2. 2 * (ADC.value \div 2) + low[c] \in 0..3
    BY <2>1
  <2> QED
    BY <2>1, <2>2 DEF Results
<1>3. Undisturbed(c) => read = asked[c]
  <2> SUFFICES ASSUME Undisturbed(c) PROVE read = asked[c]
    OBVIOUS
  <2>1. Progress(c)
    BY DEF AdcIInv, Undistracted
  <2>2. asked[c] = ADC /\ low[c] = ADC.value % 2
    BY <1>1, <2>1 DEF Progress, Advances
  <2>3. ADC \in Results
    BY DEF AdcIInv, RegistersOK
  <2> QED
    BY <2>2, <2>3, BytesMakeResult
<1> HIDE DEF read
<1>4. RegistersOK'
  BY DEF AdcIInv, ReadHigh, RegistersOK
<1>5. CallsOK'
  <2>1. UNCHANGED <<low, asked>>
    BY DEF ReadHigh
  <2>2. result' \in [Contexts -> Results \cup {Nothing}]
    BY <1>1, <1>2 DEF AdcIInv, CallsOK
  <2>3. \A d \in Contexts : pc'[d] # Idle => result'[d] = result[d]
    BY <1>1 DEF AdcIInv, CallsOK, Advances
  <2> QED
    BY <1>1, <2>1, <2>2, <2>3, AdvanceCallsOK DEF AdcIInv, CallsOK
<1>6. ConversionAwaited' /\ LockReleased'
  <2>1. \A d \in Contexts : pc[d] = "wait" => pc'[d] = "wait"
    BY <1>1 DEF AdcIInv, CallsOK, Advances
  <2> QED
    BY <2>1 DEF AdcIInv, ReadHigh, ConversionAwaited, LockReleased
<1>7. Undistracted'
  <2>1. pc'[c] = Idle
    BY <1>1 DEF AdcIInv, CallsOK, Advances
  <2> QED
    BY <1>1, <2>1, AdvanceUndistracted
<1>8. ReadsWhatWasAsked'
  <2> SUFFICES ASSUME NEW d \in Contexts, result'[d] # Nothing, ~overlapped'[d]
               PROVE  result'[d] = asked'[d]
    BY DEF ReadsWhatWasAsked
  <2>1. asked' = asked /\ overlapped' = overlapped
    BY DEF ReadHigh
  <2>2. CASE d = c
    <3>1. Undisturbed(c)
      BY <1>1, <2>1, <2>2 DEF Advances, Undisturbed
    <3> QED
      BY <1>1, <1>3, <2>1, <2>2, <3>1 DEF AdcIInv, CallsOK
  <2>3. CASE d # c
    BY <1>1, <2>1, <2>3 DEF AdcIInv, CallsOK, ReadsWhatWasAsked
  <2> QED
    BY <2>2, <2>3
<1> QED
  BY <1>4, <1>5, <1>6, <1>7, <1>8 DEF AdcIInv

-----------------------------------------------------------------------------
(* The theorem *)

LEMMA AdcKeeps == AdcIInv /\ [Next]_vars => AdcIInv'
<1> SUFFICES ASSUME AdcIInv, [Next]_vars PROVE AdcIInv'
  OBVIOUS
<1>1. CASE Convert
  BY <1>1, ConvertKeeps
<1>2. CASE Vary
  BY <1>2, VaryKeeps
<1>3. ASSUME NEW c \in Contexts, analogRead(c) PROVE AdcIInv'
  BY <1>3, SelectHighKeeps, SelectKeeps, StartKeeps, WaitKeeps, ReadLowKeeps, ReadHighKeeps
  DEF analogRead
<1>4. ASSUME NEW c \in Contexts, NEW p \in Pins, Call(c, p) PROVE AdcIInv'
  BY <1>4, CallKeeps
<1>5. ASSUME NEW r \in References, analogReference(r) PROVE AdcIInv'
  BY <1>5, ReferenceKeeps
<1>6. CASE UNCHANGED vars
  BY <1>6 DEF vars, registers, calls, AdcIInv, RegistersOK, CallsOK, ConversionAwaited,
    LockReleased, Undistracted, Undisturbed, Progress, ReadsWhatWasAsked
<1> QED
  BY <1>1, <1>2, <1>3, <1>4, <1>5, <1>6 DEF Next

\* A call of analogRead() that no other interrupts returns the signal of its pin by
\* the reference set last, on every board and of every pin, whatever earlier calls
\* that interrupted each other have left in the converter (wiring_analog.c 34-103).
THEOREM ReadingsKept == Spec => []AdcInv
<1>1. AdcIInv => AdcInv
  <2> SUFFICES ASSUME AdcIInv PROVE AdcInv
    OBVIOUS
  <2>1. ADC.value \in 0..3 /\ ADSC.value \in -1..3
    BY DEF AdcIInv, RegistersOK, Results, Nothing
  <2>2. AdcTypeOK
    BY <2>1 DEF AdcIInv, RegistersOK, CallsOK, Stages, AdcTypeOK
  <2> QED
    BY <2>2 DEF AdcIInv, AdcInv
<1> QED
  BY <1>1, AdcStarts, AdcKeeps, PTL DEF Spec

-----------------------------------------------------------------------------
(* BusyWait: delays of microseconds *)

\* n calls with the argument a have taken c cycles: those asked for, but for the slack of
\* each, or those of one early return.
Took(n, a, c) ==
  InRange(f, a) =>
    /\ c >= (n * a) * f - n * Slack
    /\ c <= (n * a) * f + n * Slack \/ (n = 1 /\ c <= Returned[f])

\* A wait is made of calls with one argument, that of delay2()'s if there may be several.
Arguments ==
  {a \in 0..(Word - 1) : waitAsked = (waitCalls + ms) * a /\ (waitCalls + ms > 1 => a >= 3)}

\* What the calls of a wait have taken so far.  While the loop runs, its count stands for
\* four cycles a turn, but for the last.
WaitProgress(a) ==
  /\ waitPc = "call" =>
       us = a /\ waitCalls > 0 /\ Took(waitCalls - 1, a, cycles) /\ (waitCalls = 1 => cycles = 0)
  /\ waitPc = "loop" =>
       /\ waitCalls > 0 /\ Took(waitCalls, a, cycles + 4 * us - 1)
       /\ InRange(f, a) => us > 0
  /\ waitPc = "return" => Took(waitCalls, a, cycles) /\ (ms > 0 => a = Milli)
  /\ ms > 0 => a = Milli

WaitIInv ==
  /\ BusyWaitTypeOK /\ waitCalls + ms <= MaxMs
  /\ waitPc = "sketch" => ms = 0 /\ cycles = 0 /\ waitAsked = 0 /\ waitCalls = 0
  /\ waitPc # "sketch" => waitCalls + ms > 0 /\ \E a \in Arguments : WaitProgress(a)
  /\ waitPc = "return" /\ waitCalls = 0 => cycles = 0

-----------------------------------------------------------------------------

\* One more of some things of the same size.
LEMMA OneMore ==
  ASSUME NEW n \in Nat, NEW a \in Nat
  PROVE  (n + 1) * a = n * a + a /\ n * a \in Nat
  OBVIOUS

LEMMA SmallRemainder ==
  ASSUME NEW m \in Nat, NEW k \in 0..(m - 1)
  PROVE  k % m = k
  OBVIOUS

LEMMA RemainderFits ==
  ASSUME NEW m \in Nat \ {0}, NEW k \in Int
  PROVE  k % m \in 0..(m - 1)
  OBVIOUS

LEMMA FactorFound ==
  ASSUME NEW n \in Nat \ {0}, NEW a \in Nat
  PROVE  (n * a) \div n = a
  OBVIOUS

\* A count in range is that of the time asked for, less the cycles around the loop.
LEMMA TurnsExact ==
  ASSUME NEW fr \in Clocks, NEW n \in 0..(Word - 1)
  PROVE  /\ n > Early[fr] => Turns(fr, n) \in 0..(Word - 1)
         /\ n > Early[fr] /\ InRange(fr, n) =>
              /\ Turns(fr, n) > 0
              /\ Burned[fr] + 4 * Turns(fr, n) - 1 >= n * fr - IF fr = 1 THEN 11 ELSE 3
              /\ Burned[fr] + 4 * Turns(fr, n) - 1 <= n * fr + IF fr = 1 THEN 11 ELSE 3
<1>0. Word \in Nat /\ Word > 0
  BY BusyWaitAssumption
<1>1. CASE fr = 1
  <2>1. Early[fr] = 25 /\ Burned[fr] = 22 /\ Turns(fr, n) = (n - 22) \div 4
    BY <1>1 DEF Early, Burned, Turns, Clocks
  <2> QED
    BY <1>0, <1>1, <2>1
<1>2. CASE fr = 8
  <2>1. Early[fr] = 2 /\ Burned[fr] = 17 /\ Turns(fr, n) = (2 * n - 4) % Word
    BY <1>2 DEF Early, Burned, Turns, Clocks
  <2>2. InRange(fr, n) => 2 * n < Word
    BY <1>2 DEF InRange
  <2>3. Turns(fr, n) \in 0..(Word - 1)
    BY <1>0, <2>1, RemainderFits
  <2>4. n > 2 /\ 2 * n < Word => Turns(fr, n) = 2 * n - 4
    BY <1>0, <2>1, SmallRemainder
  <2> QED
    BY <1>0, <1>2, <2>1, <2>2, <2>3, <2>4
<1>3. CASE fr = 12
  <2>1. Early[fr] = 1 /\ Burned[fr] = 20 /\ Turns(fr, n) = (3 * n - 5) % Word
    BY <1>3 DEF Early, Burned, Turns, Clocks
  <2>2. InRange(fr, n) => 3 * n < Word
    BY <1>3 DEF InRange
  <2>3. Turns(fr, n) \in 0..(Word - 1)
    BY <1>0, <2>1, RemainderFits
  <2>4. n > 1 /\ 3 * n < Word => Turns(fr, n) = 3 * n - 5
    BY <1>0, <2>1, SmallRemainder
  <2> QED
    BY <1>0, <1>3, <2>1, <2>2, <2>3, <2>4
<1>4. CASE fr = 16
  <2>1. Early[fr] = 1 /\ Burned[fr] = 19 /\ Turns(fr, n) = (4 * n - 5) % Word
    BY <1>4 DEF Early, Burned, Turns, Clocks
  <2>2. InRange(fr, n) => 4 * n < Word
    BY <1>4 DEF InRange
  <2>3. Turns(fr, n) \in 0..(Word - 1)
    BY <1>0, <2>1, RemainderFits
  <2>4. n > 1 /\ 4 * n < Word => Turns(fr, n) = 4 * n - 5
    BY <1>0, <2>1, SmallRemainder
  <2> QED
    BY <1>0, <1>4, <2>1, <2>2, <2>3, <2>4
<1>5. CASE fr = 20
  <2>1. Early[fr] = 1 /\ Burned[fr] = 26 /\ Turns(fr, n) = (5 * n - 7) % Word
    BY <1>5 DEF Early, Burned, Turns, Clocks
  <2>2. InRange(fr, n) => 5 * n < Word
    BY <1>5 DEF InRange
  <2>3. Turns(fr, n) \in 0..(Word - 1)
    BY <1>0, <2>1, RemainderFits
  <2>4. n > 1 /\ 5 * n < Word => Turns(fr, n) = 5 * n - 7
    BY <1>0, <2>1, SmallRemainder
  <2> QED
    BY <1>0, <1>5, <2>1, <2>2, <2>3, <2>4
<1>6. CASE fr = 24
  <2>1. Early[fr] = 0 /\ Burned[fr] = 22 /\ Turns(fr, n) = (6 * n - 5) % Word
    BY <1>6 DEF Early, Burned, Turns, Clocks
  <2>2. InRange(fr, n) => 6 * n < Word
    BY <1>6 DEF InRange
  <2>3. Turns(fr, n) \in 0..(Word - 1)
    BY <1>0, <2>1, RemainderFits
  <2>4. n > 0 /\ 6 * n < Word => Turns(fr, n) = 6 * n - 5
    BY <1>0, <2>1, SmallRemainder
  <2> QED
    BY <1>0, <1>6, <2>1, <2>2, <2>3, <2>4
<1> QED
  BY <1>1, <1>2, <1>3, <1>4, <1>5, <1>6 DEF Clocks

\* A call that returns early is not short, and not long unless next to nothing was asked for.
LEMMA EarlyExact ==
  ASSUME NEW fr \in Clocks, NEW n \in Nat
  PROVE  /\ Returned[fr] \in Nat /\ Burned[fr] \in Nat /\ Early[fr] \in Nat
         /\ n <= Early[fr] => Returned[fr] >= n * fr - IF fr = 1 THEN 11 ELSE 3
         /\ n >= 3 => Returned[fr] <= n * fr + IF fr = 1 THEN 11 ELSE 3
<1>1. CASE fr = 1
  <2>1. Early[fr] = 25 /\ Returned[fr] = 14 /\ Burned[fr] = 22
    BY <1>1 DEF Early, Burned, Returned, Clocks
  <2> QED
    BY <1>1, <2>1
<1>2. CASE fr = 8
  <2>1. Early[fr] = 2 /\ Returned[fr] = 14 /\ Burned[fr] = 17
    BY <1>2 DEF Early, Burned, Returned, Clocks
  <2> QED
    BY <1>2, <2>1
<1>3. CASE fr = 12
  <2>1. Early[fr] = 1 /\ Returned[fr] = 14 /\ Burned[fr] = 20
    BY <1>3 DEF Early, Burned, Returned, Clocks
  <2> QED
    BY <1>3, <2>1
<1>4. CASE fr = 16
  <2>1. Early[fr] = 1 /\ Returned[fr] = 14 /\ Burned[fr] = 19
    BY <1>4 DEF Early, Burned, Returned, Clocks
  <2> QED
    BY <1>4, <2>1
<1>5. CASE fr = 20
  <2>1. Early[fr] = 1 /\ Returned[fr] = 18 /\ Burned[fr] = 26
    BY <1>5 DEF Early, Burned, Returned, Clocks
  <2> QED
    BY <1>5, <2>1
<1>6. CASE fr = 24
  <2>1. Early[fr] = 0 /\ Returned[fr] = 14 /\ Burned[fr] = 22
    BY <1>6 DEF Early, Burned, Returned, Clocks
  <2> QED
    BY <1>6, <2>1
<1> QED
  BY <1>1, <1>2, <1>3, <1>4, <1>5, <1>6 DEF Clocks

\* The calls of a wait add up.
LEMMA OneCallMore ==
  ASSUME f \in Clocks, NEW n \in Nat, NEW a \in Nat, NEW c \in Int, NEW k \in Int,
         Took(n, a, c), n = 0 => c = 0, n > 0 => a >= 3,
         InRange(f, a) => /\ k >= a * f - Slack
                          /\ k <= a * f + Slack \/ (n = 0 /\ k <= Returned[f])
  PROVE  Took(n + 1, a, c + k)
<1> SUFFICES ASSUME InRange(f, a)
             PROVE  /\ c + k >= ((n + 1) * a) * f - (n + 1) * Slack
                    /\ \/ c + k <= ((n + 1) * a) * f + (n + 1) * Slack
                       \/ n + 1 = 1 /\ c + k <= Returned[f]
  BY DEF Took
<1> DEFINE p == n * a
<1>1. p \in Nat /\ (n + 1) * a = p + a
  BY OneMore
<1>2. /\ c >= p * f - n * Slack
      /\ c <= p * f + n * Slack \/ (n = 1 /\ c <= Returned[f])
  BY DEF Took
<1>3. /\ k >= a * f - Slack
      /\ k <= a * f + Slack \/ (n = 0 /\ k <= Returned[f])
  OBVIOUS
<1>4. Returned[f] \in Nat /\ (a >= 3 => Returned[f] <= a * f + Slack)
  BY EarlyExact DEF Slack
<1>5. n = 1 => p = a
  OBVIOUS
<1>6. Slack \in {3, 11} /\ f \in {1, 8, 12, 16, 20, 24}
  BY DEF Slack, Clocks
<1> HIDE DEF p
<1> DEFINE A == a * f
           B == p * f
           S == n * Slack
<1>7. A \in Nat /\ B \in Nat /\ S \in Nat /\ (p + a) * f = B + A /\ (n + 1) * Slack = S + Slack
  BY <1>1, <1>6
<1>8. /\ c >= B - S /\ (c <= B + S \/ (n = 1 /\ c <= Returned[f]))
      /\ k >= A - Slack /\ (k <= A + Slack \/ (n = 0 /\ k <= Returned[f]))
      /\ (a >= 3 => Returned[f] <= A + Slack)
      /\ (n = 1 => B = A /\ S = Slack)
  BY <1>2, <1>3, <1>4, <1>5, <1>6
<1> HIDE DEF A, B, S
<1>9. c + k >= (B + A) - (S + Slack)
  BY <1>6, <1>7, <1>8
<1>10. c + k <= (B + A) + (S + Slack) \/ (n + 1 = 1 /\ c + k <= Returned[f])
  BY <1>4, <1>6, <1>7, <1>8
<1> QED
  BY <1>1, <1>7, <1>9, <1>10

-----------------------------------------------------------------------------

LEMMA BusyWaitStarts == WaitInit => WaitIInv
  BY BusyWaitAssumption DEF WaitInit, WaitIInv, BusyWaitTypeOK, Clocks

\* A wait goes on with the argument it has.
LEMMA GoesOn ==
  ASSUME WaitIInv, NEW a \in Arguments, UNCHANGED <<f, waitAsked>>,
         BusyWaitTypeOK', waitPc' # "sketch", waitCalls' + ms' = waitCalls + ms,
         waitCalls' + ms' > 0, WaitProgress(a)', waitPc' = "return" => waitCalls' > 0
  PROVE  WaitIInv'
<1>1. Arguments' = Arguments
  BY DEF Arguments
<1>2. WaitIInv => waitCalls + ms <= MaxMs
  BY DEF WaitIInv
<1>3. waitCalls \in Nat /\ ms \in Nat /\ waitCalls' \in Nat /\ ms' \in Nat
  BY BusyWaitAssumption DEF WaitIInv, BusyWaitTypeOK
<1>4. \E b \in Arguments' : WaitProgress(b)'
  BY <1>1
<1>5. (waitCalls + ms <= MaxMs)' /\ (waitCalls + ms > 0)'
  BY <1>2, <1>3
<1>6. (waitPc = "return" /\ waitCalls = 0 => cycles = 0)'
  BY <1>3
<1> QED
  BY <1>4, <1>5, <1>6 DEF WaitIInv

LEMMA DelayMicrosecondsKeeps ==
  ASSUME WaitIInv, DelayMicroseconds
  PROVE  WaitIInv'
<1>1. PICK n \in 0..(Word - 1) :
        /\ us' = n /\ waitAsked' = n /\ waitPc = "sketch" /\ waitPc' = "call" /\ waitCalls' = 1
        /\ UNCHANGED <<f, ms, cycles>>
  BY DEF DelayMicroseconds
<1>2. ms = 0 /\ cycles = 0 /\ f \in Clocks /\ Word \in Nat /\ MaxMs \in 1..(Word - 1)
  BY <1>1, BusyWaitAssumption DEF WaitIInv, BusyWaitTypeOK
<1>3. BusyWaitTypeOK' /\ waitCalls' + ms' = 1
  BY <1>1, <1>2 DEF BusyWaitTypeOK
<1>4. n \in Arguments'
  BY <1>1, <1>2 DEF Arguments
<1>5. Took(0, n, 0)
  BY <1>2 DEF Took, Slack, Clocks
<1>6. WaitProgress(n)'
  BY <1>1, <1>2, <1>5 DEF WaitProgress, Took, Slack
<1> QED
  BY <1>1, <1>2, <1>3, <1>4, <1>6 DEF WaitIInv

LEMMA Delay2Keeps ==
  ASSUME WaitIInv, Delay2
  PROVE  WaitIInv'
<1>1. PICK n \in 1..MaxMs :
        /\ ms' = n /\ waitAsked' = n * Milli /\ waitPc = "sketch" /\ waitPc' = "return"
        /\ UNCHANGED <<f, us, cycles, waitCalls>>
  BY DEF Delay2
<1>2. /\ cycles = 0 /\ waitCalls = 0 /\ f \in Clocks /\ us \in 0..(Word - 1)
      /\ Word \in Nat /\ Milli \in 3..(Word - 1) /\ MaxMs \in 1..(Word - 1)
  BY <1>1, BusyWaitAssumption DEF WaitIInv, BusyWaitTypeOK
<1>3. BusyWaitTypeOK' /\ waitCalls' + ms' = n
  BY <1>1, <1>2 DEF BusyWaitTypeOK
<1>4. Milli \in Arguments'
  BY <1>1, <1>2 DEF Arguments
<1>5. Took(0, Milli, 0)
  BY <1>2 DEF Took, Slack, Clocks
<1>6. WaitProgress(Milli)'
  BY <1>1, <1>2, <1>5 DEF WaitProgress, Took, Slack
<1> QED
  BY <1>1, <1>2, <1>3, <1>4, <1>6 DEF WaitIInv

\* What a wait under way is known by.
LEMMA UnderWay ==
  ASSUME WaitIInv, waitPc # "sketch"
  PROVE  /\ \E a \in Arguments : WaitProgress(a)
         /\ f \in Clocks /\ us \in 0..(Word - 1) /\ us \in Nat /\ ms \in 0..MaxMs /\ ms \in Nat
         /\ cycles \in Nat /\ waitCalls \in Nat
         /\ Word \in Nat /\ Milli \in 3..(Word - 1) /\ MaxMs \in Nat /\ waitCalls + ms <= MaxMs
         /\ waitPc = "return" /\ waitCalls = 0 => cycles = 0
  BY BusyWaitAssumption DEF WaitIInv, BusyWaitTypeOK

LEMMA ArgumentsFit ==
  ASSUME NEW a \in Arguments
  PROVE  /\ a \in 0..(Word - 1) /\ a \in Nat /\ waitAsked = (waitCalls + ms) * a
         /\ waitCalls + ms > 1 => a >= 3
  BY BusyWaitAssumption DEF Arguments

LEMMA Delay2AgainKeeps ==
  ASSUME WaitIInv, Delay2Again
  PROVE  WaitIInv'
<1>1. /\ waitPc = "return" /\ ms > 0 /\ waitPc' = "call" /\ us' = Milli /\ ms' = ms - 1
      /\ waitCalls' = waitCalls + 1 /\ UNCHANGED <<f, cycles, waitAsked>>
  BY DEF Delay2Again
<1>2. PICK a \in Arguments : WaitProgress(a)
  BY <1>1, UnderWay
<1>3. a = Milli /\ Took(waitCalls, a, cycles)
  BY <1>1, <1>2 DEF WaitProgress
<1>4. BusyWaitTypeOK' /\ waitCalls' + ms' = waitCalls + ms /\ waitCalls' > 0 /\ ms' \in Nat
  BY <1>1, UnderWay DEF BusyWaitTypeOK
<1>5. Took(waitCalls, a, cycles)'
      <=> Took(waitCalls', a, cycles)
  BY <1>1 DEF Took, Slack
<1>6. waitCalls' - 1 = waitCalls /\ (waitCalls' = 1 => cycles = 0)
  BY <1>1, UnderWay
<1>7. WaitProgress(a)'
  BY <1>1, <1>3, <1>4, <1>6 DEF WaitProgress, Took, Slack
<1> QED
  BY <1>1, <1>4, <1>7, GoesOn

LEMMA ReturnEarlyKeeps ==
  ASSUME WaitIInv, ReturnEarly
  PROVE  WaitIInv'
<1>1. /\ waitPc = "call" /\ us <= Early[f] /\ waitPc' = "return" /\ us' = 0
      /\ cycles' = cycles + Returned[f] /\ UNCHANGED <<f, ms, waitAsked, waitCalls>>
  BY DEF ReturnEarly
<1>2. PICK a \in Arguments : WaitProgress(a)
  BY <1>1, UnderWay
<1>3. /\ us = a /\ waitCalls > 0 /\ Took(waitCalls - 1, a, cycles)
      /\ (waitCalls = 1 => cycles = 0) /\ (ms > 0 => a = Milli)
  BY <1>1, <1>2 DEF WaitProgress
<1>4. /\ f \in Clocks /\ a \in Nat /\ Returned[f] \in Nat
      /\ Returned[f] >= a * f - Slack /\ (a >= 3 => Returned[f] <= a * f + Slack)
  BY <1>1, <1>3, UnderWay, ArgumentsFit, EarlyExact DEF Slack
<1>5. waitCalls - 1 \in Nat /\ (waitCalls - 1 > 0 => a >= 3) /\ (waitCalls - 1 = 0 => cycles = 0)
      /\ (waitCalls - 1) + 1 = waitCalls /\ cycles \in Nat
  BY <1>1, <1>3, UnderWay, ArgumentsFit
<1>6. Took((waitCalls - 1) + 1, a, cycles + Returned[f])
  <2> DEFINE n == waitCalls - 1
  <2>1. Returned[f] <= a * f + Slack \/ (n = 0 /\ Returned[f] <= Returned[f])
    BY <1>4, <1>5
  <2> HIDE DEF n
  <2>2. Took(n, a, cycles) /\ n \in Nat /\ (n = 0 => cycles = 0) /\ (n > 0 => a >= 3)
    BY <1>3, <1>5 DEF n
  <2>3. Took(n + 1, a, cycles + Returned[f])
    BY <1>4, <1>5, <2>1, <2>2, OneCallMore
  <2> QED
    BY <2>3 DEF n
<1>7. BusyWaitTypeOK'
  BY <1>1, <1>4, UnderWay DEF BusyWaitTypeOK
<1>8. WaitProgress(a)'
  BY <1>1, <1>3, <1>5, <1>6 DEF WaitProgress, Took, Slack
<1> QED
  BY <1>1, <1>3, <1>7, <1>8, UnderWay, GoesOn

LEMMA PrepareKeeps ==
  ASSUME WaitIInv, Prepare
  PROVE  WaitIInv'
<1>1. /\ waitPc = "call" /\ us > Early[f] /\ waitPc' = "loop" /\ us' = Turns(f, us)
      /\ cycles' = cycles + Burned[f] /\ UNCHANGED <<f, ms, waitAsked, waitCalls>>
  BY DEF Prepare
<1>2. PICK a \in Arguments : WaitProgress(a)
  BY <1>1, UnderWay
<1>3. /\ us = a /\ waitCalls > 0 /\ Took(waitCalls - 1, a, cycles)
      /\ (waitCalls = 1 => cycles = 0) /\ (ms > 0 => a = Milli)
  BY <1>1, <1>2 DEF WaitProgress
<1> DEFINE k == Burned[f] + 4 * Turns(f, a) - 1
<1>4. /\ f \in Clocks /\ a \in Nat /\ Burned[f] \in Nat /\ us' \in 0..(Word - 1) /\ us' \in Nat
      /\ InRange(f, a) => us' > 0 /\ k >= a * f - Slack /\ k <= a * f + Slack
  BY <1>1, <1>3, UnderWay, ArgumentsFit, EarlyExact, TurnsExact DEF Slack
<1>5. waitCalls - 1 \in Nat /\ (waitCalls - 1 > 0 => a >= 3) /\ (waitCalls - 1 = 0 => cycles = 0)
      /\ (waitCalls - 1) + 1 = waitCalls /\ cycles \in Nat
  BY <1>1, <1>3, UnderWay, ArgumentsFit
<1>6. Took((waitCalls - 1) + 1, a, cycles + k)
  <2> DEFINE n == waitCalls - 1
  <2>1. k \in Int
    BY <1>1, <1>3, <1>4
  <2> HIDE DEF n, k
  <2>2. Took(n, a, cycles) /\ n \in Nat /\ (n = 0 => cycles = 0) /\ (n > 0 => a >= 3)
    BY <1>3, <1>5 DEF n
  <2>3. InRange(f, a) => k >= a * f - Slack /\ k <= a * f + Slack
    BY <1>4
  <2>4. Took(n + 1, a, cycles + k)
    <3>1. cycles \in Int /\ a \in Nat /\ f \in Clocks
      BY <1>4, <1>5
    <3> QED
      BY <2>1, <2>2, <2>3, <3>1, OneCallMore
  <2> QED
    BY <2>4 DEF n
<1>7. cycles' + 4 * us' - 1 = cycles + k
  BY <1>1, <1>3, <1>4, <1>5
<1>8. BusyWaitTypeOK'
  BY <1>1, <1>4, UnderWay DEF BusyWaitTypeOK
<1> HIDE DEF k
<1>9. WaitProgress(a)'
  BY <1>1, <1>3, <1>4, <1>5, <1>6, <1>7 DEF WaitProgress, Took, Slack, InRange
<1> QED
  BY <1>1, <1>3, <1>8, <1>9, UnderWay, GoesOn

LEMMA LoopKeeps ==
  ASSUME WaitIInv, Loop
  PROVE  WaitIInv'
<1>1. /\ waitPc = "loop" /\ us' = (us - 1) % Word
      /\ us' = 0 => waitPc' = "return" /\ cycles' = cycles + 3
      /\ us' # 0 => waitPc' = "loop" /\ cycles' = cycles + 4
      /\ UNCHANGED <<f, ms, waitAsked, waitCalls>>
  BY DEF Loop
<1>2. PICK a \in Arguments : WaitProgress(a)
  BY <1>1, UnderWay
<1>3. /\ waitCalls > 0 /\ Took(waitCalls, a, cycles + 4 * us - 1)
      /\ (InRange(f, a) => us > 0) /\ (ms > 0 => a = Milli)
  BY <1>1, <1>2 DEF WaitProgress
<1>4. us' \in 0..(Word - 1) /\ us' \in Nat
  <2>1. Word \in Nat \ {0} /\ us - 1 \in Int
    BY <1>1, UnderWay
  <2>2. (us - 1) % Word \in 0..(Word - 1)
    BY <2>1, RemainderFits
  <2> QED
    BY <1>1, <2>1, <2>2
<1>5. InRange(f, a) => us' = us - 1
  <2>1. us > 0 => (us - 1) % Word = us - 1
    <3>1. us > 0 => us - 1 \in 0..(Word - 1)
      BY <1>1, UnderWay
    <3> QED
      BY <1>1, <3>1, UnderWay, SmallRemainder
  <2> QED
    BY <1>1, <1>3, <2>1
<1>6. BusyWaitTypeOK'
  BY <1>1, <1>4, UnderWay DEF BusyWaitTypeOK
<1>7. CASE us' = 0
  <2>1. InRange(f, a) => cycles' = cycles + 4 * us - 1
    BY <1>1, <1>5, <1>7, UnderWay
  <2>2. Took(waitCalls, a, cycles')
    BY <1>3, <2>1 DEF Took
  <2>3. WaitProgress(a)'
    BY <1>1, <1>3, <1>7, <2>2 DEF WaitProgress, Took, Slack
  <2> QED
    BY <1>1, <1>3, <1>6, <1>7, <2>3, UnderWay, GoesOn
<1>8. CASE us' # 0
  <2>1. InRange(f, a) => cycles' + 4 * us' - 1 = cycles + 4 * us - 1 /\ us' > 0
    BY <1>1, <1>4, <1>5, <1>8, UnderWay
  <2>2. Took(waitCalls, a, cycles' + 4 * us' - 1)
    BY <1>3, <2>1 DEF Took
  <2>3. WaitProgress(a)'
    BY <1>1, <1>3, <1>8, <2>1, <2>2 DEF WaitProgress, Took, Slack, InRange
  <2> QED
    BY <1>1, <1>3, <1>6, <1>8, <2>3, UnderWay, GoesOn
<1> QED
  BY <1>7, <1>8

LEMMA ReturnKeeps ==
  ASSUME WaitIInv, Return
  PROVE  WaitIInv'
<1>1. /\ waitPc = "return" /\ ms = 0 /\ waitPc' = "sketch" /\ cycles' = 0 /\ waitAsked' = 0
      /\ waitCalls' = 0 /\ UNCHANGED <<f, us, ms>>
  BY DEF Return
<1>2. BusyWaitTypeOK' /\ waitCalls' + ms' <= MaxMs
  BY <1>1, UnderWay DEF BusyWaitTypeOK
<1> QED
  BY <1>1, <1>2 DEF WaitIInv

LEMMA BusyWaitKeeps == WaitIInv /\ [WaitNext]_waitVars => WaitIInv'
<1> SUFFICES ASSUME WaitIInv, [WaitNext]_waitVars PROVE WaitIInv'
  OBVIOUS
<1>1. CASE UNCHANGED waitVars
  BY <1>1 DEF waitVars, WaitIInv, BusyWaitTypeOK, Arguments, WaitProgress, Took, Slack, InRange
<1> QED
  BY <1>1, DelayMicrosecondsKeeps, Delay2Keeps, Delay2AgainKeeps, ReturnEarlyKeeps, PrepareKeeps,
     LoopKeeps, ReturnKeeps DEF WaitNext

LEMMA BusyWaitImplied == WaitIInv => WaitInv
<1> SUFFICES ASSUME WaitIInv PROVE WaitInv
  OBVIOUS
<1>1. BusyWaitTypeOK
  BY DEF WaitIInv
<1>2. NoZeroDelay
  <2> SUFFICES ASSUME waitPc = "call", us > Early[f], InRange(f, us) PROVE Turns(f, us) > 0
    BY DEF NoZeroDelay
  <2> QED
    BY UnderWay, TurnsExact
<1>3. WaitAccurate
  <2> SUFFICES ASSUME waitPc = "return", ms = 0, InRange(f, waitAsked \div waitCalls)
               PROVE  /\ cycles >= waitAsked * f - waitCalls * Slack
                      /\ cycles <= waitAsked * f + waitCalls * Slack \/ cycles <= Returned[f]
    BY DEF WaitAccurate
  <2>1. PICK a \in Arguments : WaitProgress(a)
    BY UnderWay
  <2>2. Took(waitCalls, a, cycles)
    BY <2>1 DEF WaitProgress
  <2>3. waitCalls \in Nat \ {0} /\ a \in Nat /\ waitAsked = waitCalls * a
    <3>1. waitCalls + ms > 0 /\ waitCalls \in Nat
      BY UnderWay DEF WaitIInv
    <3> QED
      BY <3>1, ArgumentsFit
  <2>4. waitAsked \div waitCalls = a
    BY <2>3, FactorFound
  <2> QED
    BY <2>2, <2>3, <2>4 DEF Took
<1> QED
  BY <1>1, <1>2, <1>3 DEF WaitInv

\* Busy waits take the time asked for, at every processor clock, for every argument whose
\* count fits an unsigned int, however many calls a wait of milliseconds makes (wiring.c
\* 131-250).
THEOREM WaitsAccurate == WaitSpec => []WaitInv
<1>1. WaitInit => WaitIInv
  BY BusyWaitStarts
<1>2. WaitIInv /\ [WaitNext]_waitVars => WaitIInv'
  BY BusyWaitKeeps
<1>3. WaitIInv => WaitInv
  BY BusyWaitImplied
<1> QED
  BY <1>1, <1>2, <1>3, PTL DEF WaitSpec

-----------------------------------------------------------------------------
(* Pulse: lengths of pulses *)

\* The labels of the call.
PulseStages ==
  {"previous", "beginning", "begin", "end", "return",
   "previousTime", "beginningTime", "endTime"}

\* What the call knows of the pin, and how late it was, when it looked last: s is the
\* time since, e the time the call had taken by then.
Seen(at, up, a, s, e) ==
  /\ at = "previous" => e = 0 \/ (e <= timeout /\ (~up => a <= Pace + s))
  /\ at = "previousTime" => e <= timeout + Pace /\ (~up => a <= s)
  /\ at = "beginning" =>
       /\ up => a <= Pace + s
       /\ e <= Allowed \/ (e <= timeout + Pace /\ ~up /\ a <= 2 * Pace + s)
  /\ at = "beginningTime" => e <= timeout + 2 * Pace /\ (up => a <= s)
  /\ at = "begin" => e <= Allowed + Pace /\ up /\ a <= 2 * Pace + s
  /\ at = "end" => e <= Allowed + 2 * Pace /\ (~up => a <= Pace + s)
  /\ at = "endTime" => e <= Allowed + 3 * Pace /\ (~up => a <= s)
  /\ at = "return" => e <= Allowed + 3 * Pace /\ ~up /\ a <= 2 * Pace + s

\* A pulse under way began up to three paces before start, d ticks ago; one that is over
\* lasted as long as from there to the fall of the pin.
Measured(up, a, p, d) == (IF up THEN a ELSE p + a) - d \in 0..(3 * Pace)

LEMMA PulseNumbers ==
  /\ timeout \in Nat /\ Pace \in Nat /\ Pace > 0 /\ Hold \in Int /\ Hold > 3 * Pace
  /\ Wrap \in Nat /\ Allowed \in Nat /\ timeout <= Allowed /\ Pace <= Allowed
  /\ Allowed <= timeout + Pace
  /\ Allowed + 4 * Pace < Wrap /\ Longest \in Nat /\ Longest = Allowed + 5 * Pace + Hold
  BY PulseAssumption, SMT DEF Allowed, Longest

LEMMA SeenBound ==
  ASSUME NEW at \in PulseStages, NEW up, NEW a \in Nat, NEW s \in Nat, NEW e \in Nat,
         Seen(at, up, a, s, e)
  PROVE  e <= Allowed + 3 * Pace
<1>1. CASE at = "previous"
  BY <1>1, PulseNumbers, SMT DEF Seen
<1>2. CASE at = "previousTime"
  BY <1>2, PulseNumbers, SMT DEF Seen
<1>3. CASE at = "beginning"
  BY <1>3, PulseNumbers, SMT DEF Seen
<1>4. CASE at = "beginningTime"
  BY <1>4, PulseNumbers, SMT DEF Seen
<1>5. CASE at = "begin"
  BY <1>5, PulseNumbers, SMT DEF Seen
<1>6. CASE at = "end"
  BY <1>6, PulseNumbers, SMT DEF Seen
<1>7. CASE at = "endTime"
  BY <1>7, PulseNumbers, SMT DEF Seen
<1>8. CASE at = "return"
  BY <1>8, PulseNumbers, SMT DEF Seen
<1> QED BY <1>1, <1>2, <1>3, <1>4, <1>5, <1>6, <1>7, <1>8 DEF PulseStages

LEMMA SeenTick ==
  ASSUME NEW at \in PulseStages, NEW up, NEW a \in Nat, NEW s \in Nat, NEW e \in Nat,
         NEW b \in Nat, b <= a + 1, Seen(at, up, a, s, e)
  PROVE  Seen(at, up, b, s + 1, e)
<1>1. CASE at = "previous"
  BY <1>1, PulseNumbers, SMT DEF Seen
<1>2. CASE at = "previousTime"
  BY <1>2, PulseNumbers, SMT DEF Seen
<1>3. CASE at = "beginning"
  BY <1>3, PulseNumbers, SMT DEF Seen
<1>4. CASE at = "beginningTime"
  BY <1>4, PulseNumbers, SMT DEF Seen
<1>5. CASE at = "begin"
  BY <1>5, PulseNumbers, SMT DEF Seen
<1>6. CASE at = "end"
  BY <1>6, PulseNumbers, SMT DEF Seen
<1>7. CASE at = "endTime"
  BY <1>7, PulseNumbers, SMT DEF Seen
<1>8. CASE at = "return"
  BY <1>8, PulseNumbers, SMT DEF Seen
<1> QED BY <1>1, <1>2, <1>3, <1>4, <1>5, <1>6, <1>7, <1>8 DEF PulseStages

LEMMA SeenChange ==
  ASSUME NEW at \in PulseStages, NEW up, NEW a \in Nat, NEW s \in Nat, NEW e \in Nat,
         NEW down, down \/ up, ~(down /\ up), a > 3 * Pace, s <= Pace, Seen(at, up, a, s, e)
  PROVE  /\ Seen(at, down, 0, s, e)
         /\ at # "begin" /\ (at \in {"end", "endTime", "return"} => up)
<1>1. CASE at = "previous"
  BY <1>1, PulseNumbers, SMT DEF Seen
<1>2. CASE at = "previousTime"
  BY <1>2, PulseNumbers, SMT DEF Seen
<1>3. CASE at = "beginning"
  BY <1>3, PulseNumbers, SMT DEF Seen
<1>4. CASE at = "beginningTime"
  BY <1>4, PulseNumbers, SMT DEF Seen
<1>5. CASE at = "begin"
  BY <1>5, PulseNumbers, SMT DEF Seen
<1>6. CASE at = "end"
  BY <1>6, PulseNumbers, SMT DEF Seen
<1>7. CASE at = "endTime"
  BY <1>7, PulseNumbers, SMT DEF Seen
<1>8. CASE at = "return"
  BY <1>8, PulseNumbers, SMT DEF Seen
<1> QED BY <1>1, <1>2, <1>3, <1>4, <1>5, <1>6, <1>7, <1>8 DEF PulseStages
LEMMA TurnOfTheClock ==
  ASSUME NEW w \in Nat, NEW x \in Int, -w < x, x < w
  PROVE  x % w = IF x >= 0 THEN x ELSE x + w
  BY SMT

LEMMA SinceIs ==
  ASSUME NEW t \in 0..(Wrap - 1), now \in 0..(Wrap - 1)
  PROVE  /\ Since(t) \in 0..(Wrap - 1)
         /\ Since(t) = IF now >= t THEN now - t ELSE now - t + Wrap
<1> DEFINE x == now - t
<1>1. x \in Int /\ -Wrap < x /\ x < Wrap /\ Wrap \in Nat
  BY PulseNumbers, SMT
<1> HIDE DEF x
<1>2. x % Wrap = IF x >= 0 THEN x ELSE x + Wrap
  BY <1>1, TurnOfTheClock
<1>3. Since(t) = x % Wrap
  BY DEF Since, x
<1> QED BY <1>1, <1>2, <1>3, SMT DEF x

LEMMA SinceTicks ==
  ASSUME NEW t \in 0..(Wrap - 1), now \in 0..(Wrap - 1), now' = (now + 1) % Wrap,
         Since(t) + 1 < Wrap
  PROVE  /\ now' \in 0..(Wrap - 1)
         /\ (now' - t) % Wrap = Since(t) + 1
<1>1. now' = IF now + 1 = Wrap THEN 0 ELSE now + 1
  <2>1. CASE now + 1 = Wrap
    <3>1. Wrap % Wrap = 0
      BY PulseNumbers, SMT
    <3> QED BY <2>1, <3>1
  <2>2. CASE now + 1 # Wrap
    <3> DEFINE x == now + 1
    <3>1. x \in Int /\ -Wrap < x /\ x < Wrap /\ Wrap \in Nat /\ x >= 0
      BY <2>2, PulseNumbers, SMT
    <3> HIDE DEF x
    <3>2. x % Wrap = x
      BY <3>1, TurnOfTheClock
    <3> QED BY <2>2, <3>2 DEF x
  <2> QED BY <2>1, <2>2
<1>2. now' \in 0..(Wrap - 1)
  BY <1>1, PulseNumbers, SMT
<1> DEFINE x == now' - t
<1>3. x \in Int /\ -Wrap < x /\ x < Wrap /\ Wrap \in Nat
  BY <1>2, PulseNumbers, SMT
<1>4. x % Wrap = IF x >= 0 THEN x ELSE x + Wrap
  <2> HIDE DEF x
  <2> QED BY <1>3, TurnOfTheClock
<1>5. x % Wrap = Since(t) + 1
  BY <1>1, <1>3, <1>4, SinceIs, PulseNumbers, SMT
<1> QED BY <1>2, <1>5


\* What the call knows after its next access.
LEMMA SeenWatch ==
  ASSUME NEW up, NEW a \in Nat, NEW s \in Nat, NEW e \in Nat, s <= Pace
  PROVE  /\ Seen("previous", up, a, s, e) =>
              /\ up => Seen("previousTime", up, a, 0, e + s)
              /\ ~up => Seen("beginning", up, a, 0, e + s)
         /\ Seen("beginning", up, a, s, e) =>
              /\ ~up => Seen("beginningTime", up, a, 0, e + s)
              /\ up => Seen("begin", up, a, 0, e + s)
         /\ Seen("begin", up, a, s, e) => Seen("end", up, a, 0, e + s)
         /\ Seen("end", up, a, s, e) =>
              /\ up => Seen("endTime", up, a, 0, e + s)
              /\ ~up => Seen("return", up, a, 0, e + s)
<1>1. Seen("previous", up, a, s, e) => (up => Seen("previousTime", up, a, 0, e + s))
  BY PulseNumbers, SMT DEF Seen
<1>2. Seen("previous", up, a, s, e) => (~up => Seen("beginning", up, a, 0, e + s))
  BY PulseNumbers, SMT DEF Seen
<1>3. Seen("beginning", up, a, s, e) => (~up => Seen("beginningTime", up, a, 0, e + s))
  BY PulseNumbers, SMT DEF Seen
<1>4. Seen("beginning", up, a, s, e) => (up => Seen("begin", up, a, 0, e + s))
  BY PulseNumbers, SMT DEF Seen
<1>5. Seen("begin", up, a, s, e) => Seen("end", up, a, 0, e + s)
  BY PulseNumbers, SMT DEF Seen
<1>6. Seen("end", up, a, s, e) => (up => Seen("endTime", up, a, 0, e + s))
  BY PulseNumbers, SMT DEF Seen
<1>7. Seen("end", up, a, s, e) => (~up => Seen("return", up, a, 0, e + s))
  BY PulseNumbers, SMT DEF Seen
<1> QED BY <1>1, <1>2, <1>3, <1>4, <1>5, <1>6, <1>7

LEMMA SeenTime ==
  ASSUME NEW label \in {"previous", "beginning", "end"},
         NEW up, NEW a \in Nat, NEW s \in Nat, NEW e \in Nat, s <= Pace, e + s <= timeout,
         Seen(Check(label), up, a, s, e)
  PROVE  Seen(label, up, a, 0, e + s)
<1>1. CASE label = "previous"
  <2>1. Check(label) = "previousTime"
    BY <1>1 DEF Check
  <2> QED BY <1>1, <2>1, PulseNumbers, SMT DEF Seen
<1>2. CASE label = "beginning"
  <2>1. Check(label) = "beginningTime"
    BY <1>2 DEF Check
  <2> QED BY <1>2, <2>1, PulseNumbers, SMT DEF Seen
<1>3. CASE label = "end"
  <2>1. Check(label) = "endTime"
    BY <1>3 DEF Check
  <2> QED BY <1>3, <2>1, PulseNumbers, SMT DEF Seen
<1> QED BY <1>1, <1>2, <1>3

Timed == {"end", "endTime", "return"}

\* At the end of a pulse its fall is not long ago.
LEMMA SeenDown ==
  ASSUME NEW at \in Timed, NEW up, ~up, NEW a \in Nat, NEW s \in Nat, NEW e \in Nat,
         Seen(at, up, a, s, e)
  PROVE  a <= 2 * Pace + s
<1>1. CASE at = "end"
  BY <1>1, PulseNumbers, SMT DEF Seen
<1>2. CASE at = "endTime"
  BY <1>2, PulseNumbers, SMT DEF Seen
<1>3. CASE at = "return"
  BY <1>3, PulseNumbers, SMT DEF Seen
<1> QED BY <1>1, <1>2, <1>3 DEF Timed

LEMMA MeasuredLater ==
  ASSUME NEW up, NEW a \in Nat, NEW p \in Nat, NEW d \in Nat, Measured(up, a, p, d)
  PROVE  /\ Measured(up, a + 1, p, d + 1)
         /\ up => a <= d + 3 * Pace
         /\ \A down : up /\ ~down => Measured(down, 0, a, d)
         /\ ~up => p + a - d \in 0..(3 * Pace)
<1>1. CASE up
  BY <1>1, PulseNumbers, SMT DEF Measured
<1>2. CASE ~up
  BY <1>2, PulseNumbers, SMT DEF Measured
<1> QED BY <1>1, <1>2

LEMMA MeasuredFirst ==
  ASSUME NEW up, NEW a \in Nat, NEW p, up, a <= 3 * Pace
  PROVE  Measured(up, a, p, 0)
BY PulseNumbers, SMT DEF Measured


\* The inductive invariant.
Timely == /\ pulsePc \in PulseStages /\ slack <= elapsed /\ elapsed = Since(startMicros)
          /\ Seen(pulsePc, level, age, slack, elapsed - slack)
Timing == Since(start) <= elapsed /\ Measured(level, age, pulse, Since(start))
PulseIInv ==
  /\ PulseTypeOK /\ ReturnsInTime
  /\ pulsePc # "sketch" => Timely
  /\ pulsePc \in Timed => Timing

LEMMA PulseStarts == ASSUME PulseInit PROVE PulseIInv
<1>1. PulseTypeOK
  BY PulseNumbers, SMT DEF PulseInit, PulseTypeOK
<1>2. ReturnsInTime
  BY PulseNumbers, SMT DEF PulseInit, ReturnsInTime
<1> QED BY <1>1, <1>2 DEF PulseInit, PulseIInv, Timed

LEMMA PulseTypes ==
  ASSUME PulseTypeOK, ReturnsInTime
  PROVE  /\ now \in 0..(Wrap - 1) /\ startMicros \in 0..(Wrap - 1) /\ start \in 0..(Wrap - 1)
         /\ slack \in Nat /\ slack <= Pace /\ age \in Nat /\ age <= Longest
         /\ pulse \in Nat /\ pulse <= Longest /\ elapsed \in Nat
         /\ elapsed <= Allowed + 4 * Pace /\ elapsed < Wrap /\ level \in BOOLEAN
  BY PulseNumbers, SMT DEF PulseTypeOK, ReturnsInTime

LEMMA TickKeeps == ASSUME PulseIInv, Tick PROVE PulseIInv'
<1> DEFINE e == elapsed - slack
           d == Since(start)
<1>1. /\ Timely /\ PulseTypeOK /\ ReturnsInTime /\ slack < Pace /\ e \in Nat
  <2>1. Timely /\ PulseTypeOK /\ ReturnsInTime /\ slack < Pace
    BY DEF Tick, PulseIInv
  <2>2. slack <= elapsed /\ slack \in Nat /\ elapsed \in Nat
    BY <2>1, PulseTypes DEF Timely
  <2> QED BY <2>1, <2>2, SMT
<1>2. /\ now' = (now + 1) % Wrap /\ slack' = slack + 1
      /\ age' = Capped(age + 1) /\ elapsed' = Capped(elapsed + 1)
      /\ level' = level /\ pulsePc' = pulsePc /\ startMicros' = startMicros /\ start' = start
      /\ pulseResult' = pulseResult /\ pulse' = pulse
  BY DEF Tick
<1>3. /\ slack \in Nat /\ age \in Nat /\ age <= Longest /\ elapsed \in Nat /\ pulse \in Nat
      /\ now \in 0..(Wrap - 1) /\ startMicros \in 0..(Wrap - 1) /\ start \in 0..(Wrap - 1)
  BY <1>1, PulseTypes
<1>4. pulsePc \in PulseStages /\ slack <= elapsed /\ elapsed = Since(startMicros)
      /\ Seen(pulsePc, level, age, slack, e)
  BY <1>1 DEF Timely
<1> HIDE DEF e
<1>5. e <= Allowed + 3 * Pace
  BY <1>1, <1>3, <1>4, SeenBound
<1>6. elapsed < Allowed + 4 * Pace /\ elapsed + 1 < Wrap
  BY <1>1, <1>3, <1>5, PulseNumbers, SMT DEF e
<1>7. elapsed' = elapsed + 1
  BY <1>2, <1>3, <1>6, PulseNumbers, SMT DEF Capped
<1>8. age' \in Nat /\ age' <= Longest /\ age' <= age + 1 /\ (age < Longest => age' = age + 1)
  BY <1>2, <1>3, PulseNumbers, SMT DEF Capped
<1>9. now' \in 0..(Wrap - 1) /\ Since(startMicros)' = elapsed + 1
  <2>1. Since(startMicros) + 1 < Wrap
    BY <1>4, <1>6
  <2>2. now' \in 0..(Wrap - 1) /\ (now' - startMicros) % Wrap = Since(startMicros) + 1
    BY <1>2, <1>3, <2>1, SinceTicks
  <2> QED BY <1>2, <1>4, <2>2 DEF Since
<1>10. ReturnsInTime'
  BY <1>3, <1>6, <1>7, PulseNumbers, SMT DEF ReturnsInTime
<1>11. PulseTypeOK'
  <2>1. elapsed' \in 0..Longest
    BY <1>3, <1>6, <1>7, PulseNumbers, SMT
  <2>2. age' \in 0..Longest
    BY <1>8, PulseNumbers, SMT
  <2>3. slack' \in 0..Pace
    BY <1>1, <1>2, <1>3, PulseNumbers, SMT
  <2>4. level \in BOOLEAN /\ pulseResult \in 0..(Wrap - 1) /\ pulse \in 0..Longest
    BY <1>1 DEF PulseTypeOK
  <2> QED BY <1>2, <1>3, <1>9, <2>1, <2>2, <2>3, <2>4 DEF PulseTypeOK, Longest
<1>12. Timely'
  <2>1. (elapsed - slack)' = e
    BY <1>2, <1>3, <1>7, SMT DEF e
  <2>2. Seen(pulsePc, level, age', slack + 1, e)
    BY <1>1, <1>3, <1>4, <1>8, SeenTick
  <2>3. Seen(pulsePc', level', age', slack', (elapsed - slack)')
    BY <1>2, <2>1, <2>2
  <2>4. slack' <= elapsed'
    BY <1>2, <1>3, <1>4, <1>7, SMT
  <2> QED BY <1>2, <1>4, <1>7, <1>9, <2>3, <2>4 DEF Timely
<1>13. ASSUME pulsePc \in Timed PROVE Timing'
  <2>1. d <= elapsed /\ Measured(level, age, pulse, d)
    BY <1>13 DEF PulseIInv, Timing
  <2>2. d \in 0..(Wrap - 1)
    BY <1>3, SinceIs
  <2> HIDE DEF d
  <2>3. d \in Nat /\ d + 1 < Wrap
    BY <1>3, <1>6, <2>1, <2>2, PulseNumbers, SMT
  <2>4. Since(start)' = d + 1
    <3>1. Since(start) + 1 < Wrap
      BY <2>3 DEF d
    <3>2. (now' - start) % Wrap = Since(start) + 1
      BY <1>2, <1>3, <3>1, SinceTicks
    <3>3. (now' - start') % Wrap = d + 1
      BY <1>2, <3>2 DEF d
    <3> QED BY <3>3 DEF Since
  <2>5. age < Longest
    <3>1. CASE level
      <4>1. age <= d + 3 * Pace
        BY <1>3, <2>1, <2>3, <3>1, MeasuredLater
      <4> QED BY <1>3, <1>6, <2>1, <2>3, <4>1, PulseNumbers, SMT
    <3>2. CASE ~level
      <4>1. age <= 2 * Pace + slack
        BY <1>1, <1>3, <1>4, <1>13, <3>2, SeenDown
      <4> QED BY <1>1, <1>3, <4>1, PulseNumbers, SMT
    <3> QED BY <3>1, <3>2
  <2>6. Measured(level, age + 1, pulse, d + 1)
    BY <1>3, <2>1, <2>3, MeasuredLater
  <2>7. Measured(level', age', pulse', Since(start)')
    BY <1>2, <1>8, <2>4, <2>5, <2>6
  <2>8. Since(start)' <= elapsed'
    BY <1>3, <1>7, <2>1, <2>3, <2>4, SMT
  <2> QED BY <2>7, <2>8 DEF Timing
<1> QED BY <1>2, <1>10, <1>11, <1>12, <1>13 DEF PulseIInv

LEMMA ChangeKeeps == ASSUME PulseIInv, Change PROVE PulseIInv'
<1> DEFINE e == elapsed - slack
           d == Since(start)
<1>1. /\ Timely /\ PulseTypeOK /\ ReturnsInTime /\ age >= Hold
  BY DEF Change, PulseIInv
<1>2. /\ level' = ~ level /\ age' = 0 /\ pulse' = IF level THEN age ELSE pulse
      /\ now' = now /\ pulsePc' = pulsePc /\ startMicros' = startMicros /\ start' = start
      /\ pulseResult' = pulseResult /\ slack' = slack /\ elapsed' = elapsed
  BY DEF Change
<1>3. /\ slack \in Nat /\ slack <= Pace /\ age \in Nat /\ age <= Longest /\ elapsed \in Nat
      /\ pulse \in Nat /\ start \in 0..(Wrap - 1) /\ now \in 0..(Wrap - 1) /\ level \in BOOLEAN
  BY <1>1, PulseTypes
<1>4. pulsePc \in PulseStages /\ slack <= elapsed /\ elapsed = Since(startMicros)
      /\ Seen(pulsePc, level, age, slack, e)
  BY <1>1 DEF Timely
<1>5. e \in Nat
  BY <1>3, <1>4, SMT
<1> HIDE DEF e
<1>6. age > 3 * Pace
  BY <1>1, <1>3, PulseNumbers, SMT
<1>7. /\ Seen(pulsePc, ~level, 0, slack, e)
      /\ pulsePc \in Timed => level
  <2> DEFINE down == ~level
  <2>1. (down \/ level) /\ ~(down /\ level)
    OBVIOUS
  <2> HIDE DEF down
  <2>2. Seen(pulsePc, down, 0, slack, e)
        /\ (pulsePc \in {"end", "endTime", "return"} => level)
    BY <1>3, <1>4, <1>5, <1>6, <2>1, SeenChange
  <2> QED BY <2>2 DEF down, Timed
<1>8. PulseTypeOK'
  <2>1. age' \in 0..Longest /\ pulse' \in 0..Longest
    BY <1>1, <1>2, <1>3, PulseNumbers, SMT DEF PulseTypeOK
  <2> QED BY <1>1, <1>2, <2>1 DEF PulseTypeOK, Longest
<1>9. ReturnsInTime'
  BY <1>1, <1>2 DEF ReturnsInTime
<1>10. Timely'
  <2>1. Seen(pulsePc', level', age', slack', elapsed' - slack')
    BY <1>2, <1>7 DEF e
  <2> QED BY <1>2, <1>4, <2>1 DEF Timely, Since
<1>11. ASSUME pulsePc \in Timed PROVE Timing'
  <2>1. d <= elapsed /\ Measured(level, age, pulse, d)
    BY <1>11 DEF PulseIInv, Timing
  <2>2. d \in 0..(Wrap - 1)
    BY <1>3, SinceIs
  <2>3. d \in Nat
    <3> HIDE DEF d
    <3> QED BY <2>2, PulseNumbers, SMT
  <2>4. level /\ ~level' /\ pulse' = age
    BY <1>2, <1>7, <1>11
  <2>5. Measured(level', 0, age, d)
    <3> HIDE DEF d
    <3> QED BY <1>3, <2>1, <2>3, <2>4, MeasuredLater
  <2> QED BY <1>2, <2>1, <2>4, <2>5 DEF Timing, Since
<1> QED BY <1>2, <1>8, <1>9, <1>10, <1>11 DEF PulseIInv

\* An access: what the call knows is as old as that.
LEMMA AccessKeeps ==
  ASSUME PulseIInv, pulsePc # "sketch", NEW label \in PulseStages, Access(label),
         startMicros' = startMicros, elapsed' = elapsed,
         start' \in 0..(Wrap - 1), pulseResult' \in 0..(Wrap - 1),
         Seen(label, level, age, 0, elapsed), label \in Timed => Timing'
  PROVE  PulseIInv'
<1>1. /\ Timely /\ PulseTypeOK /\ ReturnsInTime
      /\ pulsePc' = label /\ slack' = 0 /\ now' = now /\ level' = level /\ age' = age /\ pulse' = pulse
  BY DEF Access, PulseIInv
<1>2. elapsed \in Nat
  BY <1>1, PulseTypes
<1>3. 0 \in 0..Pace
  BY PulseNumbers, SMT
<1>4. PulseTypeOK' /\ ReturnsInTime'
  BY <1>1, <1>3 DEF PulseTypeOK, ReturnsInTime, Longest
<1>5. elapsed - 0 = elapsed /\ 0 <= elapsed
  BY <1>2, SMT
<1>6. Seen(pulsePc', level', age', slack', elapsed' - slack')
  BY <1>1, <1>5
<1>7. Timely'
  BY <1>1, <1>5, <1>6 DEF Timely, Since
<1> QED BY <1>1, <1>4, <1>7 DEF PulseIInv

\* What a call knows when it makes its next access.
LEMMA Accessing ==
  ASSUME PulseIInv, pulsePc # "sketch"
  PROVE  /\ Timely /\ PulseTypeOK /\ ReturnsInTime /\ pulsePc \in PulseStages
         /\ slack \in Nat /\ slack <= Pace /\ age \in Nat /\ elapsed \in Nat /\ pulse \in Nat
         /\ elapsed - slack \in Nat /\ (elapsed - slack) + slack = elapsed
         /\ Seen(pulsePc, level, age, slack, elapsed - slack)
         /\ level \in BOOLEAN /\ start \in 0..(Wrap - 1) /\ now \in 0..(Wrap - 1)
         /\ startMicros \in 0..(Wrap - 1) /\ pulseResult \in 0..(Wrap - 1)
<1>1. Timely /\ PulseTypeOK /\ ReturnsInTime
  BY DEF PulseIInv
<1>2. /\ slack \in Nat /\ slack <= Pace /\ age \in Nat /\ elapsed \in Nat /\ pulse \in Nat
      /\ level \in BOOLEAN /\ start \in 0..(Wrap - 1) /\ now \in 0..(Wrap - 1)
      /\ startMicros \in 0..(Wrap - 1) /\ slack <= elapsed /\ pulsePc \in PulseStages
      /\ Seen(pulsePc, level, age, slack, elapsed - slack)
  BY <1>1, PulseTypes DEF Timely
<1>3. elapsed - slack \in Nat /\ (elapsed - slack) + slack = elapsed
  BY <1>2, SMT
<1> QED BY <1>1, <1>2, <1>3 DEF PulseTypeOK

\* The times of a pulse are those of its fall and not of the access.
LEMMA TimingKept ==
  ASSUME PulseIInv, pulsePc \in Timed, NEW label, Access(label),
         start' = start, elapsed' = elapsed
  PROVE  Timing'
BY DEF PulseIInv, Timing, Access, Since

LEMMA WatchKeeps ==
  ASSUME PulseIInv, NEW label, NEW while, NEW next, Watch(label, while, next),
         <<label, while, next>> \in {<<"previous", TRUE, "beginning">>,
                                     <<"beginning", FALSE, "begin">>, <<"end", TRUE, "return">>}
  PROVE  PulseIInv'
<1> DEFINE e == elapsed - slack
           to == IF level = while THEN Check(label) ELSE next
<1>1. pulsePc = label /\ Access(to) /\ startMicros' = startMicros /\ start' = start
      /\ pulseResult' = pulseResult /\ elapsed' = elapsed
  BY DEF Watch
<1>2. pulsePc # "sketch"
  BY <1>1
<1>3. /\ Timely /\ PulseTypeOK /\ slack \in Nat /\ slack <= Pace /\ age \in Nat
      /\ level \in BOOLEAN /\ e \in Nat /\ e + slack = elapsed
      /\ start \in 0..(Wrap - 1) /\ pulseResult \in 0..(Wrap - 1)
      /\ Seen(label, level, age, slack, e)
  BY <1>1, <1>2, Accessing
<1> HIDE DEF e, to
<1>4. to \in PulseStages /\ Seen(to, level, age, 0, e + slack) /\ (to \in Timed => label = "end")
  <2>1. CASE label = "previous" /\ while = TRUE /\ next = "beginning"
    <3>1. Seen("previous", level, age, slack, e)
      BY <1>3, <2>1
    <3>2. CASE level
      BY <1>3, <2>1, <3>1, <3>2, SeenWatch DEF to, Check, PulseStages, Timed
    <3>3. CASE ~level
      BY <1>3, <2>1, <3>1, <3>3, SeenWatch DEF to, Check, PulseStages, Timed
    <3> QED BY <3>2, <3>3
  <2>2. CASE label = "beginning" /\ while = FALSE /\ next = "begin"
    <3>1. Seen("beginning", level, age, slack, e)
      BY <1>3, <2>2
    <3>2. CASE level
      BY <1>3, <2>2, <3>1, <3>2, SeenWatch DEF to, Check, PulseStages, Timed
    <3>3. CASE ~level
      BY <1>3, <2>2, <3>1, <3>3, SeenWatch DEF to, Check, PulseStages, Timed
    <3> QED BY <3>2, <3>3
  <2>3. CASE label = "end" /\ while = TRUE /\ next = "return"
    <3>1. Seen("end", level, age, slack, e)
      BY <1>3, <2>3
    <3>2. CASE level
      BY <1>3, <2>3, <3>1, <3>2, SeenWatch DEF to, Check, PulseStages, Timed
    <3>3. CASE ~level
      BY <1>3, <2>3, <3>1, <3>3, SeenWatch DEF to, Check, PulseStages, Timed
    <3> QED BY <3>2, <3>3
  <2> QED BY <2>1, <2>2, <2>3
<1>5. to \in Timed => Timing'
  BY <1>1, <1>4, TimingKept DEF Timed
<1> QED BY <1>1, <1>2, <1>3, <1>4, <1>5, AccessKeeps

LEMMA BeginKeeps == ASSUME PulseIInv, Begin PROVE PulseIInv'
<1> DEFINE e == elapsed - slack
<1>1. pulsePc = "begin" /\ Access("end") /\ start' = now /\ startMicros' = startMicros
      /\ pulseResult' = pulseResult /\ elapsed' = elapsed
  BY DEF Begin
<1>2. pulsePc # "sketch"
  BY <1>1
<1>3. /\ Timely /\ PulseTypeOK /\ slack \in Nat /\ slack <= Pace /\ age \in Nat /\ pulse \in Nat
      /\ level \in BOOLEAN /\ e \in Nat /\ e + slack = elapsed /\ elapsed \in Nat
      /\ now \in 0..(Wrap - 1) /\ pulseResult \in 0..(Wrap - 1)
      /\ Seen("begin", level, age, slack, e)
  BY <1>1, <1>2, Accessing
<1> HIDE DEF e
<1>4. Seen("end", level, age, 0, e + slack)
  BY <1>3, SeenWatch
<1>5. level /\ age <= 3 * Pace
  <2>1. level /\ age <= 2 * Pace + slack
    BY <1>3 DEF Seen
  <2> QED BY <1>3, <2>1, PulseNumbers, SMT
<1>6. Timing'
  <2>1. (now' - start') % Wrap = 0
    <3>1. now' = now
      BY <1>1 DEF Access
    <3>2. now - now = 0 /\ 0 % Wrap = 0
      BY <1>3, PulseNumbers, SMT
    <3> QED BY <1>1, <3>1, <3>2
  <2>2. Measured(level, age, pulse, 0)
    BY <1>3, <1>5, MeasuredFirst
  <2>3. 0 <= elapsed
    BY <1>3, SMT
  <2> QED BY <1>1, <2>1, <2>2, <2>3 DEF Timing, Since, Access
<1> QED BY <1>1, <1>2, <1>3, <1>4, <1>6, AccessKeeps DEF PulseStages

LEMMA NoneIsLength == 0 \in 0..(Wrap - 1)
BY PulseNumbers, SMT

\* A call that returns leaves nothing but its result.
LEMMA BackKeeps ==
  ASSUME PulseIInv, Access("sketch"), pulseResult' \in 0..(Wrap - 1),
         startMicros' = startMicros, start' = start, elapsed' = elapsed
  PROVE  PulseIInv'
<1>1. 0 \in 0..Pace
  BY PulseNumbers, SMT
<1>2. PulseTypeOK' /\ ReturnsInTime'
  BY <1>1 DEF Access, PulseIInv, PulseTypeOK, ReturnsInTime, Longest
<1> QED BY <1>2 DEF Access, PulseIInv, Timed

LEMMA CheckTimeKeeps ==
  ASSUME PulseIInv, NEW label \in {"previous", "beginning", "end"}, CheckTime(label)
  PROVE  PulseIInv'
<1> DEFINE e == elapsed - slack
<1>1. pulsePc = Check(label) /\ startMicros' = startMicros /\ start' = start /\ elapsed' = elapsed
  BY DEF CheckTime
<1>2. pulsePc # "sketch" /\ (label \in Timed => pulsePc \in Timed)
  BY <1>1 DEF Check, Timed
<1>3. CASE Late
  BY <1>1, <1>3, BackKeeps, NoneIsLength DEF CheckTime
<1>4. CASE ~Late
  <2>1. Access(label) /\ pulseResult' = pulseResult
    BY <1>4 DEF CheckTime
  <2>2. /\ Timely /\ PulseTypeOK /\ slack \in Nat /\ slack <= Pace /\ age \in Nat
        /\ e \in Nat /\ e + slack = elapsed /\ elapsed \in Nat
        /\ start \in 0..(Wrap - 1) /\ pulseResult \in 0..(Wrap - 1)
        /\ Seen(Check(label), level, age, slack, e)
    BY <1>1, <1>2, Accessing
  <2>3. elapsed <= timeout
    <3>1. elapsed = Since(startMicros)
      BY <2>2 DEF Timely
    <3>2. ~(elapsed > timeout)
      BY <1>4, <3>1 DEF Late
    <3> QED BY <2>2, <3>2, PulseNumbers, SMT
  <2> HIDE DEF e
  <2>4. Seen(label, level, age, 0, e + slack)
    BY <2>2, <2>3, SeenTime
  <2>5. label \in Timed => Timing'
    BY <1>1, <1>2, <2>1, TimingKept
  <2> QED BY <1>1, <1>2, <2>1, <2>2, <2>4, <2>5, AccessKeeps DEF PulseStages
<1> QED BY <1>3, <1>4

LEMMA ReturnsKeeps == ASSUME PulseIInv, Returns PROVE PulseIInv'
<1>1. start \in 0..(Wrap - 1) /\ now \in 0..(Wrap - 1)
  BY PulseTypes DEF PulseIInv
<1>2. Since(start) \in 0..(Wrap - 1)
  BY <1>1, SinceIs
<1> QED BY <1>2, BackKeeps DEF Returns

LEMMA CallPulseKeeps == ASSUME PulseIInv, CallPulse PROVE PulseIInv'
<1>1. /\ pulsePc' = "previous" /\ slack' = 0 /\ now' = now /\ level' = level /\ age' = age
      /\ pulse' = pulse /\ startMicros' = now /\ elapsed' = 0 /\ start' = 0 /\ pulseResult' = 0
  BY DEF CallPulse, Access
<1>2. PulseTypeOK /\ now \in 0..(Wrap - 1)
  BY PulseTypes DEF PulseIInv
<1>3. 0 \in 0..Pace /\ 0 \in 0..Longest /\ 0 <= Allowed + 4 * Pace /\ 0 - 0 = 0 /\ 0 <= 0
  BY PulseNumbers, SMT
<1>4. PulseTypeOK' /\ ReturnsInTime'
  BY <1>1, <1>2, <1>3, NoneIsLength DEF PulseTypeOK, ReturnsInTime, Longest
<1>5. Since(startMicros)' = 0
  <2>1. now - now = 0 /\ 0 % Wrap = 0
    BY <1>2, PulseNumbers, SMT
  <2> QED BY <1>1, <2>1 DEF Since
<1>6. Seen("previous", level, age, 0, 0)
  BY DEF Seen
<1>7. Timely'
  BY <1>1, <1>3, <1>5, <1>6 DEF Timely, PulseStages
<1> QED BY <1>1, <1>4, <1>7 DEF PulseIInv, Timed

LEMMA PulseKeeps == PulseIInv /\ [PulseNext]_pulseVars => PulseIInv'
<1> SUFFICES ASSUME PulseIInv, [PulseNext]_pulseVars PROVE PulseIInv'
  OBVIOUS
<1>1. CASE Tick
  BY <1>1, TickKeeps
<1>2. CASE Change
  BY <1>2, ChangeKeeps
<1>3. CASE CallPulse
  BY <1>3, CallPulseKeeps
<1>4. CASE pulseInLong
  <2>1. CASE Watch("previous", TRUE, "beginning")
    BY <2>1, WatchKeeps
  <2>2. CASE Watch("beginning", FALSE, "begin")
    BY <2>2, WatchKeeps
  <2>3. CASE Begin
    BY <2>3, BeginKeeps
  <2>4. CASE Watch("end", TRUE, "return")
    BY <2>4, WatchKeeps
  <2>5. CASE \E label \in {"previous", "beginning", "end"} : CheckTime(label)
    BY <2>5, CheckTimeKeeps
  <2>6. CASE Returns
    BY <2>6, ReturnsKeeps
  <2> QED BY <1>4, <2>1, <2>2, <2>3, <2>4, <2>5, <2>6 DEF pulseInLong
<1>5. CASE UNCHANGED pulseVars
  BY <1>5 DEF pulseVars, PulseIInv, Timely, Timing, PulseTypeOK, ReturnsInTime, Since, Longest
<1> QED BY <1>1, <1>2, <1>3, <1>4, <1>5 DEF PulseNext

\* A result is the length of the last pulse, whose fall is not long ago.
LEMMA MeasureStep ==
  ASSUME PulseIInv, [PulseNext]_pulseVars, pulseResult' # pulseResult, pulseResult' # 0
  PROVE  pulseResult' \in (pulse - 3 * Pace)..(pulse + 3 * Pace)
<1>1. Returns
  BY DEF PulseNext, pulseVars, Tick, Change, CallPulse, pulseInLong, Watch, CheckTime, Begin
<1> DEFINE d == Since(start)
<1>2. pulsePc = "return" /\ pulseResult' = d
  BY <1>1 DEF Returns
<1>3. /\ slack \in Nat /\ slack <= Pace /\ age \in Nat /\ pulse \in Nat
      /\ start \in 0..(Wrap - 1) /\ now \in 0..(Wrap - 1)
      /\ elapsed - slack \in Nat /\ Seen("return", level, age, slack, elapsed - slack)
  BY <1>2, Accessing
<1>4. ~level
  BY <1>3 DEF Seen
<1>5. age <= 3 * Pace
  <2>1. age <= 2 * Pace + slack
    BY <1>3, <1>4, SeenDown DEF Timed
  <2> QED BY <1>3, <2>1, PulseNumbers, SMT
<1>6. Measured(level, age, pulse, d)
  BY <1>2 DEF PulseIInv, Timing, Timed
<1>7. d \in Nat
  <2>1. d \in 0..(Wrap - 1)
    BY <1>3, SinceIs
  <2> HIDE DEF d
  <2> QED BY <2>1, PulseNumbers, SMT
<1> HIDE DEF d
<1>8. pulse + age - d \in 0..(3 * Pace)
  BY <1>3, <1>4, <1>6, <1>7, MeasuredLater
<1>9. d \in (pulse - 3 * Pace)..(pulse + 3 * Pace)
  BY <1>3, <1>5, <1>7, <1>8, PulseNumbers, SMT
<1> QED BY <1>2, <1>9

\* pulseInLong() returns the length of a pulse that began and ended in the call, give or
\* take a turn of a loop, or nothing, and does so in the time allowed and that of two
\* turns, for every clock, timeout and speed of the program (wiring_pulse.c 69-95).
THEOREM PulsesKept == PulseSpec => PulsesMeasured
<1>1. PulseInit => PulseIInv
  BY PulseStarts
<1>2. PulseIInv /\ [PulseNext]_pulseVars => PulseIInv'
  BY PulseKeeps
<1>3. PulseIInv => PulseInv
  BY DEF PulseIInv, PulseInv
<1>4. PulseIInv /\ [PulseNext]_pulseVars =>
        [pulseResult' # pulseResult /\ pulseResult' # 0 =>
           pulseResult' \in (pulse - 3 * Pace)..(pulse + 3 * Pace)]_pulseVars
  BY MeasureStep
<1> QED BY <1>1, <1>2, <1>3, <1>4, PTL DEF PulseSpec, PulsesMeasured, MeasuresAPulse

-----------------------------------------------------------------------------
(* Shift: bytes and their bits *)

\* The bits of a byte in the order they are shifted, and what the first n of a row of
\* bits make by an order.
Row(v, order) == [n \in 0..7 |-> BitAt(v, Place(order, n))]
Rows == [0..7 -> {0, 1}]
Part(b, order, k, n) == IF k < n THEN b[k] * Power[Place(order, k)] ELSE 0
Parts8(b, order, n) ==
  Part(b, order, 0, n) + Part(b, order, 1, n) + Part(b, order, 2, n) + Part(b, order, 3, n)
    + Part(b, order, 4, n) + Part(b, order, 5, n) + Part(b, order, 6, n) + Part(b, order, 7, n)
Byte == 0..255
Ones == [n \in 0..7 |-> 1]

LEMMA Powers ==
  /\ Power[0] = 1 /\ Power[1] = 2 /\ Power[2] = 4 /\ Power[3] = 8
  /\ Power[4] = 16 /\ Power[5] = 32 /\ Power[6] = 64 /\ Power[7] = 128
  BY SMT DEF Power

LEMMA Places8 ==
  /\ \A n \in 0..7 : Place("LSBFIRST", n) = n /\ Place("MSBFIRST", n) = 7 - n
  /\ \A order \in Orders, n \in 0..7 : Place(order, n) \in 0..7
  BY SMT DEF Place, Orders

LEMMA PowerNat == ASSUME NEW n \in 0..7 PROVE Power[n] \in Nat /\ Power[n] > 0
<1>1. n = 0 \/ n = 1 \/ n = 2 \/ n = 3 \/ n = 4 \/ n = 5 \/ n = 6 \/ n = 7
  BY SMT
<1> QED BY <1>1, Powers, SMT

LEMMA BitIs == ASSUME NEW v \in Int, NEW n \in 0..7 PROVE BitAt(v, n) \in {0, 1}
<1> DEFINE q == v \div Power[n]
<1>1. q \in Int
  BY PowerNat, SMT
<1> HIDE DEF q
<1>2. q % 2 \in {0, 1}
  BY <1>1, SMT
<1> QED BY <1>2 DEF BitAt, q

LEMMA RowIs == ASSUME NEW v \in Int, NEW order \in Orders PROVE Row(v, order) \in Rows
BY BitIs, Places8 DEF Row, Rows

\* A number is made of its bits.
LEMMA Halves ==
  ASSUME NEW v \in Byte
  PROVE  v = (v % 2) + 2 * ((v \div 2) % 2) + 4 * ((v \div 4) % 2) + 8 * ((v \div 8) % 2)
             + 16 * ((v \div 16) % 2) + 32 * ((v \div 32) % 2) + 64 * ((v \div 64) % 2)
             + 128 * ((v \div 128) % 2)
  BY SMT DEF Byte

LEMMA PartStep ==
  ASSUME NEW b \in Rows, NEW order \in Orders, NEW n \in 0..7
  PROVE  /\ Parts8(b, order, n) \in Nat
         /\ Parts8(b, order, n + 1) = Parts8(b, order, n) + b[n] * Power[Place(order, n)]
         /\ Parts8(b, order, 0) = 0
<1> DEFINE t(k) == b[k] * Power[Place(order, k)]
<1>1. \A k \in 0..7 : t(k) \in Nat
  <2> TAKE k \in 0..7
  <2>1. Power[Place(order, k)] \in Nat
    BY PowerNat, Places8
  <2>2. b[k] = 0 \/ b[k] = 1
    BY DEF Rows
  <2> QED BY <2>1, <2>2, SMT
<1> DEFINE p(k, m) == IF k < m THEN t(k) ELSE 0
<1> HIDE DEF t
<1>2. \A m : Parts8(b, order, m) = p(0, m) + p(1, m) + p(2, m) + p(3, m)
                                   + p(4, m) + p(5, m) + p(6, m) + p(7, m)
  BY DEF Parts8, Part, t
<1>3. /\ t(0) \in Nat /\ t(1) \in Nat /\ t(2) \in Nat /\ t(3) \in Nat
      /\ t(4) \in Nat /\ t(5) \in Nat /\ t(6) \in Nat /\ t(7) \in Nat
  BY <1>1
<1>4. n = 0 \/ n = 1 \/ n = 2 \/ n = 3 \/ n = 4 \/ n = 5 \/ n = 6 \/ n = 7
  BY SMT
<1>5. Parts8(b, order, n) \in Nat
  BY <1>2, <1>3, <1>4, SMT
<1>6. Parts8(b, order, n + 1) = Parts8(b, order, n) + t(n)
  <2>1. CASE n = 0
    BY <2>1, <1>2, <1>3, SMT
  <2>2. CASE n = 1
    BY <2>2, <1>2, <1>3, SMT
  <2>3. CASE n = 2
    BY <2>3, <1>2, <1>3, SMT
  <2>4. CASE n = 3
    BY <2>4, <1>2, <1>3, SMT
  <2>5. CASE n = 4
    BY <2>5, <1>2, <1>3, SMT
  <2>6. CASE n = 5
    BY <2>6, <1>2, <1>3, SMT
  <2>7. CASE n = 6
    BY <2>7, <1>2, <1>3, SMT
  <2>8. CASE n = 7
    BY <2>8, <1>2, <1>3, SMT
  <2> QED BY <1>4, <2>1, <2>2, <2>3, <2>4, <2>5, <2>6, <2>7, <2>8
<1>7. Parts8(b, order, 0) = 0
  BY <1>2, <1>3, SMT
<1> QED BY <1>5, <1>6, <1>7 DEF t

\* What a whole row makes.
LEMMA WholeRow ==
  ASSUME NEW b \in Rows, NEW order \in Orders
  PROVE  Parts8(b, order, 8) =
           b[0] * Power[Place(order, 0)] + b[1] * Power[Place(order, 1)]
           + b[2] * Power[Place(order, 2)] + b[3] * Power[Place(order, 3)]
           + b[4] * Power[Place(order, 4)] + b[5] * Power[Place(order, 5)]
           + b[6] * Power[Place(order, 6)] + b[7] * Power[Place(order, 7)]
BY SMT DEF Parts8, Part

LEMMA RowBits ==
  ASSUME NEW v \in Byte
  PROVE  /\ v \in Int
         /\ v = BitAt(v, 0) * 1 + BitAt(v, 1) * 2 + BitAt(v, 2) * 4 + BitAt(v, 3) * 8
                + BitAt(v, 4) * 16 + BitAt(v, 5) * 32 + BitAt(v, 6) * 64 + BitAt(v, 7) * 128
         /\ BitAt(v, 0) \in Int /\ BitAt(v, 1) \in Int /\ BitAt(v, 2) \in Int /\ BitAt(v, 3) \in Int
         /\ BitAt(v, 4) \in Int /\ BitAt(v, 5) \in Int /\ BitAt(v, 6) \in Int /\ BitAt(v, 7) \in Int
<1>1. v \in Int
  BY SMT DEF Byte
<1>2. /\ BitAt(v, 0) = v % 2 /\ BitAt(v, 1) = (v \div 2) % 2 /\ BitAt(v, 2) = (v \div 4) % 2
      /\ BitAt(v, 3) = (v \div 8) % 2 /\ BitAt(v, 4) = (v \div 16) % 2
      /\ BitAt(v, 5) = (v \div 32) % 2 /\ BitAt(v, 6) = (v \div 64) % 2
      /\ BitAt(v, 7) = (v \div 128) % 2
  <2>1. v \div 1 = v
    BY <1>1, SMT
  <2> QED BY <2>1, Powers DEF BitAt
<1>3. /\ BitAt(v, 0) \in Int /\ BitAt(v, 1) \in Int /\ BitAt(v, 2) \in Int /\ BitAt(v, 3) \in Int
      /\ BitAt(v, 4) \in Int /\ BitAt(v, 5) \in Int /\ BitAt(v, 6) \in Int /\ BitAt(v, 7) \in Int
  BY <1>1, BitIs, SMT
<1>4. v = BitAt(v, 0) + 2 * BitAt(v, 1) + 4 * BitAt(v, 2) + 8 * BitAt(v, 3)
          + 16 * BitAt(v, 4) + 32 * BitAt(v, 5) + 64 * BitAt(v, 6) + 128 * BitAt(v, 7)
  BY <1>2, Halves
<1> QED BY <1>1, <1>3, <1>4, SMT

LEMMA RoundTrips ==
  ASSUME NEW v \in Byte, NEW order \in Orders, NEW back \in Orders
  PROVE  Parts8(Row(v, order), back, 8) = IF back = order THEN v ELSE Reversed(v)
<1> DEFINE b == Row(v, order)
<1>1. v \in Int /\ b \in Rows
  BY RowBits, RowIs
<1>2. /\ b[0] = BitAt(v, Place(order, 0)) /\ b[1] = BitAt(v, Place(order, 1))
      /\ b[2] = BitAt(v, Place(order, 2)) /\ b[3] = BitAt(v, Place(order, 3))
      /\ b[4] = BitAt(v, Place(order, 4)) /\ b[5] = BitAt(v, Place(order, 5))
      /\ b[6] = BitAt(v, Place(order, 6)) /\ b[7] = BitAt(v, Place(order, 7))
  BY SMT DEF Row
<1> HIDE DEF b
<1>3. Parts8(b, back, 8) =
           b[0] * Power[Place(back, 0)] + b[1] * Power[Place(back, 1)]
           + b[2] * Power[Place(back, 2)] + b[3] * Power[Place(back, 3)]
           + b[4] * Power[Place(back, 4)] + b[5] * Power[Place(back, 5)]
           + b[6] * Power[Place(back, 6)] + b[7] * Power[Place(back, 7)]
  BY <1>1, WholeRow
<1>4. /\ Place("LSBFIRST", 0) = 0 /\ Place("LSBFIRST", 1) = 1 /\ Place("LSBFIRST", 2) = 2
      /\ Place("LSBFIRST", 3) = 3 /\ Place("LSBFIRST", 4) = 4 /\ Place("LSBFIRST", 5) = 5
      /\ Place("LSBFIRST", 6) = 6 /\ Place("LSBFIRST", 7) = 7
      /\ Place("MSBFIRST", 0) = 7 /\ Place("MSBFIRST", 1) = 6 /\ Place("MSBFIRST", 2) = 5
      /\ Place("MSBFIRST", 3) = 4 /\ Place("MSBFIRST", 4) = 3 /\ Place("MSBFIRST", 5) = 2
      /\ Place("MSBFIRST", 6) = 1 /\ Place("MSBFIRST", 7) = 0
  BY SMT DEF Place
<1>5. Reversed(v) = BitAt(v, 7) * 1 + BitAt(v, 6) * 2 + BitAt(v, 5) * 4 + BitAt(v, 4) * 8
                    + BitAt(v, 3) * 16 + BitAt(v, 2) * 32 + BitAt(v, 1) * 64 + BitAt(v, 0) * 128
  <2> DEFINE r == [n \in 0..7 |-> BitAt(v, 7 - n) * Power[n]]
  <2>1. /\ r[0] = BitAt(v, 7) * 1 /\ r[1] = BitAt(v, 6) * 2 /\ r[2] = BitAt(v, 5) * 4
        /\ r[3] = BitAt(v, 4) * 8 /\ r[4] = BitAt(v, 3) * 16 /\ r[5] = BitAt(v, 2) * 32
        /\ r[6] = BitAt(v, 1) * 64 /\ r[7] = BitAt(v, 0) * 128
    BY Powers, SMT
  <2>2. Reversed(v) = r[0] + r[1] + r[2] + r[3] + r[4] + r[5] + r[6] + r[7]
    BY DEF Reversed
  <2> HIDE DEF r
  <2> QED BY <2>1, <2>2
<1>6. CASE order = "LSBFIRST" /\ back = "LSBFIRST"
  <2>1. Parts8(b, back, 8) =
          BitAt(v, 0) * 1 + BitAt(v, 1) * 2 + BitAt(v, 2) * 4 + BitAt(v, 3) * 8
          + BitAt(v, 4) * 16 + BitAt(v, 5) * 32 + BitAt(v, 6) * 64 + BitAt(v, 7) * 128
    BY <1>2, <1>3, <1>4, <1>6, Powers
  <2> QED BY <1>6, <2>1, RowBits DEF b
<1>7. CASE order = "MSBFIRST" /\ back = "MSBFIRST"
  <2>1. Parts8(b, back, 8) =
          BitAt(v, 7) * 128 + BitAt(v, 6) * 64 + BitAt(v, 5) * 32 + BitAt(v, 4) * 16
          + BitAt(v, 3) * 8 + BitAt(v, 2) * 4 + BitAt(v, 1) * 2 + BitAt(v, 0) * 1
    BY <1>2, <1>3, <1>4, <1>7, Powers
  <2>2. Parts8(b, back, 8) = v
    BY <2>1, RowBits, SMT
  <2> QED BY <1>7, <2>2 DEF b
<1>8. CASE order = "LSBFIRST" /\ back = "MSBFIRST"
  <2>1. Parts8(b, back, 8) =
          BitAt(v, 0) * 128 + BitAt(v, 1) * 64 + BitAt(v, 2) * 32 + BitAt(v, 3) * 16
          + BitAt(v, 4) * 8 + BitAt(v, 5) * 4 + BitAt(v, 6) * 2 + BitAt(v, 7) * 1
    BY <1>2, <1>3, <1>4, <1>8, Powers
  <2>2. Parts8(b, back, 8) = Reversed(v)
    BY <1>5, <2>1, RowBits, SMT
  <2> QED BY <1>8, <2>2 DEF b
<1>9. CASE order = "MSBFIRST" /\ back = "LSBFIRST"
  <2>1. Parts8(b, back, 8) =
          BitAt(v, 7) * 1 + BitAt(v, 6) * 2 + BitAt(v, 5) * 4 + BitAt(v, 4) * 8
          + BitAt(v, 3) * 16 + BitAt(v, 2) * 32 + BitAt(v, 1) * 64 + BitAt(v, 0) * 128
    BY <1>2, <1>3, <1>4, <1>9, Powers
  <2>2. Parts8(b, back, 8) = Reversed(v)
    BY <1>5, <2>1, RowBits, SMT
  <2> QED BY <1>9, <2>2 DEF b
<1> QED BY <1>6, <1>7, <1>8, <1>9 DEF Orders

\* No row makes more than all ones.
LEMMA OnesBound ==
  ASSUME NEW order \in Orders, NEW n \in 0..8
  PROVE  Parts8(Ones, order, n) \in Byte
<1> DEFINE t(k) == Ones[k] * Power[Place(order, k)]
           p(k) == IF k < n THEN t(k) ELSE 0
<1>1. /\ Ones[0] = 1 /\ Ones[1] = 1 /\ Ones[2] = 1 /\ Ones[3] = 1 /\ Ones[4] = 1 /\ Ones[5] = 1
      /\ Ones[6] = 1 /\ Ones[7] = 1
  BY SMT DEF Ones
<1>2. \/ /\ Place(order, 0) = 0 /\ Place(order, 1) = 1 /\ Place(order, 2) = 2
         /\ Place(order, 3) = 3 /\ Place(order, 4) = 4 /\ Place(order, 5) = 5
         /\ Place(order, 6) = 6 /\ Place(order, 7) = 7
      \/ /\ Place(order, 0) = 7 /\ Place(order, 1) = 6 /\ Place(order, 2) = 5
         /\ Place(order, 3) = 4 /\ Place(order, 4) = 3 /\ Place(order, 5) = 2
         /\ Place(order, 6) = 1 /\ Place(order, 7) = 0
  BY SMT DEF Place
<1>3. \/ /\ t(0) = 1 /\ t(1) = 2 /\ t(2) = 4 /\ t(3) = 8
         /\ t(4) = 16 /\ t(5) = 32 /\ t(6) = 64 /\ t(7) = 128
      \/ /\ t(0) = 128 /\ t(1) = 64 /\ t(2) = 32 /\ t(3) = 16
         /\ t(4) = 8 /\ t(5) = 4 /\ t(6) = 2 /\ t(7) = 1
  BY <1>1, <1>2, Powers, SMT
<1> HIDE DEF t
<1>4. Parts8(Ones, order, n) = p(0) + p(1) + p(2) + p(3) + p(4) + p(5) + p(6) + p(7)
  BY DEF Parts8, Part, t
<1>5. p(0) + p(1) + p(2) + p(3) + p(4) + p(5) + p(6) + p(7) \in Byte
  BY <1>3, SMT DEF Byte
<1> QED BY <1>4, <1>5

\* A function on 1..n is a sequence.
LEMMA FunIsSeq ==
  ASSUME NEW S, NEW n \in Nat, NEW r \in [1..n -> S]
  PROVE  r \in Seq(S) /\ Len(r) = n
<1>1. r \in Seq(S)
  BY SMT
<1>2. DOMAIN r = 1..n /\ DOMAIN r = 1..Len(r) /\ Len(r) \in Nat
  BY <1>1, LenProperties
<1> QED BY <1>1, <1>2, SMT

\* The register after another bit.
LEMMA MovesOn ==
  ASSUME NEW r \in [1..8 -> {0, 1}], NEW d \in {0, 1}
  PROVE  /\ Append(Tail(r), d) \in [1..8 -> {0, 1}] /\ Head(r) = r[1] /\ Head(r) \in {0, 1}
         /\ \A k \in 1..7 : Append(Tail(r), d)[k] = r[k + 1]
         /\ Append(Tail(r), d)[8] = d
<1> DEFINE S == {0, 1}
<1>0. r \in [1..8 -> S] /\ d \in S
  OBVIOUS
<1> HIDE DEF S
<1>1. r \in Seq(S) /\ Len(r) = 8
  <2> DEFINE n == 8
  <2>1. n \in Nat /\ r \in [1..n -> S]
    BY <1>0, SMT
  <2> HIDE DEF n
  <2>2. r \in Seq(S) /\ Len(r) = n
    BY <2>1, FunIsSeq
  <2> QED BY <2>2 DEF n
<1>2. r # <<>>
  <2>1. Len(<<>>) = 0
    BY EmptySeq
  <2>2. 8 # 0
    BY SMT
  <2> QED BY <1>1, <2>1, <2>2
<1>3. Tail(r) \in Seq(S) /\ Len(Tail(r)) = 7 /\ \A k \in 1..7 : Tail(r)[k] = r[k + 1]
  <2>1. Tail(r) \in Seq(S) /\ Len(Tail(r)) = Len(r) - 1
        /\ \A k \in 1..Len(Tail(r)) : Tail(r)[k] = r[k + 1]
    BY <1>1, <1>2, HeadTailProperties
  <2>2. Len(Tail(r)) = 7
    BY <1>1, <2>1, SMT
  <2> QED BY <2>1, <2>2
<1> DEFINE s == Append(Tail(r), d)
<1>4. s \in Seq(S) /\ Len(s) = 8 /\ s[8] = d /\ \A k \in 1..7 : s[k] = Tail(r)[k]
  <2>1. s \in Seq(S) /\ Len(s) = Len(Tail(r)) + 1 /\ s[Len(Tail(r)) + 1] = d
        /\ \A k \in 1..Len(Tail(r)) : s[k] = Tail(r)[k]
    <3> DEFINE t == Tail(r)
    <3>1. t \in Seq(S)
      BY <1>3
    <3> HIDE DEF t
    <3>2. /\ Append(t, d) \in Seq(S) /\ Len(Append(t, d)) = Len(t) + 1
          /\ \A k \in 1..Len(t) : Append(t, d)[k] = t[k]
          /\ Append(t, d)[Len(t) + 1] = d
      BY <1>0, <3>1, AppendProperties
    <3> QED BY <3>2 DEF t
  <2>2. Len(Tail(r)) + 1 = 8
    BY <1>3, SMT
  <2> QED BY <1>3, <2>1, <2>2
<1>5. Head(r) = r[1] /\ Head(r) \in S
  BY <1>1, <1>2, SMT, HeadTailProperties
<1> HIDE DEF s
<1>6. s \in [1..8 -> S]
  BY <1>4, LenProperties
<1> QED BY <1>3, <1>4, <1>5, <1>6 DEF s, S

\* The first n bits of a row are in the register, at its end.
Sent(r, b, n) == \A m \in 0..7 : m < n => r[9 - n + m] = b[m]
\* Those from n on are, at its beginning.
Kept(r, b, n) == \A m \in 0..7 : n <= m => r[1 + m - n] = b[m]

LEMMA SentNext ==
  ASSUME NEW r \in [1..8 -> {0, 1}], NEW b, NEW n \in 0..7, NEW d \in {0, 1}, Sent(r, b, n)
  PROVE  d = b[n] => Sent(Append(Tail(r), d), b, n + 1)
<1> DEFINE s == Append(Tail(r), d)
<1>0. \A k \in 1..7 : s[k] = r[k + 1]
  BY MovesOn
<1>1. s[8] = d
  BY MovesOn
<1> HIDE DEF s
<1>2. ASSUME d = b[n], NEW m \in 0..7, m < n + 1 PROVE s[9 - (n + 1) + m] = b[m]
  <2>1. CASE m = n
    <3>1. 9 - (n + 1) + m = 8
      BY <2>1, SMT
    <3> QED BY <1>1, <1>2, <2>1, <3>1
  <2>2. CASE m # n
    <3>1. m < n /\ 9 - (n + 1) + m \in 1..7 /\ (9 - (n + 1) + m) + 1 = 9 - n + m
      BY <1>2, <2>2, SMT
    <3>2. r[9 - n + m] = b[m]
      BY <3>1 DEF Sent
    <3>3. s[9 - (n + 1) + m] = r[(9 - (n + 1) + m) + 1]
      BY <1>0, <3>1
    <3> QED BY <3>1, <3>2, <3>3
  <2> QED BY <2>1, <2>2
<1> QED BY <1>2 DEF Sent, s

LEMMA KeptNext ==
  ASSUME NEW r \in [1..8 -> {0, 1}], NEW b, NEW n \in 0..7, NEW d \in {0, 1}, Kept(r, b, n)
  PROVE  Kept(Append(Tail(r), d), b, n + 1) /\ Head(r) = b[n]
<1> DEFINE s == Append(Tail(r), d)
<1>1. Head(r) = r[1] /\ \A k \in 1..7 : s[k] = r[k + 1]
  BY MovesOn
<1> HIDE DEF s
<1>2. ASSUME NEW m \in 0..7, n + 1 <= m PROVE s[1 + m - (n + 1)] = b[m]
  <2>1. n <= m /\ 1 + m - (n + 1) \in 1..7 /\ (1 + m - (n + 1)) + 1 = 1 + m - n
    BY <1>2, SMT
  <2>2. r[1 + m - n] = b[m]
    BY <2>1 DEF Kept
  <2>3. s[1 + m - (n + 1)] = r[(1 + m - (n + 1)) + 1]
    BY <1>1, <2>1
  <2> QED BY <2>1, <2>2, <2>3
<1>3. r[1] = b[n]
  <2>1. n <= n /\ 1 + n - n = 1
    BY SMT
  <2> QED BY <2>1 DEF Kept
<1> QED BY <1>1, <1>2, <1>3 DEF Kept, s

LEMMA SentIsKept == ASSUME NEW r, NEW b, Sent(r, b, 8) PROVE Kept(r, b, 0)
<1>1. ASSUME NEW m \in 0..7 PROVE r[1 + m - 0] = b[m]
  <2>1. m < 8 /\ 9 - 8 + m = 1 + m - 0
    BY SMT
  <2> QED BY <2>1 DEF Sent
<1> QED BY <1>1 DEF Kept

\* The accesses of a call; those at which the clock is high.
Sending == {"data", "pulse", "endPulse"}
Taking == {"clock", "read", "endClock"}
High == {"endPulse", "read", "endClock"}

\* How many bits have crossed: they do when the clock rises.
Crossed == bitIndex + (IF shiftPc \in High THEN 1 ELSE 0)
\* How many shiftIn() has added.
Added == bitIndex + (IF shiftPc = "endClock" THEN 1 ELSE 0)
LastRow == Row(sent[1], sent[2])

\* The inductive invariant.
ShiftIInv ==
  /\ ShiftTypeOK
  /\ shiftPc \in Sending \cup Taking \cup {"sketch"} /\ (shiftPc = "sketch" => bitIndex = 0)
  /\ sent = <<>> \/ sent \in Byte \X Orders
  /\ clock = IF shiftPc \in High THEN HIGH ELSE LOW
  /\ shiftPc \in Sending => Sent(register, Row(val, bitOrder), Crossed)
  /\ shiftPc = "pulse" => data = Row(val, bitOrder)[bitIndex]
  /\ shiftPc \in Taking => val <= Parts8(Ones, bitOrder, Added)
  /\ sent # <<>> /\ shiftPc \in Taking \cup {"sketch"} => Kept(register, LastRow, Crossed)
  /\ sent # <<>> /\ shiftPc \in Taking => val = Parts8(LastRow, bitOrder, Added)
  /\ sent # <<>> /\ shiftPc = "read" => out = LastRow[bitIndex]

LEMMA ShiftStarts == ASSUME ShiftInit PROVE ShiftIInv
<1>1. ShiftTypeOK
  BY SMT DEF ShiftInit, ShiftTypeOK, Orders, LOW, HIGH
<1> QED BY <1>1 DEF ShiftInit, ShiftIInv, Sending, Taking, High, LOW, HIGH

LEMMA ByteIs == Byte = 0..255
BY DEF Byte

LEMMA CallOutKeeps ==
  ASSUME ShiftIInv, NEW order \in Orders, NEW v \in Bytes, CallOut(order, v)
  PROVE  ShiftIInv'
<1>1. /\ shiftPc = "sketch" /\ shiftPc' = "data" /\ bitOrder' = order /\ val' = v
      /\ clock' = clock /\ data' = data /\ register' = register /\ out' = out
      /\ bitIndex' = bitIndex /\ sent' = sent /\ bitIndex = 0
  BY DEF CallOut, ShiftIInv
<1>2. ShiftTypeOK'
  BY <1>1, ShiftAssumption DEF ShiftIInv, ShiftTypeOK
<1>3. Crossed' = 0
  BY <1>1, SMT DEF Crossed, High
<1>4. Sent(register, Row(val, bitOrder), Crossed)'
  <2>1. \A m \in 0..7 : ~ (m < 0)
    BY SMT
  <2> QED BY <1>3, <2>1 DEF Sent
<1> QED BY <1>1, <1>2, <1>4 DEF ShiftIInv, Sending, Taking, High

LEMMA CallInKeeps ==
  ASSUME ShiftIInv, NEW order \in Orders, CallIn(order)
  PROVE  ShiftIInv'
<1>1. /\ shiftPc = "sketch" /\ shiftPc' = "clock" /\ bitOrder' = order /\ val' = 0
      /\ clock' = clock /\ data' = data /\ register' = register /\ out' = out
      /\ bitIndex' = bitIndex /\ sent' = sent /\ bitIndex = 0
  BY DEF CallIn, ShiftIInv
<1>2. ShiftTypeOK'
  <2>1. 0 \in 0..255
    BY SMT
  <2> QED BY <1>1, <2>1 DEF ShiftIInv, ShiftTypeOK
<1>3. Crossed' = 0 /\ Added' = 0 /\ Crossed = 0
  BY <1>1, SMT DEF Crossed, Added, High
<1>4. \A b \in Rows : Parts8(b, order, 0) = 0
  <2>1. 0 \in 0..7
    BY SMT
  <2> QED BY <2>1, PartStep
<1>5. Ones \in Rows
  BY SMT DEF Ones, Rows
<1>6. (val <= Parts8(Ones, bitOrder, Added))'
  BY <1>1, <1>3, <1>4, <1>5, SMT
<1>7. sent # <<>> => val' = Parts8(LastRow', bitOrder', Added')
  <2> SUFFICES ASSUME sent # <<>> PROVE val' = Parts8(LastRow', bitOrder', Added')
    OBVIOUS
  <2>1. LastRow \in Rows
    <3>1. sent[1] \in Byte /\ sent[2] \in Orders
      BY DEF ShiftIInv
    <3> QED BY <3>1, RowBits, RowIs DEF LastRow
  <2>2. LastRow' = LastRow
    BY <1>1 DEF LastRow
  <2> QED BY <1>1, <1>3, <1>4, <2>1, <2>2
<1>8. sent # <<>> => Kept(register', LastRow', Crossed')
  <2> SUFFICES ASSUME sent # <<>> PROVE Kept(register', LastRow', Crossed')
    OBVIOUS
  <2>1. Kept(register, LastRow, Crossed)
    BY <1>1 DEF ShiftIInv
  <2> QED BY <1>1, <1>3, <2>1 DEF LastRow
<1> QED BY <1>1, <1>2, <1>6, <1>7, <1>8 DEF ShiftIInv, Sending, Taking, High

LEMMA WriteDataKeeps == ASSUME ShiftIInv, WriteData PROVE ShiftIInv'
<1>1. /\ shiftPc = "data" /\ shiftPc' = "pulse" /\ data' = BitAt(val, Place(bitOrder, bitIndex))
      /\ bitOrder' = bitOrder /\ val' = val /\ clock' = clock /\ register' = register /\ out' = out
      /\ bitIndex' = bitIndex /\ sent' = sent
  BY DEF WriteData
<1>2. bitIndex \in 0..7 /\ val \in Int /\ bitOrder \in Orders
  BY SMT DEF ShiftIInv, ShiftTypeOK
<1>3. data' = Row(val, bitOrder)[bitIndex]
  BY <1>1, <1>2 DEF Row
<1>4. data' \in {0, 1}
  BY <1>1, <1>2, BitIs, Places8
<1>5. ShiftTypeOK'
  BY <1>1, <1>4 DEF ShiftIInv, ShiftTypeOK
<1>6. Crossed' = Crossed
  BY <1>1 DEF Crossed, High
<1>7. Sent(register, Row(val, bitOrder), Crossed)'
  <2>1. Sent(register, Row(val, bitOrder), Crossed)
    BY <1>1 DEF ShiftIInv, Sending
  <2> QED BY <1>1, <1>6, <2>1
<1> QED BY <1>1, <1>3, <1>5, <1>7 DEF ShiftIInv, Sending, Taking, High

LEMMA RaiseClockKeeps == ASSUME ShiftIInv, RaiseClock PROVE ShiftIInv'
<1>1. /\ shiftPc = "pulse" /\ shiftPc' = "endPulse" /\ WriteClock(HIGH)
      /\ data' = data /\ bitOrder' = bitOrder /\ val' = val /\ bitIndex' = bitIndex /\ sent' = sent
  BY DEF RaiseClock
<1>2. /\ ShiftTypeOK /\ clock = LOW /\ data = Row(val, bitOrder)[bitIndex]
      /\ Sent(register, Row(val, bitOrder), Crossed)
  BY <1>1 DEF ShiftIInv, Sending, High
<1>3. clock' = HIGH /\ register' = Append(Tail(register), data) /\ out' = Head(register)
  BY <1>1, <1>2 DEF WriteClock
<1>4. register \in [1..8 -> {0, 1}] /\ data \in {0, 1} /\ bitIndex \in 0..7
  BY <1>2 DEF ShiftTypeOK
<1>5. ShiftTypeOK'
  BY <1>1, <1>2, <1>3, <1>4, MovesOn DEF ShiftTypeOK
<1>6. Crossed = bitIndex /\ Crossed' = bitIndex + 1
  BY <1>1, <1>4, SMT DEF Crossed, High
<1>7. Sent(register, Row(val, bitOrder), Crossed)'
  <2>1. Sent(register', Row(val, bitOrder), bitIndex + 1)
    BY <1>2, <1>3, <1>4, <1>6, SentNext
  <2> QED BY <1>1, <1>6, <2>1
<1> QED BY <1>1, <1>3, <1>5, <1>7 DEF ShiftIInv, Sending, Taking, High

\* The next bit, or the end of the call.
LEMMA NextBitIs ==
  ASSUME bitIndex \in 0..7, NEW label, NextBit(label)
  PROVE  bitIndex' \in 0..7 /\
         \/ bitIndex = 7 /\ shiftPc' = "sketch" /\ bitIndex' = 0 /\ bitIndex + 1 = 8
         \/ bitIndex # 7 /\ shiftPc' = label /\ bitIndex' = bitIndex + 1
BY SMT DEF NextBit

LEMMA LowerClockKeeps == ASSUME ShiftIInv, LowerClock PROVE ShiftIInv'
<1>1. /\ shiftPc = "endPulse" /\ WriteClock(LOW) /\ NextBit("data")
      /\ sent' = (IF bitIndex = 7 THEN <<val, bitOrder>> ELSE sent)
      /\ data' = data /\ bitOrder' = bitOrder /\ val' = val
  BY DEF LowerClock
<1>2. /\ ShiftTypeOK /\ bitIndex \in 0..7 /\ Sent(register, Row(val, bitOrder), Crossed)
      /\ val \in Byte /\ bitOrder \in Orders /\ (sent = <<>> \/ sent \in Byte \X Orders)
  BY <1>1 DEF ShiftIInv, Sending, ShiftTypeOK, Byte
<1>3. clock' = LOW /\ register' = register /\ out' = out
  BY <1>1 DEF WriteClock, LOW, HIGH
<1>4. bitIndex' \in 0..7 /\
      (\/ bitIndex = 7 /\ shiftPc' = "sketch" /\ bitIndex' = 0 /\ bitIndex + 1 = 8
       \/ bitIndex # 7 /\ shiftPc' = "data" /\ bitIndex' = bitIndex + 1)
  BY <1>1, <1>2, NextBitIs
<1>5. ShiftTypeOK'
  BY <1>1, <1>2, <1>3, <1>4 DEF ShiftTypeOK
<1>6. Crossed = bitIndex + 1
  BY <1>1 DEF Crossed, High
<1>7. CASE bitIndex = 7
  <2>1. shiftPc' = "sketch" /\ bitIndex' = 0 /\ sent' = <<val, bitOrder>> /\ Crossed = 8
    BY <1>1, <1>4, <1>6, <1>7
  <2>2. sent' \in Byte \X Orders
    BY <1>2, <2>1
  <2>3. Crossed' = 0
    BY <2>1, SMT DEF Crossed, High
  <2>4. LastRow' = Row(val, bitOrder)
    BY <2>1 DEF LastRow
  <2>5. Kept(register, LastRow, Crossed)'
    BY <1>2, <1>3, <2>1, <2>3, <2>4, SentIsKept
  <2> QED BY <1>3, <1>5, <2>1, <2>2, <2>5 DEF ShiftIInv, Sending, Taking, High
<1>8. CASE bitIndex # 7
  <2>1. shiftPc' = "data" /\ sent' = sent /\ bitIndex' = bitIndex + 1
    BY <1>1, <1>4, <1>8
  <2>2. Crossed' = bitIndex + 1
    BY <1>2, <2>1, SMT DEF Crossed, High
  <2>3. Sent(register, Row(val, bitOrder), Crossed)'
    BY <1>1, <1>2, <1>3, <1>6, <2>2
  <2> QED BY <1>2, <1>3, <1>5, <2>1, <2>3 DEF ShiftIInv, Sending, Taking, High
<1> QED BY <1>7, <1>8

LEMMA ClockInKeeps == ASSUME ShiftIInv, ClockIn PROVE ShiftIInv'
<1>1. /\ shiftPc = "clock" /\ shiftPc' = "read" /\ WriteClock(HIGH)
      /\ data' = data /\ bitOrder' = bitOrder /\ val' = val /\ bitIndex' = bitIndex /\ sent' = sent
  BY DEF ClockIn
<1>2. /\ ShiftTypeOK /\ clock = LOW /\ val <= Parts8(Ones, bitOrder, Added)
      /\ (sent # <<>> => Kept(register, LastRow, Crossed) /\ val = Parts8(LastRow, bitOrder, Added))
  BY <1>1 DEF ShiftIInv, Taking, High
<1>3. clock' = HIGH /\ register' = Append(Tail(register), data) /\ out' = Head(register)
  BY <1>1, <1>2 DEF WriteClock
<1>4. register \in [1..8 -> {0, 1}] /\ data \in {0, 1} /\ bitIndex \in 0..7
  BY <1>2 DEF ShiftTypeOK
<1>5. ShiftTypeOK'
  BY <1>1, <1>2, <1>3, <1>4, MovesOn DEF ShiftTypeOK
<1>6. Crossed = bitIndex /\ Crossed' = bitIndex + 1 /\ Added' = Added /\ LastRow' = LastRow
  BY <1>1, <1>4, SMT DEF Crossed, High, Added, LastRow
<1>7. (val <= Parts8(Ones, bitOrder, Added))' /\ (sent # <<>> => val = Parts8(LastRow, bitOrder, Added))'
  BY <1>1, <1>2, <1>6
<1>8. sent # <<>> => Kept(register', LastRow, bitIndex + 1) /\ out' = LastRow[bitIndex]
  BY <1>2, <1>3, <1>4, <1>6, KeptNext
<1>9. (sent # <<>> => Kept(register, LastRow, Crossed) /\ out = LastRow[bitIndex])'
  BY <1>1, <1>6, <1>8
<1> QED BY <1>1, <1>3, <1>5, <1>7, <1>9 DEF ShiftIInv, Sending, Taking, High

LEMMA ReadDataKeeps == ASSUME ShiftIInv, ReadData PROVE ShiftIInv'
<1> DEFINE w == Power[Place(bitOrder, bitIndex)]
<1>1. /\ shiftPc = "read" /\ shiftPc' = "endClock" /\ val' = val + out * w
      /\ bitOrder' = bitOrder /\ data' = data /\ clock' = clock /\ register' = register /\ out' = out
      /\ bitIndex' = bitIndex /\ sent' = sent
  BY DEF ReadData
<1>2. /\ ShiftTypeOK /\ val <= Parts8(Ones, bitOrder, Added)
      /\ (sent # <<>> => Kept(register, LastRow, Crossed) /\ val = Parts8(LastRow, bitOrder, Added)
                         /\ out = LastRow[bitIndex])
      /\ (sent = <<>> \/ sent \in Byte \X Orders) /\ clock = HIGH
  BY <1>1 DEF ShiftIInv, Taking, High
<1>3. /\ bitIndex \in 0..7 /\ bitOrder \in Orders /\ out \in {0, 1} /\ val \in Nat
  BY <1>2, SMT DEF ShiftTypeOK
<1>4. Added = bitIndex /\ Added' = bitIndex + 1 /\ Crossed' = Crossed /\ LastRow' = LastRow
  BY <1>1, <1>3, SMT DEF Crossed, High, Added, LastRow
<1>5. w \in Nat /\ w > 0
  BY <1>3, PowerNat, Places8
<1>6. Ones \in Rows /\ Ones[bitIndex] = 1
  BY <1>3, SMT DEF Ones, Rows
<1>7. /\ Parts8(Ones, bitOrder, bitIndex) \in Nat
      /\ Parts8(Ones, bitOrder, bitIndex + 1) = Parts8(Ones, bitOrder, bitIndex) + 1 * w
      /\ Parts8(Ones, bitOrder, bitIndex + 1) \in Byte
  <2>1. bitIndex + 1 \in 0..8
    BY <1>3, SMT
  <2> QED BY <1>3, <1>6, <2>1, PartStep, OnesBound
<1> HIDE DEF w
<1> DEFINE all == Parts8(Ones, bitOrder, bitIndex + 1)
           some == Parts8(Ones, bitOrder, bitIndex)
<1>8. val' <= all /\ val' \in 0..255
  <2>1. val <= some /\ some \in Nat /\ all = some + 1 * w /\ all \in 0..255
    BY <1>2, <1>4, <1>7 DEF Byte
  <2> HIDE DEF all, some
  <2>2. CASE out = 0
    BY <1>1, <1>3, <1>5, <2>1, <2>2, SMT
  <2>3. CASE out = 1
    BY <1>1, <1>3, <1>5, <2>1, <2>3, SMT
  <2> QED BY <1>3, <2>2, <2>3
<1>9. ShiftTypeOK'
  BY <1>1, <1>2, <1>8 DEF ShiftTypeOK
<1>10. (val <= Parts8(Ones, bitOrder, Added))'
  BY <1>1, <1>4, <1>8
<1>11. (sent # <<>> => Kept(register, LastRow, Crossed) /\ val = Parts8(LastRow, bitOrder, Added))'
  <2> SUFFICES ASSUME sent # <<>>
               PROVE  Kept(register, LastRow, Crossed) /\ val' = Parts8(LastRow, bitOrder, bitIndex + 1)
    BY <1>1, <1>4
  <2>1. LastRow \in Rows
    <3>1. sent[1] \in Byte /\ sent[2] \in Orders
      BY <1>2
    <3> QED BY <3>1, RowBits, RowIs DEF LastRow
  <2>2. Parts8(LastRow, bitOrder, bitIndex + 1) = Parts8(LastRow, bitOrder, bitIndex) + LastRow[bitIndex] * w
    BY <1>3, <2>1, PartStep DEF w
  <2>3. val = Parts8(LastRow, bitOrder, bitIndex) /\ out = LastRow[bitIndex]
    BY <1>2, <1>4
  <2> QED BY <1>1, <1>2, <2>2, <2>3
<1> QED BY <1>1, <1>2, <1>9, <1>10, <1>11 DEF ShiftIInv, Sending, Taking, High

LEMMA EndClockInKeeps == ASSUME ShiftIInv, EndClockIn PROVE ShiftIInv'
<1>1. /\ shiftPc = "endClock" /\ WriteClock(LOW) /\ NextBit("clock")
      /\ sent' = (IF bitIndex = 7 THEN <<>> ELSE sent)
      /\ data' = data /\ bitOrder' = bitOrder /\ val' = val
  BY DEF EndClockIn
<1>2. /\ ShiftTypeOK /\ bitIndex \in 0..7 /\ val <= Parts8(Ones, bitOrder, Added)
      /\ (sent # <<>> => Kept(register, LastRow, Crossed) /\ val = Parts8(LastRow, bitOrder, Added))
      /\ (sent = <<>> \/ sent \in Byte \X Orders)
  BY <1>1 DEF ShiftIInv, Taking, ShiftTypeOK
<1>3. clock' = LOW /\ register' = register /\ out' = out
  BY <1>1 DEF WriteClock, LOW, HIGH
<1>4. bitIndex' \in 0..7 /\
      (\/ bitIndex = 7 /\ shiftPc' = "sketch" /\ bitIndex' = 0 /\ bitIndex + 1 = 8
       \/ bitIndex # 7 /\ shiftPc' = "clock" /\ bitIndex' = bitIndex + 1)
  BY <1>1, <1>2, NextBitIs
<1>5. ShiftTypeOK'
  BY <1>1, <1>2, <1>3, <1>4 DEF ShiftTypeOK
<1>6. CASE bitIndex = 7
  <2>1. shiftPc' = "sketch" /\ bitIndex' = 0 /\ sent' = <<>>
    BY <1>1, <1>4, <1>6
  <2> QED BY <1>3, <1>5, <2>1 DEF ShiftIInv, Sending, Taking, High
<1>7. CASE bitIndex # 7
  <2>1. shiftPc' = "clock" /\ sent' = sent /\ bitIndex' = bitIndex + 1
    BY <1>1, <1>4, <1>7
  <2>2. Crossed = bitIndex + 1 /\ Added = bitIndex + 1
    BY <1>1 DEF Crossed, High, Added
  <2>3. Crossed' = bitIndex + 1 /\ Added' = bitIndex + 1 /\ LastRow' = LastRow
    BY <1>2, <2>1, SMT DEF Crossed, High, Added, LastRow
  <2>4. (val <= Parts8(Ones, bitOrder, Added))'
    BY <1>1, <1>2, <2>2, <2>3
  <2>5. (sent # <<>> => Kept(register, LastRow, Crossed) /\ val = Parts8(LastRow, bitOrder, Added))'
    BY <1>1, <1>2, <1>3, <2>1, <2>2, <2>3
  <2> QED BY <1>2, <1>3, <1>5, <2>1, <2>4, <2>5 DEF ShiftIInv, Sending, Taking, High
<1> QED BY <1>6, <1>7

LEMMA ShiftKeeps == ShiftIInv /\ [ShiftNext]_shiftVars => ShiftIInv'
<1> SUFFICES ASSUME ShiftIInv, [ShiftNext]_shiftVars PROVE ShiftIInv'
  OBVIOUS
<1>1. CASE ShiftNext
  BY <1>1, CallInKeeps, CallOutKeeps, WriteDataKeeps, RaiseClockKeeps, LowerClockKeeps,
     ClockInKeeps, ReadDataKeeps, EndClockInKeeps DEF ShiftNext
<1>2. CASE UNCHANGED shiftVars
  BY <1>2 DEF shiftVars, ShiftIInv, ShiftTypeOK, Crossed, Added, LastRow
<1> QED BY <1>1, <1>2

\* The last bit has been added: the whole row is there.
LEMMA ByteBack ==
  ASSUME ShiftIInv, shiftPc = "endClock", bitIndex = 7, sent # <<>>
  PROVE  val = IF bitOrder = sent[2] THEN sent[1] ELSE Reversed(sent[1])
<1>1. Added = 8
  BY SMT DEF Added
<1>2. val = Parts8(LastRow, bitOrder, 8) /\ bitOrder \in Orders
  BY <1>1 DEF ShiftIInv, Taking, ShiftTypeOK
<1>3. sent[1] \in Byte /\ sent[2] \in Orders
  BY DEF ShiftIInv
<1> QED BY <1>2, <1>3, RoundTrips DEF LastRow

LEMMA ShiftSteps ==
  ASSUME ShiftIInv, ShiftIInv', [ShiftNext]_shiftVars
  PROVE  /\ (data' # data => clock = LOW /\ clock' = LOW)
         /\ (shiftPc' = "sketch" => clock' = LOW)
<1>1. shiftPc' = "sketch" => clock' = LOW
  BY DEF ShiftIInv, High
<1>2. ASSUME data' # data PROVE WriteData
  BY <1>2 DEF ShiftNext, shiftVars, CallIn, CallOut, RaiseClock, LowerClock, ClockIn, ReadData, EndClockIn
<1>3. ASSUME WriteData PROVE clock = LOW /\ clock' = LOW
  BY <1>3 DEF WriteData, ShiftIInv, High
<1> QED BY <1>1, <1>2, <1>3

\* For every sequence of shiftOut() and shiftIn(), the byte taken back from the shift
\* register is the one sent, bit for bit by the same order and reversed by the other, and
\* the register sees the data line stable while the clock is high
\* (wiring_shift.c 25-55).
THEOREM BytesCrossWhole == ShiftSpec => ShiftsWhole
<1>1. ShiftInit => ShiftIInv
  BY ShiftStarts
<1>2. ShiftIInv /\ [ShiftNext]_shiftVars => ShiftIInv'
  BY ShiftKeeps
<1>3. ShiftIInv => ShiftTypeOK
  BY DEF ShiftIInv
<1>4. ShiftIInv => [shiftPc = "endClock" /\ bitIndex = 7 /\ sent # <<>> =>
                     val = IF bitOrder = sent[2] THEN sent[1] ELSE Reversed(sent[1])]_shiftVars
  BY ByteBack
<1>5. ShiftIInv /\ ShiftIInv' /\ [ShiftNext]_shiftVars =>
        [(data' # data => clock = LOW /\ clock' = LOW) /\ (shiftPc' = "sketch" => clock' = LOW)]_shiftVars
  BY ShiftSteps
<1> QED BY <1>1, <1>2, <1>3, <1>4, <1>5, PTL DEF ShiftSpec, ShiftsWhole, RoundTrip, DataStable

=============================================================================
