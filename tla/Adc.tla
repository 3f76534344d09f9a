-------------------------------- MODULE Adc ---------------------------------
(***************************************************************************)
(* Analog readings (wiring_analog.c, analogReference() and analogRead())   *)
(* with the converter of the board: a multiplexer, one conversion at a     *)
(* time, and a result in two registers that are locked from the reading of *)
(* the lower to the reading of the higher.                                 *)
(*                                                                         *)
(* The sketch and an interrupt handler may both read; a handler runs to    *)
(* its end before the sketch goes on, and comes between any two accesses.  *)
(***************************************************************************)
EXTENDS Integers, FiniteSets

CONSTANTS
  is32U4,     \* whether the board is an ATmega32U4
  Pins,       \* the arguments of analogRead()
  References, \* the arguments of analogReference(); DEFAULT is one of them
  Voltages,   \* what a conversion may give: the low two bits of a result
  DEFAULT

\* The pins are numbers of channels or of pins the board has.
ASSUME AdcAssumption ==
  /\ DEFAULT \in References /\ is32U4 \in BOOLEAN /\ Voltages \subseteq 0..3
  /\ Pins \subseteq IF is32U4 THEN 0..11 \cup 18..29 ELSE 0..7 \cup 14..21

\* analog_pin_to_channel_PGM of the ATmega32U4.
analogPinToChannel(p) == <<7, 6, 5, 4, 1, 0, 8, 10, 11, 12, 13, 9>>[p + 1]

\* An argument is the number of a channel or of its pin.
ChannelOf(p) ==
  IF is32U4 THEN analogPinToChannel(IF p >= 18 THEN p - 18 ELSE p)
  ELSE IF p >= 14 THEN p - 14 ELSE p

Channels == {ChannelOf(p) : p \in Pins}
Contexts == {"sketch", "handler"}
Idle == "idle"
Nothing == [value |-> -1, reference |-> DEFAULT]

VARIABLES
  analog_reference,
  volts,       \* what each channel's pin is at
  MUX5, ADMUX, \* the channel's high bit; its low bits and the reference
  ADSC,        \* what the conversion under way will give, or Nothing
  ADC, locked, \* the result registers
  pc,          \* where each context is in analogRead(), or Idle
  pin,         \* each call's argument
  low,         \* ADCL as each call read it
  result,      \* what each context's last call returned
  asked,       \* what the pin and the reference gave when the call began to convert (history)
  overlapped   \* whether another call ran during it (history)

registers == <<MUX5, ADMUX, ADSC, ADC, locked>>
calls == <<pc, pin, low, result, asked, overlapped>>
vars == <<analog_reference, volts, registers, calls>>

Init ==
  /\ analog_reference = DEFAULT /\ volts \in [Channels -> Voltages]
  /\ MUX5 = 0 /\ ADMUX = [channel |-> 0, reference |-> DEFAULT]
  /\ ADSC = Nothing /\ ADC = [value |-> 0, reference |-> DEFAULT] /\ locked = FALSE
  /\ pc = [c \in Contexts |-> Idle] /\ pin = [c \in Contexts |-> 0]
  /\ low = [c \in Contexts |-> 0] /\ result = [c \in Contexts |-> Nothing]
  /\ asked = [c \in Contexts |-> Nothing] /\ overlapped = [c \in Contexts |-> FALSE]

-----------------------------------------------------------------------------
(* The board *)

Selected == 8 * MUX5 + ADMUX.channel
\* A channel nobody asks for has no signal.
Signal(ch) == IF ch \in Channels THEN volts[ch] ELSE 0

\* A conversion ends; its result is discarded while the registers are locked.
Convert ==
  /\ ADSC # Nothing
  /\ ADSC' = Nothing
  /\ ADC' = IF locked THEN ADC ELSE ADSC
  /\ UNCHANGED <<analog_reference, volts, MUX5, ADMUX, locked, calls>>

Vary ==
  /\ \E ch \in Channels, v \in Voltages : v # volts[ch] /\ volts' = [volts EXCEPT ![ch] = v]
  /\ UNCHANGED <<analog_reference, registers, calls>>

-----------------------------------------------------------------------------
(* analogRead() *)

Runs(c) == c = "handler" \/ pc["handler"] = Idle
At(c, label) == Runs(c) /\ pc[c] = label
Goto(c, label) == pc' = [pc EXCEPT ![c] = label]

Call(c, p) ==
  /\ At(c, Idle) /\ Goto(c, IF is32U4 THEN "ADCSRB" ELSE "ADMUX")
  /\ pin' = [pin EXCEPT ![c] = p]
  /\ overlapped' = [d \in Contexts |-> IF d = c THEN c = "handler" /\ pc["sketch"] # Idle
                                       ELSE overlapped[d] \/ pc[d] # Idle]
  /\ result' = [result EXCEPT ![c] = Nothing]
  /\ UNCHANGED <<analog_reference, volts, registers, low, asked>>

\* Mistaken: the bit is only ever set.
HighBitSet(ch) == IF ch >= 8 THEN 1 ELSE MUX5
HighBit(ch) == (ch \div 8) % 2

\* Where the board has it, the high bit of the channel ...
SelectHigh(c) ==
  /\ At(c, "ADCSRB") /\ Goto(c, "ADMUX")
  /\ MUX5' = HighBit(ChannelOf(pin[c]))
  /\ UNCHANGED <<analog_reference, volts, ADMUX, ADSC, ADC, locked, pin, low, result, asked, overlapped>>

LowBits(ch) == ch % 8

\* ... then the others, with the reference.
Select(c) ==
  /\ At(c, "ADMUX") /\ Goto(c, "ADSC")
  /\ ADMUX' = [channel |-> LowBits(ChannelOf(pin[c])), reference |-> analog_reference]
  /\ UNCHANGED <<analog_reference, volts, MUX5, ADSC, ADC, locked, pin, low, result, asked, overlapped>>

\* The conversion is started, or has been already.
Start(c) ==
  /\ At(c, "ADSC") /\ Goto(c, "wait")
  /\ ADSC' = IF ADSC # Nothing THEN ADSC
             ELSE [value |-> Signal(Selected), reference |-> ADMUX.reference]
  /\ asked' = [asked EXCEPT ![c] = [value |-> volts[ChannelOf(pin[c])], reference |-> analog_reference]]
  /\ UNCHANGED <<analog_reference, volts, MUX5, ADMUX, ADC, locked, pin, low, result, overlapped>>

Wait(c) ==
  /\ At(c, "wait") /\ ADSC = Nothing /\ Goto(c, "ADCL")
  /\ UNCHANGED <<analog_reference, volts, registers, pin, low, result, asked, overlapped>>

\* The low byte, which locks the registers ...
ReadLow(c) ==
  /\ At(c, "ADCL") /\ Goto(c, "ADCH")
  /\ low' = [low EXCEPT ![c] = ADC.value % 2] /\ locked' = TRUE
  /\ UNCHANGED <<analog_reference, volts, MUX5, ADMUX, ADSC, ADC, pin, result, asked, overlapped>>

\* ... and the high byte, which unlocks them.
ReadHigh(c) ==
  /\ At(c, "ADCH") /\ Goto(c, Idle)
  /\ result' = [result EXCEPT ![c] = [value |-> 2 * (ADC.value \div 2) + low[c], reference |-> ADC.reference]]
  /\ locked' = FALSE
  /\ UNCHANGED <<analog_reference, volts, MUX5, ADMUX, ADSC, ADC, pin, low, asked, overlapped>>

analogRead(c) == SelectHigh(c) \/ Select(c) \/ Start(c) \/ Wait(c) \/ ReadLow(c) \/ ReadHigh(c)

analogReference(mode) ==
  /\ At("sketch", Idle)
  /\ analog_reference' = mode
  /\ UNCHANGED <<volts, registers, calls>>

Next ==
  \/ Convert \/ Vary
  \/ \E c \in Contexts : analogRead(c) \/ \E p \in Pins : Call(c, p)
  \/ \E r \in References : analogReference(r)

\* The converter ends its conversions, and calls that are not interrupted for ever go on.
Spec ==
  /\ Init /\ [][Next]_vars /\ WF_vars(Convert)
  /\ WF_vars(analogRead("handler")) /\ SF_vars(analogRead("sketch"))

-----------------------------------------------------------------------------
(* Properties *)

AdcTypeOK ==
  /\ analog_reference \in References /\ volts \in [Channels -> Voltages]
  /\ MUX5 \in {0, 1} /\ ADMUX \in [channel : 0..7, reference : References] /\ locked \in BOOLEAN
  /\ ADC.value \in 0..3 /\ ADSC.value \in -1..3
  /\ pc \in [Contexts -> {Idle, "ADCSRB", "ADMUX", "ADSC", "wait", "ADCL", "ADCH"}]
  /\ low \in [Contexts -> {0, 1}] /\ overlapped \in [Contexts -> BOOLEAN]

\* A call no other call interrupts returns the signal of the pin it was asked for, by
\* the reference set last, also when earlier calls have interrupted each other and
\* left the multiplexer, a conversion or the lock behind (wiring_analog.c 63-100).
ReadsWhatWasAsked ==
  \A c \in Contexts : (result[c] # Nothing /\ ~ overlapped[c]) => result[c] = asked[c]

\* Every call returns, whatever the other has left of the converter (wiring_analog.c
\* 84: the loop waits for a bit that another call's conversion may hold).
ReadsReturn == \A c \in Contexts : (pc[c] # Idle) ~> (pc[c] = Idle)

\* The type invariant, and conversions of the pin asked for (wiring_analog.c 34-103).
AdcInv == AdcTypeOK /\ ReadsWhatWasAsked

=============================================================================
