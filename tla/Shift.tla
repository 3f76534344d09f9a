------------------------------- MODULE Shift --------------------------------
(***************************************************************************)
(* Bytes by a clock and a data line (wiring_shift.c): shiftOut() and       *)
(* shiftIn(), with the shift register of eight bits they are wired to,     *)
(* which moves on when the clock rises: it takes the bit of its input line *)
(* in, and holds the bit that falls out on its output line.                *)
(***************************************************************************)
EXTENDS Integers, Sequences

CONSTANT Bytes  \* the bytes shifted

LOW == 0
HIGH == 1
Orders == {"LSBFIRST", "MSBFIRST"}

ASSUME ShiftAssumption == Bytes \subseteq 0..255

VARIABLES
  clock, data,    \* the lines the program writes
  register, out,  \* the bits of the register, the oldest first; its output line
  shiftPc,        \* "sketch", or the next access of a call
  bitOrder, val,  \* arguments of the call; val is the value of shiftIn()
  bitIndex,       \* the bit being shifted
  sent            \* the byte shiftOut() sent last, and its order (history)

shiftVars == <<clock, data, register, out, shiftPc, bitOrder, val, bitIndex, sent>>

\* 2^n, bits of a byte.
Power == [n \in 0..7 |-> <<1, 2, 4, 8, 16, 32, 64, 128>>[n + 1]]
BitAt(v, n) == (v \div Power[n]) % 2

\* Mistaken: one place too far.
PlaceFar(order, n) == IF order = "LSBFIRST" THEN n ELSE (8 - n) % 8
\* The bit of a byte that is shifted n-th.
Place(order, n) == IF order = "LSBFIRST" THEN n ELSE 7 - n

ShiftInit ==
  /\ clock = LOW /\ data = LOW /\ register = [n \in 1..8 |-> 0] /\ out = 0
  /\ shiftPc = "sketch" /\ bitOrder = "LSBFIRST" /\ val = 0 /\ bitIndex = 0 /\ sent = <<>>

\* digitalWrite() of the clock, and what the register does when it rises.
WriteClock(level) ==
  /\ clock' = level
  /\ IF clock = LOW /\ level = HIGH
     THEN register' = Append(Tail(register), data) /\ out' = Head(register)
     ELSE UNCHANGED <<register, out>>

\* After the last bit the call returns.
NextBit(label) ==
  IF bitIndex = 7 THEN shiftPc' = "sketch" /\ bitIndex' = 0
                  ELSE shiftPc' = label /\ bitIndex' = bitIndex + 1

CallOut(order, v) ==
  /\ shiftPc = "sketch" /\ shiftPc' = "data" /\ bitOrder' = order /\ val' = v
  /\ UNCHANGED <<clock, data, register, out, bitIndex, sent>>

WriteData ==
  /\ shiftPc = "data" /\ shiftPc' = "pulse"
  /\ data' = BitAt(val, Place(bitOrder, bitIndex))
  /\ UNCHANGED <<clock, register, out, bitOrder, val, bitIndex, sent>>

RaiseClock ==
  /\ shiftPc = "pulse" /\ shiftPc' = "endPulse" /\ WriteClock(HIGH)
  /\ UNCHANGED <<data, bitOrder, val, bitIndex, sent>>

LowerClock ==
  /\ shiftPc = "endPulse" /\ WriteClock(LOW) /\ NextBit("data")
  /\ sent' = IF bitIndex = 7 THEN <<val, bitOrder>> ELSE sent
  /\ UNCHANGED <<data, bitOrder, val>>

CallIn(order) ==
  /\ shiftPc = "sketch" /\ shiftPc' = "clock" /\ bitOrder' = order /\ val' = 0
  /\ UNCHANGED <<clock, data, register, out, bitIndex, sent>>

ClockIn ==
  /\ shiftPc = "clock" /\ shiftPc' = "read" /\ WriteClock(HIGH)
  /\ UNCHANGED <<data, bitOrder, val, bitIndex, sent>>

ReadData ==
  /\ shiftPc = "read" /\ shiftPc' = "endClock"
  /\ val' = val + out * Power[Place(bitOrder, bitIndex)]
  /\ UNCHANGED <<clock, data, register, out, bitOrder, bitIndex, sent>>

\* What was sent has been taken back, and the register holds the level of the line.
EndClockIn ==
  /\ shiftPc = "endClock" /\ WriteClock(LOW) /\ NextBit("clock")
  /\ sent' = IF bitIndex = 7 THEN <<>> ELSE sent
  /\ UNCHANGED <<data, bitOrder, val>>

ShiftNext ==
  \/ \E order \in Orders : CallIn(order) \/ \E v \in Bytes : CallOut(order, v)
  \/ WriteData \/ RaiseClock \/ LowerClock \/ ClockIn \/ ReadData \/ EndClockIn

ShiftSpec == ShiftInit /\ [][ShiftNext]_shiftVars

-----------------------------------------------------------------------------
(* Properties *)

ShiftTypeOK ==
  /\ clock \in {LOW, HIGH} /\ data \in {0, 1} /\ out \in {0, 1} /\ register \in [1..8 -> {0, 1}]
  /\ bitOrder \in Orders /\ val \in 0..255 /\ bitIndex \in 0..7

Reversed(v) ==
  LET b == [n \in 0..7 |-> BitAt(v, 7 - n) * Power[n]]
  IN  b[0] + b[1] + b[2] + b[3] + b[4] + b[5] + b[6] + b[7]

\* A byte sent to the register and taken back is the same by the same order, and has
\* its bits reversed by the other (wiring_shift.c 31-38, 46-54).
RoundTrip ==
  [][(shiftPc = "endClock" /\ bitIndex = 7 /\ sent # <<>>)
       => val = IF bitOrder = sent[2] THEN sent[1] ELSE Reversed(sent[1])]_shiftVars

\* The register never sees the data line change while the clock is high, and a call
\* leaves the clock low (wiring_shift.c 37, 52-53).
DataStable ==
  [][(data' # data => clock = LOW /\ clock' = LOW) /\ (shiftPc' = "sketch" => clock' = LOW)]_shiftVars

\* The type invariant, and bytes that cross the wire whole, by a clock that frames
\* them (wiring_shift.c 25-55).
ShiftsWhole == []ShiftTypeOK /\ RoundTrip /\ DataStable

=============================================================================
