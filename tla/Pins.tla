-------------------------------- MODULE Pins --------------------------------
(***************************************************************************)
(* The pins of the run-time library: pinMode(), digitalWrite() and         *)
(* digitalRead() (arduinowire/wiring_digital.c), analogWrite()             *)
(* (wiring_analog.c), the tables that give each pin its port, bit and      *)
(* timer (pins_default.h, pins_atmega32u4.h, Arduino.h) and what init()    *)
(* does to the pins (wiring.c).                                            *)
(*                                                                         *)
(* Pins share registers: a call changes one bit of a register by reading   *)
(* and writing the whole of it.  A call is the sequence of its updates,    *)
(* some of them protected by cli(); an interrupt whose handler calls the   *)
(* library too may come between two accesses of the others.                *)
(*                                                                         *)
(* An update is a function from the bits it changes to their values; the   *)
(* duty of a timer's output is one such value.  Of the registers only the  *)
(* bits of the sketch's pins are kept.                                     *)
(***************************************************************************)
EXTENDS Integers, Sequences

CONSTANTS
  PinBoards,  \* <<processor, the pins a sketch and its handlers use>>
  Beyond,     \* what the bytes after a table may say: pins, or NOT_A_PIN
  Duties      \* the values analogWrite() is called with

LOW == 0
HIGH == 1
INPUT == 0
OUTPUT == 1
INPUT_PULLUP == 2

NOT_A_PIN == <<"none", 0>>
NOT_ON_TIMER == <<"none", "none">>

\* digital_pin_to_port_PGM and digital_pin_to_bit_mask_PGM: a port and a bit of it.
Numbered(port, bits) == [i \in 1..Len(bits) |-> <<port, bits[i]>>]
Pins328 ==
  Numbered("D", <<0, 1, 2, 3, 4, 5, 6, 7>>) \o Numbered("B", <<0, 1, 2, 3, 4, 5>>)
  \o Numbered("C", <<0, 1, 2, 3, 4, 5>>)
Pins32U4 ==
  Numbered("D", <<2, 3, 1, 0, 4>>) \o <<<<"C", 6>>, <<"D", 7>>, <<"E", 6>>>>
  \o Numbered("B", <<4, 5, 6, 7>>) \o <<<<"D", 6>>, <<"C", 7>>>>
  \o Numbered("B", <<3, 1, 2, 0>>) \o Numbered("F", <<7, 6, 5, 4, 1, 0>>)
  \o <<<<"D", 4>>, <<"D", 7>>>> \o Numbered("B", <<4, 5, 6>>) \o <<<<"D", 6>>>>
PinTable == [m328 |-> Pins328, m32U4 |-> Pins32U4]
A0 == [m328 |-> 14, m32U4 |-> 18]

\* digital_pin_to_timer_PGM, with the control register of each timer's output.
Timers328 ==
  [p \in {3, 5, 6, 9, 10, 11} |->
    CASE p = 3 -> <<"TCCR2A", "B">> [] p = 5 -> <<"TCCR0A", "B">> [] p = 6 -> <<"TCCR0A", "A">>
      [] p = 9 -> <<"TCCR1A", "A">> [] p = 10 -> <<"TCCR1A", "B">> [] p = 11 -> <<"TCCR2A", "A">>]
Timers32U4 ==
  [p \in {3, 5, 6, 9, 10, 11, 13} |->
    CASE p = 3 -> <<"TCCR0A", "B">> [] p = 5 -> <<"TCCR3A", "A">> [] p = 6 -> <<"TCCR4C", "D">>
      [] p = 9 -> <<"TCCR1A", "A">> [] p = 10 -> <<"TCCR1A", "B">> [] p = 11 -> <<"TCCR0A", "A">>
      [] p = 13 -> <<"TCCR4A", "A">>]
TimerTable == [m328 |-> Timers328, m32U4 |-> Timers32U4]

\* The pins of a sketch are in the tables and do not share a bit or a timer, as some that
\* have two names do.
ASSUME PinsAssumption ==
  /\ \A b \in PinBoards :
       /\ b[1] \in {"m328", "m32U4"} /\ b[2] \subseteq 0..(Len(PinTable[b[1]]) - 1)
       /\ \A p, q \in b[2] : p # q =>
            /\ PinTable[b[1]][p + 1] # PinTable[b[1]][q + 1]
            /\ {p, q} \subseteq DOMAIN TimerTable[b[1]] =>
                 TimerTable[b[1]][p] # TimerTable[b[1]][q]
  /\ Duties \subseteq 0..255

\* What is read after the tables is no pin of the sketch.
Places == {"B", "C", "D", "E", "F"} \X Nat
BeyondApart ==
  \A b \in PinBoards : \A x \in Beyond :
    x = NOT_A_PIN \/ (x \in Places /\ \A p \in b[2] : x # PinTable[b[1]][p + 1])

VARIABLES
  board, used,      \* the board
  registers,        \* the value of each bit, and the duty of each timer output
  todo, readCopy,   \* the program's call: updates to make, and the register it has read
  pin,              \* the pin of that call
  reset,            \* init() has not run
  pinAsked,         \* what each pin was last asked to do (history)
  collided          \* a handler changed the register the program had read (history)

pinVars == <<board, used, registers, todo, readCopy, pin, reset, pinAsked, collided>>

PinOf(p) == PinTable[board][p + 1]
Known(p) == p < Len(PinTable[board])
TimerOf(p) == IF p \in DOMAIN TimerTable[board] THEN TimerTable[board][p] ELSE NOT_ON_TIMER

\* A bit, as its register and its place; the duty of an output beside them.
DDR(at) == <<<<"DDR", at[1]>>, at[2]>>
PORT(at) == <<<<"PORT", at[1]>>, at[2]>>
TCCR(timer) == <<<<"TCCR", timer[1]>>, timer[2]>>
OCR(timer) == <<<<"OCR", timer[1]>>, timer[2]>>
BitsOf(p) == {DDR(PinOf(p)), PORT(PinOf(p)), TCCR(TimerOf(p)), OCR(TimerOf(p))}
Bits == UNION {BitsOf(p) : p \in used}
Nothing == [b \in {} |-> 0]

-----------------------------------------------------------------------------
(* The calls, as sequences of updates *)

\* A bit set to a value, and a pin made an input, with its pull-up or not.
Setting(bit, value) == [b \in {bit} |-> value]
Input(at, pull) == [b \in {DDR(at), PORT(at)} |-> IF b = PORT(at) THEN pull ELSE 0]

\* Updates that no interrupt divides, and one that reads its register and writes it.
Protected(writes) == <<[whole |-> TRUE, writes |-> writes]>>
Open(writes) == <<[whole |-> FALSE, writes |-> writes]>>

\* pinMode() of the pin with this port and bit; nothing for NOT_A_PIN.
PinModeAt(at, mode) ==
  Protected(IF at = NOT_A_PIN THEN Nothing
            ELSE CASE mode = INPUT -> Input(at, LOW)
                   [] mode = INPUT_PULLUP -> Input(at, HIGH)
                   [] mode = OUTPUT -> Setting(DDR(at), 1))
PinMode(p, mode) == PinModeAt(PinOf(p), mode)

\* turnOffPWM(): one bit of the timer's control register, not protected.
TurnOffPWM(p) == IF TimerOf(p) = NOT_ON_TIMER THEN <<>> ELSE Open(Setting(TCCR(TimerOf(p)), 0))

DigitalWrite(p, level) == TurnOffPWM(p) \o Protected(Setting(PORT(PinOf(p)), level))

\* Reading a pin turns its PWM off and changes nothing else.
DigitalRead(p) == TurnOffPWM(p)

\* The level nearest to a duty.
Nearest(value) == IF value < 128 THEN LOW ELSE HIGH

\* A pin's timer is connected, then its duty set, which is a single write.
Connect(p, value) == Open(Setting(TCCR(TimerOf(p)), 1)) \o Protected(Setting(OCR(TimerOf(p)), value))

\* Mistaken: the extreme duties are left to the timer, which is not disconnected.
AnalogWriteTimer(p, value) ==
  PinMode(p, OUTPUT) \o
  IF TimerOf(p) = NOT_ON_TIMER THEN DigitalWrite(p, Nearest(value))
  ELSE IF value \in {0, 255} THEN Protected(Setting(PORT(PinOf(p)), Nearest(value)))
  ELSE Connect(p, value)
\* Output mode; the extreme duties are levels, and so are all where there is no timer.
AnalogWrite(p, value) ==
  PinMode(p, OUTPUT) \o
  IF value \in {0, 255} \/ TimerOf(p) = NOT_ON_TIMER THEN DigitalWrite(p, Nearest(value))
  ELSE Connect(p, value)

\* The calls a sketch makes on a pin, and what each asks of a pin that was asked a:
\* to be an output, to drive or pull it high, and the duty of its PWM, 0 for none.
Calls ==
  {"pinMode"} \X {INPUT, OUTPUT, INPUT_PULLUP} \cup {"digitalWrite"} \X {LOW, HIGH} \cup
  {<<"digitalRead", LOW>>} \cup {"analogWrite"} \X Duties

Updates(p, c) ==
  CASE c[1] = "pinMode" -> PinMode(p, c[2])
    [] c[1] = "digitalWrite" -> DigitalWrite(p, c[2])
    [] c[1] = "digitalRead" -> DigitalRead(p)
    [] c[1] = "analogWrite" -> AnalogWrite(p, c[2])

Asks(p, c, a) ==
  CASE c[1] = "pinMode" ->
         IF c[2] = OUTPUT THEN [a EXCEPT !.out = TRUE]
         ELSE [a EXCEPT !.out = FALSE, !.high = (c[2] = INPUT_PULLUP)]
    [] c[1] = "digitalWrite" -> [a EXCEPT !.high = (c[2] = HIGH), !.duty = 0]
    [] c[1] = "digitalRead" -> [a EXCEPT !.duty = 0]
    [] c[1] = "analogWrite" ->
         IF c[2] \in {0, 255} \/ TimerOf(p) = NOT_ON_TIMER
         THEN [out |-> TRUE, high |-> c[2] >= 128, duty |-> 0]
         ELSE [a EXCEPT !.out = TRUE, !.duty = c[2]]

-----------------------------------------------------------------------------
(* Running the calls *)

\* The bits a sequence of updates changes, and their values after it: those of the last
\* update that changes them.
Changes(updates) == UNION {DOMAIN updates[i].writes : i \in DOMAIN updates}
LastOf(updates, b) ==
  CHOOSE i \in DOMAIN updates :
    /\ b \in DOMAIN updates[i].writes
    /\ \A j \in DOMAIN updates : b \in DOMAIN updates[j].writes => j <= i
After(updates, values) ==
  [b \in DOMAIN values |->
    IF b \in Changes(updates) THEN updates[LastOf(updates, b)].writes[b] ELSE values[b]]

PinsInit ==
  /\ \E b \in PinBoards : board = b[1] /\ used = b[2]
  /\ registers = [b \in Bits |-> 0]
  /\ todo = <<>> /\ readCopy = Nothing /\ pin = 0 /\ reset = TRUE
  /\ pinAsked = [p \in used |-> [out |-> FALSE, high |-> FALSE, duty |-> 0]]
  /\ collided = FALSE

AnalogPins == A0[board]..(A0[board] + 7)

\* The pins init() leaves as outputs: the names of 2 to 13, but for A0 to A7.
InitialOutput(p) ==
  /\ \E q \in 2..13 : PinOf(q) = PinOf(p)
  /\ \A q \in AnalogPins : Known(q) => PinOf(q) # PinOf(p)

\* init(): pins 2 to 13 become outputs, then A0 to A7 inputs, though a board may
\* have them among the former, or have no entry for them in its tables.
InitPins ==
  /\ reset /\ reset' = FALSE
  /\ \E x6, x7 \in Beyond :
       LET At(p) == IF Known(p) THEN PinOf(p) ELSE IF p = A0[board] + 6 THEN x6 ELSE x7
           update == [i \in 1..20 |->
                       IF i <= 12 THEN PinMode(i + 1, OUTPUT)[1]
                       ELSE PinModeAt(At(A0[board] + i - 13), INPUT)[1]]
       IN  registers' = After(update, registers)
  /\ pinAsked' = [p \in used |-> [pinAsked[p] EXCEPT !.out = InitialOutput(p)]]
  /\ UNCHANGED <<board, used, todo, readCopy, pin, collided>>

CallPin ==
  /\ ~reset /\ todo = <<>>
  /\ \E p \in used : \E c \in Calls :
       /\ pin' = p /\ todo' = Updates(p, c)
       /\ pinAsked' = [pinAsked EXCEPT ![p] = Asks(p, c, @)]
  /\ UNCHANGED <<board, used, registers, readCopy, reset, collided>>

\* A protected group, and the write of a whole register, are one step.
MakeWhole ==
  /\ todo # <<>> /\ Head(todo).whole
  /\ registers' = After(<<Head(todo)>>, registers) /\ todo' = Tail(todo)
  /\ UNCHANGED <<board, used, readCopy, pin, reset, pinAsked, collided>>

\* Any other update reads its register, and writes it back.
ReadRegister ==
  /\ todo # <<>> /\ ~Head(todo).whole /\ readCopy = Nothing
  /\ LET changed == Changes(<<Head(todo)>>)
         register == {b \in Bits : \E c \in changed : b[1] = c[1]}
     IN  readCopy' = [b \in register |-> registers[b]]
  /\ UNCHANGED <<board, used, registers, todo, pin, reset, pinAsked, collided>>

WriteRegister ==
  /\ readCopy # Nothing
  /\ registers' = After(<<[writes |-> readCopy], Head(todo)>>, registers)
  /\ readCopy' = Nothing /\ todo' = Tail(todo)
  /\ UNCHANGED <<board, used, pin, reset, pinAsked, collided>>

\* The handler of an interrupt calls the library, on a pin the program is not using.
HandlerCalls ==
  /\ ~reset
  /\ \E p \in used : \E c \in Calls :
       /\ todo = <<>> \/ p # pin
       /\ registers' = After(Updates(p, c), registers)
       /\ pinAsked' = [pinAsked EXCEPT ![p] = Asks(p, c, @)]
  /\ collided' = (collided \/ \E b \in DOMAIN readCopy : registers'[b] # registers[b])
  /\ UNCHANGED <<board, used, todo, readCopy, pin, reset>>

PinsNext == InitPins \/ CallPin \/ MakeWhole \/ ReadRegister \/ WriteRegister \/ HandlerCalls

PinsSpec == PinsInit /\ [][PinsNext]_pinVars

-----------------------------------------------------------------------------
(* Properties *)

PinsTypeOK ==
  /\ registers \in [Bits -> 0..255]
  /\ readCopy # Nothing => todo # <<>> /\ ~Head(todo).whole
  /\ pinAsked \in [used -> [out : BOOLEAN, high : BOOLEAN, duty : {0} \cup Duties]]

\* What the registers make of a pin.
Does(p) ==
  [out |-> registers[DDR(PinOf(p))] = 1,
   high |-> registers[PORT(PinOf(p))] = 1,
   duty |-> IF TimerOf(p) # NOT_ON_TIMER /\ registers[TCCR(TimerOf(p))] = 1
            THEN registers[OCR(TimerOf(p))] ELSE 0]

\* Each call acts on its own pin, and on nothing else: whenever no call is under
\* way every pin does what it was last asked, though pins share registers with
\* those an interrupt's handler uses, unless a handler changed the control
\* register of a timer inside an update of it, which turnOffPWM() and
\* analogWrite() do not protect (wiring_digital.c 31-61, 77-165,
\* wiring_analog.c 106-295, the tables).
PinsAsAsked ==
  todo = <<>> /\ ~collided => \A p \in used : Does(p) = pinAsked[p]

\* The port of a pin is written with interrupts off, so a handler's write to
\* another pin of the port outlives every update of the program that it
\* interrupts (cli() in wiring_digital.c 45, 51, 57 and 156).
PortsNotLost ==
  \A p \in used : todo = <<>> \/ p # pin =>
    LET d == Does(p) IN d.out = pinAsked[p].out /\ d.high = pinAsked[p].high

\* The type invariant, and pins that do what they were asked, between calls and
\* during those on other pins (wiring_digital.c, wiring_analog.c).
PinsInv == PinsTypeOK /\ PinsAsAsked /\ PortsNotLost

=============================================================================
