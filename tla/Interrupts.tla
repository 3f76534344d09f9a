----------------------------- MODULE Interrupts -----------------------------
(***************************************************************************)
(* External interrupts of the run-time library (arduinowire/WInterrupts.c, *)
(* wiring_private.h): attachInterrupt(), detachInterrupt() and the service *)
(* routines that call the attached function through a table.               *)
(*                                                                         *)
(* An interrupt may come between any two accesses of the program: a        *)
(* function's address is two bytes, EICRA is read, changed and written     *)
(* back, a bit of EIMSK is set or cleared in one instruction.  A service   *)
(* routine is not interrupted, so its calls are single steps.              *)
(***************************************************************************)
EXTENDS Naturals, FiniteSets

CONSTANTS
  Boards,     \* <<processor, the interrupt numbers a sketch uses>>
  Functions,  \* the functions it attaches
  nothing     \* the function of an entry that is not attached

\* EXTERNAL_NUM_INTERRUPTS.
EXTERNAL_NUM_INTERRUPTS ==
  [m328 |-> 2, m1284 |-> 3, m32U4 |-> 5, m2560 |-> 8]

ASSUME InterruptsAssumption ==
  /\ nothing \notin Functions
  /\ \A b \in Boards :
       /\ b[1] \in DOMAIN EXTERNAL_NUM_INTERRUPTS
       /\ b[2] \subseteq 0..(EXTERNAL_NUM_INTERRUPTS[b[1]] - 1)

\* The bit of EIMSK, and field of EICRA and EICRB, that attachInterrupt() gives
\* each interrupt number, that detachInterrupt() clears, and the number each
\* vector INTn looks up.
AttachBit(chip, n) ==
  CASE chip = "m32U4" -> IF n = 4 THEN 6 ELSE n
    [] chip = "m2560" -> IF n \in {0, 1} THEN n + 4 ELSE IF n \in 2..5 THEN n - 2 ELSE n
    [] OTHER -> n

DetachBit(chip, n) ==
  CASE chip = "m32U4" -> IF n = 4 THEN 6 ELSE n
    [] chip = "m2560" -> IF n \in {0, 1} THEN n + 4 ELSE IF n \in 2..5 THEN n - 2 ELSE n
    [] OTHER -> n

Vector(chip, b) ==
  CASE chip = "m32U4" -> IF b = 6 THEN 4 ELSE b
    [] chip = "m2560" -> IF b \in 0..3 THEN b + 2 ELSE IF b \in {4, 5} THEN b - 4 ELSE b
    [] OTHER -> b

VARIABLES
  chip, lines,  \* the board
  intFunc,      \* the table: the low and the high byte of each entry
  EICRA,        \* the bits whose trigger mode is set
  EIMSK,        \* the bits that are enabled
  EIFR,         \* the bits with an event to serve
  pc,           \* the access the program makes next
  call,         \* its call's interrupt number and function
  copy,         \* EICRA as the call read it
  called,       \* the entry a service routine is calling, and its number
  asked,        \* the function attached to each number (history)
  reattached,   \* numbers attached while attached, until detached (history)
  raced         \* a service routine attached while the program did (history)

table == <<intFunc, EICRA, EIMSK>>
history == <<asked, reattached, raced>>
vars == <<chip, lines, table, EIFR, pc, call, copy, called, history>>

Entry(h) == [low |-> h, high |-> h]
NoCall == [n |-> 255, to |-> nothing]
NotCalled == [n |-> 255, to |-> Entry(nothing)]

Init ==
  /\ \E b \in Boards : chip = b[1] /\ lines = b[2]
  /\ intFunc = [n \in lines |-> Entry(nothing)]
  /\ EICRA = {} /\ EIMSK = {} /\ EIFR = {}
  /\ pc = "sketch" /\ call = NoCall /\ copy = {} /\ called = NotCalled
  /\ asked = [n \in lines |-> nothing] /\ reattached = {} /\ raced = FALSE

Running == called = NotCalled

-----------------------------------------------------------------------------
(* attachInterrupt() and detachInterrupt() *)

CallAttach(n, h) ==
  /\ pc = "sketch" /\ Running /\ n < EXTERNAL_NUM_INTERRUPTS[chip]
  /\ pc' = "low" /\ call' = [n |-> n, to |-> h]
  /\ asked' = [asked EXCEPT ![n] = h]
  /\ reattached' = IF asked[n] = nothing THEN reattached ELSE reattached \cup {n}
  /\ UNCHANGED <<chip, lines, table, EIFR, copy, called, raced>>

\* Mistaken: the entry is cleared before the interrupt is disabled.
DetachEntryFirst(n) ==
  /\ pc = "sketch" /\ Running /\ n < EXTERNAL_NUM_INTERRUPTS[chip]
  /\ pc' = "low" /\ call' = [n |-> n, to |-> nothing]
  /\ UNCHANGED <<chip, lines, table, EIFR, copy, called, history>>
\* detachInterrupt() disables the interrupt first.
CallDetach(n) ==
  /\ pc = "sketch" /\ Running /\ n < EXTERNAL_NUM_INTERRUPTS[chip]
  /\ pc' = "low" /\ call' = [n |-> n, to |-> nothing]
  /\ EIMSK' = EIMSK \ {DetachBit(chip, n)}
  /\ asked' = [asked EXCEPT ![n] = nothing] /\ reattached' = reattached \ {n}
  /\ UNCHANGED <<chip, lines, intFunc, EICRA, EIFR, copy, called, raced>>

\* `intFunc[interruptNum] = ...', a byte at a time.
StoreLow ==
  /\ pc = "low" /\ Running
  /\ pc' = "high" /\ intFunc' = [intFunc EXCEPT ![call.n].low = call.to]
  /\ UNCHANGED <<chip, lines, EICRA, EIMSK, EIFR, call, copy, called, history>>

StoreHigh ==
  /\ pc = "high" /\ Running
  /\ intFunc' = [intFunc EXCEPT ![call.n].high = call.to]
  /\ IF call.to = nothing THEN pc' = "sketch" /\ call' = NoCall
     ELSE pc' = "read EICRA" /\ UNCHANGED call
  /\ UNCHANGED <<chip, lines, EICRA, EIMSK, EIFR, copy, called, history>>

ReadEICRA ==
  /\ pc = "read EICRA" /\ Running
  /\ pc' = "write EICRA" /\ copy' = EICRA
  /\ UNCHANGED <<chip, lines, table, EIFR, call, called, history>>

WriteEICRA ==
  /\ pc = "write EICRA" /\ Running
  /\ pc' = "enable" /\ EICRA' = copy \cup {AttachBit(chip, call.n)} /\ copy' = {}
  /\ UNCHANGED <<chip, lines, intFunc, EIMSK, EIFR, call, called, history>>

Enable ==
  /\ pc = "enable" /\ Running
  /\ pc' = "sketch" /\ EIMSK' = EIMSK \cup {AttachBit(chip, call.n)} /\ call' = NoCall
  /\ UNCHANGED <<chip, lines, intFunc, EICRA, EIFR, copy, called, history>>

-----------------------------------------------------------------------------
(* Events and service routines *)

Event(n) ==
  /\ EIFR' = EIFR \cup {AttachBit(chip, n)}
  /\ UNCHANGED <<chip, lines, table, pc, call, copy, called, history>>

\* IMPLEMENT_ISR: the flag is cleared and the entry of the vector is called.
Serve(b) ==
  /\ Running /\ b \in EIMSK \cap EIFR
  /\ EIFR' = EIFR \ {b}
  /\ called' = [n |-> b, to |-> intFunc[Vector(chip, b)]]
  /\ UNCHANGED <<chip, lines, table, pc, call, copy, history>>

\* What the called function does: nothing here; detach itself, as a one-shot does;
\* or attach a function to another number.
FunctionReturns ==
  /\ ~Running /\ called' = NotCalled
  /\ UNCHANGED <<chip, lines, table, EIFR, pc, call, copy, history>>

FunctionDetaches(n) ==
  /\ ~Running /\ called.n = AttachBit(chip, n) /\ called.to # Entry(nothing)
  /\ called' = NotCalled
  /\ EIMSK' = EIMSK \ {DetachBit(chip, n)}
  /\ intFunc' = [intFunc EXCEPT ![n] = Entry(nothing)]
  /\ asked' = [asked EXCEPT ![n] = nothing]
  /\ UNCHANGED <<chip, lines, EICRA, EIFR, pc, call, copy, reattached, raced>>

FunctionAttaches(n, h) ==
  /\ ~Running /\ called.n # AttachBit(chip, n) /\ called.to # Entry(nothing)
  /\ called' = NotCalled
  /\ intFunc' = [intFunc EXCEPT ![n] = Entry(h)]
  /\ EICRA' = EICRA \cup {AttachBit(chip, n)} /\ EIMSK' = EIMSK \cup {AttachBit(chip, n)}
  /\ asked' = [asked EXCEPT ![n] = h]
  /\ raced' = (raced \/ pc # "sketch")
  /\ UNCHANGED <<chip, lines, EIFR, pc, call, copy, reattached>>

Next ==
  \/ \E n \in lines, h \in Functions : CallAttach(n, h) \/ FunctionAttaches(n, h)
  \/ \E n \in lines : CallDetach(n) \/ Event(n) \/ FunctionDetaches(n)
  \/ StoreLow \/ StoreHigh \/ ReadEICRA \/ WriteEICRA \/ Enable
  \/ \E b \in EIMSK : Serve(b)
  \/ FunctionReturns

Spec == Init /\ [][Next]_vars

-----------------------------------------------------------------------------
(* Properties *)

InterruptsTypeOK ==
  /\ intFunc \in [lines -> [low : Functions \cup {nothing}, high : Functions \cup {nothing}]]
  /\ {Vector(chip, b) : b \in EIMSK \cup EIFR \cup EICRA} \subseteq lines
  /\ asked \in [lines -> Functions \cup {nothing}] /\ reattached \subseteq lines

\* The program uses a number in a way the library is not written for: attaching
\* what is attached, or attaching from a service routine during a call.
Careful(n) == n \notin reattached /\ ~raced

\* A service routine calls the function that was attached to its interrupt: never
\* one whose address is half another's, nor the empty one, nor that of another
\* line on a processor that numbers its vectors in an order of its own, though
\* an event may come between any two steps of attaching and detaching
\* (WInterrupts.c 72, 188-273, 283-316).
CallsWhatWasAttached ==
  ~Running =>
    LET n == Vector(chip, called.n)
    IN  Careful(n) => called.to = Entry(asked[n]) /\ asked[n] # nothing

\* After a call every attached interrupt is enabled with its mode set, and no
\* other is enabled: attaching one line leaves the others as they were, and a
\* one-shot's detach is not undone by a call it interrupts.
AttachedAndNoOther ==
  pc = "sketch" /\ (\A n \in lines : Careful(n)) =>
    /\ {AttachBit(chip, n) : n \in {l \in lines : asked[l] # nothing}} = EIMSK
    /\ EIMSK \subseteq EICRA

\* The type invariant, and lines that are enabled, and call, as they were attached
\* (WInterrupts.c 70-316).
InterruptsInv == InterruptsTypeOK /\ CallsWhatWasAttached /\ AttachedAndNoOther

=============================================================================
