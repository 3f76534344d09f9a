--------------------------- MODULE Library_proofs ---------------------------
(***************************************************************************)
(* Theorems about the interrupts and the pins of the run-time library.     *)
(*                                                                         *)
(* Of external interrupts, for any board, set of lines and set of          *)
(* functions: a service routine calls what was attached to its line, and   *)
(* after a call the attached lines, and no others, are enabled.  The       *)
(* invariant that is preserved has to say what is true in the middle of a  *)
(* call, at each of its accesses: the line the call is about is disabled   *)
(* and its entry is written from the low byte to the high one, while every *)
(* other line is as it was left.                                           *)
(*                                                                         *)
(* Of timer 0, for every timer, clock frequency and width of the counters: *)
(* the clock counts what the timer counts, what a call reads of it is the  *)
(* time of the call, and delay() waits the time asked for.                 *)
(*                                                                         *)
(* Of pins, for any boards and pins of theirs and any duties: a pin does   *)
(* what it was last asked, whoever asked and whatever call is under way on *)
(* another, until a handler changes a register the program has read.  The  *)
(* invariant says of the bits not what they are but what the updates under *)
(* way will make of them.                                                  *)
(***************************************************************************)
EXTENDS Timer0, Interrupts, Pins, TLAPS, WellFoundedInduction

-----------------------------------------------------------------------------
(* External interrupts *)

LineBits == {AttachBit(chip, n) : n \in lines}

\* The accesses of a call, from the table's entry to the mask.
Accesses == {"low", "high", "read EICRA", "write EICRA", "enable"}

BoardOK ==
  /\ chip \in DOMAIN EXTERNAL_NUM_INTERRUPTS
  /\ lines \subseteq 0..(EXTERNAL_NUM_INTERRUPTS[chip] - 1)

RegistersOK ==
  /\ intFunc \in [lines -> [low : Functions \cup {nothing}, high : Functions \cup {nothing}]]
  /\ EICRA \subseteq LineBits /\ EIMSK \subseteq LineBits /\ EIFR \subseteq LineBits

CallOK ==
  /\ pc \in Accesses \cup {"sketch"} /\ copy \subseteq LineBits
  /\ pc # "sketch" => call.n \in lines /\ call.to \in Functions \cup {nothing}
  /\ call.to = nothing => pc \in {"sketch", "low", "high"}

HistoryOK ==
  /\ asked \in [lines -> Functions \cup {nothing}]
  /\ reattached \subseteq lines /\ raced \in BOOLEAN

\* The line being served is enabled, and what is called is what its entry holds.
Serving ==
  ~Running => called.n \in EIMSK /\ called.to = intFunc[Vector(chip, called.n)]

Attached(n) == AttachBit(chip, n) \in EIMSK
CallsOn(n) == pc # "sketch" /\ call.n = n

\* A line no call is about: its entry, its bit and what was asked agree.
Undisturbed(n) ==
  /\ intFunc[n] = Entry(asked[n])
  /\ Attached(n) <=> asked[n] # nothing

\* A line in the middle of a call: disabled, its entry written so far.
InProgress(n) ==
  /\ ~Attached(n) /\ asked[n] = call.to
  /\ pc # "low" => intFunc[n].low = call.to
  /\ pc \notin {"low", "high"} => intFunc[n].high = call.to

LineKept(n) ==
  /\ Careful(n) /\ CallsOn(n) => InProgress(n)
  /\ Careful(n) /\ ~CallsOn(n) => Undisturbed(n)

LinesKept == \A n \in lines : LineKept(n)

\* An enabled line has its mode set, also while a call holds a copy of EICRA.
ModesSet ==
  ~raced =>
    /\ EIMSK \subseteq EICRA
    /\ pc = "write EICRA" => copy = EICRA
    /\ pc = "enable" => AttachBit(chip, call.n) \in EICRA

TypesInv == BoardOK /\ RegistersOK /\ CallOK /\ HistoryOK
LinesIInv == TypesInv /\ Serving /\ LinesKept /\ ModesSet

-----------------------------------------------------------------------------
(* The numbering of lines *)

LEMMA BitNumbers ==
  ASSUME NEW c \in DOMAIN EXTERNAL_NUM_INTERRUPTS,
         NEW n \in 0..(EXTERNAL_NUM_INTERRUPTS[c] - 1)
  PROVE  /\ Vector(c, AttachBit(c, n)) = n
         /\ DetachBit(c, n) = AttachBit(c, n)
         /\ AttachBit(c, n) \in 0..7
<1>1. DOMAIN EXTERNAL_NUM_INTERRUPTS = {"m328", "m1284", "m32U4", "m2560"}
  BY DEF EXTERNAL_NUM_INTERRUPTS
<1>2. CASE c = "m328"
  BY <1>2, SMT DEF EXTERNAL_NUM_INTERRUPTS, Vector, AttachBit, DetachBit
<1>3. CASE c = "m1284"
  BY <1>3, SMT DEF EXTERNAL_NUM_INTERRUPTS, Vector, AttachBit, DetachBit
<1>4. CASE c = "m32U4"
  BY <1>4, SMT DEF EXTERNAL_NUM_INTERRUPTS, Vector, AttachBit, DetachBit
<1>5. CASE c = "m2560"
  BY <1>5, SMT DEF EXTERNAL_NUM_INTERRUPTS, Vector, AttachBit, DetachBit
<1> QED  BY <1>1, <1>2, <1>3, <1>4, <1>5

\* Two lines have two bits, and a vector finds the line its bit stands for.
LEMMA LineOfBit ==
  ASSUME BoardOK
  PROVE  /\ \A n \in lines : /\ Vector(chip, AttachBit(chip, n)) = n
                             /\ DetachBit(chip, n) = AttachBit(chip, n)
                             /\ AttachBit(chip, n) \in LineBits
                             /\ AttachBit(chip, n) # 255
         /\ \A m, n \in lines : AttachBit(chip, m) = AttachBit(chip, n) => m = n
         /\ \A b \in LineBits : Vector(chip, b) \in lines /\ b = AttachBit(chip, Vector(chip, b))
<1>1. \A n \in lines : /\ Vector(chip, AttachBit(chip, n)) = n
                       /\ DetachBit(chip, n) = AttachBit(chip, n)
                       /\ AttachBit(chip, n) \in 0..7
  BY BitNumbers DEF BoardOK
<1>2. \A n \in lines : AttachBit(chip, n) # 255
  BY <1>1, SMT
<1>3. \A m, n \in lines : AttachBit(chip, m) = AttachBit(chip, n) => m = n
  BY <1>1, Zenon
<1>4. ASSUME NEW b \in LineBits
      PROVE  Vector(chip, b) \in lines /\ b = AttachBit(chip, Vector(chip, b))
  <2>1. PICK n \in lines : b = AttachBit(chip, n)
    BY DEF LineBits
  <2> QED  BY <1>1, <2>1, Zenon
<1> QED  BY <1>1, <1>2, <1>3, <1>4, Zenon DEF LineBits

-----------------------------------------------------------------------------
(* Types *)

LEMMA InitTypes == Init => TypesInv /\ Serving
<1> SUFFICES ASSUME Init PROVE TypesInv /\ Serving
  OBVIOUS
<1>1. BoardOK
  BY InterruptsAssumption DEF Init, BoardOK
<1>2. RegistersOK
  BY DEF Init, RegistersOK, Entry
<1>3. CallOK
  BY DEF Init, CallOK, NoCall
<1>4. HistoryOK
  BY DEF Init, HistoryOK
<1>5. Running
  BY DEF Init, Running
<1> QED  BY <1>1, <1>2, <1>3, <1>4, <1>5 DEF TypesInv, Serving

\* The board stays, so its bits do.
LEMMA BoardStays ==
  ASSUME Next \/ UNCHANGED vars
  PROVE  chip' = chip /\ lines' = lines /\ LineBits' = LineBits
<1>1. chip' = chip /\ lines' = lines
  BY DEF Next, vars, CallAttach, CallDetach, StoreLow, StoreHigh, ReadEICRA, WriteEICRA,
         Enable, Event, Serve, FunctionReturns, FunctionDetaches, FunctionAttaches
<1> QED  BY <1>1 DEF LineBits

LEMMA NextTypes ==
  ASSUME TypesInv, Next
  PROVE  TypesInv'
<1> USE DEF table, history
<1>1. BoardOK /\ RegistersOK /\ CallOK /\ HistoryOK
  BY DEF TypesInv
<1>2. chip' = chip /\ lines' = lines /\ LineBits' = LineBits
  BY BoardStays
<1>3. BoardOK'
  BY <1>1, <1>2 DEF BoardOK
<1>4. \A n \in lines : AttachBit(chip, n) \in LineBits
  BY DEF LineBits
<1>5. SUFFICES RegistersOK' /\ CallOK' /\ HistoryOK'
  BY <1>3 DEF TypesInv
<1>6. ASSUME NEW n \in lines, NEW h \in Functions, CallAttach(n, h)
      PROVE  RegistersOK' /\ CallOK' /\ HistoryOK'
  <2>1. RegistersOK'
    BY <1>1, <1>2, <1>6 DEF RegistersOK, CallAttach
  <2>2. CallOK'
    BY <1>1, <1>2, <1>6, InterruptsAssumption DEF CallOK, CallAttach, Accesses
  <2>3. HistoryOK'
    BY <1>1, <1>2, <1>6 DEF HistoryOK, CallAttach
  <2> QED  BY <2>1, <2>2, <2>3
<1>7. ASSUME NEW n \in lines, CallDetach(n)
      PROVE  RegistersOK' /\ CallOK' /\ HistoryOK'
  <2>1. RegistersOK'
    BY <1>1, <1>2, <1>7 DEF RegistersOK, CallDetach
  <2>2. CallOK'
    BY <1>1, <1>2, <1>7 DEF CallOK, CallDetach, Accesses
  <2>3. HistoryOK'
    BY <1>1, <1>2, <1>7 DEF HistoryOK, CallDetach
  <2> QED  BY <2>1, <2>2, <2>3
<1>8. CASE StoreLow
  <2>1. call.n \in lines /\ call.to \in Functions \cup {nothing}
    BY <1>1, <1>8 DEF CallOK, StoreLow
  <2>2. RegistersOK'
    BY <1>1, <1>2, <1>8, <2>1 DEF RegistersOK, StoreLow
  <2>3. CallOK'
    BY <1>1, <1>2, <1>8 DEF CallOK, StoreLow, Accesses
  <2>4. HistoryOK'
    BY <1>1, <1>2, <1>8 DEF HistoryOK, StoreLow
  <2> QED  BY <2>2, <2>3, <2>4
<1>9. CASE StoreHigh
  <2>1. call.n \in lines /\ call.to \in Functions \cup {nothing}
    BY <1>1, <1>9 DEF CallOK, StoreHigh
  <2>2. RegistersOK'
    BY <1>1, <1>2, <1>9, <2>1 DEF RegistersOK, StoreHigh
  <2>3. CallOK'
    BY <1>1, <1>2, <1>9 DEF CallOK, StoreHigh, Accesses
  <2>4. HistoryOK'
    BY <1>1, <1>2, <1>9 DEF HistoryOK, StoreHigh
  <2> QED  BY <2>2, <2>3, <2>4
<1>10. CASE ReadEICRA
  BY <1>1, <1>2, <1>10 DEF RegistersOK, CallOK, HistoryOK, ReadEICRA, Accesses
<1>11. CASE WriteEICRA
  <2>1. AttachBit(chip, call.n) \in LineBits
    BY <1>1, <1>4, <1>11 DEF CallOK, WriteEICRA
  <2> QED  BY <1>1, <1>2, <1>11, <2>1 DEF RegistersOK, CallOK, HistoryOK, WriteEICRA, Accesses
<1>12. CASE Enable
  <2>1. AttachBit(chip, call.n) \in LineBits
    BY <1>1, <1>4, <1>12 DEF CallOK, Enable
  <2> QED  BY <1>1, <1>2, <1>12, <2>1 DEF RegistersOK, CallOK, HistoryOK, Enable, Accesses, NoCall
<1>13. ASSUME NEW n \in lines, Event(n)
       PROVE  RegistersOK' /\ CallOK' /\ HistoryOK'
  BY <1>1, <1>2, <1>4, <1>13 DEF RegistersOK, CallOK, HistoryOK, Event
<1>14. ASSUME NEW b \in EIMSK, Serve(b)
       PROVE  RegistersOK' /\ CallOK' /\ HistoryOK'
  BY <1>1, <1>2, <1>14 DEF RegistersOK, CallOK, HistoryOK, Serve
<1>15. CASE FunctionReturns
  BY <1>1, <1>2, <1>15 DEF RegistersOK, CallOK, HistoryOK, FunctionReturns
<1>16. ASSUME NEW n \in lines, FunctionDetaches(n)
       PROVE  RegistersOK' /\ CallOK' /\ HistoryOK'
  <2>1. RegistersOK'
    BY <1>1, <1>2, <1>16 DEF RegistersOK, FunctionDetaches, Entry
  <2>2. CallOK'
    BY <1>1, <1>2, <1>16 DEF CallOK, FunctionDetaches
  <2>3. HistoryOK'
    BY <1>1, <1>2, <1>16 DEF HistoryOK, FunctionDetaches
  <2> QED  BY <2>1, <2>2, <2>3
<1>17. ASSUME NEW n \in lines, NEW h \in Functions, FunctionAttaches(n, h)
       PROVE  RegistersOK' /\ CallOK' /\ HistoryOK'
  <2>1. RegistersOK'
    BY <1>1, <1>2, <1>4, <1>17 DEF RegistersOK, FunctionAttaches, Entry
  <2>2. CallOK'
    BY <1>1, <1>2, <1>17 DEF CallOK, FunctionAttaches
  <2>3. HistoryOK'
    BY <1>1, <1>2, <1>17 DEF HistoryOK, FunctionAttaches
  <2> QED  BY <2>1, <2>2, <2>3
<1> QED
  BY <1>6, <1>7, <1>8, <1>9, <1>10, <1>11, <1>12, <1>13, <1>14, <1>15, <1>16, <1>17
  DEF Next

-----------------------------------------------------------------------------
(* Service routines and trigger modes *)

\* While a function runs nothing else happens but events.
LEMMA NextServing ==
  ASSUME TypesInv, Serving, Next
  PROVE  Serving'
<1> USE DEF table, history
<1>1. chip' = chip
  BY BoardStays
<1>2. ASSUME Running, Running'
      PROVE  Serving'
  BY <1>2 DEF Serving
<1>3. ASSUME NEW n \in lines, NEW h \in Functions, CallAttach(n, h)
      PROVE  Serving'
  BY <1>2, <1>3 DEF CallAttach, Running
<1>4. ASSUME NEW n \in lines, CallDetach(n)
      PROVE  Serving'
  BY <1>2, <1>4 DEF CallDetach, Running
<1>5. CASE StoreLow \/ StoreHigh \/ ReadEICRA \/ WriteEICRA \/ Enable
  BY <1>2, <1>5 DEF StoreLow, StoreHigh, ReadEICRA, WriteEICRA, Enable, Running
<1>6. ASSUME NEW n \in lines, Event(n)
      PROVE  Serving'
  BY <1>1, <1>6 DEF Serving, Event, Running
<1>7. ASSUME NEW b \in EIMSK, Serve(b)
      PROVE  Serving'
  BY <1>1, <1>7 DEF Serving, Serve, Running
<1>8. CASE FunctionReturns
  BY <1>8 DEF Serving, FunctionReturns, Running, NotCalled
<1>9. ASSUME NEW n \in lines, FunctionDetaches(n)
      PROVE  Serving'
  BY <1>9 DEF Serving, FunctionDetaches, Running, NotCalled
<1>10. ASSUME NEW n \in lines, NEW h \in Functions, FunctionAttaches(n, h)
       PROVE  Serving'
  BY <1>10 DEF Serving, FunctionAttaches, Running, NotCalled
<1> QED  BY <1>3, <1>4, <1>5, <1>6, <1>7, <1>8, <1>9, <1>10 DEF Next

\* The mode of a line is set before the line is enabled, and a call that writes
\* EICRA back has lost nothing unless a function attached meanwhile.
LEMMA NextModes ==
  ASSUME TypesInv, ModesSet, Next
  PROVE  ModesSet'
<1> USE DEF table, history
<1>1. chip' = chip
  BY BoardStays
<1>2. CallOK
  BY DEF TypesInv
<1>3. SUFFICES ASSUME ~raced'
      PROVE  ModesSet'
  BY DEF ModesSet
<1>4. ~raced
  <2>1. raced \in BOOLEAN
    BY DEF TypesInv, HistoryOK
  <2>2. ASSUME NEW n \in lines, NEW h \in Functions, FunctionAttaches(n, h)
        PROVE  ~raced
    BY <1>3, <2>1, <2>2 DEF FunctionAttaches
  <2>3. ASSUME NEW n \in lines, NEW h \in Functions, CallAttach(n, h)
        PROVE  raced' = raced
    BY <2>3 DEF CallAttach
  <2>4. ASSUME NEW n \in lines, CallDetach(n) \/ Event(n) \/ FunctionDetaches(n)
        PROVE  raced' = raced
    BY <2>4 DEF CallDetach, Event, FunctionDetaches
  <2>5. CASE StoreLow \/ StoreHigh \/ ReadEICRA \/ WriteEICRA \/ Enable
    BY <1>3, <2>5 DEF StoreLow, StoreHigh, ReadEICRA, WriteEICRA, Enable
  <2>6. ASSUME NEW b \in EIMSK, Serve(b)
        PROVE  raced' = raced
    BY <2>6 DEF Serve
  <2>7. CASE FunctionReturns
    BY <1>3, <2>7 DEF FunctionReturns
  <2> QED  BY <1>3, <2>2, <2>3, <2>4, <2>5, <2>6, <2>7 DEF Next
<1>5. /\ EIMSK \subseteq EICRA
      /\ pc = "write EICRA" => copy = EICRA
      /\ pc = "enable" => AttachBit(chip, call.n) \in EICRA
  BY <1>4 DEF ModesSet
<1> HIDE DEF AttachBit
<1>6. ASSUME NEW n \in lines, NEW h \in Functions, CallAttach(n, h)
      PROVE  ModesSet'
  BY <1>5, <1>6 DEF CallAttach, ModesSet
<1>7. ASSUME NEW n \in lines, CallDetach(n)
      PROVE  ModesSet'
  BY <1>5, <1>7 DEF CallDetach, ModesSet
<1>8. CASE StoreLow \/ StoreHigh
  BY <1>5, <1>8 DEF StoreLow, StoreHigh, ModesSet
<1>9. CASE ReadEICRA
  BY <1>5, <1>9 DEF ReadEICRA, ModesSet
<1>10. CASE WriteEICRA
  BY <1>1, <1>5, <1>10 DEF WriteEICRA, ModesSet
<1>11. CASE Enable
  BY <1>5, <1>11 DEF Enable, ModesSet
<1>12. ASSUME NEW n \in lines, Event(n)
       PROVE  ModesSet'
  BY <1>1, <1>5, <1>12 DEF Event, ModesSet
<1>13. ASSUME NEW b \in EIMSK, Serve(b)
       PROVE  ModesSet'
  BY <1>1, <1>5, <1>13 DEF Serve, ModesSet
<1>14. CASE FunctionReturns
  BY <1>1, <1>5, <1>14 DEF FunctionReturns, ModesSet
<1>15. ASSUME NEW n \in lines, FunctionDetaches(n)
       PROVE  ModesSet'
  BY <1>1, <1>5, <1>15 DEF FunctionDetaches, ModesSet
<1>16. ASSUME NEW n \in lines, NEW h \in Functions, FunctionAttaches(n, h)
       PROVE  ModesSet'
  BY <1>3, <1>5, <1>16 DEF FunctionAttaches, ModesSet
<1> QED
  BY <1>6, <1>7, <1>8, <1>9, <1>10, <1>11, <1>12, <1>13, <1>14, <1>15, <1>16 DEF Next

-----------------------------------------------------------------------------
(* The lines *)

\* A step that leaves a line's entry, bit and request, and its call, keeps it.
LEMMA LineUntouched ==
  ASSUME NEW m \in lines, LineKept(m),
         intFunc'[m] = intFunc[m], asked'[m] = asked[m],
         Attached(m)' <=> Attached(m), Careful(m)' => Careful(m),
         CallsOn(m)' <=> CallsOn(m), CallsOn(m) => pc' = pc /\ call' = call
  PROVE  LineKept(m)'
<1>1. CASE CallsOn(m)
  BY <1>1, Zenon DEF LineKept, InProgress, CallsOn
<1>2. CASE ~CallsOn(m)
  BY <1>2, Zenon DEF LineKept, Undisturbed
<1> QED  BY <1>1, <1>2

\* A call about a line begins.
LEMMA CallAttachKeeps ==
  ASSUME TypesInv, LinesKept, NEW n \in lines, NEW h \in Functions, CallAttach(n, h)
  PROVE  LinesKept'
<1> USE DEF table, history
<1>1. lines' = lines /\ chip' = chip /\ intFunc' = intFunc /\ EIMSK' = EIMSK /\ raced' = raced
  BY DEF CallAttach
<1>2. /\ asked \in [lines -> Functions \cup {nothing}] /\ reattached \subseteq lines
  BY DEF TypesInv, HistoryOK
<1>3. /\ pc = "sketch" /\ pc' = "low" /\ call' = [n |-> n, to |-> h]
      /\ asked' = [asked EXCEPT ![n] = h]
      /\ reattached' = IF asked[n] = nothing THEN reattached ELSE reattached \cup {n}
  BY DEF CallAttach
<1>4. SUFFICES ASSUME NEW m \in lines PROVE LineKept(m)'
  BY <1>1 DEF LinesKept
<1>5. LineKept(m)
  BY DEF LinesKept
<1>6. Attached(m)' <=> Attached(m)
  BY <1>1 DEF Attached
<1>7. Careful(m)' => Careful(m)
  BY <1>1, <1>3 DEF Careful
<1>8. CASE m = n
  <2>1. CallsOn(m)' /\ ~CallsOn(m) /\ asked'[m] = h /\ call'.to = h
    BY <1>2, <1>3, <1>8 DEF CallsOn
  <2>2. Careful(m)' => asked[m] = nothing
    BY <1>3, <1>8 DEF Careful
  <2>3. Careful(m)' => ~Attached(m)'
    BY <1>5, <1>6, <1>7, <2>1, <2>2 DEF LineKept, Undisturbed
  <2> QED  BY <1>3, <2>1, <2>3 DEF LineKept, InProgress
<1>9. CASE m # n
  <2>1. asked'[m] = asked[m] /\ ~CallsOn(m) /\ ~CallsOn(m)'
    BY <1>2, <1>3, <1>9 DEF CallsOn
  <2> QED  BY <1>1, <1>5, <1>6, <1>7, <2>1, LineUntouched
<1> QED  BY <1>8, <1>9

LEMMA CallDetachKeeps ==
  ASSUME TypesInv, LinesKept, NEW n \in lines, CallDetach(n)
  PROVE  LinesKept'
<1> USE DEF table, history
<1>1. lines' = lines /\ chip' = chip /\ intFunc' = intFunc /\ raced' = raced
  BY DEF CallDetach
<1>2. /\ asked \in [lines -> Functions \cup {nothing}] /\ reattached \subseteq lines
      /\ BoardOK
  BY DEF TypesInv, HistoryOK
<1>3. DetachBit(chip, n) = AttachBit(chip, n)
  BY <1>2, LineOfBit
<1>4. /\ pc = "sketch" /\ pc' = "low" /\ call' = [n |-> n, to |-> nothing]
      /\ asked' = [asked EXCEPT ![n] = nothing]
      /\ EIMSK' = EIMSK \ {AttachBit(chip, n)} /\ reattached' = reattached \ {n}
  BY <1>3 DEF CallDetach
<1>5. SUFFICES ASSUME NEW m \in lines PROVE LineKept(m)'
  BY <1>1 DEF LinesKept
<1>6. CASE m = n
  <2>1. CallsOn(m)' /\ asked'[m] = nothing /\ call'.to = nothing
    BY <1>2, <1>4, <1>6 DEF CallsOn
  <2>2. ~Attached(m)'
    BY <1>1, <1>4, <1>6 DEF Attached
  <2> QED  BY <1>4, <2>1, <2>2 DEF LineKept, InProgress
<1>7. CASE m # n
  <2>1. asked'[m] = asked[m] /\ ~CallsOn(m) /\ ~CallsOn(m)'
    BY <1>2, <1>4, <1>7 DEF CallsOn
  <2>2. AttachBit(chip, m) # AttachBit(chip, n)
    BY <1>2, <1>7, LineOfBit
  <2>3. Attached(m)' <=> Attached(m)
    BY <1>1, <1>4, <2>2 DEF Attached
  <2>4. Careful(m)' => Careful(m)
    BY <1>1, <1>4, <1>7 DEF Careful
  <2>5. LineKept(m)
    BY DEF LinesKept
  <2> QED  BY <1>1, <2>1, <2>3, <2>4, <2>5, LineUntouched
<1> QED  BY <1>6, <1>7

\* The accesses of a call reach its own line only.
LEMMA StoreLowKeeps ==
  ASSUME TypesInv, LinesKept, StoreLow
  PROVE  LinesKept'
<1> USE DEF table, history
<1>1. /\ lines' = lines /\ chip' = chip /\ EIMSK' = EIMSK /\ asked' = asked
      /\ reattached' = reattached /\ raced' = raced /\ call' = call
      /\ pc = "low" /\ pc' = "high" /\ intFunc' = [intFunc EXCEPT ![call.n].low = call.to]
  BY DEF StoreLow
<1>2. /\ intFunc \in [lines -> [low : Functions \cup {nothing}, high : Functions \cup {nothing}]]
      /\ call.n \in lines
  BY <1>1 DEF TypesInv, RegistersOK, CallOK
<1>3. SUFFICES ASSUME NEW m \in lines PROVE LineKept(m)'
  BY <1>1 DEF LinesKept
<1>4. LineKept(m)
  BY DEF LinesKept
<1>5. (Attached(m)' <=> Attached(m)) /\ (Careful(m)' <=> Careful(m)) /\ (CallsOn(m)' <=> CallsOn(m))
  BY <1>1 DEF Attached, Careful, CallsOn
<1>6. CASE m = call.n
  <2>1. CallsOn(m) /\ intFunc'[m].low = call.to
    BY <1>1, <1>2, <1>6 DEF CallsOn
  <2> QED  BY <1>1, <1>4, <1>5, <2>1 DEF LineKept, InProgress
<1>7. CASE m # call.n
  <2>1. intFunc'[m] = intFunc[m] /\ ~CallsOn(m)
    BY <1>1, <1>2, <1>7 DEF CallsOn
  <2> QED  BY <1>1, <1>4, <1>5, <2>1, LineUntouched
<1> QED  BY <1>6, <1>7

\* The last access of detaching: the line is as undisturbed, and detached.
LEMMA StoreHighKeeps ==
  ASSUME TypesInv, LinesKept, StoreHigh
  PROVE  LinesKept'
<1> USE DEF table, history
<1>1. /\ lines' = lines /\ chip' = chip /\ EIMSK' = EIMSK /\ asked' = asked
      /\ reattached' = reattached /\ raced' = raced
      /\ pc = "high" /\ intFunc' = [intFunc EXCEPT ![call.n].high = call.to]
      /\ IF call.to = nothing THEN pc' = "sketch" /\ call' = NoCall
         ELSE pc' = "read EICRA" /\ call' = call
  BY DEF StoreHigh
<1>2. /\ intFunc \in [lines -> [low : Functions \cup {nothing}, high : Functions \cup {nothing}]]
      /\ call.n \in lines
  BY <1>1 DEF TypesInv, RegistersOK, CallOK
<1>3. SUFFICES ASSUME NEW m \in lines PROVE LineKept(m)'
  BY <1>1 DEF LinesKept
<1>4. LineKept(m)
  BY DEF LinesKept
<1>5. (Attached(m)' <=> Attached(m)) /\ (Careful(m)' <=> Careful(m))
  BY <1>1 DEF Attached, Careful
<1>6. CASE m = call.n
  <2>1. CallsOn(m) /\ intFunc'[m] = [low |-> intFunc[m].low, high |-> call.to]
    BY <1>1, <1>2, <1>6 DEF CallsOn
  <2>2. CASE ~Careful(m)
    BY <1>5, <2>2 DEF LineKept
  <2>3. ASSUME Careful(m)
        PROVE  ~Attached(m) /\ asked[m] = call.to /\ intFunc[m].low = call.to
    BY <1>1, <1>4, <2>1, <2>3 DEF LineKept, InProgress
  <2>4. CASE Careful(m) /\ call.to = nothing
    <3>1. intFunc'[m] = Entry(asked'[m])
      BY <1>1, <2>1, <2>3, <2>4 DEF Entry
    <3> QED  BY <1>1, <1>5, <2>3, <2>4, <3>1 DEF LineKept, Undisturbed, CallsOn
  <2>5. CASE Careful(m) /\ call.to # nothing
    <3>1. intFunc'[m].low = call.to /\ intFunc'[m].high = call.to
      BY <2>1, <2>3, <2>5
    <3> QED  BY <1>1, <1>5, <1>6, <2>3, <2>5, <3>1 DEF LineKept, InProgress, CallsOn
  <2> QED  BY <2>2, <2>4, <2>5
<1>7. CASE m # call.n
  <2>1. intFunc'[m] = intFunc[m] /\ ~CallsOn(m) /\ ~CallsOn(m)'
    BY <1>1, <1>2, <1>7 DEF CallsOn
  <2> QED  BY <1>1, <1>4, <1>5, <2>1, LineUntouched
<1> QED  BY <1>6, <1>7

LEMMA ModeKeeps ==
  ASSUME TypesInv, LinesKept, ReadEICRA \/ WriteEICRA
  PROVE  LinesKept'
<1> USE DEF table, history
<1>1. /\ lines' = lines /\ chip' = chip /\ EIMSK' = EIMSK /\ asked' = asked
      /\ reattached' = reattached /\ raced' = raced /\ call' = call /\ intFunc' = intFunc
      /\ pc \in {"read EICRA", "write EICRA"} /\ pc' \in {"write EICRA", "enable"}
  BY DEF ReadEICRA, WriteEICRA
<1>2. SUFFICES ASSUME NEW m \in lines PROVE LineKept(m)'
  BY <1>1 DEF LinesKept
<1>3. LineKept(m)
  BY DEF LinesKept
<1>4. (Attached(m)' <=> Attached(m)) /\ (Careful(m)' <=> Careful(m)) /\ (CallsOn(m)' <=> CallsOn(m))
  BY <1>1 DEF Attached, Careful, CallsOn
<1> QED  BY <1>1, <1>3, <1>4 DEF LineKept, InProgress, Undisturbed

\* The last access of attaching: the whole entry is written before the line is enabled.
LEMMA EnableKeeps ==
  ASSUME TypesInv, LinesKept, Enable
  PROVE  LinesKept'
<1> USE DEF table, history
<1>1. /\ lines' = lines /\ chip' = chip /\ intFunc' = intFunc /\ asked' = asked
      /\ reattached' = reattached /\ raced' = raced
      /\ pc = "enable" /\ pc' = "sketch" /\ EIMSK' = EIMSK \cup {AttachBit(chip, call.n)}
  BY DEF Enable
<1>2. /\ intFunc \in [lines -> [low : Functions \cup {nothing}, high : Functions \cup {nothing}]]
      /\ call.n \in lines /\ call.to # nothing /\ BoardOK
  BY <1>1 DEF TypesInv, RegistersOK, CallOK
<1>3. SUFFICES ASSUME NEW m \in lines PROVE LineKept(m)'
  BY <1>1 DEF LinesKept
<1>4. LineKept(m) /\ (Careful(m)' <=> Careful(m)) /\ ~CallsOn(m)'
  BY <1>1 DEF LinesKept, Careful, CallsOn
<1>5. CASE m = call.n
  <2>1. Attached(m)'
    BY <1>1, <1>5 DEF Attached
  <2>2. ASSUME Careful(m)
        PROVE  intFunc[m] = Entry(asked[m]) /\ asked[m] # nothing
    <3>1. asked[m] = call.to /\ intFunc[m].low = call.to /\ intFunc[m].high = call.to
      BY <1>1, <1>4, <1>5, <2>2 DEF LineKept, InProgress, CallsOn
    <3> QED  BY <1>2, <3>1 DEF Entry
  <2> QED  BY <1>1, <1>4, <2>1, <2>2 DEF LineKept, Undisturbed
<1>6. CASE m # call.n
  <2>1. AttachBit(chip, m) # AttachBit(chip, call.n)
    BY <1>2, <1>6, LineOfBit
  <2>2. Attached(m)' <=> Attached(m)
    BY <1>1, <2>1 DEF Attached
  <2>3. ~CallsOn(m)
    BY <1>6 DEF CallsOn
  <2> QED  BY <1>1, <1>4, <2>2, <2>3, LineUntouched
<1> QED  BY <1>5, <1>6

\* A one-shot detaches the line it serves, which no call is about: it is enabled.
LEMMA FunctionDetachesKeeps ==
  ASSUME TypesInv, Serving, LinesKept, NEW n \in lines, FunctionDetaches(n)
  PROVE  LinesKept'
<1> USE DEF table, history
<1>1. /\ lines' = lines /\ chip' = chip /\ pc' = pc /\ call' = call
      /\ reattached' = reattached /\ raced' = raced
      /\ ~Running /\ called.n = AttachBit(chip, n)
      /\ intFunc' = [intFunc EXCEPT ![n] = Entry(nothing)]
      /\ asked' = [asked EXCEPT ![n] = nothing]
  BY DEF FunctionDetaches
<1>2. /\ intFunc \in [lines -> [low : Functions \cup {nothing}, high : Functions \cup {nothing}]]
      /\ asked \in [lines -> Functions \cup {nothing}] /\ BoardOK
  BY DEF TypesInv, RegistersOK, HistoryOK
<1>3. EIMSK' = EIMSK \ {AttachBit(chip, n)}
  BY <1>2, LineOfBit DEF FunctionDetaches
<1>4. Attached(n)
  BY <1>1 DEF Serving, Attached
<1>5. SUFFICES ASSUME NEW m \in lines PROVE LineKept(m)'
  BY <1>1 DEF LinesKept
<1>6. LineKept(m) /\ (Careful(m)' <=> Careful(m)) /\ (CallsOn(m)' <=> CallsOn(m))
  BY <1>1 DEF LinesKept, Careful, CallsOn
<1>7. CASE m = n
  <2>1. Careful(m) => ~CallsOn(m)
    BY <1>4, <1>6, <1>7 DEF LineKept, InProgress
  <2>2. ~Attached(m)' /\ intFunc'[m] = Entry(nothing) /\ asked'[m] = nothing
    BY <1>1, <1>2, <1>3, <1>7 DEF Attached
  <2> QED  BY <1>6, <2>1, <2>2 DEF LineKept, Undisturbed
<1>8. CASE m # n
  <2>1. AttachBit(chip, m) # AttachBit(chip, n)
    BY <1>2, <1>8, LineOfBit
  <2>2. Attached(m)' <=> Attached(m)
    BY <1>1, <1>3, <2>1 DEF Attached
  <2>3. intFunc'[m] = intFunc[m] /\ asked'[m] = asked[m]
    BY <1>1, <1>2, <1>8
  <2> QED  BY <1>1, <1>6, <2>2, <2>3, LineUntouched
<1> QED  BY <1>7, <1>8

\* A function attaches another line at once.
LEMMA FunctionAttachesKeeps ==
  ASSUME TypesInv, LinesKept, NEW n \in lines, NEW h \in Functions, FunctionAttaches(n, h)
  PROVE  LinesKept'
<1> USE DEF table, history
<1>1. /\ lines' = lines /\ chip' = chip /\ pc' = pc /\ call' = call
      /\ reattached' = reattached
      /\ intFunc' = [intFunc EXCEPT ![n] = Entry(h)] /\ asked' = [asked EXCEPT ![n] = h]
      /\ EIMSK' = EIMSK \cup {AttachBit(chip, n)}
  BY DEF FunctionAttaches
<1>2. /\ intFunc \in [lines -> [low : Functions \cup {nothing}, high : Functions \cup {nothing}]]
      /\ asked \in [lines -> Functions \cup {nothing}] /\ BoardOK /\ raced \in BOOLEAN
  BY DEF TypesInv, RegistersOK, HistoryOK
<1>3. ~raced' => ~raced /\ pc = "sketch"
  BY <1>2 DEF FunctionAttaches
<1>4. SUFFICES ASSUME NEW m \in lines PROVE LineKept(m)'
  BY <1>1 DEF LinesKept
<1>5. LineKept(m) /\ (CallsOn(m)' <=> CallsOn(m))
  BY <1>1 DEF LinesKept, CallsOn
<1>6. Careful(m)' => Careful(m) /\ ~CallsOn(m)
  BY <1>1, <1>3 DEF Careful, CallsOn
<1>7. CASE m = n
  <2>1. Attached(m)' /\ intFunc'[m] = Entry(h) /\ asked'[m] = h /\ h # nothing
    BY <1>1, <1>2, <1>7, InterruptsAssumption DEF Attached
  <2> QED  BY <1>5, <1>6, <2>1 DEF LineKept, Undisturbed
<1>8. CASE m # n
  <2>1. AttachBit(chip, m) # AttachBit(chip, n)
    BY <1>2, <1>8, LineOfBit
  <2>2. Attached(m)' <=> Attached(m)
    BY <1>1, <2>1 DEF Attached
  <2>3. intFunc'[m] = intFunc[m] /\ asked'[m] = asked[m]
    BY <1>1, <1>2, <1>8
  <2> QED  BY <1>1, <1>5, <1>6, <2>2, <2>3, LineUntouched
<1> QED  BY <1>7, <1>8

\* Events, and the beginning and end of a service routine, touch no line.
LEMMA QuietSteps ==
  ASSUME LinesKept,
         \/ \E n \in lines : Event(n)
         \/ \E b \in EIMSK : Serve(b)
         \/ FunctionReturns
         \/ UNCHANGED vars
  PROVE  LinesKept'
<1>1. /\ lines' = lines /\ chip' = chip /\ pc' = pc /\ call' = call /\ EIMSK' = EIMSK
      /\ intFunc' = intFunc /\ asked' = asked /\ reattached' = reattached /\ raced' = raced
  BY DEF Event, Serve, FunctionReturns, vars, table, history
<1>2. SUFFICES ASSUME NEW m \in lines PROVE LineKept(m)'
  BY <1>1 DEF LinesKept
<1>3. LineKept(m)
  BY DEF LinesKept
<1> QED  BY <1>1, <1>3 DEF LineKept, InProgress, Undisturbed, Attached, Careful, CallsOn

-----------------------------------------------------------------------------
(* The theorems *)

LEMMA InitIInv == Init => LinesIInv
<1> SUFFICES ASSUME Init PROVE LinesIInv
  OBVIOUS
<1>1. TypesInv /\ Serving
  BY InitTypes
<1>2. LinesKept
  <2> SUFFICES ASSUME NEW m \in lines PROVE LineKept(m)
    BY DEF LinesKept
  <2>1. ~CallsOn(m) /\ ~Attached(m) /\ intFunc[m] = Entry(nothing) /\ asked[m] = nothing
    BY DEF Init, CallsOn, Attached
  <2> QED  BY <2>1 DEF LineKept, Undisturbed
<1>3. ModesSet
  BY DEF Init, ModesSet
<1> QED  BY <1>1, <1>2, <1>3 DEF LinesIInv

LEMMA NextIInv == LinesIInv /\ [Next]_vars => LinesIInv'
<1> SUFFICES ASSUME LinesIInv, [Next]_vars PROVE LinesIInv'
  OBVIOUS
<1>1. TypesInv /\ Serving /\ LinesKept /\ ModesSet
  BY DEF LinesIInv
<1>2. CASE Next
  <2>1. TypesInv' /\ Serving' /\ ModesSet'
    BY <1>1, <1>2, NextTypes, NextServing, NextModes
  <2>2. LinesKept'
    BY <1>1, <1>2, CallAttachKeeps, CallDetachKeeps, StoreLowKeeps, StoreHighKeeps, ModeKeeps,
       EnableKeeps, FunctionDetachesKeeps, FunctionAttachesKeeps, QuietSteps DEF Next
  <2> QED  BY <2>1, <2>2 DEF LinesIInv
<1>3. CASE UNCHANGED vars
  <2>1. LinesKept'
    BY <1>1, <1>3, QuietSteps
  <2>2. chip' = chip /\ lines' = lines /\ LineBits' = LineBits
    BY <1>3, BoardStays
  <2>3. TypesInv' /\ Serving' /\ ModesSet'
    BY <1>1, <1>3, <2>2
    DEF TypesInv, BoardOK, RegistersOK, CallOK, HistoryOK, Serving, Running, ModesSet,
        vars, table, history
  <2> QED  BY <2>1, <2>3 DEF LinesIInv
<1> QED  BY <1>2, <1>3

LEMMA IInvImplies == LinesIInv => InterruptsInv
<1> SUFFICES ASSUME LinesIInv PROVE InterruptsInv
  OBVIOUS
<1>1. BoardOK /\ RegistersOK /\ HistoryOK /\ Serving /\ LinesKept /\ ModesSet
  BY DEF LinesIInv, TypesInv
<1>2. \A b \in LineBits : Vector(chip, b) \in lines /\ b = AttachBit(chip, Vector(chip, b))
  BY <1>1, LineOfBit
<1>3. InterruptsTypeOK
  BY <1>1, <1>2 DEF InterruptsTypeOK, RegistersOK, HistoryOK
<1>4. CallsWhatWasAttached
  <2> SUFFICES ASSUME ~Running, Careful(Vector(chip, called.n))
               PROVE  /\ called.to = Entry(asked[Vector(chip, called.n)])
                      /\ asked[Vector(chip, called.n)] # nothing
    BY DEF CallsWhatWasAttached
  <2> DEFINE n == Vector(chip, called.n)
  <2>1. called.n \in EIMSK /\ called.to = intFunc[n]
    BY <1>1 DEF Serving
  <2>2. n \in lines /\ Attached(n)
    BY <1>1, <1>2, <2>1 DEF RegistersOK, Attached
  <2>3. LineKept(n)
    BY <1>1, <2>2 DEF LinesKept
  <2> HIDE DEF n
  <2>4. Undisturbed(n)
    BY <2>2, <2>3 DEF LineKept, InProgress, n
  <2> QED  BY <2>1, <2>2, <2>4 DEF Undisturbed, n
<1>5. AttachedAndNoOther
  <2> SUFFICES ASSUME pc = "sketch", \A n \in lines : Careful(n)
               PROVE  /\ {AttachBit(chip, n) : n \in {l \in lines : asked[l] # nothing}} = EIMSK
                      /\ EIMSK \subseteq EICRA
    BY DEF AttachedAndNoOther
  <2>1. \A n \in lines : Attached(n) <=> asked[n] # nothing
    BY <1>1 DEF LinesKept, LineKept, CallsOn, Undisturbed
  <2>2. {AttachBit(chip, n) : n \in {l \in lines : asked[l] # nothing}} \subseteq EIMSK
    BY <2>1 DEF Attached
  <2>3. ASSUME NEW b \in EIMSK
        PROVE  b \in {AttachBit(chip, n) : n \in {l \in lines : asked[l] # nothing}}
    <3>1. Vector(chip, b) \in lines /\ b = AttachBit(chip, Vector(chip, b))
      BY <1>1, <1>2 DEF RegistersOK
    <3>2. asked[Vector(chip, b)] # nothing
      BY <2>1, <3>1 DEF Attached
    <3> QED  BY <3>1, <3>2, Zenon
  <2>4. EIMSK \subseteq EICRA
    <3>1. CASE raced
      <4>1. lines = {}
        BY <3>1 DEF Careful
      <4> QED  BY <1>1, <4>1 DEF RegistersOK, LineBits
    <3>2. CASE ~raced
      BY <1>1, <3>2 DEF ModesSet
    <3> QED  BY <3>1, <3>2
  <2> QED  BY <2>2, <2>3, <2>4
<1> QED  BY <1>3, <1>4, <1>5 DEF InterruptsInv

\* Lines that are enabled, and call, as they were attached, whatever the board, the
\* lines and the functions, and wherever an event comes (WInterrupts.c 70-316).
THEOREM LinesAsAttached == Spec => []InterruptsInv
<1>1. Init => LinesIInv
  BY InitIInv
<1>2. LinesIInv /\ [Next]_vars => LinesIInv'
  BY NextIInv
<1>3. LinesIInv => InterruptsInv
  BY IInvImplies
<1> QED  BY <1>1, <1>2, <1>3, PTL DEF Spec

-----------------------------------------------------------------------------
(* Timer 0: quotients and remainders *)


\* Quotient and remainder.
LEMMA DivMod ==
    ASSUME NEW a \in Int, NEW b \in Nat, b > 0
    PROVE  /\ a \div b \in Int /\ a % b \in 0..(b - 1)
           /\ a = b * (a \div b) + (a % b)
  OBVIOUS

\* There are no others.
LEMMA DivModUnique ==
    ASSUME NEW a \in Int, NEW b \in Nat, b > 0, NEW q \in Int, NEW r \in 0..(b - 1),
           a = b * q + r
    PROVE  a \div b = q /\ a % b = r
<1> DEFINE q1 == a \div b
           r1 == a % b
<1>1. q1 \in Int /\ r1 \in 0..(b - 1) /\ a = b * q1 + r1
  BY DivMod
<1> HIDE DEF q1, r1
<1>2. b * (q1 - q) = r - r1
  BY <1>1
<1>3. q1 - q = 0
  <2>1. CASE q1 - q >= 1
    <3>1. b * (q1 - q) >= b
      BY <1>1, <2>1
    <3> QED
      BY <1>1, <1>2, <3>1
  <2>2. CASE q1 - q <= -1
    <3>1. b * (q1 - q) <= -b
      BY <1>1, <2>2
    <3> QED
      BY <1>1, <1>2, <3>1
  <2> QED
    BY <1>1, <2>1, <2>2
<1>4. q1 = q /\ r1 = r
  BY <1>1, <1>2, <1>3
<1> QED
  BY <1>4 DEF q1, r1

\* Without a remainder.
LEMMA DivModExact ==
    ASSUME NEW b \in Nat, b > 0, NEW q \in Int
    PROVE  (b * q) \div b = q /\ (b * q) % b = 0
<1> DEFINE a == b * q
<1>1. a \in Int /\ a = b * q + 0 /\ 0 \in 0..(b - 1)
  OBVIOUS
<1> HIDE DEF a
<1>2. a \div b = q /\ a % b = 0
  BY <1>1, DivModUnique
<1> QED
  BY <1>2 DEF a

\* A multiple of the divisor does not change the remainder.
LEMMA ModShift ==
    ASSUME NEW a \in Int, NEW b \in Nat, b > 0, NEW k \in Int
    PROVE  (a + b * k) % b = a % b
<1>1. a % b \in 0..(b - 1) /\ a = b * (a \div b) + (a % b) /\ a \div b \in Int
  BY DivMod
<1> DEFINE q == a \div b
           r == a % b
<1> HIDE DEF q, r
<1>2. q \in Int /\ r \in 0..(b - 1) /\ a + b * k = b * (q + k) + r /\ q + k \in Int /\ a + b * k \in Int
  BY <1>1 DEF q, r
<1>3. (a + b * k) % b = r
  BY <1>2, DivModUnique
<1> QED
  BY <1>3 DEF r

\* Remainders add up.
LEMMA ModAdd ==
    ASSUME NEW a \in Int, NEW b \in Nat, b > 0, NEW c \in Int
    PROVE  ((a % b) + c) % b = (a + c) % b /\ (c - (a % b)) % b = (c - a) % b
<1> DEFINE q == a \div b
           r == a % b
<1>1. q \in Int /\ r \in Int /\ a = b * q + r
  BY DivMod
<1> HIDE DEF q, r
<1>2. r + c \in Int /\ c - a \in Int
  BY <1>1
<1>3. ((r + c) + b * q) % b = (r + c) % b /\ ((c - a) + b * q) % b = (c - a) % b
  BY <1>1, <1>2, ModShift
<1>4. (r + c) + b * q = a + c /\ (c - a) + b * q = c - r
  BY <1>1
<1> QED
  BY <1>3, <1>4 DEF r

\* A number below the divisor is its own remainder.
LEMMA ModSmall ==
    ASSUME NEW b \in Nat, b > 0, NEW a \in 0..(b - 1)
    PROVE  a % b = a /\ a \div b = 0
<1>1. a = b * 0 + a /\ a \in Int
  OBVIOUS
<1> QED
  BY <1>1, DivModUnique

\* The remainder of a remainder, when one divisor divides the other.
LEMMA ModOfMod ==
    ASSUME NEW a \in Int, NEW b \in Nat, b > 0, NEW c \in Nat, c > 0
    PROVE  (a % (b * c)) % b = a % b
<1>1. b * c \in Nat /\ b * c > 0
  OBVIOUS
<1> DEFINE q == a \div (b * c)
           r == a % (b * c)
<1>2. q \in Int /\ r \in Int /\ a = (b * c) * q + r
  BY <1>1, DivMod
<1> HIDE DEF q, r
<1>3. a = r + b * (c * q) /\ c * q \in Int
  BY <1>2
<1>4. (r + b * (c * q)) % b = r % b
  BY <1>2, <1>3, ModShift
<1> QED
  BY <1>3, <1>4 DEF r

-----------------------------------------------------------------------------
(* The constants *)

\* Overflows, microseconds of one, and units of timer0_fract of a millisecond.
Turns == Word * FRACT_MAX
OV == MICROSECONDS_PER_TIMER0_OVERFLOW

LEMMA Constants ==
    /\ Top \in Nat /\ US \in Nat /\ MS \in Nat /\ Grain \in Nat /\ Word \in Nat /\ Half \in Nat
    /\ MaxLatency \in Nat /\ MaxYield \in Nat /\ MaxMs \in Nat
    /\ Top > 2 /\ US > 0 /\ MS > 0 /\ Grain > 0 /\ Word > 0 /\ Half > 0 /\ MaxYield > 0
    /\ MaxLatency <= Top - 2
  BY TimerAssumption DEF ClockAssumption

LEMMA Products ==
    ASSUME NEW a \in Nat, NEW b \in Nat, a > 0, b > 0
    PROVE  a * b \in Nat /\ a * b > 0
  OBVIOUS

\* A multiple is its divisor times its quotient.
LEMMA Multiple ==
    ASSUME NEW a \in Nat, NEW b \in Nat, b > 0, a % b = 0
    PROVE  a \div b \in Nat /\ a = b * (a \div b) /\ (a > 0 => a \div b > 0)
  OBVIOUS

LEMMA Overflow0 ==
    /\ OV \in Nat /\ OV > 0 /\ OV = Top * US
    /\ FRACT_MAX \in Nat /\ FRACT_MAX > 0 /\ MS = Grain * FRACT_MAX
    /\ MILLIS_INC \in Nat /\ FRACT_INC \in 0..(FRACT_MAX - 1)
    /\ OV = MS * MILLIS_INC + Grain * FRACT_INC
<1>1. OV \in Nat /\ OV > 0 /\ OV = Top * US
  BY Constants, Products DEF OV, MICROSECONDS_PER_TIMER0_OVERFLOW
<1>2. FRACT_MAX \in Nat /\ FRACT_MAX > 0 /\ MS = Grain * FRACT_MAX
  <2>1. MS % Grain = 0
    BY TimerAssumption DEF ClockAssumption
  <2> QED
    BY <2>1, Constants, Multiple DEF FRACT_MAX
<1>3. OV % Grain = 0
  BY TimerAssumption DEF ClockAssumption, OV, MICROSECONDS_PER_TIMER0_OVERFLOW
<1>4. OV \div MS \in Nat /\ OV % MS \in 0..(MS - 1) /\ OV = MS * (OV \div MS) + (OV % MS)
  BY <1>1, Constants
<1> DEFINE q == OV \div MS
           r == OV % MS
           g == OV \div Grain
<1>5. g \in Nat /\ OV = Grain * g
  BY <1>1, <1>3, Constants, Multiple
<1>6. MILLIS_INC = q /\ FRACT_INC = r \div Grain
  BY DEF MILLIS_INC, FRACT_INC, OV
<1>7. q \in Nat /\ r \in 0..(MS - 1) /\ OV = MS * q + r
  BY <1>4
<1> HIDE DEF q, r, g
<1>8. r = Grain * (g - FRACT_MAX * q) /\ g - FRACT_MAX * q \in Int
  BY <1>2, <1>5, <1>7, Constants
<1>9. r \div Grain = g - FRACT_MAX * q
  BY <1>8, Constants, DivModExact
<1> DEFINE f == g - FRACT_MAX * q
<1>10. f \in Int /\ r = Grain * f /\ r \div Grain = f
  BY <1>8, <1>9
<1> HIDE DEF f
<1>11. f >= 0
  <2>1. SUFFICES ASSUME f <= -1 PROVE FALSE
    BY <1>10
  <2>2. Grain * f <= -Grain
    BY <2>1, <1>10, Constants
  <2> QED
    BY <2>2, <1>7, <1>10, Constants
<1>12. f < FRACT_MAX
  <2>1. SUFFICES ASSUME f >= FRACT_MAX PROVE FALSE
    BY <1>2, <1>10
  <2>2. Grain * f >= Grain * FRACT_MAX
    BY <2>1, <1>2, <1>10, Constants
  <2> QED
    BY <2>2, <1>2, <1>7, <1>10, Constants
<1> QED
  BY <1>1, <1>2, <1>6, <1>7, <1>10, <1>11, <1>12

LEMMA Turning ==
    /\ Turns \in Nat /\ Turns > 0
    /\ Period \in Nat /\ Period > 0 /\ Period = Top * Turns
    /\ OV \div Grain \in Nat /\ Turns * OV = MS * (Word * (OV \div Grain))
    /\ Word \div OV \in Nat /\ Word = OV * (Word \div OV)
    /\ 2 * US < Word
<1>1. Turns \in Nat /\ Turns > 0
  BY Constants, Overflow0, Products DEF Turns
<1>2. Period = Top * Turns
  BY Constants, Overflow0 DEF Turns, Period
<1>3. Period \in Nat /\ Period > 0
  BY <1>1, <1>2, Constants, Products
<1> DEFINE g == OV \div Grain
           w == Word \div OV
<1>4. g \in Nat /\ OV = Grain * g
  <2>1. OV % Grain = 0
    BY TimerAssumption DEF ClockAssumption, OV, MICROSECONDS_PER_TIMER0_OVERFLOW
  <2> QED
    BY <2>1, Constants, Overflow0, Multiple
<1>5. w \in Nat /\ Word = OV * w /\ w > 0
  <2>1. Word % OV = 0
    BY TimerAssumption DEF ClockAssumption, OV, MICROSECONDS_PER_TIMER0_OVERFLOW
  <2> QED
    BY <2>1, Constants, Overflow0, Multiple
<1> HIDE DEF g, w
<1>6. Turns * OV = MS * (Word * g)
  <2>1. Turns * OV = (Word * FRACT_MAX) * (Grain * g)
    BY <1>4 DEF Turns
  <2>2. (Word * FRACT_MAX) * (Grain * g) = (Grain * FRACT_MAX) * (Word * g)
    BY <1>4, Constants, Overflow0
  <2> QED
    BY <2>1, <2>2, Overflow0
<1>7. 2 * US < Word
  <2>1. OV > 2 * US
    BY Constants, Overflow0
  <2>2. OV * w >= OV
    BY <1>5, Overflow0
  <2> QED
    BY <2>1, <2>2, <1>5, Constants, Overflow0
<1> QED
  BY <1>1, <1>2, <1>3, <1>4, <1>5, <1>6, <1>7 DEF g, w

-----------------------------------------------------------------------------
(* What the counters count *)

\* The count goes up by one, or back to zero with the overflows one more: never to
\* Top, and never back to zero before it.
LEMMA TickCounts ==
    ASSUME NEW t \in 0..(Period - 1)
    PROVE  LET u == (t + 1) % Period
           IN  /\ u \in 0..(Period - 1)
               /\ u % Top = (t + 1) % Top
               /\ (t + 1) % Top # 0 => u % Top = (t % Top) + 1 /\ u \div Top = t \div Top
               /\ (t + 1) % Top = 0 =>
                    t % Top = Top - 1 /\ ((u \div Top) - 1) % Turns = (t \div Top) % Turns
<1> DEFINE u == (t + 1) % Period
           q == t \div Top
           r == t % Top
<1>1. q \in Int /\ r \in 0..(Top - 1) /\ t = Top * q + r
  BY Turning, Constants, DivMod
<1>2. u \in 0..(Period - 1) /\ t \in Int /\ t + 1 \in Int /\ u \in Int
  BY Turning, DivMod
<1>3. u % Top = (t + 1) % Top
  <2>1. Top \in Nat /\ Top > 0 /\ Turns \in Nat /\ Turns > 0 /\ Period = Top * Turns
    BY Turning, Constants
  <2>2. ((t + 1) % (Top * Turns)) % Top = (t + 1) % Top
    BY <1>2, <2>1, ModOfMod, Zenon
  <2> QED
    BY <2>1, <2>2
<1> HIDE DEF u, q, r
<1>4. u = IF t + 1 = Period THEN 0 ELSE t + 1
  <2>1. CASE t + 1 = Period
    <3>1. Period = Period * 1 + 0 /\ 0 \in 0..(Period - 1) /\ Period \in Int
      BY Turning
    <3>2. Period % Period = 0
      BY <3>1, Turning, DivModUnique
    <3> QED
      BY <2>1, <3>2 DEF u
  <2>2. CASE t + 1 # Period
    <3>1. t + 1 \in 0..(Period - 1)
      BY <2>2, Turning
    <3> QED
      BY <2>2, <3>1, Turning, ModSmall DEF u
  <2> QED
    BY <2>1, <2>2
<1>5. CASE r + 1 < Top
  <2>1. t + 1 = Top * q + (r + 1) /\ r + 1 \in 0..(Top - 1)
    BY <1>1, <1>5, Constants
  <2>2. (t + 1) \div Top = q /\ (t + 1) % Top = r + 1
    BY <1>1, <1>2, <2>1, Constants, DivModUnique
  <2>3. t + 1 # Period
    <3>1. SUFFICES ASSUME t + 1 = Period PROVE FALSE
      OBVIOUS
    <3>2. (Top * Turns) % Top = 0
      BY Turning, Constants, DivModExact
    <3>3. (t + 1) % Top = 0
      BY <3>1, <3>2, Turning
    <3> QED
      BY <1>1, <2>2, <3>3
  <2>4. u = t + 1
    BY <1>4, <2>3
  <2>5. (t + 1) % Top # 0
    BY <1>1, <2>2
  <2> QED
    BY <1>2, <1>3, <2>2, <2>4, <2>5 DEF u, q, r
<1>6. CASE r + 1 = Top
  <2>1. t + 1 = Top * (q + 1) /\ q + 1 \in Int
    BY <1>1, <1>6, Constants
  <2>2. (t + 1) \div Top = q + 1 /\ (t + 1) % Top = 0
    <3>1. Top \in Nat /\ Top > 0
      BY Constants
    <3>2. (Top * (q + 1)) \div Top = q + 1 /\ (Top * (q + 1)) % Top = 0
      BY <2>1, <3>1, DivModExact, Zenon
    <3> QED
      BY <2>1, <3>2
  <2>3. ((u \div Top) - 1) % Turns = q % Turns
    <3>1. CASE t + 1 = Period
      <4>1. (Top * Turns) \div Top = Turns
        BY Turning, Constants, DivModExact
      <4>2. q + 1 = Turns
        BY <2>2, <3>1, <4>1, Turning
      <4>3. u \div Top = 0
        BY <1>4, <3>1, Constants
      <4>4. ((-1) + Turns * 1) % Turns = (-1) % Turns
        BY Turning, ModShift
      <4>5. (-1) + Turns * 1 = q /\ 0 - 1 = -1
        BY <1>1, <4>2, Turning
      <4> QED
        BY <4>3, <4>4, <4>5
    <3>2. CASE t + 1 # Period
      <4>1. u \div Top = q + 1
        BY <1>4, <2>2, <3>2
      <4>2. (q + 1) - 1 = q
        BY <1>1
      <4> QED
        BY <4>1, <4>2
    <3> QED
      BY <3>1, <3>2
  <2>4. r = Top - 1
    BY <1>1, <1>6, Constants
  <2> QED
    BY <1>2, <1>3, <2>2, <2>3, <2>4 DEF u, q, r
<1> QED
  BY <1>1, <1>5, <1>6, Constants

\* The moment k counts ago.
Ago(t, k) == (t - k) % Period

LEMMA AgoTick ==
    ASSUME NEW t \in Int, NEW k \in Int
    PROVE  /\ Ago(t, k) \in 0..(Period - 1)
           /\ Ago((t + 1) % Period, k + 1) = Ago(t, k)
           /\ Ago(t, k) % Top = (t - k) % Top
<1>1. t - k \in Int /\ t + 1 \in Int /\ -(k + 1) \in Int /\ (t + 1) % Period \in Int
  BY Turning, DivMod
<1>2. (((t + 1) % Period) + (-(k + 1))) % Period = ((t + 1) + (-(k + 1))) % Period
  BY <1>1, Turning, ModAdd
<1>3. ((t + 1) % Period) + (-(k + 1)) = ((t + 1) % Period) - (k + 1)
  <2> DEFINE x == (t + 1) % Period
  <2> HIDE DEF x
  <2>1. x + (-(k + 1)) = x - (k + 1)
    BY <1>1 DEF x
  <2> QED
    BY <2>1 DEF x
<1>4. (t + 1) + (-(k + 1)) = t - k
  OBVIOUS
<1>5. (t - k) % Period \in 0..(Period - 1)
  BY <1>1, Turning, DivMod
<1>6. ((t - k) % Period) % Top = (t - k) % Top
  <2>1. Top \in Nat /\ Top > 0 /\ Turns \in Nat /\ Turns > 0 /\ Period = Top * Turns
    BY Turning, Constants
  <2>2. ((t - k) % (Top * Turns)) % Top = (t - k) % Top
    BY <1>1, <2>1, ModOfMod, Zenon
  <2> QED
    BY <2>1, <2>2
<1> QED
  BY <1>2, <1>3, <1>4, <1>5, <1>6 DEF Ago

LEMMA AgoNow ==
    ASSUME NEW t \in 0..(Period - 1)
    PROVE  Ago(t, 0) = t
<1>1. t - 0 = t
  OBVIOUS
<1> QED
  BY <1>1, Turning, ModSmall DEF Ago

\* The clock wraps around with the microseconds of the period.
LEMMA AgoTime ==
    ASSUME NEW t \in Int, NEW k \in Int, NEW c \in Int
    PROVE  /\ (Ago(t, k) * US) % Word = ((t - k) * US) % Word
           /\ (c - Ago(t, k) * US) % Word = (c - (t - k) * US) % Word
           /\ (Ago(t, k) * US - c) % Word = ((t - k) * US - c) % Word
<1> DEFINE q == (t - k) \div Period
           r == Ago(t, k)
           j == FRACT_MAX * Top * US
<1>1. q \in Int /\ r \in Int /\ t - k = Period * q + r
  BY Turning, DivMod DEF Ago
<1>2. j \in Nat /\ Period * US = Word * j
  <2>1. Period * US = (Word * Top * FRACT_MAX) * US
    BY DEF Period
  <2>2. (Word * Top * FRACT_MAX) * US = Word * (FRACT_MAX * Top * US)
    BY Constants, Overflow0
  <2> QED
    BY <2>1, <2>2, Constants, Overflow0
<1> HIDE DEF q, r, j
<1>3. (t - k) * US = r * US + Word * (j * q)
  <2>1. (t - k) * US = r * US + (Period * US) * q
    BY <1>1, Turning, Constants
  <2>2. (Word * j) * q = Word * (j * q)
    BY <1>1, <1>2, Constants
  <2> QED
    BY <1>2, <2>1, <2>2
<1>4. r * US \in Int /\ j * q \in Int /\ -(j * q) \in Int
      /\ c - r * US \in Int /\ r * US - c \in Int
  BY <1>1, <1>2, Constants
<1>5. (r * US + Word * (j * q)) % Word = (r * US) % Word
  BY <1>4, Constants, ModShift
<1>6. ((c - r * US) + Word * (-(j * q))) % Word = (c - r * US) % Word
  BY <1>4, Constants, ModShift
<1>7. (c - r * US) + Word * (-(j * q)) = c - (r * US + Word * (j * q))
  <2> DEFINE x == j * q
  <2>1. x \in Int
    BY <1>4
  <2> HIDE DEF x
  <2>2. (c - r * US) + Word * (-x) = c - (r * US + Word * x)
    BY <1>4, <2>1, Constants
  <2> QED
    BY <2>2 DEF x
<1>8. ((r * US - c) + Word * (j * q)) % Word = (r * US - c) % Word
  BY <1>4, Constants, ModShift
<1>9. (r * US - c) + Word * (j * q) = (r * US + Word * (j * q)) - c
  <2> DEFINE x == j * q
  <2>1. x \in Int
    BY <1>4
  <2> HIDE DEF x
  <2>2. (r * US - c) + Word * x = (r * US + Word * x) - c
    BY <1>4, <2>1, Constants
  <2> QED
    BY <2>2 DEF x
<1> QED
  BY <1>3, <1>5, <1>6, <1>7, <1>8, <1>9 DEF r

\* One overflow more: what the service routine adds to its counters is what the
\* microseconds of an overflow add to the time they stand for.
LEMMA OneMore ==
    ASSUME NEW n \in 0..(Turns - 1), NEW f \in 0..(FRACT_MAX - 1), NEW m, NEW c,
           f * Grain = (n * OV) % MS, m = ((n * OV) \div MS) % Word, c = n % Word
    PROVE  LET o == (n + 1) % Turns
               g == f + FRACT_INC
           IN  /\ o \in 0..(Turns - 1)
               /\ (c + 1) % Word = o % Word
               /\ g >= FRACT_MAX =>
                    /\ g - FRACT_MAX \in 0..(FRACT_MAX - 1)
                    /\ (g - FRACT_MAX) * Grain = (o * OV) % MS
                    /\ (m + MILLIS_INC + 1) % Word = ((o * OV) \div MS) % Word
               /\ g < FRACT_MAX =>
                    /\ g \in 0..(FRACT_MAX - 1)
                    /\ g * Grain = (o * OV) % MS
                    /\ (m + MILLIS_INC) % Word = ((o * OV) \div MS) % Word
<1> DEFINE o == (n + 1) % Turns
           g == f + FRACT_INC
           q == (n * OV) \div MS
           x == (n + 1) * OV
<1>1. o \in 0..(Turns - 1) /\ n \in Int /\ n + 1 \in Int
  BY Turning, DivMod
<1>2. (c + 1) % Word = o % Word
  <2>1. ((n % Word) + 1) % Word = (n + 1) % Word
    BY <1>1, Constants, ModAdd
  <2>2. Word \in Nat /\ Word > 0 /\ FRACT_MAX \in Nat /\ FRACT_MAX > 0
    BY Constants, Overflow0
  <2>3. ((n + 1) % (Word * FRACT_MAX)) % Word = (n + 1) % Word
    BY <1>1, <2>2, ModOfMod, Zenon
  <2> QED
    BY <2>1, <2>3 DEF Turns
<1>3. q \in Int /\ n * OV = MS * q + f * Grain
  <2>1. n * OV \in Int
    BY <1>1, Overflow0
  <2> QED
    BY <2>1, Constants, DivMod
<1>4. ASSUME NEW h \in 0..(FRACT_MAX - 1), NEW j \in Int, x = MS * j + h * Grain
      PROVE  h * Grain = (o * OV) % MS /\ ((o * OV) \div MS) % Word = j % Word
  <2>1. h * Grain \in 0..(MS - 1)
    <3>1. h * Grain <= (FRACT_MAX - 1) * Grain
      BY Constants, Overflow0
    <3>2. (FRACT_MAX - 1) * Grain = MS - Grain
      BY Constants, Overflow0
    <3> QED
      BY <3>1, <3>2, Constants, Overflow0
  <2>2. x \in Int
    BY <1>1, Overflow0
  <2> HIDE DEF x, o
  <2>3. x \div MS = j /\ x % MS = h * Grain
    BY <1>4, <2>1, <2>2, Constants, DivModUnique
  <2>4. CASE n + 1 = Turns
    <3>1. Turns * OV = MS * (Word * (OV \div Grain)) /\ Word * (OV \div Grain) \in Int
      BY Turning, Constants
    <3>2. (Turns * OV) \div MS = Word * (OV \div Grain) /\ (Turns * OV) % MS = 0
      <4>1. MS \in Nat /\ MS > 0
        BY Constants
      <4> QED
        BY <3>1, <4>1, DivModExact, Zenon
    <3>3. x = Turns * OV
      BY <2>4 DEF x
    <3>4. h * Grain = 0 /\ j = Word * (OV \div Grain)
      BY <2>3, <3>2, <3>3, Zenon
    <3>5. j % Word = 0
      <4>1. Word \in Nat /\ Word > 0 /\ OV \div Grain \in Int
        BY Turning, Constants
      <4>2. (Word * (OV \div Grain)) % Word = 0
        BY <4>1, DivModExact, Zenon
      <4> QED
        BY <3>4, <4>2
    <3>6. Turns % Turns = 0
      BY Turning
    <3>7. o = 0
      BY <2>4, <3>6 DEF o
    <3>8. 0 % MS = 0 /\ 0 \div MS = 0 /\ 0 % Word = 0
      BY Constants
    <3>9. o * OV = 0
      BY <3>7, Overflow0
    <3> QED
      BY <3>4, <3>5, <3>8, <3>9
  <2>5. CASE n + 1 # Turns
    <3>1. n + 1 \in 0..(Turns - 1)
      BY <1>1, <2>5, Turning
    <3>2. o = n + 1
      BY <3>1, Turning, ModSmall DEF o
    <3> QED
      BY <2>3, <3>2 DEF x
  <2> QED
    BY <2>4, <2>5
<1>5. ASSUME NEW a \in Int
      PROVE  (m + a) % Word = (q + a) % Word
  BY <1>3, Constants, ModAdd
<1>6. x = MS * (q + MILLIS_INC) + g * Grain
  <2>1. x = n * OV + OV
    BY <1>1, Overflow0
  <2>2. g * Grain = f * Grain + Grain * FRACT_INC
    BY Constants, Overflow0
  <2>3. MS * (q + MILLIS_INC) = MS * q + MS * MILLIS_INC
    BY <1>3, Constants, Overflow0
  <2> HIDE DEF x, q, g
  <2> QED
    BY <1>1, <1>3, <2>1, <2>2, <2>3, Constants, Overflow0
<1>7. ASSUME g >= FRACT_MAX
      PROVE  /\ g - FRACT_MAX \in 0..(FRACT_MAX - 1)
             /\ (g - FRACT_MAX) * Grain = (o * OV) % MS
             /\ (m + MILLIS_INC + 1) % Word = ((o * OV) \div MS) % Word
  <2> DEFINE h == g - FRACT_MAX
             j == q + MILLIS_INC + 1
  <2>1. h \in 0..(FRACT_MAX - 1) /\ g \in Int
    BY <1>7, Overflow0
  <2>2. j \in Int /\ MILLIS_INC + 1 \in Int
    BY <1>3, Overflow0
  <2>3. x = MS * j + h * Grain
    <3>1. h * Grain = g * Grain - MS
      BY <2>1, Constants, Overflow0
    <3>2. MS * j = MS * (q + MILLIS_INC) + MS
      BY <1>3, Constants, Overflow0
    <3>3. MS * (q + MILLIS_INC) \in Int /\ g * Grain \in Int
      BY <1>3, <2>1, Constants, Overflow0
    <3> HIDE DEF x, h, j, q, g
    <3> QED
      BY <1>6, <3>1, <3>2, <3>3, Constants
  <2>4. h * Grain = (o * OV) % MS /\ ((o * OV) \div MS) % Word = j % Word
    <3> HIDE DEF x, h, j, o, g
    <3> QED
      BY <1>4, <2>1, <2>2, <2>3
  <2>5. (m + (MILLIS_INC + 1)) % Word = (q + (MILLIS_INC + 1)) % Word
    <3> HIDE DEF q
    <3> QED
      BY <1>5, <2>2
  <2>6. m + (MILLIS_INC + 1) = m + MILLIS_INC + 1 /\ q + (MILLIS_INC + 1) = j
    <3>1. m \in Int
      BY <1>3, Constants, DivMod
    <3> HIDE DEF q
    <3> QED
      BY <1>3, <3>1, Overflow0
  <2> QED
    BY <2>1, <2>4, <2>5, <2>6
<1>8. ASSUME g < FRACT_MAX
      PROVE  /\ g \in 0..(FRACT_MAX - 1)
             /\ g * Grain = (o * OV) % MS
             /\ (m + MILLIS_INC) % Word = ((o * OV) \div MS) % Word
  <2>1. g \in 0..(FRACT_MAX - 1)
    BY <1>8, Overflow0
  <2>2. q + MILLIS_INC \in Int /\ MILLIS_INC \in Int
    BY <1>3, Overflow0
  <2>3. g * Grain = (o * OV) % MS /\ ((o * OV) \div MS) % Word = (q + MILLIS_INC) % Word
    <3> HIDE DEF x, q, o, g
    <3> QED
      BY <1>4, <1>6, <2>1, <2>2
  <2>4. (m + MILLIS_INC) % Word = (q + MILLIS_INC) % Word
    <3> HIDE DEF q
    <3> QED
      BY <1>5, <2>2
  <2> QED
    BY <2>1, <2>3, <2>4
<1> QED
  BY <1>1, <1>2, <1>7, <1>8

-----------------------------------------------------------------------------
(* The inductive invariant *)

Microing == {"TCNT0", "TIFR0"}
Calling == Microing \cup {"millis"}
Delaying == {"delay", "yield", "delayAgain", "delayed"}

\* The types, and a pending overflow, which is as old as the count since zero.
Shape ==
  /\ ticks \in 0..(Period - 1) /\ tov \in BOOLEAN /\ ie \in BOOLEAN /\ handler \in BOOLEAN
  /\ pending = (IF tov THEN TCNT0 ELSE 0) /\ pending <= MaxLatency
  /\ frame \in [sreg : BOOLEAN, m : 0..(Word - 1), t : 0..(Top - 1)]
  /\ delay \in [ms : 0..MaxMs, start : -1..(Word - 1), asked : 0..MaxMs, since : 0..MaxSince]
  /\ delay.ms <= delay.asked
  /\ step \in Calling \cup Delaying \cup {"sketch", "gotMillis", "gotMicros"}
  /\ idle \in Nat

\* The counters hold the time of the overflows served.
Counted ==
  /\ timer0_fract \in 0..(FRACT_MAX - 1) /\ timer0_fract * Grain = (Served * OV) % MS
  /\ timer0_millis = ((Served * OV) \div MS) % Word
  /\ timer0_overflow_count = Served % Word

\* Who runs with interrupts off, and for how long.
Masked ==
  /\ step \in Calling => ~ie /\ (handler => ~frame.sreg)
  /\ handler => ~ie /\ step \notin Delaying /\ delay.asked = 0
  /\ idle > 1 => step \in {"sketch", "yield"}
  /\ step \in Delaying => delay.asked > 0
  /\ step \notin Delaying \cup Microing => delay.asked = 0

\* What the calls have read, and when: the count of micros() at most one count ago,
\* with the overflow flag raised if the counter went through zero since.
Reading ==
  /\ step = "millis" => begin = timer0_millis /\ frame.m = timer0_millis % Half
  /\ step = "gotMillis" => frame.m = begin /\ begin \in Nat
  /\ step \in Microing => frame.m = timer0_overflow_count
  /\ step = "TIFR0" =>
       \/ frame.t = TCNT0
       \/ idle = 1 /\ frame.t = Ago(ticks, 1) % Top /\ (TCNT0 = 0 => tov)
  /\ step \in Microing /\ delay.asked = 0 => begin = Ago(ticks, idle) * US
  /\ step = "gotMicros" =>
       \/ begin = Ago(ticks, idle) * US /\ frame.m = begin % Word
       \/ begin = Ago(ticks, idle + 1) * US /\ frame.m = begin % Word
       \/ begin = Ago(ticks, idle + 1) * US /\ frame.m = (Ago(ticks, idle) * US) % Word

TimerIInv == Shape /\ Counted /\ Masked /\ Reading

LEMMA Bounds ==
    /\ MaxSince \in Nat
    /\ Period \in Nat /\ Period > 0
<1>1. (MaxMs * MS) \div US \in Nat
  <2>1. MaxMs * MS \in Nat
    BY Constants
  <2> QED
    BY <2>1, Constants
<1> QED
  BY <1>1, Turning, Constants DEF MaxSince

\* The counters have the width of an unsigned long.
LEMMA CountersFit ==
    ASSUME Shape, Counted
    PROVE  /\ Served \in 0..(Turns - 1)
           /\ timer0_overflow_count \in 0..(Word - 1) /\ timer0_millis \in 0..(Word - 1)
<1>1. ticks \div Top \in Int /\ TCNT0 \in 0..(Top - 1)
  BY Turning, Constants, DivMod DEF Shape, TCNT0
<1>2. Served \in 0..(Turns - 1)
  BY <1>1, Turning, DivMod DEF Served, Turns
<1>3. Served * OV \in Int
  BY <1>2, Turning, Overflow0
<1>4. (Served * OV) \div MS \in Int
  BY <1>3, Constants, DivMod
<1> QED
  BY <1>2, <1>4, Turning, Constants, DivMod DEF Counted

-----------------------------------------------------------------------------
(* What micros() computes *)

\* The time of now, or of one count ago, when the count was read.
LEMMA MicrosIs ==
    ASSUME Shape, Counted, Reading, step = "TIFR0"
    PROVE  \/ Micros = (ticks * US) % Word
           \/ idle = 1 /\ Micros = (Ago(ticks, 1) * US) % Word
<1> DEFINE q == ticks \div Top
           b == IF tov THEN 1 ELSE 0
           k == IF tov /\ frame.t < Top - 1 THEN 1 ELSE 0
           t == frame.t
           c == timer0_overflow_count
<1>1. q \in Int /\ TCNT0 \in 0..(Top - 1) /\ ticks = Top * q + TCNT0 /\ ticks \in Int
  BY Turning, Constants, DivMod DEF Shape, TCNT0
<1>2. t \in 0..(Top - 1) /\ b \in {0, 1} /\ k \in {0, 1} /\ frame.m = c
  BY Constants DEF Shape, Reading, Microing
<1>3. c \in 0..(Word - 1)
  BY CountersFit
<1>4. Micros = (((c + k) * Top + t) * US) % Word
  <2>1. c + 1 = c + (IF TRUE THEN 1 ELSE 0) /\ c + 0 = c
    BY <1>3, Constants
  <2>2. CASE tov /\ frame.t < Top - 1
    BY <1>2, <2>2 DEF Micros
  <2>3. CASE ~ (tov /\ frame.t < Top - 1)
    BY <1>2, <2>1, <2>3 DEF Micros
  <2> QED
    BY <2>2, <2>3
<1>5. c = (q - b) % Word
  <2>1. q - b \in Int
    BY <1>1, <1>2
  <2>2. Word \in Nat /\ Word > 0 /\ FRACT_MAX \in Nat /\ FRACT_MAX > 0
    BY Constants, Overflow0
  <2>3. ((q - b) % (Word * FRACT_MAX)) % Word = (q - b) % Word
    BY <2>1, <2>2, ModOfMod, Zenon
  <2> QED
    BY <2>3 DEF Counted, Served
<1> DEFINE d == (q - b) \div Word
<1>6. d \in Int /\ q - b = Word * d + c
  BY <1>1, <1>2, <1>5, Constants, DivMod
<1>7. Micros = (((q - b + k) * Top + t) * US) % Word
  <2> HIDE DEF q, b, k, t, c, d
  <2> DEFINE y == ((c + k) * Top + t) * US
             z == ((q - b + k) * Top + t) * US
  <2>1. q - b + k = Word * d + (c + k)
    BY <1>1, <1>2, <1>3, <1>6, Constants
  <2>2. (q - b + k) * Top = Word * (d * Top) + (c + k) * Top
    BY <1>2, <1>3, <1>6, <2>1, Constants
  <2>3. z = y + Word * (d * Top * US)
    <3>1. d * Top \in Int /\ (c + k) * Top \in Int
      BY <1>2, <1>3, <1>6, Constants
    <3> DEFINE e == d * Top
               a == (c + k) * Top
    <3> HIDE DEF e, a
    <3>2. (Word * e + a + t) * US = (a + t) * US + Word * (e * US)
      BY <1>2, <3>1, Constants DEF e, a
    <3> QED
      BY <2>2, <3>2 DEF e, a
  <2>4. y \in Int /\ d * Top * US \in Int
    BY <1>2, <1>3, <1>6, Constants
  <2>5. (y + Word * (d * Top * US)) % Word = y % Word
    <3> HIDE DEF y, z
    <3> QED
      BY <2>4, Constants, ModShift
  <2> QED
    BY <1>4, <2>3, <2>5
<1> DEFINE s == (q - b + k) * Top + t
<1>8. s = ticks \/ (idle = 1 /\ s = ticks - 1)
  <2>1. (q - 0 + 0) * Top = Top * q /\ (q - 1 + 1) * Top = Top * q /\ (q - 1 + 0) * Top = Top * q - Top
    BY <1>1, Constants
  <2>2. Top * q \in Int
    BY <1>1, Constants
  <2>3. CASE t = TCNT0
    <3>1. tov => t < Top - 1
      BY <2>3, Constants DEF Shape
    <3>2. b = k
      BY <3>1
    <3>3. s = Top * q + t
      BY <1>2, <2>1, <3>2
    <3> QED
      BY <1>1, <2>3, <3>3
  <2>4. CASE idle = 1 /\ t = Ago(ticks, 1) % Top /\ (TCNT0 = 0 => tov)
    <3>1. t = (ticks - 1) % Top
      <4>1. 1 \in Int
        OBVIOUS
      <4>2. Ago(ticks, 1) % Top = (ticks - 1) % Top
        BY <1>1, <4>1, AgoTick, Zenon
      <4> QED
        BY <2>4, <4>2, Zenon
    <3>2. CASE TCNT0 > 0
      <4>1. ticks - 1 = Top * q + (TCNT0 - 1) /\ TCNT0 - 1 \in 0..(Top - 1) /\ ticks - 1 \in Int
        <5> HIDE DEF q, b, k, t, c, d, s
        <5> QED
          BY <1>1, <3>2, Constants
      <4>2. t = TCNT0 - 1
        <5> HIDE DEF q, t
        <5> QED
          BY <1>1, <3>1, <4>1, Constants, DivModUnique
      <4>3. b = k
        BY <1>1, <4>2, Constants
      <4>4. s = Top * q + t
        BY <1>2, <2>1, <4>3
      <4> QED
        BY <1>1, <2>2, <2>4, <4>2, <4>4
    <3>3. CASE TCNT0 = 0
      <4>1. ticks - 1 = Top * (q - 1) + (Top - 1) /\ Top - 1 \in 0..(Top - 1) /\ ticks - 1 \in Int /\ q - 1 \in Int
        BY <1>1, <3>3, Constants
      <4>2. t = Top - 1
        <5>1. Top \in Nat /\ Top > 0
          BY Constants
        <5>2. (ticks - 1) % Top = Top - 1
          BY <4>1, <5>1, DivModUnique, Zenon
        <5> QED
          BY <3>1, <5>2
      <4>3. b = 1 /\ k = 0
        BY <2>4, <3>3, <4>2, Constants
      <4>4. s = Top * q - Top + (Top - 1)
        BY <2>1, <4>2, <4>3
      <4> QED
        BY <1>1, <2>2, <2>4, <3>3, <4>4, Constants
    <3> QED
      BY <1>1, <3>2, <3>3, Constants
  <2> QED
    BY <2>3, <2>4 DEF Reading
<1>9. (Ago(ticks, 1) * US) % Word = ((ticks - 1) * US) % Word
  BY <1>1, AgoTime
<1> QED
  BY <1>7, <1>8, <1>9

\* The time micros() returns, and the times a moment is told by.
LEMMA MicrosFits ==
    ASSUME Shape, Counted, Reading, step = "TIFR0"
    PROVE  Micros \in 0..(Word - 1)
<1>1. ticks * US \in Int /\ Ago(ticks, 1) * US \in Int
  <2>1. ticks \in Int /\ 1 \in Int
    BY Turning DEF Shape
  <2>2. Ago(ticks, 1) \in 0..(Period - 1)
    BY <2>1, AgoTick, Zenon
  <2> QED
    BY <2>1, <2>2, Turning, Constants
<1>2. (ticks * US) % Word \in 0..(Word - 1) /\ (Ago(ticks, 1) * US) % Word \in 0..(Word - 1)
  BY <1>1, Constants, DivMod
<1> QED
  BY <1>2, MicrosIs

\* The two halves of a number, read one after the other.
LEMMA Halves ==
    ASSUME NEW x \in 0..(Word - 1)
    PROVE  x % Half \in 0..(Word - 1) /\ (x % Half) + (x \div Half) * Half = x
<1> DEFINE q == x \div Half
           r == x % Half
<1>1. q \in Nat /\ r \in 0..(Half - 1) /\ x = Half * q + r
  BY Constants
<1> HIDE DEF q, r
<1>2. Half * q >= 0
  BY <1>1, Constants
<1>3. r \in 0..(Word - 1) /\ r + q * Half = x
  BY <1>1, <1>2, Constants
<1> QED
  BY <1>3 DEF q, r

-----------------------------------------------------------------------------
(* The steps of the hardware *)

LEMMA TickKeeps ==
    ASSUME TimerIInv, Tick
    PROVE  TimerIInv'
<1>1. ticks \in 0..(Period - 1) /\ ticks \in Int /\ idle \in Nat /\ tov \in BOOLEAN
  BY Turning DEF TimerIInv, Shape
<1> DEFINE u == (ticks + 1) % Period
<1>2. /\ u \in 0..(Period - 1)
      /\ u % Top = (ticks + 1) % Top
      /\ (ticks + 1) % Top # 0 => u % Top = TCNT0 + 1 /\ u \div Top = ticks \div Top
      /\ (ticks + 1) % Top = 0 =>
           TCNT0 = Top - 1 /\ ((u \div Top) - 1) % Turns = (ticks \div Top) % Turns
  BY <1>1, TickCounts DEF TCNT0
<1>3. /\ ticks' = u /\ idle' = idle + 1 /\ idle < Limit
      /\ tov' = (tov \/ u % Top = 0)
      /\ pending' = IF tov THEN pending + 1 ELSE 0
      /\ tov => pending < MaxLatency /\ pending = TCNT0
      /\ UNCHANGED <<ie, counts, handler, step, frame, begin>>
      /\ TCNT0' = u % Top
  BY <1>2 DEF Tick, TCNT0, TimerIInv, Shape
<1>4. tov => (ticks + 1) % Top # 0 /\ TCNT0' = TCNT0 + 1
  BY <1>2, <1>3, Constants
<1> HIDE DEF u
<1>5. Shape'
  <2>1. pending' = (IF tov THEN TCNT0 ELSE 0)' /\ pending' <= MaxLatency
    <3>1. CASE tov
      <4>1. tov' /\ pending' = TCNT0 + 1 /\ TCNT0' = TCNT0 + 1 /\ pending < MaxLatency
        BY <1>3, <1>4, <3>1
      <4>2. TCNT0 \in Int
        BY <1>1, Constants, DivMod DEF TCNT0
      <4> QED
        BY <1>3, <3>1, <4>1, <4>2, Constants
    <3>2. CASE ~tov
      <4>1. tov' => TCNT0' = 0
        BY <1>3, <3>2
      <4>2. pending' = 0 /\ MaxLatency >= 0
        BY <1>3, <3>2, Constants
      <4> QED
        BY <4>1, <4>2
    <3> QED
      BY <3>1, <3>2
  <2>2. delay' \in [ms : 0..MaxMs, start : -1..(Word - 1), asked : 0..MaxMs, since : 0..MaxSince]
        /\ delay'.ms = delay.ms /\ delay'.asked = delay.asked
    <3>1. delay \in [ms : 0..MaxMs, start : -1..(Word - 1), asked : 0..MaxMs, since : 0..MaxSince]
      BY DEF TimerIInv, Shape
    <3>2. CASE delay.asked = 0 \/ delay.since = MaxSince
      BY <3>1, <3>2 DEF Tick
    <3>3. CASE ~ (delay.asked = 0 \/ delay.since = MaxSince)
      <4>1. delay' = [delay EXCEPT !.since = @ + 1]
        BY <3>3 DEF Tick
      <4>2. delay.since + 1 \in 0..MaxSince
        BY <3>1, <3>3, Bounds
      <4> QED
        BY <3>1, <4>1, <4>2
    <3> QED
      BY <3>2, <3>3
  <2>3. tov' \in BOOLEAN /\ ticks' \in 0..(Period - 1) /\ idle' \in Nat
    BY <1>1, <1>2, <1>3
  <2>4. /\ ie' \in BOOLEAN /\ handler' \in BOOLEAN
        /\ frame' \in [sreg : BOOLEAN, m : 0..(Word - 1), t : 0..(Top - 1)]
        /\ step' \in Calling \cup Delaying \cup {"sketch", "gotMillis", "gotMicros"}
        /\ delay.ms <= delay.asked
    BY <1>3 DEF TimerIInv, Shape
  <2> QED
    BY <2>1, <2>2, <2>3, <2>4 DEF Shape
<1>6. Counted'
  <2>1. Served' = Served
    <3>1. CASE (ticks + 1) % Top = 0
      <4>1. ~tov /\ tov'
        BY <1>2, <1>3, <1>4, <3>1
      <4>2. (ticks \div Top) - 0 = ticks \div Top
        BY <1>1, Constants, DivMod
      <4> QED
        BY <1>2, <1>3, <3>1, <4>1, <4>2 DEF Served, Turns
    <3>2. CASE (ticks + 1) % Top # 0
      <4>1. tov' = tov
        BY <1>1, <1>2, <1>3, <3>2
      <4> QED
        BY <1>2, <1>3, <3>2, <4>1 DEF Served
    <3> QED
      BY <3>1, <3>2
  <2> QED
    BY <1>3, <2>1 DEF TimerIInv, Counted, counts
<1>7. Masked'
  <2>1. delay'.asked = delay.asked
    BY DEF Tick, TimerIInv, Shape
  <2>2. idle' > 1 => step \in {"sketch", "yield"}
    BY <1>1, <1>3 DEF Limit
  <2> QED
    BY <1>3, <2>1, <2>2 DEF TimerIInv, Masked
<1>8. Reading'
  <2>1. idle \in Int /\ idle + 1 \in Int /\ 0 \in Int /\ 0 + 1 = 1 /\ idle' = idle + 1 /\ idle' + 1 = (idle + 1) + 1
    BY <1>1, <1>3
  <2>2. /\ Ago(u, idle + 1) = Ago(ticks, idle)
        /\ Ago(u, (idle + 1) + 1) = Ago(ticks, idle + 1)
        /\ Ago(u, 0 + 1) = Ago(ticks, 0)
    BY <1>1, <2>1, AgoTick, Zenon DEF u
  <2>3. /\ Ago(ticks, idle)' = Ago(u, idle + 1)
        /\ Ago(ticks, idle + 1)' = Ago(u, (idle + 1) + 1)
        /\ Ago(ticks, 1)' = Ago(u, 0 + 1)
    BY <1>3, <2>1
  <2>4. Ago(ticks, 1)' = ticks
    BY <1>1, <2>2, <2>3, AgoNow
  <2>5. delay'.asked = delay.asked
    BY DEF Tick, TimerIInv, Shape
  <2>6. step = "TIFR0" => idle = 0 /\ idle' = 1
    <3>1. step = "TIFR0" => idle < 1
      BY <1>3 DEF Limit
    <3> QED
      BY <1>1, <1>3, <3>1
  <2>7. step = "TIFR0" => frame.t = TCNT0
    BY <2>6 DEF TimerIInv, Reading
  <2>8. step' = "TIFR0" =>
           idle' = 1 /\ frame'.t = Ago(ticks, 1)' % Top /\ (TCNT0' = 0 => tov')
    <3>1. TCNT0' = 0 => tov'
      BY <1>3
    <3> QED
      BY <1>3, <2>4, <2>6, <2>7, <3>1 DEF TCNT0
  <2>9. counts' = counts /\ timer0_millis' = timer0_millis /\ timer0_overflow_count' = timer0_overflow_count
    BY <1>3 DEF counts
  <2>10. step' \in Microing /\ delay'.asked = 0 => begin' = Ago(ticks, idle)' * US
    BY <1>3, <2>2, <2>3, <2>5 DEF TimerIInv, Reading
  <2>11. step' = "gotMicros" =>
       \/ begin' = Ago(ticks, idle)' * US /\ frame'.m = begin' % Word
       \/ begin' = Ago(ticks, idle + 1)' * US /\ frame'.m = begin' % Word
       \/ begin' = Ago(ticks, idle + 1)' * US /\ frame'.m = (Ago(ticks, idle)' * US) % Word
    <3>1. step' = "gotMicros" => idle < 1
      BY <1>3 DEF Limit
    <3> QED
      BY <1>3, <2>2, <2>3 DEF TimerIInv, Reading
  <2>12. /\ step' = "millis" => begin' = timer0_millis' /\ frame'.m = timer0_millis' % Half
         /\ step' = "gotMillis" => frame'.m = begin' /\ begin' \in Nat
         /\ step' \in Microing => frame'.m = timer0_overflow_count'
    BY <1>3, <2>9 DEF TimerIInv, Reading
  <2> QED
    BY <2>8, <2>10, <2>11, <2>12 DEF Reading
<1> QED
  BY <1>5, <1>6, <1>7, <1>8 DEF TimerIInv

LEMMA OverflowKeeps ==
    ASSUME TimerIInv, Overflow
    PROVE  TimerIInv'
<1>1. /\ tov /\ ie /\ ~tov' /\ tov' \in BOOLEAN /\ pending' = 0
      /\ UNCHANGED <<ticks, ie, handler, step, frame, begin, idle, delay>>
      /\ timer0_overflow_count' = (timer0_overflow_count + 1) % Word
  BY DEF Overflow
<1>2. Served \in 0..(Turns - 1)
  BY CountersFit DEF TimerIInv
<1>3. Shape'
  BY <1>1, Constants DEF TimerIInv, Shape, TCNT0
<1>4. Served' = (Served + 1) % Turns
  <2> DEFINE q == ticks \div Top
  <2>1. q \in Int
    BY Turning, Constants, DivMod DEF TimerIInv, Shape
  <2>2. Served = (q - 1) % Turns /\ Served' = (q - 0) % Turns
    BY <1>1 DEF Served, Turns
  <2> HIDE DEF q
  <2>3. q - 1 \in Int /\ 1 \in Int /\ (q - 1) + 1 = q - 0
    BY <2>1
  <2>4. (((q - 1) % Turns) + 1) % Turns = ((q - 1) + 1) % Turns
    <3>1. Turns \in Nat /\ Turns > 0
      BY Turning
    <3> QED
      BY <2>3, <3>1, ModAdd, Zenon
  <2> QED
    BY <2>2, <2>3, <2>4
<1>5. Counted'
  <2> DEFINE m == timer0_millis
             f == timer0_fract
             g == timer0_fract + FRACT_INC
             o == (Served + 1) % Turns
  <2>1. /\ f \in 0..(FRACT_MAX - 1) /\ f * Grain = (Served * OV) % MS
        /\ m = ((Served * OV) \div MS) % Word
        /\ timer0_overflow_count = Served % Word
    BY DEF TimerIInv, Counted
  <2>2. /\ (timer0_overflow_count + 1) % Word = o % Word
        /\ g >= FRACT_MAX =>
             /\ g - FRACT_MAX \in 0..(FRACT_MAX - 1)
             /\ (g - FRACT_MAX) * Grain = (o * OV) % MS
             /\ (m + MILLIS_INC + 1) % Word = ((o * OV) \div MS) % Word
        /\ g < FRACT_MAX =>
             /\ g \in 0..(FRACT_MAX - 1)
             /\ g * Grain = (o * OV) % MS
             /\ (m + MILLIS_INC) % Word = ((o * OV) \div MS) % Word
    <3> HIDE DEF m, f, o
    <3>1. g = f + FRACT_INC
      BY DEF f
    <3> HIDE DEF g
    <3> QED
      BY <1>2, <2>1, <3>1, OneMore DEF o
  <2>3. g \in Int /\ FRACT_MAX \in Int
    BY <2>1, Overflow0
  <2>4. IF g >= FRACT_MAX
        THEN timer0_fract' = g - FRACT_MAX /\ timer0_millis' = (m + MILLIS_INC + 1) % Word
        ELSE timer0_fract' = g /\ timer0_millis' = (m + MILLIS_INC) % Word
    BY Zenon DEF Overflow
  <2> HIDE DEF m, f, g, o
  <2>5. /\ timer0_fract' \in 0..(FRACT_MAX - 1) /\ timer0_fract' * Grain = (o * OV) % MS
        /\ timer0_millis' = ((o * OV) \div MS) % Word
    <3>1. CASE g >= FRACT_MAX
      BY <2>2, <2>4, <3>1, Zenon
    <3>2. CASE ~(g >= FRACT_MAX)
      <4>1. g < FRACT_MAX
        BY <2>3, <3>2
      <4> QED
        BY <2>2, <2>4, <3>2, <4>1, Zenon
    <3> QED
      BY <3>1, <3>2
  <2>6. Served' = o
    BY <1>4 DEF o
  <2>7. timer0_overflow_count' = o % Word
    BY <1>1, <2>2
  <2> QED
    BY <2>5, <2>6, <2>7 DEF Counted, OV, MICROSECONDS_PER_TIMER0_OVERFLOW
<1>6. Masked'
  BY <1>1 DEF TimerIInv, Masked
<1>7. Reading'
  BY <1>1 DEF TimerIInv, Masked, Reading, Calling, Microing, Ago
<1> QED
  BY <1>3, <1>5, <1>6, <1>7 DEF TimerIInv

-----------------------------------------------------------------------------
(* The steps of the program *)

Frames == [sreg : BOOLEAN, m : 0..(Word - 1), t : 0..(Top - 1)]
Delays == [ms : 0..MaxMs, start : -1..(Word - 1), asked : 0..MaxMs, since : 0..MaxSince]
Steps == Calling \cup Delaying \cup {"sketch", "gotMillis", "gotMicros"}

\* The program does not touch the timer, nor what its service routine counts.
LEMMA ProgramOnly ==
    ASSUME TimerIInv, UNCHANGED <<timer, counts>>, idle' \in Nat,
           ie' \in BOOLEAN, handler' \in BOOLEAN, frame' \in Frames, delay' \in Delays,
           delay'.ms <= delay'.asked, step' \in Steps
    PROVE  Shape' /\ Counted'
<1>1. ticks' = ticks /\ tov' = tov /\ pending' = pending
      /\ timer0_overflow_count' = timer0_overflow_count /\ timer0_millis' = timer0_millis
      /\ timer0_fract' = timer0_fract
  BY DEF timer, counts
<1>2. Served' = Served
  BY <1>1 DEF Served
<1>3. Counted'
  BY <1>1, <1>2 DEF TimerIInv, Counted, OV, MICROSECONDS_PER_TIMER0_OVERFLOW
<1>4. Shape'
  BY <1>1 DEF TimerIInv, Shape, TCNT0, Frames, Delays, Steps
<1> QED
  BY <1>3, <1>4

\* What the steps below need to know of the state they start from.
LEMMA StepKnown ==
    ASSUME TimerIInv
    PROVE  /\ ie \in BOOLEAN /\ handler \in BOOLEAN /\ frame \in Frames /\ delay \in Delays
           /\ delay.ms <= delay.asked /\ step \in Steps /\ idle \in Nat
           /\ ticks \in Int /\ ticks \in 0..(Period - 1) /\ TCNT0 \in 0..(Top - 1)
           /\ timer0_overflow_count \in 0..(Word - 1) /\ timer0_millis \in 0..(Word - 1)
           /\ 0 \in 0..(Word - 1) /\ 0 \in 0..(Top - 1) /\ Ago(ticks, 0) = ticks
<1>1. /\ ie \in BOOLEAN /\ handler \in BOOLEAN /\ frame \in Frames /\ delay \in Delays
      /\ delay.ms <= delay.asked /\ step \in Steps /\ idle \in Nat
      /\ ticks \in 0..(Period - 1)
  BY DEF TimerIInv, Shape, Frames, Delays, Steps
<1>2. ticks \in Int /\ 0 \in 0..(Word - 1) /\ 0 \in 0..(Top - 1)
  BY <1>1, Turning, Constants
<1>3. Ago(ticks, 0) = ticks
  BY <1>1, AgoNow
<1>4. TCNT0 \in 0..(Top - 1)
  BY <1>2, Constants, DivMod DEF TCNT0
<1>5. timer0_overflow_count \in 0..(Word - 1) /\ timer0_millis \in 0..(Word - 1)
  BY CountersFit DEF TimerIInv
<1> QED
  BY <1>1, <1>2, <1>3, <1>4, <1>5

LEMMA HandlerKeeps ==
    ASSUME TimerIInv, EnterHandler \/ LeaveHandler
    PROVE  TimerIInv'
<1>1. /\ step = "sketch" /\ idle' = 0
      /\ UNCHANGED <<timer, counts, step, frame, begin, delay>>
      /\ ie' \in BOOLEAN /\ handler' \in BOOLEAN /\ (handler' => ~ie')
  BY DEF EnterHandler, LeaveHandler, Step
<1>2. Shape' /\ Counted'
  BY <1>1, StepKnown, ProgramOnly
<1>3. Masked'
  BY <1>1 DEF TimerIInv, Masked, Calling, Microing, Delaying
<1>4. Reading'
  BY <1>1 DEF Reading, Microing
<1> QED
  BY <1>2, <1>3, <1>4 DEF TimerIInv

LEMMA CallMillisKeeps ==
    ASSUME TimerIInv, CallMillis
    PROVE  TimerIInv'
<1>1. /\ step = "sketch" /\ step' = "millis" /\ begin' = timer0_millis /\ ie' = FALSE /\ idle' = 0
      /\ frame' = [frame EXCEPT !.sreg = ie, !.m = timer0_millis % Half]
      /\ UNCHANGED <<timer, counts, handler, delay>>
  BY DEF CallMillis, Step
<1>2. frame' \in Frames /\ frame'.sreg = ie /\ frame'.m = timer0_millis % Half
  <2>1. timer0_millis % Half \in 0..(Word - 1)
    BY StepKnown, Halves
  <2> QED
    BY <1>1, <2>1, StepKnown DEF Frames
<1>3. step' \in Steps /\ step' \in Calling
  BY <1>1 DEF Steps, Calling
<1>4. Shape' /\ Counted'
  BY <1>1, <1>2, <1>3, StepKnown, ProgramOnly
<1>5. Masked'
  BY <1>1, <1>2 DEF TimerIInv, Masked, Calling, Microing, Delaying
<1>6. Reading'
  BY <1>1, <1>2 DEF Reading, Microing, counts
<1> QED
  BY <1>4, <1>5, <1>6 DEF TimerIInv

LEMMA MillisKeeps ==
    ASSUME TimerIInv, Millis
    PROVE  TimerIInv'
<1>1. /\ step = "millis" /\ step' = "gotMillis" /\ ie' = frame.sreg /\ idle' = 0
      /\ frame' = [frame EXCEPT !.m = @ + (timer0_millis \div Half) * Half]
      /\ UNCHANGED <<timer, counts, handler, begin, delay>>
  BY DEF Millis, Step
<1>2. frame.m = timer0_millis % Half /\ begin = timer0_millis
  BY <1>1 DEF TimerIInv, Reading
<1>3. frame' = [frame EXCEPT !.m = timer0_millis]
  BY <1>1, <1>2, StepKnown, Halves
<1>4. frame' \in Frames /\ frame'.m = begin' /\ begin' \in Nat /\ ie' \in BOOLEAN
  BY <1>1, <1>2, <1>3, StepKnown DEF Frames
<1>5. step' \in Steps
  BY <1>1 DEF Steps
<1>6. Shape' /\ Counted'
  BY <1>1, <1>4, <1>5, StepKnown, ProgramOnly
<1>7. Masked'
  BY <1>1 DEF TimerIInv, Masked, Calling, Microing, Delaying
<1>8. Reading'
  BY <1>1, <1>4 DEF Reading, Microing
<1> QED
  BY <1>6, <1>7, <1>8 DEF TimerIInv

\* Three calls begin with micros().
LEMMA EnterMicrosKeeps ==
    ASSUME TimerIInv, EnterMicros("TCNT0"), step \notin Calling,
           delay' \in Delays, delay'.ms <= delay'.asked,
           handler => delay'.asked = 0,
           delay'.asked = 0 => begin' = ticks * US
    PROVE  TimerIInv'
<1>1. /\ step' = "TCNT0" /\ ie' = FALSE /\ idle' = 0
      /\ frame' = [frame EXCEPT !.sreg = ie, !.m = timer0_overflow_count]
      /\ UNCHANGED <<timer, counts, handler>>
  BY DEF EnterMicros, Step
<1>2. frame' \in Frames /\ frame'.sreg = ie /\ frame'.m = timer0_overflow_count
  BY <1>1, StepKnown DEF Frames
<1>3. step' \in Steps /\ idle' \in Nat /\ ie' \in BOOLEAN /\ handler' \in BOOLEAN
  BY <1>1, StepKnown DEF Steps, Calling, Microing
<1>4. Shape' /\ Counted'
  BY <1>1, <1>2, <1>3, ProgramOnly
<1>5. Masked'
  BY <1>1, <1>2 DEF TimerIInv, Masked, Calling, Microing, Delaying
<1>6. Reading'
  <2>1. Ago(ticks, idle)' = ticks
    BY <1>1, StepKnown DEF Ago, timer
  <2> QED
    BY <1>1, <1>2, <2>1 DEF Reading, Microing, counts
<1> QED
  BY <1>4, <1>5, <1>6 DEF TimerIInv

LEMMA ReadTCNT0Keeps ==
    ASSUME TimerIInv, ReadTCNT0
    PROVE  TimerIInv'
<1>1. /\ step = "TCNT0" /\ step' = "TIFR0" /\ frame' = [frame EXCEPT !.t = TCNT0]
      /\ UNCHANGED <<timer, ie, counts, handler, begin, idle, delay>>
  BY DEF ReadTCNT0
<1>2. frame' \in Frames /\ frame'.sreg = frame.sreg /\ frame'.m = frame.m /\ frame'.t = TCNT0
  BY <1>1, StepKnown DEF Frames
<1>3. step' \in Steps
  BY <1>1 DEF Steps, Calling, Microing
<1>4. Shape' /\ Counted'
  BY <1>1, <1>2, <1>3, StepKnown, ProgramOnly
<1>5. Masked'
  BY <1>1, <1>2 DEF TimerIInv, Masked, Calling, Microing, Delaying
<1>6. Reading'
  <2>1. ticks' = ticks /\ TCNT0' = TCNT0 /\ timer0_overflow_count' = timer0_overflow_count
    BY <1>1 DEF timer, counts, TCNT0
  <2>2. frame.m = timer0_overflow_count /\ (delay.asked = 0 => begin = Ago(ticks, idle) * US)
    BY <1>1 DEF TimerIInv, Reading, Microing
  <2> QED
    BY <1>1, <1>2, <2>1, <2>2 DEF Reading, Microing, Ago
<1> QED
  BY <1>4, <1>5, <1>6 DEF TimerIInv

\* One turn of the inner loop of delay() keeps its variables in range.
LEMMA ElapsedFits ==
    ASSUME NEW v \in Int, NEW d \in Delays, d.ms <= d.asked
    PROVE  Elapsed(v, d) \in Delays /\ Elapsed(v, d).ms <= Elapsed(v, d).asked
           /\ Elapsed(v, d).asked = d.asked
<1>1. CASE d.ms > 0 /\ (v - d.start) % Word >= MS
  <2>1. Elapsed(v, d) = [d EXCEPT !.ms = @ - 1, !.start = (@ + MS) % Word]
    BY <1>1 DEF Elapsed
  <2>2. (d.start + MS) % Word \in -1..(Word - 1)
    <3>1. d.start + MS \in Int
      BY Constants DEF Delays
    <3>2. (d.start + MS) % Word \in 0..(Word - 1)
      BY <3>1, Constants, DivMod
    <3> QED
      BY <3>2, Constants
  <2>3. d.ms - 1 \in 0..MaxMs /\ d.ms - 1 <= d.asked
    BY <1>1, Constants DEF Delays
  <2> QED
    BY <2>1, <2>2, <2>3 DEF Delays
<1>2. CASE ~ (d.ms > 0 /\ (v - d.start) % Word >= MS)
  BY <1>2 DEF Elapsed
<1> QED
  BY <1>1, <1>2

LEMMA MicrosReturnsKeeps ==
    ASSUME TimerIInv, MicrosReturns
    PROVE  TimerIInv'
<1>1. /\ step = "TIFR0" /\ ie' = frame.sreg /\ idle' = 0 /\ Return(Micros)
      /\ UNCHANGED <<timer, counts, handler, begin>>
  BY DEF MicrosReturns, Step
<1>2. Micros \in 0..(Word - 1) /\ Micros \in Int
  BY <1>1, MicrosFits, Constants DEF TimerIInv
<1>3. ie' \in BOOLEAN /\ idle' \in Nat /\ handler' \in BOOLEAN /\ ticks' = ticks
  BY <1>1, StepKnown DEF Frames, timer
<1>4. handler' => ~ie' /\ delay.asked = 0
  BY <1>1 DEF TimerIInv, Masked, Calling, Microing
<1>5. CASE delay.asked = 0
  <2>1. step' = "gotMicros" /\ frame' = [frame EXCEPT !.m = Micros] /\ delay' = delay
    BY <1>1, <1>5, StepKnown DEF Return, Delays
  <2>2. frame' \in Frames /\ frame'.m = Micros /\ step' \in Steps
    BY <1>2, <2>1, StepKnown DEF Frames, Steps
  <2>3. Shape' /\ Counted'
    BY <1>1, <1>3, <2>1, <2>2, StepKnown, ProgramOnly
  <2>4. Masked'
    BY <1>1, <1>4, <1>5, <2>1 DEF Masked, Calling, Microing, Delaying
  <2>5. Ago(ticks, idle)' = ticks /\ Ago(ticks, idle + 1)' = Ago(ticks, 1)
    BY <1>1, <1>3, StepKnown DEF Ago
  <2>6. begin = Ago(ticks, idle) * US /\ idle \in {0, 1}
    BY <1>1, <1>5, StepKnown DEF TimerIInv, Masked, Reading, Microing
  <2>7. Micros = (ticks * US) % Word \/ (idle = 1 /\ Micros = (Ago(ticks, 1) * US) % Word)
    BY <1>1, MicrosIs DEF TimerIInv
  <2>8. \/ begin' = ticks * US /\ frame'.m = begin' % Word
        \/ begin' = Ago(ticks, 1) * US /\ frame'.m = begin' % Word
        \/ begin' = Ago(ticks, 1) * US /\ frame'.m = (ticks * US) % Word
    <3>1. CASE idle = 0
      <4>1. begin' = ticks * US
        BY <1>1, <2>6, <3>1, StepKnown
      <4>2. frame'.m = (ticks * US) % Word
        BY <2>2, <2>7, <3>1
      <4> QED
        BY <4>1, <4>2
    <3>2. CASE idle = 1
      <4>1. begin' = Ago(ticks, 1) * US
        BY <1>1, <2>6, <3>2
      <4>2. frame'.m = (ticks * US) % Word \/ frame'.m = (Ago(ticks, 1) * US) % Word
        BY <2>2, <2>7, Zenon
      <4> QED
        BY <4>1, <4>2
    <3> QED
      BY <2>6, <3>1, <3>2
  <2>9. Reading'
    BY <2>1, <2>5, <2>8 DEF Reading, Microing
  <2> QED
    BY <2>3, <2>4, <2>9 DEF TimerIInv
<1>6. CASE delay.asked # 0
  <2>1. delay.asked > 0 /\ ~handler
    BY <1>6, StepKnown DEF Delays, TimerIInv, Masked
  <2>2. frame' = frame /\ step' \in {"delay", "delayAgain"}
    BY <1>1, <1>6 DEF Return
  <2>3. delay' = [delay EXCEPT !.start = Micros] \/ delay' = Elapsed(Micros, delay)
    BY <1>1, <1>6 DEF Return
  <2>4. delay' \in Delays /\ delay'.ms <= delay'.asked /\ delay'.asked = delay.asked
    <3>1. CASE delay' = [delay EXCEPT !.start = Micros]
      BY <1>2, <3>1, StepKnown, Constants DEF Delays
    <3>2. CASE delay' = Elapsed(Micros, delay)
      BY <1>2, <3>2, StepKnown, ElapsedFits
    <3> QED
      BY <2>3, <3>1, <3>2
  <2>5. step' \in Steps /\ step' \in Delaying /\ step' \notin Calling
    BY <2>2 DEF Steps, Delaying, Calling, Microing
  <2>6. Shape' /\ Counted'
    BY <1>1, <1>3, <2>2, <2>4, <2>5, StepKnown, ProgramOnly
  <2>7. Masked'
    BY <1>1, <2>1, <2>4, <2>5 DEF Masked
  <2>8. Reading'
    BY <2>2, <2>5 DEF Reading, Calling, Microing
  <2> QED
    BY <2>6, <2>7, <2>8 DEF TimerIInv
<1> QED
  BY <1>5, <1>6

LEMMA UseKeeps ==
    ASSUME TimerIInv, Use
    PROVE  TimerIInv'
<1>1. /\ step \in {"gotMillis", "gotMicros", "delayed"} /\ step' = "sketch"
      /\ frame' = [frame EXCEPT !.m = 0, !.t = 0] /\ begin' = 0 /\ delay' = NoDelay /\ idle' = 0
      /\ UNCHANGED <<timer, ie, counts, handler>>
  BY DEF Use, Step
<1>2. frame' \in Frames /\ step' \in Steps
  BY <1>1, StepKnown DEF Frames, Steps
<1>3. delay' \in Delays /\ delay'.ms = 0 /\ delay'.asked = 0
  BY <1>1, Bounds, Constants DEF Delays, NoDelay
<1>4. Shape' /\ Counted'
  BY <1>1, <1>2, <1>3, StepKnown, ProgramOnly
<1>5. Masked'
  BY <1>1, <1>3 DEF TimerIInv, Masked, Calling, Microing, Delaying
<1>6. Reading'
  BY <1>1 DEF Reading, Microing
<1> QED
  BY <1>4, <1>5, <1>6 DEF TimerIInv

LEMMA DelayLoopKeeps ==
    ASSUME TimerIInv, Yield \/ DelayReturns
    PROVE  TimerIInv'
<1>1. /\ step \in {"delay", "delayAgain"} /\ step' \in {"yield", "delayed"} /\ idle' = 0
      /\ UNCHANGED <<timer, ie, counts, handler, frame, begin, delay>>
  BY DEF Yield, DelayReturns, Step
<1>2. step' \in Steps /\ step \in Delaying /\ step' \in Delaying /\ step' \notin Calling
  BY <1>1 DEF Steps, Delaying, Calling, Microing
<1>3. Shape' /\ Counted'
  BY <1>1, <1>2, StepKnown, ProgramOnly
<1>4. Masked'
  BY <1>1, <1>2 DEF TimerIInv, Masked
<1>5. Reading'
  BY <1>1 DEF Reading, Microing
<1> QED
  BY <1>3, <1>4, <1>5 DEF TimerIInv

LEMMA CallDelayKeeps ==
    ASSUME TimerIInv, CallDelay
    PROVE  TimerIInv'
<1>1. step = "sketch" /\ ~handler /\ EnterMicros("TCNT0")
  BY DEF CallDelay
<1>2. PICK ms \in 1..MaxMs : delay' = [ms |-> ms, start |-> -1, asked |-> ms, since |-> 0]
  BY DEF CallDelay
<1>3. delay' \in Delays /\ delay'.ms <= delay'.asked /\ delay'.asked # 0
  BY <1>2, Bounds, Constants DEF Delays
<1>4. step \notin Calling
  BY <1>1 DEF Calling, Microing
<1> QED
  BY <1>1, <1>3, <1>4, EnterMicrosKeeps

LEMMA ProgramKeeps ==
    ASSUME TimerIInv, Program
    PROVE  TimerIInv'
<1>1. CASE CallMicros
  <2>1. step = "sketch" /\ begin' = ticks * US /\ EnterMicros("TCNT0") /\ delay' = delay
    BY <1>1 DEF CallMicros, Now
  <2>2. step \notin Calling /\ (handler => delay'.asked = 0)
    BY <2>1 DEF Calling, Microing, TimerIInv, Masked
  <2> QED
    BY <2>1, <2>2, StepKnown, EnterMicrosKeeps
<1>2. CASE DelayReads
  <2>1. step \in {"yield", "delayAgain"} /\ EnterMicros("TCNT0") /\ delay' = delay
    BY <1>2 DEF DelayReads
  <2>2. step \notin Calling /\ delay.asked > 0 /\ ~handler
    BY <2>1 DEF Calling, Microing, Delaying, TimerIInv, Masked
  <2> QED
    BY <2>1, <2>2, StepKnown, EnterMicrosKeeps
<1> QED
  BY <1>1, <1>2, HandlerKeeps, CallMillisKeeps, MillisKeeps, ReadTCNT0Keeps,
     MicrosReturnsKeeps, UseKeeps, CallDelayKeeps, DelayLoopKeeps DEF Program

-----------------------------------------------------------------------------
(* The clock *)

LEMMA ClockStarts == TimerInit => TimerIInv
<1> SUFFICES ASSUME TimerInit PROVE TimerIInv
  OBVIOUS
<1>1. 0 \in 0..(Period - 1) /\ 0 \in 0..(Word - 1) /\ 0 \in 0..(Top - 1) /\ 0 \in 0..(FRACT_MAX - 1)
  BY Turning, Overflow0, Constants
<1>2. 0 % Top = 0 /\ 0 \div Top = 0 /\ 0 % Turns = 0 /\ 0 % MS = 0 /\ 0 \div MS = 0 /\ 0 % Word = 0
  BY Turning, Constants
<1>3. /\ ticks = 0 /\ tov = FALSE /\ pending = 0 /\ ie = TRUE
      /\ timer0_overflow_count = 0 /\ timer0_millis = 0 /\ timer0_fract = 0
      /\ handler = FALSE /\ step = "sketch" /\ idle = 0
      /\ frame = [sreg |-> TRUE, m |-> 0, t |-> 0] /\ delay = NoDelay
  BY DEF TimerInit
<1>4. Served = 0
  <2>1. Served = (0 - 0) % Turns
    BY <1>2, <1>3 DEF Served, Turns
  <2> QED
    BY <1>2, <2>1
<1>5. Shape
  <2>1. delay \in [ms : 0..MaxMs, start : -1..(Word - 1), asked : 0..MaxMs, since : 0..MaxSince]
        /\ delay.ms <= delay.asked
    BY <1>3, Bounds, Constants DEF NoDelay
  <2>2. frame \in [sreg : BOOLEAN, m : 0..(Word - 1), t : 0..(Top - 1)]
    BY <1>1, <1>3
  <2>3. pending = (IF tov THEN TCNT0 ELSE 0) /\ pending <= MaxLatency
    BY <1>3, Constants
  <2> QED
    BY <1>1, <1>3, <2>1, <2>2, <2>3 DEF Shape
<1>6. Counted
  <2>1. 0 * OV = 0 /\ 0 * Grain = 0
    BY Overflow0, Constants
  <2> QED
    BY <1>1, <1>2, <1>3, <1>4, <2>1 DEF Counted
<1>7. Masked /\ Reading
  BY <1>3 DEF Masked, Reading, Calling, Microing, Delaying, NoDelay
<1> QED
  BY <1>5, <1>6, <1>7 DEF TimerIInv

LEMMA ClockKeeps == TimerIInv /\ [TimerNext]_timerVars => TimerIInv'
<1> SUFFICES ASSUME TimerIInv, [TimerNext]_timerVars PROVE TimerIInv'
  OBVIOUS
<1>1. CASE UNCHANGED timerVars
  <2>1. /\ UNCHANGED <<timer, counts, ie, handler, step, frame, begin, idle, delay>>
    BY <1>1 DEF timerVars
  <2>2. Shape' /\ Counted'
    BY <2>1, StepKnown, ProgramOnly
  <2>3. Masked' /\ Reading'
    BY <2>1 DEF TimerIInv, Masked, Reading, timer, counts, TCNT0, Ago
  <2> QED
    BY <2>2, <2>3 DEF TimerIInv
<1> QED
  BY <1>1, TickKeeps, OverflowKeeps, ProgramKeeps DEF TimerNext

\* The invariant: the counters hold the time of the overflows served, whoever
\* runs with interrupts off is soon done, and each call holds what the counters were
\* at most one count ago.
THEOREM ClockInductive == TimerSpec => []TimerIInv
  BY ClockStarts, ClockKeeps, PTL DEF TimerSpec

\* The clock of any timer, clock frequency and word counts what the timer counts,
\* without drift, across its wrap, and handlers stay uninterrupted (wiring.c 48-107).
THEOREM ClockKept == TimerSpec => []ClockInv
<1>1. TimerIInv => ClockInv
  <2> SUFFICES ASSUME TimerIInv PROVE ClockInv
    OBVIOUS
  <2>1. /\ ticks \in 0..(Period - 1) /\ tov \in BOOLEAN /\ pending <= MaxLatency
        /\ pending = (IF tov THEN TCNT0 ELSE 0)
        /\ timer0_fract \in 0..(FRACT_MAX - 1)
    BY DEF TimerIInv, Shape, Counted
  <2>2. pending \in 0..MaxLatency
    BY <2>1, StepKnown, Constants
  <2>3. frame.sreg \in BOOLEAN /\ frame.m \in 0..(Word - 1) /\ frame.t \in 0..(Top - 1)
    BY StepKnown DEF Frames
  <2>4. delay.ms \in 0..delay.asked /\ delay.asked \in 0..MaxMs
    BY StepKnown, Constants DEF Delays
  <2>5. handler => step \in {"sketch", "millis", "gotMillis", "TCNT0", "TIFR0", "gotMicros"}
    BY StepKnown DEF TimerIInv, Masked, Steps, Calling, Microing
  <2>6. Timer0TypeOK
    BY <2>1, <2>2, <2>3, <2>4, <2>5, StepKnown DEF Timer0TypeOK
  <2>7. TimeKept
    BY DEF TimerIInv, Counted, TimeKept, OV, MICROSECONDS_PER_TIMER0_OVERFLOW
  <2>8. HandlersNotInterrupted
    BY DEF TimerIInv, Masked, HandlersNotInterrupted
  <2> QED
    BY <2>6, <2>7, <2>8 DEF ClockInv
<1> QED
  BY <1>1, ClockInductive, PTL

\* What a program reads of the clock is the time of its call, whichever of its reads
\* an overflow falls between (wiring.c 68-107).
THEOREM ClockReadsNow == TimerSpec => []ClockRead
<1>1. TimerIInv => ClockRead
  <2> SUFFICES ASSUME TimerIInv PROVE ClockRead
    OBVIOUS
  <2>1. ASSUME NEW x \in Int
        PROVE  (x % Word) \in Int /\ ((x % Word) - x) % Word = 0 /\ (x - x) % Word = 0
    <3>1. Word \in Nat /\ Word > 0 /\ -x \in Int
      BY <2>1, Constants
    <3>2. ((x % Word) + (-x)) % Word = (x + (-x)) % Word
      BY <2>1, <3>1, ModAdd, Zenon
    <3>3. x % Word \in Int
      BY <2>1, <3>1, DivMod
    <3> DEFINE r == x % Word
    <3> HIDE DEF r
    <3>4. r + (-x) = r - x /\ x + (-x) = 0 /\ x - x = 0 /\ 0 % Word = 0
      BY <2>1, <3>1, <3>3 DEF r
    <3> QED
      BY <3>2, <3>3, <3>4 DEF r
  <2>2. ASSUME NEW x \in Int PROVE x % Word >= 0
    BY <2>2, Constants, DivMod
  <2>3. MillisWhole
    <3> SUFFICES ASSUME step = "gotMillis"
                 PROVE  (frame.m - begin) % Word <= (timer0_millis - begin) % Word
      BY DEF MillisWhole
    <3>1. frame.m = begin /\ begin \in Int
      BY DEF TimerIInv, Reading
    <3>2. timer0_millis - begin \in Int
      BY <3>1, StepKnown, Constants
    <3>3. (timer0_millis - begin) % Word >= 0 /\ (timer0_millis - begin) % Word \in Int
      BY <3>2, <2>2, Constants, DivMod
    <3>4. (frame.m - begin) % Word = 0
      BY <2>1, <3>1
    <3> QED
      BY <3>3, <3>4
  <2>4. MicrosBetween
    <3> SUFFICES ASSUME step = "gotMicros"
                 PROVE  (frame.m - begin) % Word <= (Now - begin) % Word
      BY DEF MicrosBetween
    <3>1. idle \in {0, 1}
      BY StepKnown DEF TimerIInv, Masked
    <3>2. /\ ticks * US \in Int /\ Ago(ticks, idle) * US \in Int /\ Ago(ticks, idle + 1) * US \in Int
          /\ idle \in Int /\ idle + 1 \in Int
      <4>1. idle \in Int /\ idle + 1 \in Int /\ ticks \in Int
        BY <3>1, StepKnown
      <4>2. Ago(ticks, idle) \in 0..(Period - 1) /\ Ago(ticks, idle + 1) \in 0..(Period - 1)
        BY <4>1, AgoTick, Zenon
      <4> QED
        BY <4>1, <4>2, Turning, Constants
    <3>3. CASE frame.m = begin % Word /\ begin \in Int
      <4>1. (frame.m - begin) % Word = 0
        BY <2>1, <3>3
      <4>2. Now - begin \in Int
        BY <3>2, <3>3 DEF Now
      <4>3. (Now - begin) % Word >= 0
        BY <4>2, <2>2
      <4> QED
        BY <4>1, <4>3
    <3>4. CASE begin = Ago(ticks, idle + 1) * US /\ frame.m = (Ago(ticks, idle) * US) % Word
      <4> DEFINE a == Ago(ticks, idle) * US
                 b == Ago(ticks, idle + 1) * US
                 x == (ticks - idle) * US
                 y == (ticks - (idle + 1)) * US
      <4>1. a \in Int /\ b \in Int /\ x \in Int /\ y \in Int /\ x - y = US /\ ticks * US - y \in {US, 2 * US}
        <5>1. x = ticks * US - idle * US /\ y = ticks * US - idle * US - US
          BY <3>1, StepKnown, Constants
        <5>2. idle * US \in {0, US}
          BY <3>1, Constants
        <5>3. a \in Int /\ b \in Int /\ ticks * US \in Int
          BY <3>2
        <5> DEFINE n == ticks * US
                   i == idle * US
        <5>4. x = n - i /\ y = n - i - US /\ i \in {0, US} /\ n \in Int
          BY <5>1, <5>2, <5>3
        <5> HIDE DEF x, y, n, i
        <5>5. x \in Int /\ y \in Int /\ x - y = US /\ n - y \in {US, 2 * US}
          BY <5>4, Constants
        <5> QED
          BY <5>3, <5>5 DEF n
      <4>2. (a - y) % Word = US
        <5>1. -y \in Int /\ Word \in Nat /\ Word > 0
          BY <4>1, Constants
        <5>2. a % Word = x % Word
          BY <3>2, StepKnown, AgoTime
        <5>3. ((a % Word) + (-y)) % Word = (a + (-y)) % Word /\ ((x % Word) + (-y)) % Word = (x + (-y)) % Word
          <6> HIDE DEF a, x, y
          <6> QED
            BY <4>1, <5>1, ModAdd, Zenon
        <5>4. a + (-y) = a - y /\ x + (-y) = US
          <6> HIDE DEF a, x, y
          <6> QED
            BY <4>1, Constants
        <5>5. US % Word = US
          BY Turning, Constants, ModSmall
        <5> QED
          BY <5>2, <5>3, <5>4, <5>5
      <4>3. ((a % Word) - b) % Word = US
        <5>1. a % Word \in Int /\ Word \in Nat /\ Word > 0 /\ -y \in Int
          BY <4>1, Constants, DivMod
        <5>2. ((a % Word) - b) % Word = ((a % Word) - y) % Word
          BY <3>2, <5>1, StepKnown, AgoTime
        <5>3. ((a % Word) + (-y)) % Word = (a + (-y)) % Word
          <6> HIDE DEF a, y
          <6> QED
            BY <4>1, <5>1, ModAdd, Zenon
        <5> DEFINE r == a % Word
        <5>4. r \in Int
          BY <5>1
        <5> HIDE DEF a, y, r
        <5>5. r + (-y) = r - y /\ a + (-y) = a - y
          BY <4>1, <5>4
        <5> QED
          BY <4>2, <5>2, <5>3, <5>5 DEF r
      <4>4. (ticks * US - b) % Word = (ticks * US - y) % Word
        BY <3>2, StepKnown, AgoTime
      <4>5. US % Word = US /\ (2 * US) % Word = 2 * US
        BY Turning, Constants, ModSmall
      <4>6. (ticks * US - y) % Word \in {US, 2 * US}
        <5> HIDE DEF y
        <5> QED
          BY <4>1, <4>5
      <4> QED
        BY <3>4, <4>3, <4>4, <4>6, Constants DEF Now
    <3> QED
      BY <3>2, <3>3, <3>4 DEF TimerIInv, Reading
  <2> QED
    BY <2>3, <2>4 DEF ClockRead
<1> QED
  BY <1>1, ClockInductive, PTL

-----------------------------------------------------------------------------
(* delay() *)

\* The microseconds since the time `start' stands for, when its first value was read
\* a counts after the call.
Lag(a) == (delay.since - a) * US - (delay.asked - delay.ms) * MS

\* They are few: each turn of the outer loop leaves less than a millisecond of them,
\* and one turn of yield() with the calls around it adds the rest.
Soon(l) ==
  /\ step = "delay" => l < MS + US + idle * US
  /\ step = "yield" => l < MS + 2 * US + idle * US
  /\ step \in Microing => l < MS + (MaxYield + 2) * US + idle * US
  /\ step = "delayAgain" => l < (MaxYield + 3) * US + idle * US
  /\ step = "delayed" => l < (MaxYield + 4) * US + idle * US

Late(a) ==
  /\ idle * US <= Lag(a) /\ Soon(Lag(a))
  /\ delay.start = (ticks * US - Lag(a)) % Word

InDelay ==
  /\ idle <= MaxYield
  /\ delay.asked > 0 =>
       /\ delay.start < 0 => step \in Microing /\ delay.ms = delay.asked /\ delay.since = idle
       /\ delay.start >= 0 => \E a \in 0..1 : Late(a)
       /\ step \notin {"delayAgain", "delayed"} => delay.ms > 0
       /\ step = "delayed" => delay.ms = 0

\* The products that occur, so that the rest is linear.
LEMMA Amounts ==
    ASSUME NEW i \in Nat, i <= MaxYield
    PROVE  /\ i * US \in Nat /\ MaxYield * US \in Nat /\ i * US <= MaxYield * US
           /\ i <= 1 => i * US <= US
           /\ (i + 1) * US = i * US + US /\ 0 * US = 0
           /\ (MaxYield + 2) * US = MaxYield * US + 2 * US
           /\ (MaxYield + 3) * US = MaxYield * US + 3 * US
           /\ (MaxYield + 4) * US = MaxYield * US + 4 * US
           /\ (MaxYield + 5) * US = MaxYield * US + 5 * US
           /\ (MaxYield + 6) * US = MaxYield * US + 6 * US
<1>1. i * US \in Nat /\ MaxYield * US \in Nat
  BY Constants
<1>2. i * US <= MaxYield * US
  BY Constants
<1>3. i <= 1 => i * US <= US
  BY Constants
<1>4. /\ (i + 1) * US = i * US + US /\ 0 * US = 0
      /\ (MaxYield + 2) * US = MaxYield * US + 2 * US
      /\ (MaxYield + 3) * US = MaxYield * US + 3 * US
      /\ (MaxYield + 4) * US = MaxYield * US + 4 * US
      /\ (MaxYield + 5) * US = MaxYield * US + 5 * US
      /\ (MaxYield + 6) * US = MaxYield * US + 6 * US
  BY Constants
<1> QED
  BY <1>1, <1>2, <1>3, <1>4

LEMMA LagIs ==
    ASSUME TimerIInv, NEW a \in 0..1
    PROVE  /\ Lag(a) \in Int
           /\ delay.since * US = Lag(a) + a * US + (delay.asked - delay.ms) * MS
           /\ (delay.since + 1 - a) * US = (delay.since - a) * US + US
           /\ (delay.asked - (delay.ms - 1)) * MS = (delay.asked - delay.ms) * MS + MS
           /\ a * US \in 0..US
<1>1. delay.since \in Int /\ delay.asked \in Int /\ delay.ms \in Int /\ a \in Int
  BY StepKnown, Bounds, Constants DEF Delays
<1>2. (delay.since - a) * US \in Int /\ (delay.asked - delay.ms) * MS \in Int
  BY <1>1, Constants
<1>3. Lag(a) \in Int
  BY <1>2 DEF Lag
<1>4. (delay.since - a) * US = delay.since * US - a * US
  BY <1>1, Constants
<1>5. delay.since * US \in Int /\ a * US \in 0..US
  BY <1>1, Constants
<1>6. (delay.since + 1 - a) * US = (delay.since - a) * US + US
  BY <1>1, Constants
<1>7. (delay.asked - (delay.ms - 1)) * MS = (delay.asked - delay.ms) * MS + MS
  BY <1>1, Constants
<1>8. delay.since * US = Lag(a) + a * US + (delay.asked - delay.ms) * MS
  <2> DEFINE d == (delay.asked - delay.ms) * MS
             s == delay.since * US
             e == a * US
  <2>1. Lag(a) = (s - e) - d
    BY <1>4 DEF Lag
  <2>2. d \in Int /\ s \in Int /\ e \in Int
    BY <1>2, <1>5
  <2> HIDE DEF d, s, e
  <2>3. s = Lag(a) + e + d
    BY <2>1, <2>2
  <2> QED
    BY <2>3 DEF d, s, e
<1> QED
  BY <1>3, <1>5, <1>6, <1>7, <1>8

\* The history of a delay never reaches its bound.
LEMMA SinceBelow ==
    ASSUME DelayFits, TimerIInv, InDelay, delay.asked > 0
    PROVE  delay.since < MaxSince
<1> DEFINE y == MaxYield * US
           i == idle * US
           top == MaxMs * MS
           d == (delay.asked - delay.ms) * MS
<1>1. idle \in Nat /\ idle <= MaxYield /\ delay.asked \in 0..MaxMs /\ delay.ms \in 0..delay.asked
      /\ delay.since \in Nat /\ delay.start \in Int
  BY StepKnown, Bounds, Constants DEF InDelay, Delays
<1>2. /\ i \in Nat /\ y \in Nat /\ i <= y /\ (idle <= 1 => i <= US)
      /\ (MaxYield + 2) * US = y + 2 * US
      /\ (MaxYield + 3) * US = y + 3 * US
      /\ (MaxYield + 4) * US = y + 4 * US
      /\ (MaxYield + 6) * US = y + 6 * US
  BY <1>1, Amounts
<1>3. top \div US \in Nat /\ top = US * (top \div US) /\ top \in Nat
  <2>1. MS = US * (MS \div US) /\ MS \div US \in Nat
    BY Constants, Multiple DEF DelayFits
  <2> DEFINE k == MS \div US
  <2> HIDE DEF k
  <2>2. top = US * (MaxMs * k) /\ MaxMs * k \in Nat
    BY <2>1, Constants DEF k
  <2> HIDE DEF top
  <2>3. top \div US = MaxMs * k
    <3>1. US \in Nat /\ US > 0 /\ MaxMs * k \in Int
      BY <2>2, Constants
    <3>2. (US * (MaxMs * k)) \div US = MaxMs * k
      BY <3>1, DivModExact, Zenon
    <3> QED
      BY <2>2, <3>2
  <2>4. top \in Nat
    BY Constants DEF top
  <2> QED
    BY <2>2, <2>3, <2>4
<1>4. MaxSince \in Nat /\ MaxSince * US = top + y + 6 * US
  <2> DEFINE k == top \div US
  <2>1. MaxSince = k + MaxYield + 6
    BY DEF MaxSince
  <2>2. k \in Nat /\ top = US * k
    BY <1>3
  <2> HIDE DEF k, top
  <2> QED
    BY <2>1, <2>2, Constants
<1>5. SUFFICES delay.since * US < MaxSince * US
  <2>1. delay.since >= MaxSince => delay.since * US >= MaxSince * US
    BY <1>1, <1>4, Constants
  <2>2. delay.since * US \in Int /\ MaxSince * US \in Int
    BY <1>1, <1>4, Constants
  <2> QED
    BY <1>1, <1>4, <2>1, <2>2
<1>6. CASE delay.start < 0
  <2>1. delay.since * US = i
    BY <1>6 DEF InDelay
  <2> HIDE DEF i, y, top
  <2> QED
    BY <1>2, <1>3, <1>4, <2>1, Constants
<1>7. CASE delay.start >= 0
  <2>1. PICK a \in 0..1 : Late(a)
    BY <1>7 DEF InDelay
  <2>2. Lag(a) \in Int /\ delay.since * US = Lag(a) + a * US + d /\ a * US \in 0..US
    BY LagIs
  <2> DEFINE l == Lag(a)
             e == a * US
  <2>3. step \in Microing \cup Delaying /\ (step # "yield" => idle <= 1)
    BY <1>1, StepKnown DEF TimerIInv, Masked, Delaying, Microing
  <2>4. d <= top /\ (delay.ms > 0 => d <= top - MS) /\ d \in Int
    <3>1. delay.asked - delay.ms \in 0..MaxMs /\ (delay.ms > 0 => delay.asked - delay.ms <= MaxMs - 1)
      BY <1>1, Constants
    <3> DEFINE n == delay.asked - delay.ms
    <3> HIDE DEF n
    <3>2. n * MS <= MaxMs * MS
      BY <3>1, Constants DEF n
    <3>3. delay.ms > 0 => n * MS <= (MaxMs - 1) * MS
      BY <3>1, Constants DEF n
    <3>4. (MaxMs - 1) * MS = MaxMs * MS - MS /\ n * MS \in Int
      BY <3>1, Constants DEF n
    <3> QED
      BY <3>2, <3>3, <3>4 DEF n
  <2>5. /\ step = "delay" => l < MS + US + i
        /\ step = "yield" => l < MS + 2 * US + i
        /\ step \in Microing => l < MS + (y + 2 * US) + i
        /\ step = "delayAgain" => l < (y + 3 * US) + i
        /\ step = "delayed" => l < (y + 4 * US) + i
    BY <1>2, <2>1 DEF Late, Soon
  <2>6. l \in Int /\ e \in 0..US /\ delay.since * US = l + e + d
    BY <2>2
  <2>7. delay.ms > 0 \/ step \in {"delayAgain", "delayed"}
    BY DEF InDelay
  <2> HIDE DEF i, y, top, d, l, e
  <2>8. CASE step \in {"delayAgain", "delayed"}
    <3>1. i <= US /\ l < y + 4 * US + i
      BY <1>2, <2>3, <2>5, <2>6, <2>8, Constants
    <3> QED
      BY <1>2, <1>3, <1>4, <2>4, <2>6, <3>1, Constants
  <2>9. CASE step \notin {"delayAgain", "delayed"}
    <3>1. l < MS + y + 3 * US
      BY <1>2, <2>3, <2>5, <2>6, <2>9, Constants DEF Delaying
    <3>2. d <= top - MS
      BY <2>4, <2>7, <2>9
    <3> QED
      BY <1>2, <1>3, <1>4, <2>4, <2>6, <3>1, <3>2, Constants
  <2> QED
    BY <2>8, <2>9
<1> QED
  BY <1>1, <1>6, <1>7

LEMMA TickInDelay ==
    ASSUME DelayFits, TimerIInv, InDelay, Tick
    PROVE  InDelay'
<1>1. /\ idle < Limit /\ idle' = idle + 1 /\ ticks' = (ticks + 1) % Period /\ step' = step
      /\ idle \in Nat /\ idle <= MaxYield /\ ticks \in Int
  BY StepKnown DEF Tick, InDelay
<1>2. idle' <= MaxYield
  BY <1>1, Constants DEF Limit
<1>3. ASSUME delay.asked > 0
      PROVE  /\ delay' = [delay EXCEPT !.since = @ + 1]
             /\ delay'.since = delay.since + 1 /\ delay'.ms = delay.ms
             /\ delay'.asked = delay.asked /\ delay'.start = delay.start
             /\ delay.since \in Nat
  <2>1. delay.since # MaxSince /\ delay.since \in Nat
    BY <1>3, SinceBelow, Bounds, StepKnown DEF Delays
  <2> QED
    BY <1>3, <2>1, StepKnown DEF Tick, Delays
<1>4. CASE delay.asked > 0
  <2>1. ASSUME delay.start >= 0
        PROVE  \E a \in 0..1 : Late(a)'
    <3>1. PICK a \in 0..1 : Late(a)
      BY <1>4, <2>1 DEF InDelay
    <3> DEFINE l == Lag(a)
               i == idle * US
    <3>2. l \in Int /\ (delay.since + 1 - a) * US = (delay.since - a) * US + US
      BY LagIs
    <3>3. Lag(a)' = l + US
      <4> DEFINE d == (delay.asked - delay.ms) * MS
                 s == (delay.since - a) * US
      <4>1. Lag(a)' = (s + US) - d /\ l = s - d
        BY <1>3, <1>4, <3>2 DEF Lag
      <4>2. d \in Int /\ s \in Int
        BY StepKnown, Constants, Bounds DEF Delays
      <4> HIDE DEF d, s, l
      <4> QED
        BY <4>1, <4>2, Constants
    <3>4. i \in Nat /\ idle' * US = i + US
      BY <1>1, Amounts
    <3>5. Soon(l) /\ i <= l /\ delay.start = (ticks * US - l) % Word
      BY <3>1 DEF Late
    <3>6. Soon(Lag(a))'
      <4>1. /\ step = "delay" => l < MS + US + i
            /\ step = "yield" => l < MS + 2 * US + i
            /\ step \in Microing => l < MS + (MaxYield + 2) * US + i
            /\ step = "delayAgain" => l < (MaxYield + 3) * US + i
            /\ step = "delayed" => l < (MaxYield + 4) * US + i
        BY <3>5 DEF Soon
      <4>2. /\ (MaxYield + 2) * US \in Int /\ (MaxYield + 3) * US \in Int
            /\ (MaxYield + 4) * US \in Int
        BY Constants
      <4> DEFINE m == l + US
      <4>3. /\ step = "delay" => m < MS + US + (i + US)
            /\ step = "yield" => m < MS + 2 * US + (i + US)
            /\ step \in Microing => m < MS + (MaxYield + 2) * US + (i + US)
            /\ step = "delayAgain" => m < (MaxYield + 3) * US + (i + US)
            /\ step = "delayed" => m < (MaxYield + 4) * US + (i + US)
        <5> DEFINE p == (MaxYield + 2) * US
                   q == (MaxYield + 3) * US
                   r == (MaxYield + 4) * US
        <5> HIDE DEF p, q, r, i, l
        <5>1. p \in Int /\ q \in Int /\ r \in Int /\ i \in Nat /\ l \in Int
          BY <3>2, <3>4, <4>2 DEF p, q, r
        <5>2. /\ step = "delay" => l < MS + US + i
              /\ step = "yield" => l < MS + 2 * US + i
              /\ step \in Microing => l < MS + p + i
              /\ step = "delayAgain" => l < q + i
              /\ step = "delayed" => l < r + i
          BY <4>1 DEF p, q, r
        <5>3. /\ step = "delay" => m < MS + US + (i + US)
              /\ step = "yield" => m < MS + 2 * US + (i + US)
              /\ step \in Microing => m < MS + p + (i + US)
              /\ step = "delayAgain" => m < q + (i + US)
              /\ step = "delayed" => m < r + (i + US)
          BY <5>1, <5>2, Constants
        <5> QED
          BY <5>3 DEF p, q, r
      <4> HIDE DEF i, l
      <4> QED
        BY <1>1, <3>3, <3>4, <4>3 DEF Soon
    <3>7. (idle * US)' <= Lag(a)'
      <4> HIDE DEF i, l
      <4> QED
        BY <3>2, <3>3, <3>4, <3>5, Constants
    <3>8. delay.start = (ticks' * US - Lag(a)') % Word
      <4>1. ticks' = Ago(ticks, -1)
        BY <1>1 DEF Ago
      <4> DEFINE c == l + US
      <4>2. c \in Int /\ -1 \in Int
        BY <3>2, Constants
      <4>3. (Ago(ticks, -1) * US - c) % Word = ((ticks - (-1)) * US - c) % Word
        <5> HIDE DEF c
        <5> QED
          BY <1>1, <4>2, AgoTime, Zenon
      <4>4. (ticks - (-1)) * US - c = ticks * US - l
        <5> HIDE DEF l
        <5>1. (ticks - (-1)) * US = ticks * US + US /\ ticks * US \in Int
          BY <1>1, Constants
        <5> QED
          BY <3>2, <5>1, Constants
      <4> QED
        BY <3>3, <3>5, <4>1, <4>3, <4>4
    <3>9. Late(a)'
      BY <1>3, <1>4, <3>6, <3>7, <3>8 DEF Late
    <3> QED
      BY <3>9
  <2>2. ASSUME delay.start < 0
        PROVE  step \in Microing /\ delay.ms = delay.asked /\ delay'.since = idle'
    BY <1>1, <1>3, <1>4, <2>2 DEF InDelay
  <2>3. /\ step \notin {"delayAgain", "delayed"} => delay.ms > 0
        /\ step = "delayed" => delay.ms = 0
    BY <1>4 DEF InDelay
  <2> QED
    BY <1>1, <1>2, <1>3, <1>4, <2>1, <2>2, <2>3 DEF InDelay
<1>5. CASE ~ (delay.asked > 0)
  <2>1. delay' = delay
    BY <1>5, StepKnown DEF Tick, Delays
  <2> QED
    BY <1>2, <1>5, <2>1 DEF InDelay
<1> QED
  BY <1>4, <1>5

\* The loop goes on without reading the clock: what follows a read bounds the lag by
\* at least as much as what came before it.
LEMMA LoopInDelay ==
    ASSUME DelayFits, TimerIInv, InDelay,
           Yield \/ DelayReads \/ DelayReturns \/ ReadTCNT0
    PROVE  InDelay'
<1>1. /\ UNCHANGED <<timer, delay>> /\ ticks' = ticks
      /\ \/ step = "delay" /\ step' = "yield" /\ idle' = 0
         \/ step \in {"yield", "delayAgain"} /\ step' = "TCNT0" /\ idle' = 0 /\ delay.ms > 0
         \/ step = "delayAgain" /\ step' = "delayed" /\ idle' = 0 /\ delay.ms = 0
         \/ step = "TCNT0" /\ step' = "TIFR0" /\ idle' = idle
  BY DEF Yield, DelayReads, DelayReturns, ReadTCNT0, EnterMicros, Step, timer
<1>2. idle \in Nat /\ idle <= MaxYield /\ (step # "yield" => idle <= 1)
  BY <1>1, StepKnown DEF InDelay, TimerIInv, Masked
<1>3. idle' <= MaxYield
  BY <1>1, <1>2, Constants
<1>4. ASSUME NEW a \in 0..1, Late(a)
      PROVE  Late(a)'
  <2> DEFINE y == MaxYield * US
             i == idle * US
             l == Lag(a)
  <2>1. /\ i \in Nat /\ y \in Nat /\ i <= y /\ (idle <= 1 => i <= US) /\ 0 * US = 0
        /\ (MaxYield + 2) * US = y + 2 * US
        /\ (MaxYield + 3) * US = y + 3 * US
        /\ (MaxYield + 4) * US = y + 4 * US
    BY <1>2, Amounts
  <2>2. l \in Int /\ Lag(a)' = l
    BY <1>1, LagIs DEF Lag
  <2>3. /\ step = "delay" => l < MS + US + i
        /\ step = "yield" => l < MS + 2 * US + i
        /\ step \in Microing => l < MS + (y + 2 * US) + i
        /\ step = "delayAgain" => l < (y + 3 * US) + i
        /\ i <= l /\ delay.start = (ticks * US - l) % Word
    BY <1>4, <2>1 DEF Late, Soon
  <2>4. 2 * US <= MS
    BY DEF DelayFits
  <2> DEFINE j == idle' * US
  <2>5. /\ step' = "yield" => l < MS + 2 * US + j
        /\ step' \in Microing => l < MS + (y + 2 * US) + j
        /\ step' = "delayed" => l < (y + 4 * US) + j
        /\ j <= l
    <3>1. step = "TCNT0" => j = i
      BY <1>1
    <3>2. step # "TCNT0" => j = 0
      BY <1>1, <2>1
    <3> HIDE DEF y, i, l, j
    <3> QED
      BY <1>1, <1>2, <2>1, <2>2, <2>3, <2>4, <3>1, <3>2, Constants DEF Microing
  <2>6. step' \notin {"delay", "delayAgain"}
    BY <1>1
  <2>7. Soon(l)'
    <3>1. Lag(a)' = l
      BY <2>2
    <3> QED
      BY <2>1, <2>5, <2>6, <3>1 DEF Soon
  <2> QED
    BY <1>1, <2>2, <2>3, <2>5, <2>7 DEF Late
<1>5. CASE delay.asked > 0
  <2>1. delay.start < 0 => step = "TCNT0"
    BY <1>1, <1>5 DEF InDelay, Microing
  <2>2. delay.start < 0 => step' \in Microing /\ delay.ms = delay.asked /\ delay.since = idle'
    BY <1>1, <1>5, <2>1 DEF InDelay, Microing
  <2>3. delay.start >= 0 => \E a \in 0..1 : Late(a)'
    BY <1>4, <1>5 DEF InDelay
  <2>4. /\ step' \notin {"delayAgain", "delayed"} => delay.ms > 0
        /\ step' = "delayed" => delay.ms = 0
    BY <1>1, <1>5 DEF InDelay
  <2> QED
    BY <1>1, <1>3, <2>2, <2>3, <2>4 DEF InDelay
<1>6. CASE ~ (delay.asked > 0)
  BY <1>1, <1>3, <1>6 DEF InDelay
<1> QED
  BY <1>5, <1>6

\* The clock has gone on by the lag since `start', whatever its wrap: the difference
\* that delay() computes is the lag when the clock was read, j counts ago.
LEMMA DifferenceIs ==
    ASSUME DelayFits, TimerIInv, NEW j \in 0..1, NEW l \in Int, NEW v,
           v = ((ticks - j) * US) % Word, delay.start = (ticks * US - l) % Word,
           j * US <= l, l < MS + (MaxYield + 3) * US
    PROVE  (v - delay.start) % Word = l - j * US
<1> DEFINE n == ticks * US
           e == j * US
           m == (MaxYield + 3) * US
<1>1. n \in Int /\ e \in Nat /\ m \in Int /\ (ticks - j) * US = n - e
  BY StepKnown, Constants
<1>2. MS + m < Word
  BY DEF DelayFits
<1>3. v = (n - e) % Word /\ delay.start = (n - l) % Word /\ e <= l /\ l < MS + m
  BY <1>1
<1> HIDE DEF n, e, m
<1>4. n - e \in Int /\ n - l \in Int /\ Word \in Nat /\ Word > 0 /\ l - e \in Int
  BY <1>1, Constants
<1>5. v \in Int /\ (v - ((n - l) % Word)) % Word = (v - (n - l)) % Word
  <2>1. v \in Int
    BY <1>3, <1>4, DivMod
  <2> QED
    BY <1>4, <2>1, ModAdd, Zenon
<1>6. -(n - l) \in Int
  BY <1>4
<1>7. (((n - e) % Word) + (-(n - l))) % Word = ((n - e) + (-(n - l))) % Word
  BY <1>4, <1>6, ModAdd, Zenon
<1>8. v + (-(n - l)) = v - (n - l) /\ (n - e) + (-(n - l)) = l - e
  BY <1>1, <1>4, <1>5
<1>9. l - e \in 0..(Word - 1)
  BY <1>1, <1>2, <1>3, Constants
<1>10. (l - e) % Word = l - e
  BY <1>4, <1>9, ModSmall
<1> QED
  BY <1>3, <1>5, <1>7, <1>8, <1>10 DEF e

LEMMA ReturnInDelay ==
    ASSUME DelayFits, TimerIInv, InDelay, MicrosReturns
    PROVE  InDelay'
<1>1. /\ step = "TIFR0" /\ idle' = 0 /\ ticks' = ticks /\ Return(Micros)
  BY DEF MicrosReturns, Step, timer
<1>2. idle \in 0..1 /\ idle' <= MaxYield
  BY <1>1, StepKnown, Constants DEF TimerIInv, Masked
<1>3. PICK j \in 0..1 : j <= idle /\ Micros = ((ticks - j) * US) % Word
  <2>1. CASE Micros = (ticks * US) % Word
    <3>1. ticks - 0 = ticks
      BY StepKnown
    <3> QED
      BY <1>2, <2>1, <3>1
  <2>2. CASE idle = 1 /\ Micros = (Ago(ticks, 1) * US) % Word
    <3>1. 1 \in Int /\ ticks \in Int
      BY StepKnown
    <3>2. (Ago(ticks, 1) * US) % Word = ((ticks - 1) * US) % Word
      BY <3>1, AgoTime, Zenon
    <3> QED
      BY <2>2, <3>2
  <2> QED
    BY <1>1, <2>1, <2>2, MicrosIs DEF TimerIInv
<1> DEFINE e == j * US
           i == idle * US
           v == Micros
<1>4. e \in {0, US} /\ e <= i /\ i <= US /\ i \in Nat /\ 0 * US = 0
  BY <1>2, <1>3, Constants
<1>5. v \in 0..(Word - 1) /\ 2 * US <= MS
  BY <1>1, MicrosFits DEF TimerIInv, DelayFits
<1>6. delay.ms \in Nat /\ delay.asked \in Nat /\ delay.since \in Nat /\ delay.start \in Int
  BY StepKnown, Bounds DEF Delays
<1>7. CASE delay.asked = 0
  <2>1. delay'.asked = 0
    BY <1>1, <1>7 DEF Return
  <2> QED
    BY <1>2, <2>1 DEF InDelay
<1>8. CASE delay.asked > 0 /\ delay.start < 0
  <2>1. /\ step' = "delay" /\ delay' = [delay EXCEPT !.start = v]
        /\ delay.ms = delay.asked /\ delay.since = idle
    <3>1. step' = "delay" /\ delay' = [delay EXCEPT !.start = v]
      BY <1>1, <1>6, <1>8 DEF Return
    <3>2. delay.ms = delay.asked /\ delay.since = idle
      BY <1>8 DEF InDelay
    <3> QED
      BY <3>1, <3>2
  <2>2. /\ delay'.start = v /\ delay'.ms = delay.ms /\ delay'.asked = delay.asked
        /\ delay'.since = idle
    BY <2>1, StepKnown DEF Delays
  <2>3. PICK a \in 0..1 : idle - a = j
    <3>1. idle - j \in 0..1 /\ idle - (idle - j) = j
      BY <1>2, <1>3
    <3> QED
      BY <3>1
  <2>4. Lag(a)' = e
    <3>1. Lag(a)' = (idle - a) * US - (delay.ms - delay.ms) * MS
      BY <2>1, <2>2, <2>3 DEF Lag
    <3>2. (delay.ms - delay.ms) * MS = 0 /\ e \in Int
      BY <1>4, <1>6, Constants
    <3> QED
      BY <2>3, <3>1, <3>2
  <2>5. Late(a)'
    <3>1. Soon(Lag(a))'
      <4>1. e < MS + US + 0 * US
        <5> HIDE DEF e
        <5> QED
          BY <1>4, <1>5, Constants
      <4> HIDE DEF e
      <4> QED
        BY <1>1, <2>1, <2>4, <4>1 DEF Soon, Microing
    <3>2. (idle * US)' <= Lag(a)'
      <4> HIDE DEF e
      <4> QED
        BY <1>1, <1>4, <2>4, Constants
    <3>3. delay'.start = (ticks' * US - Lag(a)') % Word
      <4>1. (ticks - j) * US = ticks * US - e
        BY StepKnown, Constants
      <4> QED
        BY <1>1, <1>3, <2>2, <2>4, <4>1
    <3> QED
      BY <3>1, <3>2, <3>3 DEF Late
  <2>6. delay'.ms > 0 /\ ~ (delay'.start < 0)
    BY <1>5, <1>8, <2>1, <2>2, Constants
  <2>7. \E b \in 0..1 : Late(b)'
    BY <2>5
  <2> QED
    BY <1>2, <2>1, <2>6, <2>7 DEF InDelay
<1>9. CASE delay.asked > 0 /\ delay.start >= 0
  <2>1. delay' = Elapsed(v, delay) /\ step' = IF delay' = delay THEN "delay" ELSE "delayAgain"
    BY <1>1, <1>6, <1>9 DEF Return
  <2>2. PICK a \in 0..1 : Late(a)
    BY <1>9 DEF InDelay
  <2> DEFINE l == Lag(a)
             y == MaxYield * US
  <2>3. delay.ms > 0
    BY <1>1, <1>9 DEF InDelay
  <2>4. /\ (MaxYield + 2) * US = y + 2 * US /\ (MaxYield + 3) * US = y + 3 * US /\ y \in Nat
    BY Amounts, Constants
  <2>5. l \in Int /\ i <= l /\ l < MS + (y + 2 * US) + i /\ delay.start = (ticks * US - l) % Word
    BY <1>1, <2>2, <2>4, LagIs DEF Late, Soon, Microing
  <2>6. e <= l /\ l < MS + (y + 3 * US)
    <3> HIDE DEF e, i, l, y
    <3> QED
      BY <1>4, <2>4, <2>5, Constants
  <2>7. (v - delay.start) % Word = l - e
    <3>1. j * US <= l /\ l < MS + (MaxYield + 3) * US
      BY <2>4, <2>6
    <3> HIDE DEF l, v
    <3> QED
      BY <1>3, <2>5, <3>1, DifferenceIs DEF v
  <2>8. CASE l - e >= MS
    <3>1. delay' = [delay EXCEPT !.ms = @ - 1, !.start = (@ + MS) % Word]
      BY <2>1, <2>3, <2>7, <2>8 DEF Elapsed
    <3>2. /\ delay'.ms = delay.ms - 1 /\ delay'.start = (delay.start + MS) % Word
          /\ delay'.asked = delay.asked /\ delay'.since = delay.since
      BY <3>1, StepKnown DEF Delays
    <3>3. step' = "delayAgain"
      BY <1>6, <2>1, <3>2
    <3>4. Lag(a)' = l - MS
      <4> DEFINE d == (delay.asked - delay.ms) * MS
                 s == (delay.since - a) * US
      <4>1. (delay.asked - (delay.ms - 1)) * MS = d + MS /\ d \in Int /\ s \in Int
        BY <1>6, LagIs, Constants
      <4>2. Lag(a)' = s - (d + MS) /\ l = s - d
        BY <3>2, <4>1 DEF Lag
      <4> HIDE DEF d, s, l
      <4> QED
        BY <4>1, <4>2, Constants
    <3>5. Late(a)'
      <4>1. Soon(Lag(a))'
        <5>1. l - MS < (MaxYield + 3) * US + 0 * US
          <6> HIDE DEF e, i, l, y
          <6> QED
            BY <1>4, <2>4, <2>5, <2>6, Constants
        <5> HIDE DEF l
        <5> QED
          BY <1>1, <3>3, <3>4, <5>1 DEF Soon, Microing
      <4>2. (idle * US)' <= Lag(a)'
        <5>1. 0 <= l - MS
          <6> HIDE DEF e, l
          <6> QED
            BY <1>4, <2>5, <2>8, Constants
        <5> HIDE DEF l
        <5> QED
          BY <1>1, <1>4, <3>4, <5>1
      <4>3. delay'.start = (ticks' * US - Lag(a)') % Word
        <5> DEFINE n == ticks * US
        <5>1. n \in Int
          BY StepKnown, Constants
        <5> HIDE DEF n, l
        <5>2. n - l \in Int /\ MS \in Int /\ Word \in Nat /\ Word > 0
          BY <2>5, <5>1, Constants
        <5>3. (((n - l) % Word) + MS) % Word = ((n - l) + MS) % Word
          BY <5>2, ModAdd, Zenon
        <5>4. (n - l) + MS = n - (l - MS)
          BY <2>5, <5>1, <5>2
        <5> QED
          BY <1>1, <2>5, <3>2, <3>4, <5>3, <5>4 DEF n
      <4> QED
        BY <4>1, <4>2, <4>3 DEF Late
    <3>6. delay'.start >= 0
      <4>1. delay.start + MS \in Int
        BY <1>6, Constants
      <4> QED
        BY <3>2, <4>1, Constants, DivMod
    <3>7. ~ (delay'.start < 0)
      <4>1. delay'.start \in Int
        BY <1>6, <3>2, Constants, DivMod
      <4> QED
        BY <3>6, <4>1
    <3> QED
      BY <1>2, <3>3, <3>5, <3>7 DEF InDelay
  <2>9. CASE ~ (l - e >= MS)
    <3>1. delay' = delay /\ step' = "delay"
      BY <2>1, <2>7, <2>9 DEF Elapsed
    <3>2. Late(a)'
      <4>1. Lag(a)' = l
        BY <3>1 DEF Lag
      <4>2. 0 <= l /\ l < MS + US + 0 * US
        <5> HIDE DEF e, i, l
        <5> QED
          BY <1>4, <2>5, <2>9, Constants
      <4>3. Soon(Lag(a))'
        <5> HIDE DEF l
        <5> QED
          BY <1>1, <3>1, <4>1, <4>2 DEF Soon, Microing
      <4> HIDE DEF l
      <4> QED
        BY <1>1, <1>4, <2>5, <3>1, <4>1, <4>2, <4>3 DEF Late
    <3> QED
      BY <1>2, <1>6, <1>9, <2>3, <3>1, <3>2 DEF InDelay
  <2> QED
    BY <2>8, <2>9
<1> QED
  BY <1>6, <1>7, <1>8, <1>9

LEMMA OtherInDelay ==
    ASSUME TimerIInv, InDelay,
           EnterHandler \/ LeaveHandler \/ CallMillis \/ Millis \/ CallMicros \/ Use \/ CallDelay
             \/ Overflow \/ UNCHANGED timerVars
    PROVE  InDelay'
<1>1. CASE EnterHandler \/ LeaveHandler \/ CallMillis \/ Millis \/ CallMicros
  <2>1. step \in {"sketch", "millis"} /\ delay' = delay /\ idle' = 0
    BY <1>1 DEF EnterHandler, LeaveHandler, CallMillis, Millis, CallMicros, EnterMicros, Step
  <2>2. delay.asked = 0
    BY <2>1 DEF TimerIInv, Masked, Delaying, Microing
  <2> QED
    BY <2>1, <2>2, Constants DEF InDelay
<1>2. CASE Use
  <2>1. delay'.asked = 0 /\ idle' = 0
    BY <1>2 DEF Use, NoDelay, Step
  <2> QED
    BY <2>1, Constants DEF InDelay
<1>3. CASE CallDelay
  <2>1. PICK ms \in 1..MaxMs : delay' = [ms |-> ms, start |-> -1, asked |-> ms, since |-> 0]
    BY <1>3 DEF CallDelay
  <2>2. step' = "TCNT0" /\ idle' = 0
    BY <1>3 DEF CallDelay, EnterMicros, Step
  <2>3. delay'.start = -1 /\ delay'.ms = ms /\ delay'.asked = ms /\ delay'.since = 0
    BY <2>1
  <2> QED
    BY <2>2, <2>3, Constants DEF InDelay, Microing
<1>4. CASE Overflow \/ UNCHANGED timerVars
  <2>1. UNCHANGED <<ticks, idle, delay, step>>
    BY <1>4 DEF Overflow, timerVars, timer
  <2> QED
    BY <2>1 DEF InDelay, Late, Lag, Soon
<1> QED
  BY <1>1, <1>2, <1>3, <1>4

\* A delay is never short, and long only by a turn of yield() and the calls around it,
\* however many milliseconds it has: for every clock whose milliseconds are whole
\* numbers of counts and whose word holds one of them and a turn (wiring.c 109-120).
THEOREM DelaysAccurate ==
    ASSUME DelayFits
    PROVE  TimerSpec => []DelayAccurate
<1>1. TimerInit => InDelay
  BY Constants DEF TimerInit, InDelay, NoDelay
<1>2. TimerIInv /\ InDelay /\ [TimerNext]_timerVars => InDelay'
  BY TickInDelay, LoopInDelay, ReturnInDelay, OtherInDelay DEF TimerNext, Program
<1>3. TimerIInv /\ InDelay => DelayAccurate
  <2> SUFFICES ASSUME TimerIInv, InDelay, step = "delayed"
               PROVE  /\ delay.since * US >= delay.asked * MS
                      /\ delay.since * US <= delay.asked * MS + (MaxYield + 5) * US
    BY DEF DelayAccurate
  <2>1. delay.asked > 0 /\ delay.ms = 0 /\ delay.start >= 0 /\ idle \in 0..1
    <3>1. delay.asked > 0 /\ idle \in 0..1
      BY StepKnown DEF TimerIInv, Masked, Delaying
    <3>2. delay.start \in Int
      BY StepKnown, Constants DEF Delays
    <3> QED
      BY <3>1, <3>2 DEF InDelay, Microing
  <2>2. PICK a \in 0..1 : Late(a)
    BY <2>1 DEF InDelay
  <2> DEFINE l == Lag(a)
             y == MaxYield * US
             i == idle * US
             e == a * US
             d == delay.asked * MS
             s == delay.since * US
  <2>3. /\ i \in Nat /\ i <= US /\ y \in Nat
        /\ (MaxYield + 4) * US = y + 4 * US /\ (MaxYield + 5) * US = y + 5 * US
    BY <2>1, Amounts, Constants
  <2>4. i <= l /\ l < (y + 4 * US) + i
    BY <2>2, <2>3 DEF Late, Soon
  <2>5. l \in Int /\ s = l + e + d /\ e \in 0..US /\ d \in Nat
    <3>1. delay.asked \in Nat /\ delay.asked - delay.ms = delay.asked
      BY <2>1, StepKnown, Constants DEF Delays
    <3>2. d \in Nat
      BY <3>1, Constants
    <3> QED
      BY <3>1, <3>2, LagIs
  <2> DEFINE k == MS \div US
             n == delay.since - a - delay.asked * k
  <2>6. n \in Int /\ l = US * n
    <3>1. MS = US * k /\ k \in Nat
      BY Constants, Multiple DEF DelayFits
    <3>2. delay.since \in Int /\ delay.asked \in Int /\ delay.asked - delay.ms = delay.asked
      BY <2>1, StepKnown, Bounds, Constants DEF Delays
    <3> HIDE DEF k
    <3>3. l = (delay.since - a) * US - delay.asked * MS
      BY <3>2 DEF Lag
    <3>4. delay.asked * MS = US * (delay.asked * k) /\ delay.asked * k \in Int
      BY <3>1, <3>2, Constants
    <3> QED
      BY <3>2, <3>3, <3>4, Constants
  <2>7. l <= y + 4 * US
    <3>1. US * n < US * (MaxYield + 5)
      <4> HIDE DEF l, y, i, n
      <4>1. US * (MaxYield + 5) = y + 5 * US
        BY <2>3, Constants
      <4> QED
        BY <2>3, <2>4, <2>5, <2>6, <4>1, Constants
    <3>2. n < MaxYield + 5
      <4> HIDE DEF n
      <4>1. n >= MaxYield + 5 => US * n >= US * (MaxYield + 5)
        BY <2>6, Constants
      <4>2. US * n \in Int /\ US * (MaxYield + 5) \in Int
        BY <2>6, Constants
      <4> QED
        BY <2>6, <3>1, <4>1, <4>2, Constants
    <3>3. US * n <= US * (MaxYield + 4)
      <4> HIDE DEF n
      <4> QED
        BY <2>6, <3>2, Constants
    <3>4. US * (MaxYield + 4) = (MaxYield + 4) * US
      BY Constants
    <3> HIDE DEF l, y, n
    <3> QED
      BY <2>3, <2>6, <3>3, <3>4
  <2>8. s >= d /\ s <= d + (y + 5 * US)
    <3> HIDE DEF l, y, i, e, d, s
    <3> QED
      BY <2>3, <2>4, <2>5, <2>7, Constants
  <2> QED
    BY <2>3, <2>8
<1> QED
  BY <1>1, <1>2, <1>3, ClockInductive, PTL DEF TimerSpec

-----------------------------------------------------------------------------
(* Pins: the tables, and the bits of the pins of a sketch *)

\* The outputs of the timers.
Outputs == {"TCCR0A", "TCCR1A", "TCCR2A", "TCCR3A", "TCCR4A", "TCCR4C"} \X {"A", "B", "D"}

LEMMA NumberedPlaces ==
  ASSUME NEW port \in {"B", "C", "D", "E", "F"}, NEW bits \in Seq(Nat)
  PROVE  Numbered(port, bits) \in Seq(Places) /\ Len(Numbered(port, bits)) = Len(bits)
  BY DEF Numbered, Places

LEMMA Joined ==
  ASSUME NEW s \in Seq(Places), NEW t \in Seq(Places)
  PROVE  s \o t \in Seq(Places) /\ Len(s \o t) = Len(s) + Len(t)
  OBVIOUS

LEMMA Places328 == Pins328 \in Seq(Places) /\ Len(Pins328) >= 14
<1> DEFINE s == Numbered("D", <<0, 1, 2, 3, 4, 5, 6, 7>>)
           t == Numbered("B", <<0, 1, 2, 3, 4, 5>>)
           u == Numbered("C", <<0, 1, 2, 3, 4, 5>>)
<1>1. s \in Seq(Places) /\ Len(s) = 8
  <2>1. <<0, 1, 2, 3, 4, 5, 6, 7>> \in Seq(Nat) /\ Len(<<0, 1, 2, 3, 4, 5, 6, 7>>) = 8
    OBVIOUS
  <2> QED BY <2>1, NumberedPlaces
<1>2. t \in Seq(Places) /\ Len(t) = 6
  <2>1. <<0, 1, 2, 3, 4, 5>> \in Seq(Nat) /\ Len(<<0, 1, 2, 3, 4, 5>>) = 6
    OBVIOUS
  <2> QED BY <2>1, NumberedPlaces
<1>3. u \in Seq(Places) /\ Len(u) = 6
  <2>1. <<0, 1, 2, 3, 4, 5>> \in Seq(Nat) /\ Len(<<0, 1, 2, 3, 4, 5>>) = 6
    OBVIOUS
  <2> QED BY <2>1, NumberedPlaces
<1>4. Pins328 = s \o t \o u
  BY DEF Pins328
<1> HIDE DEF s, t, u
<1>5. s \o t \in Seq(Places) /\ Len(s \o t) = 14
  <2>1. s \o t \in Seq(Places) /\ Len(s \o t) = Len(s) + Len(t)
    BY <1>1, <1>2, Joined, Zenon
  <2> QED BY <1>1, <1>2, <2>1
<1>6. s \o t \o u \in Seq(Places) /\ Len(s \o t \o u) = 20
  <2>1. s \o t \o u \in Seq(Places) /\ Len(s \o t \o u) = Len(s \o t) + Len(u)
    BY <1>5, <1>3, Joined, Zenon
  <2> QED BY <1>5, <1>3, <2>1
<1> QED BY <1>4, <1>6

LEMMA Places32U4 == Pins32U4 \in Seq(Places) /\ Len(Pins32U4) >= 14
<1> DEFINE s == Numbered("D", <<2, 3, 1, 0, 4>>)
           t == <<<<"C", 6>>, <<"D", 7>>, <<"E", 6>>>>
           u == Numbered("B", <<4, 5, 6, 7>>)
           v == <<<<"D", 6>>, <<"C", 7>>>>
           w == Numbered("B", <<3, 1, 2, 0>>)
           x == Numbered("F", <<7, 6, 5, 4, 1, 0>>)
           y == <<<<"D", 4>>, <<"D", 7>>>>
           z == Numbered("B", <<4, 5, 6>>)
           e == <<<<"D", 6>>>>
<1>1. s \in Seq(Places) /\ Len(s) = 5
  <2>1. <<2, 3, 1, 0, 4>> \in Seq(Nat) /\ Len(<<2, 3, 1, 0, 4>>) = 5
    OBVIOUS
  <2> QED BY <2>1, NumberedPlaces
<1>2. t \in Seq(Places) /\ Len(t) = 3
  BY DEF Places
<1>3. u \in Seq(Places) /\ Len(u) = 4
  <2>1. <<4, 5, 6, 7>> \in Seq(Nat) /\ Len(<<4, 5, 6, 7>>) = 4
    OBVIOUS
  <2> QED BY <2>1, NumberedPlaces
<1>4. v \in Seq(Places) /\ Len(v) = 2
  BY DEF Places
<1>5. w \in Seq(Places) /\ Len(w) = 4
  <2>1. <<3, 1, 2, 0>> \in Seq(Nat) /\ Len(<<3, 1, 2, 0>>) = 4
    OBVIOUS
  <2> QED BY <2>1, NumberedPlaces
<1>6. x \in Seq(Places) /\ Len(x) = 6
  <2>1. <<7, 6, 5, 4, 1, 0>> \in Seq(Nat) /\ Len(<<7, 6, 5, 4, 1, 0>>) = 6
    OBVIOUS
  <2> QED BY <2>1, NumberedPlaces
<1>7. y \in Seq(Places) /\ Len(y) = 2
  BY DEF Places
<1>8. z \in Seq(Places) /\ Len(z) = 3
  <2>1. <<4, 5, 6>> \in Seq(Nat) /\ Len(<<4, 5, 6>>) = 3
    OBVIOUS
  <2> QED BY <2>1, NumberedPlaces
<1>9. e \in Seq(Places) /\ Len(e) = 1
  BY DEF Places
<1>10. Pins32U4 = s \o t \o u \o v \o w \o x \o y \o z \o e
  BY DEF Pins32U4
<1> HIDE DEF s, t, u, v, w, x, y, z, e
<1>11. s \o t \in Seq(Places) /\ Len(s \o t) = 8
  <2>1. s \o t \in Seq(Places) /\ Len(s \o t) = Len(s) + Len(t)
    BY <1>1, <1>2, Joined, Zenon
  <2> QED BY <1>1, <1>2, <2>1
<1>12. s \o t \o u \in Seq(Places) /\ Len(s \o t \o u) = 12
  <2>1. s \o t \o u \in Seq(Places) /\ Len(s \o t \o u) = Len(s \o t) + Len(u)
    BY <1>11, <1>3, Joined, Zenon
  <2> QED BY <1>11, <1>3, <2>1
<1>13. s \o t \o u \o v \in Seq(Places) /\ Len(s \o t \o u \o v) = 14
  <2>1. s \o t \o u \o v \in Seq(Places) /\ Len(s \o t \o u \o v) = Len(s \o t \o u) + Len(v)
    BY <1>12, <1>4, Joined, Zenon
  <2> QED BY <1>12, <1>4, <2>1
<1>14. s \o t \o u \o v \o w \in Seq(Places) /\ Len(s \o t \o u \o v \o w) = 18
  <2>1. s \o t \o u \o v \o w \in Seq(Places) /\ Len(s \o t \o u \o v \o w) = Len(s \o t \o u \o v) + Len(w)
    BY <1>13, <1>5, Joined, Zenon
  <2> QED BY <1>13, <1>5, <2>1
<1>15. s \o t \o u \o v \o w \o x \in Seq(Places) /\ Len(s \o t \o u \o v \o w \o x) = 24
  <2>1. s \o t \o u \o v \o w \o x \in Seq(Places) /\ Len(s \o t \o u \o v \o w \o x) = Len(s \o t \o u \o v \o w) + Len(x)
    BY <1>14, <1>6, Joined, Zenon
  <2> QED BY <1>14, <1>6, <2>1
<1>16. s \o t \o u \o v \o w \o x \o y \in Seq(Places) /\ Len(s \o t \o u \o v \o w \o x \o y) = 26
  <2>1. s \o t \o u \o v \o w \o x \o y \in Seq(Places) /\ Len(s \o t \o u \o v \o w \o x \o y) = Len(s \o t \o u \o v \o w \o x) + Len(y)
    BY <1>15, <1>7, Joined, Zenon
  <2> QED BY <1>15, <1>7, <2>1
<1>17. s \o t \o u \o v \o w \o x \o y \o z \in Seq(Places) /\ Len(s \o t \o u \o v \o w \o x \o y \o z) = 29
  <2>1. s \o t \o u \o v \o w \o x \o y \o z \in Seq(Places) /\ Len(s \o t \o u \o v \o w \o x \o y \o z) = Len(s \o t \o u \o v \o w \o x \o y) + Len(z)
    BY <1>16, <1>8, Joined, Zenon
  <2> QED BY <1>16, <1>8, <2>1
<1>18. s \o t \o u \o v \o w \o x \o y \o z \o e \in Seq(Places) /\ Len(s \o t \o u \o v \o w \o x \o y \o z \o e) = 30
  <2>1. s \o t \o u \o v \o w \o x \o y \o z \o e \in Seq(Places) /\ Len(s \o t \o u \o v \o w \o x \o y \o z \o e) = Len(s \o t \o u \o v \o w \o x \o y \o z) + Len(e)
    BY <1>17, <1>9, Joined, Zenon
  <2> QED BY <1>17, <1>9, <2>1
<1> QED BY <1>10, <1>18

LEMMA TablePlaces ==
  ASSUME NEW c \in {"m328", "m32U4"}
  PROVE  PinTable[c] \in Seq(Places) /\ Len(PinTable[c]) >= 14
  BY Places328, Places32U4 DEF PinTable

LEMMA TableTimers ==
  ASSUME NEW c \in {"m328", "m32U4"}, NEW p \in DOMAIN TimerTable[c]
  PROVE  TimerTable[c][p] \in Outputs
<1>1. \A i \in DOMAIN Timers328 : Timers328[i] \in Outputs
  BY DEF Timers328, Outputs
<1>2. \A i \in DOMAIN Timers32U4 : Timers32U4[i] \in Outputs
  BY DEF Timers32U4, Outputs
<1> QED BY <1>1, <1>2 DEF TimerTable

LEMMA NotInTables == NOT_A_PIN \notin Places /\ NOT_ON_TIMER \notin Outputs
  BY DEF NOT_A_PIN, NOT_ON_TIMER, Places, Outputs

\* The bits of a pin.
ModeBit(p) == DDR(PinOf(p))
LevelBit(p) == PORT(PinOf(p))
TimerBit(p) == TCCR(TimerOf(p))
DutyBit(p) == OCR(TimerOf(p))
OnTimer(p) == TimerOf(p) # NOT_ON_TIMER

PinsBoardOK == \E b \in PinBoards : board = b[1] /\ used = b[2]

\* The pins of a sketch have places of their own, and timers of their own if any.
LEMMA PinsApart ==
  ASSUME PinsBoardOK
  PROVE  /\ \A p \in used : PinOf(p) \in Places /\ p \in Nat
         /\ \A p \in used : OnTimer(p) => TimerOf(p) \in Outputs
         /\ \A p, q \in used : p # q => PinOf(p) # PinOf(q)
         /\ \A p, q \in used : p # q /\ OnTimer(p) => TimerOf(p) # TimerOf(q)
<1>1. PICK b \in PinBoards : board = b[1] /\ used = b[2]
  BY DEF PinsBoardOK
<1>2. board \in {"m328", "m32U4"} /\ used \subseteq 0..(Len(PinTable[board]) - 1)
  BY <1>1, PinsAssumption
<1>3. PinTable[board] \in Seq(Places) /\ Len(PinTable[board]) >= 14
  BY <1>2, TablePlaces
<1>4. \A p, q \in used : p # q =>
        /\ PinTable[board][p + 1] # PinTable[board][q + 1]
        /\ {p, q} \subseteq DOMAIN TimerTable[board] => TimerTable[board][p] # TimerTable[board][q]
  BY <1>1, PinsAssumption
<1>5. \A p \in used : PinOf(p) \in Places /\ p \in Nat
  <2> SUFFICES ASSUME NEW p \in used PROVE PinOf(p) \in Places /\ p \in Nat
    OBVIOUS
  <2>1. Len(PinTable[board]) \in Nat /\ p \in 0..(Len(PinTable[board]) - 1)
    BY <1>2, <1>3
  <2>2. p + 1 \in 1..Len(PinTable[board])
    BY <2>1
  <2> DEFINE t == PinTable[board]
  <2>3. t \in Seq(Places) /\ p + 1 \in 1..Len(t)
    BY <1>3, <2>2
  <2> HIDE DEF t
  <2>4. t[p + 1] \in Places
    BY <2>3
  <2> QED BY <2>1, <2>4 DEF PinOf, t
<1>6. \A p \in used : OnTimer(p) => TimerOf(p) \in Outputs
  BY <1>2, TableTimers DEF OnTimer, TimerOf
<1>7. \A p, q \in used : p # q => PinOf(p) # PinOf(q)
  BY <1>4 DEF PinOf
<1>8. \A p, q \in used : p # q /\ OnTimer(p) => TimerOf(p) # TimerOf(q)
  BY <1>2, <1>4, TableTimers, NotInTables, Zenon DEF TimerOf, OnTimer
<1> QED BY <1>5, <1>6, <1>7, <1>8

\* Bits of different kinds differ, and so do those of two pins.
LEMMA BitsApart ==
  ASSUME PinsBoardOK
  PROVE  /\ \A p, q \in used :
              /\ ModeBit(p) # LevelBit(q) /\ ModeBit(p) # TimerBit(q) /\ ModeBit(p) # DutyBit(q)
              /\ LevelBit(p) # TimerBit(q) /\ LevelBit(p) # DutyBit(q) /\ TimerBit(p) # DutyBit(q)
         /\ \A p, q \in used : p # q => ModeBit(p) # ModeBit(q) /\ LevelBit(p) # LevelBit(q)
         /\ \A p, q \in used :
              p # q /\ OnTimer(p) => TimerBit(p) # TimerBit(q) /\ DutyBit(p) # DutyBit(q)
         /\ \A p \in used : BitsOf(p) = {ModeBit(p), LevelBit(p), TimerBit(p), DutyBit(p)}
         /\ \A p \in used : BitsOf(p) \subseteq Bits
<1>1. \A p, q \in used :
        /\ ModeBit(p) # LevelBit(q) /\ ModeBit(p) # TimerBit(q) /\ ModeBit(p) # DutyBit(q)
        /\ LevelBit(p) # TimerBit(q) /\ LevelBit(p) # DutyBit(q) /\ TimerBit(p) # DutyBit(q)
  BY DEF ModeBit, LevelBit, TimerBit, DutyBit, DDR, PORT, TCCR, OCR
<1>2. \A p, q \in used : p # q => ModeBit(p) # ModeBit(q) /\ LevelBit(p) # LevelBit(q)
  <2> SUFFICES ASSUME NEW p \in used, NEW q \in used, p # q
               PROVE  ModeBit(p) # ModeBit(q) /\ LevelBit(p) # LevelBit(q)
    OBVIOUS
  <2>1. PinOf(p) \in Places /\ PinOf(q) \in Places /\ PinOf(p) # PinOf(q)
    BY PinsApart
  <2>2. PinOf(p)[1] # PinOf(q)[1] \/ PinOf(p)[2] # PinOf(q)[2]
    BY <2>1 DEF Places
  <2> QED BY <2>2 DEF ModeBit, LevelBit, DDR, PORT
<1>3. \A p, q \in used :
        p # q /\ OnTimer(p) => TimerBit(p) # TimerBit(q) /\ DutyBit(p) # DutyBit(q)
  <2> SUFFICES ASSUME NEW p \in used, NEW q \in used, p # q, OnTimer(p)
               PROVE  TimerBit(p) # TimerBit(q) /\ DutyBit(p) # DutyBit(q)
    OBVIOUS
  <2> DEFINE Pairs == {"TCCR0A", "TCCR1A", "TCCR2A", "TCCR3A", "TCCR4A", "TCCR4C", "none"}
                      \X {"A", "B", "D", "none"}
  <2>1. TimerOf(p) \in Pairs /\ TimerOf(q) \in Pairs /\ TimerOf(p) # TimerOf(q)
    <3>1. \A t \in Outputs : t \in Pairs
      BY DEF Outputs
    <3>2. NOT_ON_TIMER \in Pairs
      BY DEF NOT_ON_TIMER
    <3> HIDE DEF Pairs
    <3> QED BY <3>1, <3>2, PinsApart DEF OnTimer
  <2>2. TimerOf(p)[1] # TimerOf(q)[1] \/ TimerOf(p)[2] # TimerOf(q)[2]
    BY <2>1
  <2> QED BY <2>2 DEF TimerBit, DutyBit, TCCR, OCR
<1>4. \A p \in used : BitsOf(p) = {ModeBit(p), LevelBit(p), TimerBit(p), DutyBit(p)}
  BY DEF BitsOf, ModeBit, LevelBit, TimerBit, DutyBit
<1>5. \A p \in used : BitsOf(p) \subseteq Bits
  BY DEF Bits
<1> QED BY <1>1, <1>2, <1>3, <1>4, <1>5

-----------------------------------------------------------------------------
(* Pins: sequences of updates *)

\* A nonempty set of numbers up to n has a greatest one.
LEMMA Greatest ==
  ASSUME NEW n \in Nat, NEW S \in SUBSET (1..n), S # {}
  PROVE  \E k \in S : \A i \in S : i <= k
<1> DEFINE T == {n - i : i \in S}
<1>1. T \subseteq Nat /\ T # {}
  <2>1. \A i \in S : n - i \in Nat
    OBVIOUS
  <2> QED BY <2>1
<1> HIDE DEF T
<1>2. PICK m \in T : \A i \in T : ~ (<<i, m>> \in OpToRel(<, Nat))
  BY <1>1, NatLessThanWellFounded, WFMin
<1>3. \A i \in T : ~ (i < m)
  BY <1>1, <1>2, Zenon DEF OpToRel
<1>4. PICK k \in S : m = n - k
  BY <1>2 DEF T
<1>5. \A i \in S : n - i \in T
  BY DEF T
<1>6. \A i \in S : i <= k
  BY <1>1, <1>3, <1>4, <1>5
<1> QED BY <1>6

\* The last of the updates that change a bit is the one that LastOf names.
LEMMA LastIs ==
  ASSUME NEW updates, DOMAIN updates \subseteq Nat, NEW b, NEW k \in DOMAIN updates,
         b \in DOMAIN updates[k].writes,
         \A j \in DOMAIN updates : b \in DOMAIN updates[j].writes => j <= k
  PROVE  LastOf(updates, b) = k /\ b \in Changes(updates)
<1> DEFINE P(i) == /\ b \in DOMAIN updates[i].writes
                   /\ \A j \in DOMAIN updates : b \in DOMAIN updates[j].writes => j <= i
<1>1. P(k)
  OBVIOUS
<1>2. \A i \in DOMAIN updates : P(i) => i = k
  <2> SUFFICES ASSUME NEW i \in DOMAIN updates, P(i) PROVE i = k
    OBVIOUS
  <2>1. i <= k /\ k <= i /\ i \in Nat /\ k \in Nat
    OBVIOUS
  <2> QED BY <2>1
<1>3. LastOf(updates, b) = CHOOSE i \in DOMAIN updates : P(i)
  BY Zenon DEF LastOf
<1>4. b \in Changes(updates)
  BY DEF Changes
<1> HIDE DEF P
<1> QED BY <1>1, <1>2, <1>3, <1>4, Zenon

LEMMA LastExists ==
  ASSUME NEW updates, NEW n \in Nat, DOMAIN updates = 1..n, NEW b, b \in Changes(updates)
  PROVE  /\ LastOf(updates, b) \in DOMAIN updates
         /\ b \in DOMAIN updates[LastOf(updates, b)].writes
         /\ \A j \in DOMAIN updates : b \in DOMAIN updates[j].writes => j <= LastOf(updates, b)
<1> DEFINE S == {i \in 1..n : b \in DOMAIN updates[i].writes}
<1>1. S \in SUBSET (1..n) /\ S # {}
  BY DEF Changes
<1>2. PICK k \in S : \A i \in S : i <= k
  BY <1>1, Greatest, Zenon
<1>3. LastOf(updates, b) = k
  <2>1. k \in DOMAIN updates /\ b \in DOMAIN updates[k].writes
        /\ \A j \in DOMAIN updates : b \in DOMAIN updates[j].writes => j <= k
    BY <1>2
  <2>2. DOMAIN updates \subseteq Nat
    OBVIOUS
  <2> QED BY <2>1, <2>2, LastIs, Zenon
<1> QED BY <1>2, <1>3

\* Nothing to do leaves every bit as it is; one update gives its own values; a sequence is
\* its first update, then the others.
LEMMA AfterNothing ==
  ASSUME NEW S, NEW v \in [Bits -> S]
  PROVE  After(<<>>, v) = v
<1>1. Changes(<<>>) = {}
  BY DEF Changes
<1> QED BY <1>1 DEF After

LEMMA AfterOne ==
  ASSUME NEW u, NEW v
  PROVE  After(<<u>>, v) =
           [b \in DOMAIN v |-> IF b \in DOMAIN u.writes THEN u.writes[b] ELSE v[b]]
<1>1. \A b : b \in Changes(<<u>>) <=> b \in DOMAIN u.writes
  BY DEF Changes
<1>2. ASSUME NEW b, b \in DOMAIN u.writes PROVE LastOf(<<u>>, b) = 1
  <2> DEFINE s == <<u>>
  <2>1. DOMAIN s \subseteq Nat /\ 1 \in DOMAIN s /\ s[1] = u /\ \A j \in DOMAIN s : j <= 1
    OBVIOUS
  <2> HIDE DEF s
  <2>2. LastOf(s, b) = 1
    BY <1>2, <2>1, LastIs, Zenon
  <2> QED BY <2>2 DEF s
<1> QED BY <1>1, <1>2 DEF After

LEMMA AfterRest ==
  ASSUME NEW S, NEW s \in Seq(S), s # <<>>, NEW v
  PROVE  After(s, v) = After(Tail(s), After(<<Head(s)>>, v))
<1> DEFINE t == Tail(s)
           u == Head(s)
           n == Len(s)
<1>1. n \in Nat \ {0} /\ DOMAIN s = 1..n /\ DOMAIN t = 1..(n - 1) /\ s[1] = u
      /\ \A i \in 1..(n - 1) : t[i] = s[i + 1]
  OBVIOUS
<1> HIDE DEF t, u, n
<1>2. After(<<u>>, v) = [b \in DOMAIN v |-> IF b \in DOMAIN u.writes THEN u.writes[b] ELSE v[b]]
  BY AfterOne
<1>3. ASSUME NEW b, b \in Changes(t)
      PROVE  b \in Changes(s) /\ s[LastOf(s, b)] = t[LastOf(t, b)]
  <2> DEFINE k == LastOf(t, b)
  <2>1. k \in 1..(n - 1) /\ b \in DOMAIN t[k].writes
        /\ \A j \in 1..(n - 1) : b \in DOMAIN t[j].writes => j <= k
    <3>1. n - 1 \in Nat
      BY <1>1
    <3> QED BY <1>1, <1>3, <3>1, LastExists, Zenon
  <2> HIDE DEF k
  <2>2. k + 1 \in DOMAIN s /\ b \in DOMAIN s[k + 1].writes /\ DOMAIN s \subseteq Nat
    BY <1>1, <2>1
  <2>3. \A j \in DOMAIN s : b \in DOMAIN s[j].writes => j <= k + 1
    <3> SUFFICES ASSUME NEW j \in DOMAIN s, b \in DOMAIN s[j].writes PROVE j <= k + 1
      OBVIOUS
    <3>1. CASE j = 1
      BY <2>1, <3>1
    <3>2. CASE j # 1
      <4>1. j - 1 \in 1..(n - 1) /\ j = (j - 1) + 1
        BY <1>1, <3>2
      <4>2. t[j - 1] = s[j]
        BY <1>1, <4>1
      <4> QED BY <2>1, <4>1, <4>2
    <3> QED BY <3>1, <3>2
  <2>4. LastOf(s, b) = k + 1 /\ b \in Changes(s)
    BY <2>2, <2>3, LastIs, Zenon
  <2> QED BY <1>1, <2>1, <2>4 DEF k
<1>4. ASSUME NEW b, b \notin Changes(t)
      PROVE  /\ b \in Changes(s) <=> b \in DOMAIN u.writes
             /\ b \in DOMAIN u.writes => s[LastOf(s, b)] = u
  <2>1. \A j \in DOMAIN s : b \in DOMAIN s[j].writes => j = 1
    <3> SUFFICES ASSUME NEW j \in DOMAIN s, b \in DOMAIN s[j].writes, j # 1 PROVE FALSE
      OBVIOUS
    <3>1. j - 1 \in 1..(n - 1) /\ j = (j - 1) + 1
      BY <1>1
    <3>2. t[j - 1] = s[j]
      BY <1>1, <3>1
    <3> QED BY <1>1, <1>4, <3>1, <3>2 DEF Changes
  <2>2. b \in Changes(s) <=> b \in DOMAIN u.writes
    BY <1>1, <2>1 DEF Changes
  <2>3. ASSUME b \in DOMAIN u.writes PROVE LastOf(s, b) = 1
    <3>1. 1 \in DOMAIN s /\ DOMAIN s \subseteq Nat /\ b \in DOMAIN s[1].writes
          /\ \A j \in DOMAIN s : b \in DOMAIN s[j].writes => j <= 1
      BY <1>1, <2>1, <2>3
    <3> QED BY <3>1, LastIs, Zenon
  <2> QED BY <1>1, <2>2, <2>3
<1>5. After(t, After(<<u>>, v)) =
        [b \in DOMAIN v |-> IF b \in Changes(t) THEN t[LastOf(t, b)].writes[b]
                            ELSE IF b \in DOMAIN u.writes THEN u.writes[b] ELSE v[b]]
  BY <1>2 DEF After
<1>6. After(s, v) = After(t, After(<<u>>, v))
  BY <1>3, <1>4, <1>5 DEF After
<1> QED BY <1>6 DEF t, u

\* The values of some bits.
Byte == 0..255
Bytes(d) == [d -> Byte]

\* Writing the bits of u over those of v.
Over(u, v) == [b \in DOMAIN v |-> IF b \in DOMAIN u THEN u[b] ELSE v[b]]

\* The updates of a call on a pin; those that an interrupt divides are of its timer.
Writes(p) == UNION {Bytes(d) : d \in SUBSET BitsOf(p)}
Groups(p) == [whole : BOOLEAN, writes : Writes(p)]
OfPin(s, p) ==
  /\ s \in Seq(Groups(p))
  /\ \A i \in DOMAIN s : s[i].whole = FALSE => OnTimer(p) /\ DOMAIN s[i].writes = {TimerBit(p)}

LEMMA AfterGroup ==
  ASSUME NEW w, NEW v
  PROVE  After(Protected(w), v) = Over(w, v) /\ After(Open(w), v) = Over(w, v)
<1> DEFINE g == [whole |-> TRUE, writes |-> w]
           h == [whole |-> FALSE, writes |-> w]
<1>1. g.writes = w /\ h.writes = w
  OBVIOUS
<1>2. Protected(w) = <<g>> /\ Open(w) = <<h>>
  BY DEF Protected, Open
<1> HIDE DEF g, h
<1> QED BY <1>1, <1>2, AfterOne DEF Over

LEMMA AfterJoined ==
  ASSUME NEW S, NEW w, NEW s \in Seq(S), NEW v
  PROVE  /\ After(Protected(w) \o s, v) = After(s, Over(w, v))
         /\ After(Open(w) \o s, v) = After(s, Over(w, v))
<1> SUFFICES ASSUME NEW g, <<g>> \in {Protected(w), Open(w)}
             PROVE  After(<<g>> \o s, v) = After(s, Over(w, v))
  BY DEF Protected, Open
<1> DEFINE r == <<g>> \o s
           T == S \cup {g}
<1>1. r \in Seq(T) /\ r # <<>> /\ Head(r) = g /\ Tail(r) = s
  <2>1. <<g>> \in Seq(T) /\ s \in Seq(T)
    OBVIOUS
  <2>2. r \in Seq(T) /\ Len(r) = Len(<<g>>) + Len(s) /\ Len(<<g>>) = 1 /\ Len(s) \in Nat
    BY <2>1
  <2>3. r # <<>> /\ Head(r) = g
    BY <2>2
  <2>4. Tail(r) = s
    BY <2>1
  <2> QED BY <2>2, <2>3, <2>4
<1> HIDE DEF r, T
<1>2. After(r, v) = After(Tail(r), After(<<Head(r)>>, v))
  BY <1>1, AfterRest, Zenon
<1>3. After(<<g>>, v) = Over(w, v)
  BY AfterGroup
<1> QED BY <1>1, <1>2, <1>3 DEF r

LEMMA OverIs ==
  ASSUME NEW B, NEW d \in SUBSET B, NEW u \in Bytes(d), NEW v \in Bytes(B)
  PROVE  /\ Over(u, v) \in Bytes(B)
         /\ \A b \in B : Over(u, v)[b] = IF b \in d THEN u[b] ELSE v[b]
  BY DEF Over, Bytes

LEMMA GroupOf ==
  ASSUME PinsBoardOK, NEW p \in used, NEW d \in SUBSET BitsOf(p), NEW w \in Bytes(d)
  PROVE  /\ OfPin(Protected(w), p)
         /\ OnTimer(p) /\ d = {TimerBit(p)} => OfPin(Open(w), p)
<1>1. w \in Writes(p)
  BY DEF Writes
<1> DEFINE g == [whole |-> TRUE, writes |-> w]
           h == [whole |-> FALSE, writes |-> w]
<1>2. g \in Groups(p) /\ h \in Groups(p)
  BY <1>1 DEF Groups
<1>3. g.whole = TRUE /\ h.whole = FALSE /\ h.writes = w
  OBVIOUS
<1>4. Protected(w) = <<g>> /\ Open(w) = <<h>>
  BY DEF Protected, Open
<1> HIDE DEF g, h
<1>5. \A i \in DOMAIN <<g>> : <<g>>[i].whole = TRUE
  BY <1>3
<1>6. \A i \in DOMAIN <<h>> : <<h>>[i].writes = w
  BY <1>3
<1>7. <<g>> \in Seq(Groups(p)) /\ <<h>> \in Seq(Groups(p))
  BY <1>2
<1>8. DOMAIN w = d
  BY DEF Bytes
<1> QED BY <1>4, <1>5, <1>6, <1>7, <1>8, Zenon DEF OfPin

LEMMA OfPinJoined ==
  ASSUME NEW p, NEW s, NEW t, OfPin(s, p), OfPin(t, p)
  PROVE  OfPin(s \o t, p)
<1>1. s \in Seq(Groups(p)) /\ t \in Seq(Groups(p))
  BY DEF OfPin
<1> DEFINE r == s \o t
<1>2. r \in Seq(Groups(p))
  BY <1>1
<1>3. \A i \in DOMAIN r : (\E j \in DOMAIN s : r[i] = s[j]) \/ (\E j \in DOMAIN t : r[i] = t[j])
  BY <1>1
<1> HIDE DEF r
<1>4. OfPin(r, p)
  <2>1. \A i \in DOMAIN r : r[i].whole = FALSE => OnTimer(p) /\ DOMAIN r[i].writes = {TimerBit(p)}
    <3> SUFFICES ASSUME NEW i \in DOMAIN r, r[i].whole = FALSE
                 PROVE  OnTimer(p) /\ DOMAIN r[i].writes = {TimerBit(p)}
      OBVIOUS
    <3> QED BY <1>3, Zenon DEF OfPin
  <2> QED BY <1>2, <2>1, Zenon DEF OfPin
<1> QED BY <1>4 DEF r

LEMMA OfPinRest ==
  ASSUME NEW p, NEW s, OfPin(s, p), s # <<>>
  PROVE  /\ OfPin(Tail(s), p)
         /\ Head(s) \in Groups(p)
         /\ Head(s).whole = FALSE => OnTimer(p) /\ DOMAIN Head(s).writes = {TimerBit(p)}
<1>1. s \in Seq(Groups(p))
  BY DEF OfPin
<1>2. Tail(s) \in Seq(Groups(p)) /\ 1 \in DOMAIN s /\ Head(s) = s[1] /\ Head(s) \in Groups(p)
  BY <1>1
<1>3. \A i \in DOMAIN Tail(s) : i + 1 \in DOMAIN s /\ Tail(s)[i] = s[i + 1]
  BY <1>1
<1> DEFINE t == Tail(s)
<1> HIDE DEF t
<1>4. \A i \in DOMAIN t : \E j \in DOMAIN s : t[i] = s[j]
  BY <1>3 DEF t
<1>5. OfPin(t, p)
  <2>1. \A i \in DOMAIN t : t[i].whole = FALSE => OnTimer(p) /\ DOMAIN t[i].writes = {TimerBit(p)}
    <3> SUFFICES ASSUME NEW i \in DOMAIN t, t[i].whole = FALSE
                 PROVE  OnTimer(p) /\ DOMAIN t[i].writes = {TimerBit(p)}
      OBVIOUS
    <3> QED BY <1>4, Zenon DEF OfPin
  <2> QED BY <1>2, <2>1, Zenon DEF OfPin, t
<1>6. Head(s).whole = FALSE => OnTimer(p) /\ DOMAIN Head(s).writes = {TimerBit(p)}
  BY <1>2, Zenon DEF OfPin
<1> QED BY <1>2, <1>5, <1>6 DEF t

-----------------------------------------------------------------------------
(* Pins: what the calls make of the bits, and what they ask *)

\* What pinMode() writes, and what it makes of its pin.
LEMMA PinModeDoes ==
  ASSUME PinsBoardOK, NEW p \in used, NEW mode \in {INPUT, OUTPUT, INPUT_PULLUP},
         NEW v \in Bytes(Bits)
  PROVE  \E d \in SUBSET {ModeBit(p), LevelBit(p)} : \E w \in Bytes(d) :
           /\ PinMode(p, mode) = Protected(w)
           /\ Over(w, v) \in Bytes(Bits)
           /\ \A b \in Bits \ {ModeBit(p), LevelBit(p)} : Over(w, v)[b] = v[b]
           /\ Over(w, v)[ModeBit(p)] = IF mode = OUTPUT THEN 1 ELSE 0
           /\ Over(w, v)[LevelBit(p)] = IF mode = OUTPUT THEN v[LevelBit(p)]
                                        ELSE IF mode = INPUT_PULLUP THEN 1 ELSE 0
<1> DEFINE m == ModeBit(p)
           l == LevelBit(p)
           two == {m, l}
<1>1. m # l /\ {m, l} \subseteq Bits
  BY BitsApart, Zenon
<1>2. PinOf(p) # NOT_A_PIN
  BY PinsApart, NotInTables
<1>3. DDR(PinOf(p)) = m /\ PORT(PinOf(p)) = l
  BY DEF ModeBit, LevelBit
<1> HIDE DEF m, l
<1>4. CASE mode = OUTPUT
  <2> DEFINE w == Setting(m, 1)
             d == {m}
  <2>1. PinMode(p, mode) = Protected(w)
    BY <1>2, <1>3, <1>4 DEF PinMode, PinModeAt, OUTPUT, INPUT, INPUT_PULLUP
  <2>2. d \in SUBSET Bits /\ d \in SUBSET two /\ w \in Bytes(d) /\ w[m] = 1
    BY <1>1 DEF Setting, Bytes, Byte
  <2> HIDE DEF w, d
  <2>3. Over(w, v) \in Bytes(Bits)
        /\ \A b \in Bits : Over(w, v)[b] = IF b \in d THEN w[b] ELSE v[b]
    BY <2>2, OverIs
  <2>4. (\A b \in Bits \ {m, l} : Over(w, v)[b] = v[b])
        /\ Over(w, v)[m] = 1 /\ Over(w, v)[l] = v[l]
    BY <1>1, <2>2, <2>3 DEF d
  <2>5. PinMode(p, mode) = Protected(w) /\ Over(w, v) \in Bytes(Bits)
        /\ (\A b \in Bits \ {m, l} : Over(w, v)[b] = v[b])
        /\ Over(w, v)[m] = (IF mode = OUTPUT THEN 1 ELSE 0)
        /\ Over(w, v)[l] = (IF mode = OUTPUT THEN v[l] ELSE IF mode = INPUT_PULLUP THEN 1 ELSE 0)
    BY <1>4, <2>1, <2>3, <2>4, Zenon
  <2> QED BY <2>2, <2>5, Zenon DEF m, l
<1>5. CASE mode # OUTPUT
  <2> DEFINE pull == IF mode = INPUT_PULLUP THEN 1 ELSE 0
             w == Input(PinOf(p), pull)
  <2>1. PinMode(p, mode) = Protected(w)
    BY <1>2, <1>5, SMT DEF PinMode, PinModeAt, OUTPUT, INPUT, INPUT_PULLUP, LOW, HIGH
  <2>2. two \in SUBSET Bits /\ w \in Bytes(two) /\ w[m] = 0 /\ w[l] = pull
    BY <1>1, <1>3 DEF Input, Bytes, Byte
  <2> HIDE DEF w, two
  <2>3. Over(w, v) \in Bytes(Bits)
        /\ \A b \in Bits : Over(w, v)[b] = IF b \in two THEN w[b] ELSE v[b]
    BY <2>2, OverIs
  <2>4. (\A b \in Bits \ {m, l} : Over(w, v)[b] = v[b])
        /\ Over(w, v)[m] = 0 /\ Over(w, v)[l] = pull
    BY <1>1, <2>2, <2>3 DEF two
  <2>5. PinMode(p, mode) = Protected(w) /\ Over(w, v) \in Bytes(Bits)
        /\ (\A b \in Bits \ {m, l} : Over(w, v)[b] = v[b])
        /\ Over(w, v)[m] = (IF mode = OUTPUT THEN 1 ELSE 0)
        /\ Over(w, v)[l] = (IF mode = OUTPUT THEN v[l] ELSE IF mode = INPUT_PULLUP THEN 1 ELSE 0)
    BY <1>5, <2>1, <2>3, <2>4, Zenon
  <2> QED BY <2>2, <2>5, Zenon DEF m, l, two
<1> QED BY <1>4, <1>5

\* Setting one bit.
Put(v, bit, value) == [v EXCEPT ![bit] = value]

LEMMA PutIs ==
  ASSUME NEW B, NEW bit \in B, NEW value \in Byte, NEW v \in Bytes(B)
  PROVE  /\ Put(v, bit, value) \in Bytes(B)
         /\ Put(v, bit, value)[bit] = value
         /\ \A b \in B \ {bit} : Put(v, bit, value)[b] = v[b]
  BY DEF Put, Bytes

LEMMA SettingDoes ==
  ASSUME NEW B, NEW bit \in B, NEW value \in Byte, NEW v \in Bytes(B)
  PROVE  /\ Setting(bit, value) \in Bytes({bit})
         /\ Over(Setting(bit, value), v) = Put(v, bit, value)
         /\ Over(Setting(bit, value), v) \in Bytes(B)
  BY DEF Setting, Over, Put, Bytes

\* turnOffPWM() turns off the output of a pin that has one.
PWMOff(p, v) == IF OnTimer(p) THEN Put(v, TimerBit(p), 0) ELSE v

LEMMA TurnOffPWMDoes ==
  ASSUME PinsBoardOK, NEW p \in used, NEW v \in Bytes(Bits)
  PROVE  /\ PWMOff(p, v) \in Bytes(Bits)
         /\ After(TurnOffPWM(p), v) = PWMOff(p, v)
         /\ OfPin(TurnOffPWM(p), p)
         /\ \A S, s : s \in Seq(S) => After(TurnOffPWM(p) \o s, v) = After(s, PWMOff(p, v))
<1>1. TimerBit(p) \in BitsOf(p) /\ TimerBit(p) \in Bits
  BY BitsApart, Zenon
<1>2. CASE ~OnTimer(p)
  <2>1. TurnOffPWM(p) = <<>> /\ PWMOff(p, v) = v
    BY <1>2 DEF TurnOffPWM, OnTimer, PWMOff
  <2>2. \A S, s : s \in Seq(S) => <<>> \o s = s
    OBVIOUS
  <2>3. OfPin(<<>>, p)
    BY DEF OfPin
  <2>4. After(<<>>, v) = v
    BY AfterNothing DEF Bytes
  <2> QED BY <2>1, <2>2, <2>3, <2>4
<1>3. CASE OnTimer(p)
  <2> DEFINE t == TimerBit(p)
             w == Setting(t, 0)
  <2>1. TurnOffPWM(p) = Open(w) /\ PWMOff(p, v) = Put(v, t, 0)
    BY <1>3 DEF TurnOffPWM, OnTimer, PWMOff, TimerBit
  <2>2. w \in Bytes({t}) /\ Over(w, v) = Put(v, t, 0) /\ Over(w, v) \in Bytes(Bits)
    <3>1. 0 \in Byte
      BY DEF Byte
    <3> HIDE DEF t
    <3> QED BY <1>1, <3>1, SettingDoes, Zenon DEF t
  <2> HIDE DEF w
  <2>3. OfPin(Open(w), p)
    <3>1. {t} \in SUBSET BitsOf(p)
      BY <1>1
    <3> QED BY <1>3, <2>2, <3>1, GroupOf, Zenon
  <2>4. After(Open(w), v) = Over(w, v)
    BY AfterGroup
  <2>5. \A S, s : s \in Seq(S) => After(Open(w) \o s, v) = After(s, Over(w, v))
    BY AfterJoined, Zenon
  <2> QED BY <2>1, <2>2, <2>3, <2>4, <2>5, Zenon
<1> QED BY <1>2, <1>3

LEMMA DigitalWriteDoes ==
  ASSUME PinsBoardOK, NEW p \in used, NEW level \in {LOW, HIGH}, NEW v \in Bytes(Bits)
  PROVE  /\ OfPin(DigitalWrite(p, level), p)
         /\ After(DigitalWrite(p, level), v) = Put(PWMOff(p, v), LevelBit(p), level)
         /\ After(DigitalWrite(p, level), v) \in Bytes(Bits)
<1> DEFINE l == LevelBit(p)
           w == Setting(l, level)
<1>1. l \in Bits /\ {l} \in SUBSET BitsOf(p)
  BY BitsApart
<1>2. level \in Byte
  BY DEF Byte, LOW, HIGH
<1>3. PWMOff(p, v) \in Bytes(Bits) /\ OfPin(TurnOffPWM(p), p)
      /\ \A S, s : s \in Seq(S) => After(TurnOffPWM(p) \o s, v) = After(s, PWMOff(p, v))
  BY TurnOffPWMDoes, Zenon
<1>4. w \in Bytes({l}) /\ Over(w, PWMOff(p, v)) = Put(PWMOff(p, v), l, level)
      /\ Over(w, PWMOff(p, v)) \in Bytes(Bits)
  <2> DEFINE q == PWMOff(p, v)
  <2> HIDE DEF q, l
  <2>1. q \in Bytes(Bits) /\ l \in Bits
    BY <1>1, <1>3 DEF q
  <2>2. w \in Bytes({l}) /\ Over(w, q) = Put(q, l, level)
        /\ Over(w, q) \in Bytes(Bits)
    BY <1>2, <2>1, SettingDoes, Zenon
  <2> QED BY <2>2 DEF q
<1>5. DigitalWrite(p, level) = TurnOffPWM(p) \o Protected(w)
  BY DEF DigitalWrite, LevelBit
<1> HIDE DEF w
<1>6. OfPin(Protected(w), p)
  BY <1>1, <1>4, GroupOf, Zenon
<1>7. OfPin(TurnOffPWM(p) \o Protected(w), p)
  BY <1>3, <1>6, OfPinJoined, Zenon
<1>8. After(TurnOffPWM(p) \o Protected(w), v) = Over(w, PWMOff(p, v))
  <2>1. Protected(w) \in Seq(Groups(p))
    BY <1>6 DEF OfPin
  <2> QED BY <1>3, <2>1, AfterGroup, Zenon
<1> QED BY <1>4, <1>5, <1>7, <1>8, Zenon

LEMMA ConnectDoes ==
  ASSUME PinsBoardOK, NEW p \in used, OnTimer(p), NEW value \in Byte, NEW v \in Bytes(Bits)
  PROVE  /\ OfPin(Connect(p, value), p)
         /\ After(Connect(p, value), v) =
              Put(Put(v, TimerBit(p), 1), DutyBit(p), value)
         /\ After(Connect(p, value), v) \in Bytes(Bits)
<1> DEFINE t == TimerBit(p)
           o == DutyBit(p)
           w == Setting(t, 1)
           x == Setting(o, value)
<1>1. t \in Bits /\ {t} \in SUBSET BitsOf(p) /\ o \in Bits /\ {o} \in SUBSET BitsOf(p)
  BY BitsApart
<1> HIDE DEF t, o
<1>2. w \in Bytes({t}) /\ Over(w, v) = Put(v, t, 1) /\ Over(w, v) \in Bytes(Bits)
  <2>1. 1 \in Byte
    BY DEF Byte
  <2> QED BY <1>1, <2>1, SettingDoes, Zenon
<1>3. x \in Bytes({o}) /\ Over(x, Over(w, v)) = Put(Over(w, v), o, value)
      /\ Over(x, Over(w, v)) \in Bytes(Bits)
  <2> DEFINE q == Over(w, v)
  <2>1. q \in Bytes(Bits)
    BY <1>2
  <2> HIDE DEF q
  <2>2. x \in Bytes({o}) /\ Over(x, q) = Put(q, o, value) /\ Over(x, q) \in Bytes(Bits)
    BY <1>1, <2>1, SettingDoes, Zenon
  <2> QED BY <2>2 DEF q
<1>4. Connect(p, value) = Open(w) \o Protected(x)
  BY DEF Connect, TimerBit, DutyBit, t, o
<1> HIDE DEF w, x
<1>5. OfPin(Open(w), p) /\ OfPin(Protected(x), p)
  BY <1>1, <1>2, <1>3, GroupOf, Zenon DEF t
<1>6. OfPin(Open(w) \o Protected(x), p)
  BY <1>5, OfPinJoined, Zenon
<1>7. After(Open(w) \o Protected(x), v) = Over(x, Over(w, v))
  <2>1. Protected(x) \in Seq(Groups(p))
    BY <1>5 DEF OfPin
  <2>2. After(Open(w) \o Protected(x), v) = After(Protected(x), Over(w, v))
    BY <2>1, AfterJoined, Zenon
  <2> QED BY <2>2, AfterGroup, Zenon
<1> QED BY <1>2, <1>3, <1>4, <1>6, <1>7, Zenon DEF t, o

\* The bits of one pin are four bits.
LEMMA FourBits ==
  ASSUME PinsBoardOK, NEW p \in used
  PROVE  /\ BitsOf(p) = {ModeBit(p), LevelBit(p), TimerBit(p), DutyBit(p)} /\ BitsOf(p) \subseteq Bits
         /\ ModeBit(p) # LevelBit(p) /\ ModeBit(p) # TimerBit(p) /\ ModeBit(p) # DutyBit(p)
         /\ LevelBit(p) # TimerBit(p) /\ LevelBit(p) # DutyBit(p) /\ TimerBit(p) # DutyBit(p)
  BY BitsApart, Zenon

\* The duties that are levels, and all of them where there is no timer.
IsLevel(p, value) == value \in {0, 255} \/ ~OnTimer(p)

\* What a call makes of the bits v.
Makes(p, c, v, w) ==
  /\ w \in Bytes(Bits)
  /\ \A b \in Bits \ BitsOf(p) : w[b] = v[b]
  /\ c[1] = "pinMode" =>
       /\ w[ModeBit(p)] = IF c[2] = OUTPUT THEN 1 ELSE 0
       /\ w[LevelBit(p)] = IF c[2] = OUTPUT THEN v[LevelBit(p)]
                           ELSE IF c[2] = INPUT_PULLUP THEN 1 ELSE 0
       /\ w[TimerBit(p)] = v[TimerBit(p)] /\ w[DutyBit(p)] = v[DutyBit(p)]
  /\ c[1] = "digitalWrite" =>
       /\ w[ModeBit(p)] = v[ModeBit(p)] /\ w[LevelBit(p)] = c[2]
       /\ OnTimer(p) => w[TimerBit(p)] = 0
  /\ c[1] = "digitalRead" =>
       /\ w[ModeBit(p)] = v[ModeBit(p)] /\ w[LevelBit(p)] = v[LevelBit(p)]
       /\ OnTimer(p) => w[TimerBit(p)] = 0
  /\ c[1] = "analogWrite" =>
       /\ w[ModeBit(p)] = 1
       /\ IsLevel(p, c[2]) =>
            w[LevelBit(p)] = Nearest(c[2]) /\ (OnTimer(p) => w[TimerBit(p)] = 0)
       /\ ~IsLevel(p, c[2]) =>
            w[LevelBit(p)] = v[LevelBit(p)] /\ w[TimerBit(p)] = 1 /\ w[DutyBit(p)] = c[2]

LEMMA PWMOffIs ==
  ASSUME PinsBoardOK, NEW p \in used, NEW v \in Bytes(Bits)
  PROVE  /\ PWMOff(p, v) \in Bytes(Bits)
         /\ \A b \in Bits \ {TimerBit(p)} : PWMOff(p, v)[b] = v[b]
         /\ OnTimer(p) => PWMOff(p, v)[TimerBit(p)] = 0
<1>1. TimerBit(p) \in Bits
  BY FourBits
<1>2. 0 \in Byte
  BY DEF Byte
<1> DEFINE t == TimerBit(p)
           q == Put(v, t, 0)
<1> HIDE DEF t
<1>3. q \in Bytes(Bits) /\ q[t] = 0 /\ \A b \in Bits \ {t} : q[b] = v[b]
  BY <1>1, <1>2, PutIs DEF t
<1> HIDE DEF q
<1>4. PWMOff(p, v) = IF OnTimer(p) THEN q ELSE v
  BY DEF PWMOff, q, t
<1> QED BY <1>3, <1>4 DEF t

LEMMA LevelMade ==
  ASSUME PinsBoardOK, NEW p \in used, NEW level \in {LOW, HIGH}, NEW v \in Bytes(Bits)
  PROVE  LET w == After(DigitalWrite(p, level), v)
         IN  /\ w \in Bytes(Bits)
             /\ \A b \in Bits \ {TimerBit(p), LevelBit(p)} : w[b] = v[b]
             /\ w[LevelBit(p)] = level
             /\ OnTimer(p) => w[TimerBit(p)] = 0
<1> DEFINE l == LevelBit(p)
           q == PWMOff(p, v)
           w == Put(q, l, level)
<1>1. After(DigitalWrite(p, level), v) = w
  BY DigitalWriteDoes, Zenon
<1>2. q \in Bytes(Bits) /\ (\A b \in Bits \ {TimerBit(p)} : q[b] = v[b])
      /\ (OnTimer(p) => q[TimerBit(p)] = 0)
  BY PWMOffIs, Zenon
<1>3. l \in Bits /\ level \in Byte /\ TimerBit(p) \in Bits /\ l # TimerBit(p)
  BY FourBits DEF LOW, HIGH, Byte
<1> HIDE DEF q, l
<1>4. w \in Bytes(Bits) /\ w[l] = level /\ \A b \in Bits \ {l} : w[b] = q[b]
  BY <1>2, <1>3, PutIs
<1> HIDE DEF w
<1>5. /\ w \in Bytes(Bits)
      /\ \A b \in Bits \ {TimerBit(p), l} : w[b] = v[b]
      /\ w[l] = level
      /\ OnTimer(p) => w[TimerBit(p)] = 0
  BY <1>2, <1>3, <1>4
<1> QED BY <1>1, <1>5, Zenon DEF l

LEMMA CallMakes ==
  ASSUME PinsBoardOK, NEW p \in used, NEW c \in Calls, NEW v \in Bytes(Bits)
  PROVE  Makes(p, c, v, After(Updates(p, c), v)) /\ OfPin(Updates(p, c), p)
<1> DEFINE m == ModeBit(p)
           l == LevelBit(p)
           t == TimerBit(p)
           o == DutyBit(p)
           k == c[1]
           x == c[2]
<1>1. BitsOf(p) = {m, l, t, o} /\ BitsOf(p) \subseteq Bits /\ {m, l, t, o} \subseteq Bits
      /\ m # l /\ m # t /\ m # o /\ l # t /\ l # o /\ t # o
  BY FourBits, Zenon
<1>2. \/ k = "pinMode" /\ x \in {INPUT, OUTPUT, INPUT_PULLUP}
      \/ k = "digitalWrite" /\ x \in {LOW, HIGH}
      \/ k = "digitalRead"
      \/ k = "analogWrite" /\ x \in Byte
  <2>1. \A d \in Duties : d \in Byte
    BY PinsAssumption DEF Byte
  <2>2. \/ c \in {"pinMode"} \X {INPUT, OUTPUT, INPUT_PULLUP}
        \/ c \in {"digitalWrite"} \X {LOW, HIGH}
        \/ c \in {<<"digitalRead", LOW>>}
        \/ c \in {"analogWrite"} \X Duties
    BY Zenon DEF Calls
  <2> QED BY <2>1, <2>2
<1>3. /\ k = "pinMode" => Updates(p, c) = PinMode(p, x)
      /\ k = "digitalWrite" => Updates(p, c) = DigitalWrite(p, x)
      /\ k = "digitalRead" => Updates(p, c) = DigitalRead(p)
      /\ k = "analogWrite" => Updates(p, c) = AnalogWrite(p, x)
  BY DEF Updates
<1>4. "pinMode" # "digitalWrite" /\ "pinMode" # "digitalRead" /\ "pinMode" # "analogWrite"
      /\ "digitalWrite" # "digitalRead" /\ "digitalWrite" # "analogWrite"
      /\ "digitalRead" # "analogWrite"
  OBVIOUS
<1> HIDE DEF m, l, t, o, k, x
<1>5. CASE k = "pinMode"
  <2>1. PICK d \in SUBSET {m, l} : \E u \in Bytes(d) :
           /\ PinMode(p, x) = Protected(u)
           /\ Over(u, v) \in Bytes(Bits)
           /\ \A b \in Bits \ {m, l} : Over(u, v)[b] = v[b]
           /\ Over(u, v)[m] = IF x = OUTPUT THEN 1 ELSE 0
           /\ Over(u, v)[l] = IF x = OUTPUT THEN v[l] ELSE IF x = INPUT_PULLUP THEN 1 ELSE 0
    BY <1>2, <1>4, <1>5, PinModeDoes, Zenon DEF m, l
  <2>2. PICK u \in Bytes(d) :
           /\ PinMode(p, x) = Protected(u)
           /\ Over(u, v) \in Bytes(Bits)
           /\ \A b \in Bits \ {m, l} : Over(u, v)[b] = v[b]
           /\ Over(u, v)[m] = IF x = OUTPUT THEN 1 ELSE 0
           /\ Over(u, v)[l] = IF x = OUTPUT THEN v[l] ELSE IF x = INPUT_PULLUP THEN 1 ELSE 0
    BY <2>1, Zenon
  <2>3. d \in SUBSET BitsOf(p)
    BY <1>1
  <2>4. OfPin(Updates(p, c), p)
    BY <1>3, <1>5, <2>2, <2>3, GroupOf, Zenon
  <2>5. After(Updates(p, c), v) = Over(u, v)
    BY <1>3, <1>5, <2>2, AfterGroup, Zenon
  <2> DEFINE w == Over(u, v)
  <2> HIDE DEF w
  <2>6. w[t] = v[t] /\ w[o] = v[o] /\ \A b \in Bits \ BitsOf(p) : w[b] = v[b]
    BY <1>1, <2>2 DEF w
  <2>7. Makes(p, c, v, w)
    BY <1>4, <1>5, <2>2, <2>6, Zenon DEF Makes, m, l, t, o, k, x, w
  <2> QED BY <2>4, <2>5, <2>7 DEF w
<1>6. CASE k = "digitalWrite"
  <2> DEFINE w == After(DigitalWrite(p, x), v)
  <2>1. /\ w \in Bytes(Bits)
        /\ \A b \in Bits \ {t, l} : w[b] = v[b]
        /\ w[l] = x
        /\ OnTimer(p) => w[t] = 0
    BY <1>2, <1>4, <1>6, LevelMade, Zenon DEF l, t
  <2>2. OfPin(DigitalWrite(p, x), p)
    BY <1>2, <1>4, <1>6, DigitalWriteDoes, Zenon
  <2>3. Updates(p, c) = DigitalWrite(p, x)
    BY <1>3, <1>6
  <2> HIDE DEF w
  <2>4. w[m] = v[m] /\ \A b \in Bits \ BitsOf(p) : w[b] = v[b]
    BY <1>1, <2>1
  <2>5. Makes(p, c, v, w)
    BY <1>4, <1>6, <2>1, <2>4, Zenon DEF Makes, m, l, t, o, k, x
  <2> QED BY <2>2, <2>3, <2>5 DEF w
<1>7. CASE k = "digitalRead"
  <2> DEFINE w == PWMOff(p, v)
  <2>1. Updates(p, c) = TurnOffPWM(p)
    BY <1>3, <1>7 DEF DigitalRead
  <2>2. After(TurnOffPWM(p), v) = w /\ OfPin(TurnOffPWM(p), p)
    BY TurnOffPWMDoes, Zenon
  <2>3. w \in Bytes(Bits) /\ (\A b \in Bits \ {t} : w[b] = v[b]) /\ (OnTimer(p) => w[t] = 0)
    BY PWMOffIs, Zenon DEF t
  <2> HIDE DEF w
  <2>4. w[m] = v[m] /\ w[l] = v[l] /\ \A b \in Bits \ BitsOf(p) : w[b] = v[b]
    BY <1>1, <2>3
  <2>5. Makes(p, c, v, w)
    BY <1>4, <1>7, <2>3, <2>4, Zenon DEF Makes, m, l, t, o, k, x
  <2> QED BY <2>1, <2>2, <2>5
<1>8. CASE k = "analogWrite"
  <2>1. PICK d \in SUBSET {m, l} : \E u \in Bytes(d) :
           /\ PinMode(p, OUTPUT) = Protected(u)
           /\ Over(u, v) \in Bytes(Bits)
           /\ \A b \in Bits \ {m, l} : Over(u, v)[b] = v[b]
           /\ Over(u, v)[m] = IF OUTPUT = OUTPUT THEN 1 ELSE 0
           /\ Over(u, v)[l] = IF OUTPUT = OUTPUT THEN v[l]
                              ELSE IF OUTPUT = INPUT_PULLUP THEN 1 ELSE 0
    <3>1. OUTPUT \in {INPUT, OUTPUT, INPUT_PULLUP}
      OBVIOUS
    <3> QED BY <3>1, PinModeDoes, Zenon DEF m, l
  <2>2. PICK u \in Bytes(d) :
           /\ PinMode(p, OUTPUT) = Protected(u)
           /\ Over(u, v) \in Bytes(Bits)
           /\ \A b \in Bits \ {m, l} : Over(u, v)[b] = v[b]
           /\ Over(u, v)[m] = 1
           /\ Over(u, v)[l] = v[l]
    BY <2>1, Zenon
  <2> DEFINE q == Over(u, v)
  <2>3. d \in SUBSET BitsOf(p)
    BY <1>1
  <2>4. OfPin(Protected(u), p)
    BY <2>2, <2>3, GroupOf, Zenon
  <2>5. q \in Bytes(Bits) /\ q[m] = 1 /\ q[l] = v[l] /\ \A b \in Bits \ {m, l} : q[b] = v[b]
    BY <2>2
  <2>6. \A s : OfPin(s, p) => /\ After(Protected(u) \o s, v) = After(s, q)
                              /\ OfPin(Protected(u) \o s, p)
    <3> SUFFICES ASSUME NEW s, OfPin(s, p)
                 PROVE  After(Protected(u) \o s, v) = After(s, q) /\ OfPin(Protected(u) \o s, p)
      OBVIOUS
    <3>1. s \in Seq(Groups(p))
      BY DEF OfPin
    <3>2. After(Protected(u) \o s, v) = After(s, q)
      BY <3>1, AfterJoined, Zenon
    <3>3. OfPin(Protected(u) \o s, p)
      BY <2>4, OfPinJoined, Zenon
    <3> QED BY <3>2, <3>3
  <2> HIDE DEF q
  <2>7. CASE IsLevel(p, x)
    <3> DEFINE s == DigitalWrite(p, Nearest(x))
               w == After(s, q)
    <3>1. Updates(p, c) = Protected(u) \o s
      BY <1>3, <1>8, <2>2, <2>7 DEF AnalogWrite, IsLevel, OnTimer
    <3>2. Nearest(x) \in {LOW, HIGH}
      BY DEF Nearest
    <3>3. OfPin(s, p)
      BY <2>5, <3>2, DigitalWriteDoes, Zenon
    <3>4. /\ w \in Bytes(Bits)
          /\ \A b \in Bits \ {t, l} : w[b] = q[b]
          /\ w[l] = Nearest(x)
          /\ OnTimer(p) => w[t] = 0
      BY <2>5, <3>2, LevelMade, Zenon DEF l, t
    <3>5. After(Updates(p, c), v) = w /\ OfPin(Updates(p, c), p)
      BY <2>6, <3>1, <3>3, Zenon
    <3> HIDE DEF w, s
    <3>6. w[m] = 1 /\ \A b \in Bits \ BitsOf(p) : w[b] = v[b]
      BY <1>1, <2>5, <3>4
    <3>7. Makes(p, c, v, w)
      BY <1>4, <1>8, <2>7, <3>4, <3>6, Zenon DEF Makes, m, l, t, o, k, x
    <3> QED BY <3>5, <3>7
  <2>8. CASE ~IsLevel(p, x)
    <3> DEFINE s == Connect(p, x)
               q2 == Put(q, t, 1)
               w == Put(q2, o, x)
    <3>1. Updates(p, c) = Protected(u) \o s /\ OnTimer(p)
      BY <1>3, <1>8, <2>2, <2>8 DEF AnalogWrite, IsLevel, OnTimer
    <3>2. x \in Byte /\ 1 \in Byte
      BY <1>2, <1>4, <1>8 DEF Byte
    <3>3. OfPin(s, p) /\ After(s, q) = w
      BY <2>5, <3>1, <3>2, ConnectDoes, Zenon DEF t, o
    <3>4. q2 \in Bytes(Bits) /\ q2[t] = 1 /\ \A b \in Bits \ {t} : q2[b] = q[b]
      <4>1. t \in Bits
        BY <1>1
      <4> QED BY <2>5, <3>2, <4>1, PutIs
    <3> HIDE DEF q2
    <3>5. w \in Bytes(Bits) /\ w[o] = x /\ \A b \in Bits \ {o} : w[b] = q2[b]
      <4>1. o \in Bits
        BY <1>1
      <4> QED BY <3>2, <3>4, <4>1, PutIs
    <3>6. After(Updates(p, c), v) = w /\ OfPin(Updates(p, c), p)
      BY <2>6, <3>1, <3>3, Zenon
    <3> HIDE DEF w, s
    <3>7. w[m] = 1 /\ w[l] = v[l] /\ w[t] = 1 /\ \A b \in Bits \ BitsOf(p) : w[b] = v[b]
      BY <1>1, <2>5, <3>4, <3>5
    <3>8. Makes(p, c, v, w)
      BY <1>4, <1>8, <2>8, <3>5, <3>7, Zenon DEF Makes, m, l, t, o, k, x
    <3> QED BY <3>6, <3>8
  <2> QED BY <2>7, <2>8
<1> QED BY <1>2, <1>5, <1>6, <1>7, <1>8, Zenon

\* What a pin can be asked, and bits that do what it was asked.
Asked == [out : BOOLEAN, high : BOOLEAN, duty : {0} \cup Duties]
PortMeets(v, p, a) ==
  /\ v[ModeBit(p)] = 1 <=> a.out = TRUE
  /\ v[LevelBit(p)] = 1 <=> a.high = TRUE
DutyMeets(v, p, a) ==
  a.duty = IF OnTimer(p) /\ v[TimerBit(p)] = 1 THEN v[DutyBit(p)] ELSE 0

LEMMA CallKinds ==
  ASSUME NEW c \in Calls
  PROVE  \/ c[1] = "pinMode" /\ c[2] \in {INPUT, OUTPUT, INPUT_PULLUP}
         \/ c[1] = "digitalWrite" /\ c[2] \in {LOW, HIGH}
         \/ c[1] = "digitalRead"
         \/ c[1] = "analogWrite" /\ c[2] \in Duties
<1>1. \/ c \in {"pinMode"} \X {INPUT, OUTPUT, INPUT_PULLUP}
      \/ c \in {"digitalWrite"} \X {LOW, HIGH}
      \/ c \in {<<"digitalRead", LOW>>}
      \/ c \in {"analogWrite"} \X Duties
  BY Zenon DEF Calls
<1> QED BY <1>1

\* What each call asks.
LEMMA AsksIs ==
  ASSUME NEW p, NEW c \in Calls, NEW a \in Asked
  PROVE  /\ Asks(p, c, a) \in Asked
         /\ c[1] = "pinMode" =>
              /\ Asks(p, c, a).out = TRUE <=> c[2] = OUTPUT
              /\ Asks(p, c, a).high = TRUE <=>
                   IF c[2] = OUTPUT THEN a.high = TRUE ELSE c[2] = INPUT_PULLUP
              /\ Asks(p, c, a).duty = a.duty
         /\ c[1] = "digitalWrite" =>
              /\ Asks(p, c, a).out = a.out
              /\ Asks(p, c, a).high = TRUE <=> c[2] = HIGH
              /\ Asks(p, c, a).duty = 0
         /\ c[1] = "digitalRead" =>
              Asks(p, c, a).out = a.out /\ Asks(p, c, a).high = a.high /\ Asks(p, c, a).duty = 0
         /\ c[1] = "analogWrite" =>
              /\ Asks(p, c, a).out = TRUE
              /\ IsLevel(p, c[2]) =>
                   (Asks(p, c, a).high = TRUE <=> c[2] >= 128) /\ Asks(p, c, a).duty = 0
              /\ ~IsLevel(p, c[2]) =>
                   Asks(p, c, a).high = a.high /\ Asks(p, c, a).duty = c[2]
<1>1. /\ c[1] = "pinMode" => Asks(p, c, a) =
           IF c[2] = OUTPUT THEN [a EXCEPT !.out = TRUE]
           ELSE [a EXCEPT !.out = FALSE, !.high = (c[2] = INPUT_PULLUP)]
      /\ c[1] = "digitalWrite" => Asks(p, c, a) = [a EXCEPT !.high = (c[2] = HIGH), !.duty = 0]
      /\ c[1] = "digitalRead" => Asks(p, c, a) = [a EXCEPT !.duty = 0]
      /\ c[1] = "analogWrite" => Asks(p, c, a) =
           IF c[2] \in {0, 255} \/ TimerOf(p) = NOT_ON_TIMER
           THEN [out |-> TRUE, high |-> c[2] >= 128, duty |-> 0]
           ELSE [a EXCEPT !.out = TRUE, !.duty = c[2]]
  BY DEF Asks
<1>2. CASE c[1] = "pinMode"
  <2>1. CASE c[2] = OUTPUT
    <3>1. Asks(p, c, a) = [a EXCEPT !.out = TRUE]
      BY <1>1, <1>2, <2>1, Zenon
    <3>2. /\ [a EXCEPT !.out = TRUE] \in Asked
          /\ [a EXCEPT !.out = TRUE].out = TRUE
          /\ [a EXCEPT !.out = TRUE].high = a.high
          /\ [a EXCEPT !.out = TRUE].duty = a.duty
      BY DEF Asked
    <3> QED BY <1>2, <2>1, <3>1, <3>2
  <2>2. CASE c[2] # OUTPUT
    <3> DEFINE pull == c[2] = INPUT_PULLUP
               r == [a EXCEPT !.out = FALSE]
               s == [r EXCEPT !.high = pull]
    <3>1. Asks(p, c, a) = s
      BY <1>1, <1>2, <2>2
    <3>2. r \in Asked /\ r.out = FALSE /\ r.duty = a.duty
      BY DEF Asked
    <3>3. pull \in BOOLEAN
      OBVIOUS
    <3> HIDE DEF r, pull
    <3>4. s \in Asked /\ s.out = FALSE /\ s.high = pull /\ s.duty = a.duty
      BY <3>2, <3>3 DEF Asked
    <3> HIDE DEF s
    <3>5. (s.high = TRUE <=> c[2] = INPUT_PULLUP) /\ s.out # TRUE
      BY <3>4, Zenon DEF pull
    <3> QED BY <1>2, <2>2, <3>1, <3>4, <3>5
  <2> QED BY <2>1, <2>2
<1>3. CASE c[1] = "digitalWrite"
  <2> DEFINE up == c[2] = HIGH
             r == [a EXCEPT !.high = up]
             s == [r EXCEPT !.duty = 0]
  <2>1. Asks(p, c, a) = s
    BY <1>1, <1>3
  <2>2. up \in BOOLEAN
    OBVIOUS
  <2> HIDE DEF up
  <2>3. r \in Asked /\ r.out = a.out /\ r.high = up
    BY <2>2 DEF Asked
  <2> HIDE DEF r
  <2>4. s \in Asked /\ s.out = a.out /\ s.high = up /\ s.duty = 0
    BY <2>3 DEF Asked
  <2> HIDE DEF s
  <2>5. s.high = TRUE <=> c[2] = HIGH
    BY <2>4, Zenon DEF up
  <2> QED BY <1>3, <2>1, <2>4, <2>5
<1>4. CASE c[1] = "digitalRead"
  <2>1. /\ [a EXCEPT !.duty = 0] \in Asked
        /\ [a EXCEPT !.duty = 0].out = a.out
        /\ [a EXCEPT !.duty = 0].high = a.high
        /\ [a EXCEPT !.duty = 0].duty = 0
    BY DEF Asked
  <2> QED BY <1>1, <1>4, <2>1
<1>5. CASE c[1] = "analogWrite"
  <2>1. CASE IsLevel(p, c[2])
    <3> DEFINE up == c[2] >= 128
               s == [out |-> TRUE, high |-> up, duty |-> 0]
    <3>1. Asks(p, c, a) = s
      BY <1>1, <1>5, <2>1 DEF IsLevel, OnTimer
    <3>2. up \in BOOLEAN
      OBVIOUS
    <3> HIDE DEF up
    <3>3. s \in Asked /\ s.out = TRUE /\ s.high = up /\ s.duty = 0
      BY <3>2 DEF Asked
    <3> HIDE DEF s
    <3>4. s.high = TRUE <=> c[2] >= 128
      BY <3>3, Zenon DEF up
    <3> QED BY <1>5, <2>1, <3>1, <3>3, <3>4
  <2>2. CASE ~IsLevel(p, c[2])
    <3> DEFINE r == [a EXCEPT !.out = TRUE]
               s == [r EXCEPT !.duty = c[2]]
    <3>1. Asks(p, c, a) = s
      BY <1>1, <1>5, <2>2 DEF IsLevel, OnTimer
    <3>2. c[2] \in Duties
      BY <1>5, CallKinds
    <3>3. r \in Asked /\ r.out = TRUE /\ r.high = a.high
      BY DEF Asked
    <3> HIDE DEF r
    <3>4. s \in Asked /\ s.out = TRUE /\ s.high = a.high /\ s.duty = c[2]
      BY <3>2, <3>3 DEF Asked
    <3> HIDE DEF s
    <3> QED BY <1>5, <2>2, <3>1, <3>4
  <2> QED BY <2>1, <2>2
<1> QED BY <1>2, <1>3, <1>4, <1>5, CallKinds

\* A call makes its pin do what it asks.
LEMMA MakesMeets ==
  ASSUME NEW p, NEW c \in Calls, NEW a \in Asked, NEW v, NEW w, Makes(p, c, v, w)
  PROVE  /\ PortMeets(v, p, a) => PortMeets(w, p, Asks(p, c, a))
         /\ DutyMeets(v, p, a) => DutyMeets(w, p, Asks(p, c, a))
<1> DEFINE m == ModeBit(p)
           l == LevelBit(p)
           t == TimerBit(p)
           o == DutyBit(p)
           k == c[1]
           x == c[2]
           b == Asks(p, c, a)
<1>1. /\ k = "pinMode" =>
           /\ w[m] = IF x = OUTPUT THEN 1 ELSE 0
           /\ w[l] = IF x = OUTPUT THEN v[l] ELSE IF x = INPUT_PULLUP THEN 1 ELSE 0
           /\ w[t] = v[t] /\ w[o] = v[o]
      /\ k = "digitalWrite" => w[m] = v[m] /\ w[l] = x /\ (OnTimer(p) => w[t] = 0)
      /\ k = "digitalRead" => w[m] = v[m] /\ w[l] = v[l] /\ (OnTimer(p) => w[t] = 0)
      /\ k = "analogWrite" =>
           /\ w[m] = 1
           /\ IsLevel(p, x) => w[l] = Nearest(x) /\ (OnTimer(p) => w[t] = 0)
           /\ ~IsLevel(p, x) => w[l] = v[l] /\ w[t] = 1 /\ w[o] = x
  BY Zenon DEF Makes
<1>2. /\ k = "pinMode" =>
           /\ b.out = TRUE <=> x = OUTPUT
           /\ b.high = TRUE <=> IF x = OUTPUT THEN a.high = TRUE ELSE x = INPUT_PULLUP
           /\ b.duty = a.duty
      /\ k = "digitalWrite" => b.out = a.out /\ (b.high = TRUE <=> x = HIGH) /\ b.duty = 0
      /\ k = "digitalRead" => b.out = a.out /\ b.high = a.high /\ b.duty = 0
      /\ k = "analogWrite" =>
           /\ b.out = TRUE
           /\ IsLevel(p, x) => (b.high = TRUE <=> x >= 128) /\ b.duty = 0
           /\ ~IsLevel(p, x) => b.high = a.high /\ b.duty = x
  BY AsksIs, Zenon
<1>3. \/ k = "pinMode" /\ x \in {INPUT, OUTPUT, INPUT_PULLUP}
      \/ k = "digitalWrite" /\ x \in {LOW, HIGH}
      \/ k = "digitalRead"
      \/ k = "analogWrite" /\ x \in Nat
  <2>1. \A d \in Duties : d \in Nat
    BY PinsAssumption
  <2> QED BY <2>1, CallKinds
<1>4. ~IsLevel(p, x) => OnTimer(p)
  BY DEF IsLevel
<1>5. 0 # 1 /\ HIGH = 1 /\ LOW = 0
  BY DEF HIGH, LOW
<1>6. k = "analogWrite" => (Nearest(x) = 1 <=> x >= 128)
  <2>1. \A y \in Nat : Nearest(y) = 1 <=> y >= 128
    BY DEF Nearest, LOW, HIGH
  <2>2. k = "analogWrite" => x \in Nat
    BY <1>3
  <2> QED BY <2>1, <2>2
<1> HIDE DEF m, l, t, o, k, x, b
<1>7. ASSUME PortMeets(v, p, a) PROVE PortMeets(w, p, b)
  <2>1. (v[m] = 1 <=> a.out = TRUE) /\ (v[l] = 1 <=> a.high = TRUE)
    BY <1>7, Zenon DEF PortMeets, m, l
  <2>2. w[m] = 1 <=> b.out = TRUE
    BY <1>1, <1>2, <1>3, <1>5, <2>1
  <2>3. w[l] = 1 <=> b.high = TRUE
    <3>1. CASE k = "pinMode"
      BY <1>1, <1>2, <1>5, <2>1, <3>1
    <3>2. CASE k = "digitalWrite"
      BY <1>1, <1>2, <1>5, <3>2
    <3>3. CASE k = "digitalRead"
      BY <1>1, <1>2, <2>1, <3>3
    <3>4. CASE k = "analogWrite"
      BY <1>1, <1>2, <1>6, <2>1, <3>4
    <3> QED BY <1>3, <3>1, <3>2, <3>3, <3>4
  <2> QED BY <2>2, <2>3, Zenon DEF PortMeets, m, l
<1>8. ASSUME DutyMeets(v, p, a) PROVE DutyMeets(w, p, b)
  <2>1. a.duty = IF OnTimer(p) /\ v[t] = 1 THEN v[o] ELSE 0
    BY <1>8, Zenon DEF DutyMeets, t, o
  <2>2. b.duty = IF OnTimer(p) /\ w[t] = 1 THEN w[o] ELSE 0
    BY <1>1, <1>2, <1>3, <1>4, <1>5, <2>1
  <2> QED BY <2>2, Zenon DEF DutyMeets, t, o
<1> QED BY <1>7, <1>8 DEF b

\* What a pin does depends on its own bits.
LEMMA SameMeets ==
  ASSUME PinsBoardOK, NEW p \in used, NEW v, NEW w, NEW a
  PROVE  /\ w[ModeBit(p)] = v[ModeBit(p)] /\ w[LevelBit(p)] = v[LevelBit(p)] =>
              (PortMeets(v, p, a) => PortMeets(w, p, a))
         /\ (OnTimer(p) => w[TimerBit(p)] = v[TimerBit(p)] /\ w[DutyBit(p)] = v[DutyBit(p)]) =>
              (DutyMeets(v, p, a) => DutyMeets(w, p, a))
  BY DEF PortMeets, DutyMeets

-----------------------------------------------------------------------------
(* Pins: the invariant, and the steps that keep it *)

\* The inductive invariant: what the updates under way will make of each pin is what it
\* was asked, if no handler changed the register that was read.
PinTypes == PinsBoardOK /\ registers \in Bytes(Bits) /\ pinAsked \in [used -> Asked]
PinCall == OfPin(todo, pin) /\ (todo # <<>> => pin \in used /\ ~reset)
PinRead ==
  /\ readCopy # Nothing => todo # <<>> /\ Head(todo).whole = FALSE
  /\ \A b \in DOMAIN readCopy : readCopy[b] \in Byte /\ \E p \in used : b = TimerBit(p)
  /\ ~collided => \A b \in DOMAIN readCopy : readCopy[b] = registers[b]
PinFresh == reset => \A p \in used : pinAsked[p].out # TRUE /\ pinAsked[p].high # TRUE
PortsKept == \A p \in used : PortMeets(After(todo, registers), p, pinAsked[p])
DutiesKept == ~collided => \A p \in used : DutyMeets(After(todo, registers), p, pinAsked[p])

PinsIInv == PinTypes /\ PinCall /\ PinRead /\ PinFresh /\ PortsKept /\ DutiesKept

\* The board does not change.
LEMMA SameBoard ==
  ASSUME board' = board, used' = used
  PROVE  /\ PinsBoardOK' <=> PinsBoardOK
         /\ Bits' = Bits
         /\ \A p : TimerBit(p)' = TimerBit(p)
         /\ PortsKept' <=> \A p \in used : PortMeets(After(todo', registers'), p, pinAsked'[p])
         /\ DutiesKept' <=>
              (~collided' => \A p \in used : DutyMeets(After(todo', registers'), p, pinAsked'[p]))
<1>1. \A p : PinOf(p)' = PinOf(p) /\ TimerOf(p)' = TimerOf(p)
  BY DEF PinOf, TimerOf
<1>2. \A p : /\ ModeBit(p)' = ModeBit(p) /\ LevelBit(p)' = LevelBit(p)
             /\ TimerBit(p)' = TimerBit(p) /\ DutyBit(p)' = DutyBit(p)
  BY <1>1 DEF ModeBit, LevelBit, TimerBit, DutyBit, DDR, PORT, TCCR, OCR
<1>3. PinsBoardOK' <=> PinsBoardOK
  BY DEF PinsBoardOK
<1>4. Bits' = Bits
  BY <1>1 DEF Bits, BitsOf, DDR, PORT, TCCR, OCR
<1>5. PortsKept' <=> \A p \in used : PortMeets(After(todo', registers'), p, pinAsked'[p])
  BY <1>2 DEF PortsKept, PortMeets
<1>6. DutiesKept' <=>
        (~collided' => \A p \in used : DutyMeets(After(todo', registers'), p, pinAsked'[p]))
  BY <1>1, <1>2 DEF DutiesKept, DutyMeets, OnTimer
<1> QED BY <1>2, <1>3, <1>4, <1>5, <1>6

LEMMA SameCall ==
  ASSUME board' = board, NEW s, NEW p
  PROVE  OfPin(s, p)' <=> OfPin(s, p)
  BY DEF OfPin, Groups, Writes, BitsOf, OnTimer, TimerBit, TimerOf, PinOf, DDR, PORT, TCCR, OCR

\* Bits that are not those of a call are left as they are, and depend on nothing else.
LEMMA AfterOthers ==
  ASSUME NEW s, NEW p, OfPin(s, p), NEW v \in Bytes(Bits), NEW b \in Bits, b \notin BitsOf(p)
  PROVE  After(s, v)[b] = v[b]
<1>1. \A i \in DOMAIN s : DOMAIN s[i].writes \subseteq BitsOf(p)
  <2> SUFFICES ASSUME NEW i \in DOMAIN s PROVE DOMAIN s[i].writes \subseteq BitsOf(p)
    OBVIOUS
  <2>1. s[i] \in Groups(p)
    BY DEF OfPin
  <2>2. s[i].writes \in Writes(p)
    BY <2>1 DEF Groups
  <2> QED BY <2>2 DEF Writes, Bytes
<1>2. b \notin Changes(s)
  BY <1>1 DEF Changes
<1> QED BY <1>2 DEF After, Bytes

LEMMA AfterSame ==
  ASSUME NEW s, NEW v \in Bytes(Bits), NEW w \in Bytes(Bits), NEW b \in Bits, v[b] = w[b]
  PROVE  After(s, v)[b] = After(s, w)[b]
  BY DEF After, Bytes

\* The bits of another pin are not those of a call.
LEMMA OtherBits ==
  ASSUME PinsBoardOK, NEW p \in used, NEW q \in used, p # q
  PROVE  /\ ModeBit(p) \in Bits \ BitsOf(q) /\ LevelBit(p) \in Bits \ BitsOf(q)
         /\ OnTimer(p) => TimerBit(p) \in Bits \ BitsOf(q) /\ DutyBit(p) \in Bits \ BitsOf(q)
<1>1. ModeBit(p) \in Bits /\ LevelBit(p) \in Bits /\ TimerBit(p) \in Bits /\ DutyBit(p) \in Bits
  BY FourBits
<1>2. BitsOf(q) = {ModeBit(q), LevelBit(q), TimerBit(q), DutyBit(q)}
  BY FourBits
<1>3. /\ ModeBit(p) # ModeBit(q) /\ LevelBit(p) # LevelBit(q)
      /\ OnTimer(p) => TimerBit(p) # TimerBit(q) /\ DutyBit(p) # DutyBit(q)
  BY BitsApart, Zenon
<1>4. /\ ModeBit(p) # LevelBit(q) /\ ModeBit(p) # TimerBit(q) /\ ModeBit(p) # DutyBit(q)
      /\ LevelBit(p) # TimerBit(q) /\ LevelBit(p) # DutyBit(q) /\ TimerBit(p) # DutyBit(q)
      /\ ModeBit(q) # LevelBit(p) /\ ModeBit(q) # TimerBit(p) /\ ModeBit(q) # DutyBit(p)
      /\ LevelBit(q) # TimerBit(p) /\ LevelBit(q) # DutyBit(p) /\ TimerBit(q) # DutyBit(p)
  BY BitsApart, Zenon
<1> QED BY <1>1, <1>2, <1>3, <1>4

\* A call under way on another pin, or none, leaves what a pin does.
LEMMA AwayMeets ==
  ASSUME PinsBoardOK, PinCall, NEW p \in used, todo = <<>> \/ p # pin,
         NEW v \in Bytes(Bits), NEW a
  PROVE  /\ PortMeets(After(todo, v), p, a) <=> PortMeets(v, p, a)
         /\ DutyMeets(After(todo, v), p, a) <=> DutyMeets(v, p, a)
<1>1. CASE todo = <<>>
  <2>1. After(todo, v) = v
    BY <1>1, AfterNothing DEF Bytes
  <2> QED BY <2>1
<1>2. CASE todo # <<>>
  <2> DEFINE w == After(todo, v)
  <2>1. OfPin(todo, pin) /\ pin \in used /\ p # pin
    BY <1>2 DEF PinCall
  <2>2. \A b \in Bits \ BitsOf(pin) : w[b] = v[b]
    BY <2>1, AfterOthers
  <2>3. /\ ModeBit(p) \in Bits \ BitsOf(pin) /\ LevelBit(p) \in Bits \ BitsOf(pin)
        /\ OnTimer(p) => TimerBit(p) \in Bits \ BitsOf(pin) /\ DutyBit(p) \in Bits \ BitsOf(pin)
    BY <2>1, OtherBits, Zenon
  <2>4. /\ w[ModeBit(p)] = v[ModeBit(p)] /\ w[LevelBit(p)] = v[LevelBit(p)]
        /\ OnTimer(p) => w[TimerBit(p)] = v[TimerBit(p)] /\ w[DutyBit(p)] = v[DutyBit(p)]
    BY <2>2, <2>3
  <2> QED BY <2>4 DEF PortMeets, DutyMeets
<1> QED BY <1>1, <1>2

\* Bits that two registers' values agree on make a pin do the same, whatever is under way.
LEMMA AgreeMeets ==
  ASSUME PinsBoardOK, NEW p \in used, NEW s, NEW v \in Bytes(Bits), NEW w \in Bytes(Bits), NEW a
  PROVE  /\ w[ModeBit(p)] = v[ModeBit(p)] /\ w[LevelBit(p)] = v[LevelBit(p)] =>
              (PortMeets(After(s, v), p, a) => PortMeets(After(s, w), p, a))
         /\ (OnTimer(p) => w[TimerBit(p)] = v[TimerBit(p)] /\ w[DutyBit(p)] = v[DutyBit(p)]) =>
              (DutyMeets(After(s, v), p, a) => DutyMeets(After(s, w), p, a))
<1>1. ModeBit(p) \in Bits /\ LevelBit(p) \in Bits /\ TimerBit(p) \in Bits /\ DutyBit(p) \in Bits
  BY FourBits
<1>2. \A b \in Bits : w[b] = v[b] => After(s, w)[b] = After(s, v)[b]
  BY AfterSame
<1> QED BY <1>1, <1>2 DEF PortMeets, DutyMeets

LEMMA PinsStart == PinsInit => PinsIInv
<1> SUFFICES ASSUME PinsInit PROVE PinsIInv
  OBVIOUS
<1>1. PinsBoardOK
  BY DEF PinsInit, PinsBoardOK
<1>2. registers = [b \in Bits |-> 0] /\ todo = <<>> /\ readCopy = Nothing /\ DOMAIN readCopy = {}
      /\ pinAsked = [p \in used |-> [out |-> FALSE, high |-> FALSE, duty |-> 0]]
  BY DEF PinsInit, Nothing
<1>3. registers \in Bytes(Bits)
  BY <1>2 DEF Bytes, Byte
<1> DEFINE a == [out |-> FALSE, high |-> FALSE, duty |-> 0]
<1>4. a \in Asked /\ a.out # TRUE /\ a.high # TRUE /\ a.duty = 0
  BY DEF Asked
<1>5. pinAsked = [p \in used |-> a]
  BY <1>2
<1> HIDE DEF a
<1>6. PinTypes /\ PinFresh
  BY <1>1, <1>3, <1>4, <1>5 DEF PinTypes, PinFresh
<1>7. PinCall
  BY <1>2 DEF PinCall, OfPin
<1>8. PinRead
  BY <1>2, Zenon DEF PinRead
<1>9. After(todo, registers) = registers
  BY <1>2, <1>3, AfterNothing DEF Bytes
<1>10. \A p \in used : ModeBit(p) \in Bits /\ LevelBit(p) \in Bits /\ TimerBit(p) \in Bits
  BY <1>1, FourBits
<1>11. PortsKept /\ DutiesKept
  <2> SUFFICES ASSUME NEW p \in used
               PROVE  PortMeets(registers, p, pinAsked[p]) /\ DutyMeets(registers, p, pinAsked[p])
    BY <1>9 DEF PortsKept, DutiesKept
  <2>1. registers[ModeBit(p)] = 0 /\ registers[LevelBit(p)] = 0 /\ registers[TimerBit(p)] = 0
    BY <1>2, <1>10
  <2>2. pinAsked[p] = a
    BY <1>5
  <2>3. registers[ModeBit(p)] # 1 /\ registers[LevelBit(p)] # 1 /\ registers[TimerBit(p)] # 1
    BY <2>1
  <2> QED BY <1>4, <2>2, <2>3, Zenon DEF PortMeets, DutyMeets
<1> QED BY <1>6, <1>7, <1>8, <1>11 DEF PinsIInv

\* A new call, of which what is under way is all.
LEMMA CallPinKeeps == PinsIInv /\ CallPin => PinsIInv'
<1> SUFFICES ASSUME PinsIInv, CallPin PROVE PinsIInv'
  OBVIOUS
<1>1. PinTypes /\ PinCall /\ PinRead /\ PinFresh /\ PortsKept /\ DutiesKept
  BY DEF PinsIInv
<1>2. PinsBoardOK /\ registers \in Bytes(Bits) /\ pinAsked \in [used -> Asked]
  BY <1>1 DEF PinTypes
<1>3. ~reset /\ todo = <<>> /\ board' = board /\ used' = used /\ registers' = registers
      /\ readCopy' = readCopy /\ reset' = reset /\ collided' = collided
  BY DEF CallPin
<1>4. PICK p \in used, c \in Calls :
        /\ pin' = p /\ todo' = Updates(p, c)
        /\ pinAsked' = [pinAsked EXCEPT ![p] = Asks(p, c, pinAsked[p])]
  BY DEF CallPin
<1> DEFINE a == Asks(p, c, pinAsked[p])
           w == After(Updates(p, c), registers)
<1>5. pinAsked[p] \in Asked
  BY <1>2
<1>6. a \in Asked
  BY <1>5, AsksIs, Zenon
<1>7. Makes(p, c, registers, w) /\ OfPin(Updates(p, c), p)
  BY <1>2, CallMakes, Zenon
<1>8. /\ PortMeets(registers, p, pinAsked[p]) => PortMeets(w, p, a)
      /\ DutyMeets(registers, p, pinAsked[p]) => DutyMeets(w, p, a)
  BY <1>5, <1>7, MakesMeets, Zenon
<1>9. After(todo, registers) = registers
  BY <1>2, <1>3, AfterNothing DEF Bytes
<1>10. pinAsked'[p] = a /\ (\A q \in used : q # p => pinAsked'[q] = pinAsked[q])
       /\ pinAsked' \in [used -> Asked]
  <2> HIDE DEF a
  <2>1. pinAsked' = [pinAsked EXCEPT ![p] = a]
    BY <1>4 DEF a
  <2> QED BY <1>2, <1>6, <2>1
<1>11. After(todo', registers') = w
  BY <1>3, <1>4
<1> HIDE DEF a, w
<1>12. PinTypes'
  BY <1>2, <1>3, <1>10, SameBoard DEF PinTypes, Bytes
<1>13. PinCall'
  <2>1. OfPin(todo, pin)'
    BY <1>3, <1>4, <1>7, SameCall
  <2> QED BY <1>3, <1>4, <2>1 DEF PinCall
<1>14. PinRead'
  <2>1. readCopy = Nothing /\ DOMAIN readCopy = {}
    BY <1>1, <1>3 DEF PinRead, Nothing
  <2>2. readCopy' = Nothing /\ DOMAIN readCopy' = {}
    BY <1>3, <2>1
  <2> QED BY <2>2, Zenon DEF PinRead, Nothing
<1>15. PinFresh'
  BY <1>3 DEF PinFresh
<1>16. \A q \in used : q # p =>
         /\ w[ModeBit(q)] = registers[ModeBit(q)] /\ w[LevelBit(q)] = registers[LevelBit(q)]
         /\ OnTimer(q) => /\ w[TimerBit(q)] = registers[TimerBit(q)]
                          /\ w[DutyBit(q)] = registers[DutyBit(q)]
  <2>1. \A b \in Bits \ BitsOf(p) : w[b] = registers[b]
    BY <1>7 DEF Makes
  <2> QED BY <1>2, <2>1, OtherBits
<1>17. PortsKept'
  <2> SUFFICES ASSUME NEW q \in used PROVE PortMeets(w, q, pinAsked'[q])
    BY <1>3, <1>11, SameBoard
  <2>1. PortMeets(registers, q, pinAsked[q])
    BY <1>1, <1>9 DEF PortsKept
  <2>2. CASE q = p
    BY <1>8, <1>10, <2>1, <2>2
  <2>3. CASE q # p
    BY <1>2, <1>10, <1>16, <2>1, <2>3, SameMeets
  <2> QED BY <2>2, <2>3
<1>18. DutiesKept'
  <2> SUFFICES ASSUME ~collided', NEW q \in used PROVE DutyMeets(w, q, pinAsked'[q])
    BY <1>3, <1>11, SameBoard
  <2>1. DutyMeets(registers, q, pinAsked[q])
    BY <1>1, <1>3, <1>9 DEF DutiesKept
  <2>2. CASE q = p
    BY <1>8, <1>10, <2>1, <2>2
  <2>3. CASE q # p
    BY <1>2, <1>10, <1>16, <2>1, <2>3, SameMeets
  <2> QED BY <2>2, <2>3
<1> QED BY <1>12, <1>13, <1>14, <1>15, <1>17, <1>18 DEF PinsIInv

\* The next update, without another's change to the bits that were read or with one.
LEMMA HeadMakes ==
  ASSUME PinTypes, PinCall, todo # <<>>, NEW v \in Bytes(Bits)
  PROVE  /\ Over(Head(todo).writes, v) \in Bytes(Bits)
         /\ After(<<Head(todo)>>, v) = Over(Head(todo).writes, v)
         /\ After(todo, v) = After(Tail(todo), Over(Head(todo).writes, v))
         /\ OfPin(Tail(todo), pin)
<1>1. OfPin(todo, pin) /\ pin \in used /\ PinsBoardOK
  BY DEF PinCall, PinTypes
<1>2. Head(todo) \in Groups(pin) /\ OfPin(Tail(todo), pin)
  BY <1>1, OfPinRest, Zenon
<1>3. PICK d \in SUBSET BitsOf(pin) : Head(todo).writes \in Bytes(d)
  BY <1>2 DEF Groups, Writes
<1>4. d \in SUBSET Bits
  BY <1>1, FourBits
<1>5. After(<<Head(todo)>>, v) = Over(Head(todo).writes, v)
  BY AfterOne DEF Over
<1>6. After(todo, v) = After(Tail(todo), After(<<Head(todo)>>, v))
  <2>1. todo \in Seq(Groups(pin))
    BY <1>1 DEF OfPin
  <2> QED BY <2>1, AfterRest, Zenon
<1>7. Over(Head(todo).writes, v) \in Bytes(Bits)
  BY <1>3, <1>4, OverIs
<1> QED BY <1>2, <1>5, <1>6, <1>7

LEMMA MakeWholeKeeps == PinsIInv /\ MakeWhole => PinsIInv'
<1> SUFFICES ASSUME PinsIInv, MakeWhole PROVE PinsIInv'
  OBVIOUS
<1>1. PinTypes /\ PinCall /\ PinRead /\ PinFresh /\ PortsKept /\ DutiesKept
  BY DEF PinsIInv
<1>2. PinsBoardOK /\ registers \in Bytes(Bits) /\ pinAsked \in [used -> Asked]
  BY <1>1 DEF PinTypes
<1>3. todo # <<>> /\ Head(todo).whole /\ board' = board /\ used' = used /\ readCopy' = readCopy
      /\ pin' = pin /\ reset' = reset /\ pinAsked' = pinAsked /\ collided' = collided
      /\ registers' = After(<<Head(todo)>>, registers) /\ todo' = Tail(todo)
  BY DEF MakeWhole
<1>4. /\ registers' \in Bytes(Bits)
      /\ After(todo, registers) = After(todo', registers')
      /\ OfPin(todo', pin)
  BY <1>1, <1>2, <1>3, HeadMakes
<1>5. PinTypes'
  BY <1>2, <1>3, <1>4, SameBoard DEF PinTypes, Bytes
<1>6. PinCall'
  <2>1. OfPin(todo, pin)'
    BY <1>3, <1>4, SameCall
  <2> QED BY <1>1, <1>3, <2>1 DEF PinCall
<1>7. PinRead'
  <2>1. readCopy = Nothing
    <3>1. Head(todo).whole # FALSE
      BY <1>3, Zenon
    <3> QED BY <1>1, <3>1 DEF PinRead
  <2>2. readCopy' = Nothing /\ DOMAIN readCopy' = {}
    BY <1>3, <2>1 DEF Nothing
  <2> QED BY <2>2, Zenon DEF PinRead, Nothing
<1>8. PinFresh'
  BY <1>1, <1>3 DEF PinFresh
<1>9. PortsKept'
  BY <1>1, <1>3, <1>4, SameBoard, Zenon DEF PortsKept
<1>10. DutiesKept'
  BY <1>1, <1>3, <1>4, SameBoard, Zenon DEF DutiesKept
<1> QED BY <1>5, <1>6, <1>7, <1>8, <1>9, <1>10 DEF PinsIInv

\* A register that is read is the control register of a timer.
LEMMA ReadRegisterKeeps == PinsIInv /\ ReadRegister => PinsIInv'
<1> SUFFICES ASSUME PinsIInv, ReadRegister PROVE PinsIInv'
  OBVIOUS
<1>1. PinTypes /\ PinCall /\ PinRead /\ PinFresh /\ PortsKept /\ DutiesKept
  BY DEF PinsIInv
<1>2. PinsBoardOK /\ registers \in Bytes(Bits) /\ pinAsked \in [used -> Asked]
  BY <1>1 DEF PinTypes
<1> DEFINE changed == Changes(<<Head(todo)>>)
           register == {b \in Bits : \E c \in changed : b[1] = c[1]}
<1>3. todo # <<>> /\ ~Head(todo).whole /\ board' = board /\ used' = used
      /\ pin' = pin /\ reset' = reset /\ pinAsked' = pinAsked /\ collided' = collided
      /\ registers' = registers /\ todo' = todo /\ readCopy' = [b \in register |-> registers[b]]
  BY DEF ReadRegister
<1>4. OfPin(todo, pin) /\ pin \in used
  BY <1>1, <1>3 DEF PinCall
<1>5. Head(todo).whole = FALSE
  <2>1. Head(todo) \in Groups(pin)
    BY <1>3, <1>4, OfPinRest, Zenon
  <2>2. Head(todo).whole \in BOOLEAN
    BY <2>1 DEF Groups
  <2> QED BY <1>3, <2>2, Zenon
<1>6. changed = {TimerBit(pin)}
  <2>1. DOMAIN Head(todo).writes = {TimerBit(pin)}
    BY <1>3, <1>4, <1>5, OfPinRest, Zenon
  <2> DEFINE u == Head(todo)
  <2> HIDE DEF u
  <2>2. Changes(<<u>>) = DOMAIN u.writes
    BY DEF Changes
  <2> QED BY <2>1, <2>2 DEF u
<1>7. \A b \in register : \E p \in used : b = TimerBit(p)
  <2> SUFFICES ASSUME NEW b \in Bits, b[1] = TimerBit(pin)[1]
               PROVE  \E p \in used : b = TimerBit(p)
    BY <1>6
  <2>1. PICK p \in used : b \in BitsOf(p)
    BY DEF Bits
  <2>2. b \in {ModeBit(p), LevelBit(p), TimerBit(p), DutyBit(p)}
    BY <1>2, <2>1, FourBits
  <2>3. ModeBit(p)[1] # TimerBit(pin)[1] /\ LevelBit(p)[1] # TimerBit(pin)[1]
        /\ DutyBit(p)[1] # TimerBit(pin)[1]
    BY DEF ModeBit, LevelBit, TimerBit, DutyBit, DDR, PORT, TCCR, OCR
  <2> QED BY <2>2, <2>3
<1>8. register \subseteq Bits
  OBVIOUS
<1> HIDE DEF register
<1>9. DOMAIN readCopy' = register /\ \A b \in register : readCopy'[b] = registers[b]
  BY <1>3
<1>10. \A b \in Bits : registers[b] \in Byte
  BY <1>2 DEF Bytes
<1>11. PinRead'
  <2>1. \A p : TimerBit(p)' = TimerBit(p)
    BY <1>3, SameBoard
  <2>2. \A b \in DOMAIN readCopy' : readCopy'[b] \in Byte /\ \E p \in used : b = TimerBit(p)
    BY <1>7, <1>8, <1>9, <1>10
  <2>3. \A b \in DOMAIN readCopy' : readCopy'[b] = registers'[b]
    BY <1>3, <1>9
  <2>4. todo' # <<>> /\ Head(todo').whole = FALSE
    BY <1>3, <1>5
  <2>5. \A b \in DOMAIN readCopy' : readCopy'[b] \in Byte /\ \E p \in used' : b = TimerBit(p)'
    BY <1>3, <2>1, <2>2
  <2> QED BY <2>3, <2>4, <2>5, Zenon DEF PinRead
<1>12. PinTypes'
  BY <1>2, <1>3, SameBoard DEF PinTypes, Bytes
<1>13. PinCall'
  <2>1. OfPin(todo, pin)'
    BY <1>3, <1>4, SameCall
  <2> QED BY <1>1, <1>3, <2>1 DEF PinCall
<1>14. PinFresh'
  BY <1>1, <1>3 DEF PinFresh
<1>15. PortsKept'
  BY <1>1, <1>3, SameBoard, Zenon DEF PortsKept
<1>16. DutiesKept'
  BY <1>1, <1>3, SameBoard, Zenon DEF DutiesKept
<1> QED BY <1>11, <1>12, <1>13, <1>14, <1>15, <1>16 DEF PinsIInv

\* The places init() goes through, and the updates it makes.
InitAt(q, x6, x7) == IF Known(q) THEN PinOf(q) ELSE IF q = A0[board] + 6 THEN x6 ELSE x7
InitUpdates(x6, x7) ==
  [i \in 1..20 |->
    IF i <= 12 THEN PinMode(i + 1, OUTPUT)[1]
    ELSE PinModeAt(InitAt(A0[board] + i - 13, x6, x7), INPUT)[1]]

LEMMA PlacesDiffer ==
  ASSUME NEW x \in Places, NEW y \in Places
  PROVE  (DDR(x) = DDR(y) => x = y) /\ (PORT(x) = PORT(y) => x = y) /\ DDR(x) # PORT(y)
<1>1. x = <<x[1], x[2]>> /\ y = <<y[1], y[2]>>
  BY DEF Places
<1> QED BY <1>1 DEF DDR, PORT

LEMMA InitPlaces ==
  ASSUME PinsBoardOK, BeyondApart, NEW x6 \in Beyond, NEW x7 \in Beyond
  PROVE  /\ A0[board] \in Nat
         /\ \A q \in 2..13 : PinOf(q) \in Places
         /\ \A q \in AnalogPins : Known(q) => PinOf(q) \in Places
         /\ \A q \in AnalogPins :
              \/ Known(q) /\ InitAt(q, x6, x7) = PinOf(q)
              \/ ~Known(q) /\ InitAt(q, x6, x7) = NOT_A_PIN
              \/ ~Known(q) /\ InitAt(q, x6, x7) \in Places
                 /\ \A p \in used : InitAt(q, x6, x7) # PinOf(p)
<1>1. PICK b \in PinBoards : board = b[1] /\ used = b[2]
  BY DEF PinsBoardOK
<1>2. board \in {"m328", "m32U4"}
  BY <1>1, PinsAssumption
<1> DEFINE t == PinTable[board]
<1>3. t \in Seq(Places) /\ Len(t) >= 14 /\ Len(t) \in Nat
  BY <1>2, TablePlaces
<1>4. A0[board] \in Nat
  BY <1>2 DEF A0
<1>5. \A q : PinOf(q) = t[q + 1] /\ (Known(q) <=> q < Len(t))
  BY DEF PinOf, Known
<1> HIDE DEF t
<1>6. \A q \in Nat : q < Len(t) => t[q + 1] \in Places
  BY <1>3
<1>7. \A q \in 2..13 : PinOf(q) \in Places
  <2> SUFFICES ASSUME NEW q \in 2..13 PROVE t[q + 1] \in Places
    BY <1>5
  <2>1. q \in Nat /\ q < Len(t)
    BY <1>3
  <2> QED BY <1>6, <2>1
<1>8. \A q \in AnalogPins : q \in Nat
  BY <1>4 DEF AnalogPins
<1>9. \A q \in AnalogPins : Known(q) => PinOf(q) \in Places
  BY <1>5, <1>6, <1>8
<1>10. \A x \in {x6, x7} : x = NOT_A_PIN \/ (x \in Places /\ \A p \in used : x # PinOf(p))
  BY <1>1 DEF BeyondApart, PinOf
<1>11. \A q : \/ Known(q) /\ InitAt(q, x6, x7) = PinOf(q)
              \/ ~Known(q) /\ InitAt(q, x6, x7) \in {x6, x7}
  BY DEF InitAt
<1> QED BY <1>4, <1>7, <1>9, <1>10, <1>11, Zenon

\* Each update of init(): 1 to the mode of a pin, then 0 to the mode and level of one.
LEMMA InitUpdate ==
  ASSUME PinsBoardOK, BeyondApart, NEW x6 \in Beyond, NEW x7 \in Beyond
  PROVE  /\ DOMAIN InitUpdates(x6, x7) = 1..20
         /\ \A i \in 1..12 : InitUpdates(x6, x7)[i].writes = Setting(DDR(PinOf(i + 1)), 1)
         /\ \A i \in 13..20 :
              LET at == InitAt(A0[board] + i - 13, x6, x7)
              IN  InitUpdates(x6, x7)[i].writes = IF at = NOT_A_PIN THEN Nothing ELSE Input(at, LOW)
<1>1. \A w : Protected(w)[1].writes = w
  BY DEF Protected
<1>2. \A at : PinModeAt(at, OUTPUT) = Protected(IF at = NOT_A_PIN THEN Nothing ELSE Setting(DDR(at), 1))
  BY DEF PinModeAt, INPUT, OUTPUT, INPUT_PULLUP
<1>3. \A at : PinModeAt(at, INPUT) = Protected(IF at = NOT_A_PIN THEN Nothing ELSE Input(at, LOW))
  BY DEF PinModeAt, INPUT, OUTPUT, INPUT_PULLUP
<1>4. \A i \in 1..12 : InitUpdates(x6, x7)[i].writes = Setting(DDR(PinOf(i + 1)), 1)
  <2> SUFFICES ASSUME NEW i \in 1..12
               PROVE  InitUpdates(x6, x7)[i].writes = Setting(DDR(PinOf(i + 1)), 1)
    OBVIOUS
  <2>1. InitUpdates(x6, x7)[i] = PinModeAt(PinOf(i + 1), OUTPUT)[1]
    BY DEF InitUpdates, PinMode
  <2>2. PinOf(i + 1) # NOT_A_PIN
    <3>1. i + 1 \in 2..13
      OBVIOUS
    <3> QED BY <3>1, InitPlaces, NotInTables, Zenon
  <2>3. PinModeAt(PinOf(i + 1), OUTPUT) = Protected(Setting(DDR(PinOf(i + 1)), 1))
    BY <1>2, <2>2, Zenon
  <2> QED BY <1>1, <2>1, <2>3, Zenon
<1>5. \A i \in 13..20 :
        LET at == InitAt(A0[board] + i - 13, x6, x7)
        IN  InitUpdates(x6, x7)[i].writes = IF at = NOT_A_PIN THEN Nothing ELSE Input(at, LOW)
  <2> SUFFICES ASSUME NEW i \in 13..20, NEW at, at = InitAt(A0[board] + i - 13, x6, x7)
               PROVE  InitUpdates(x6, x7)[i].writes = IF at = NOT_A_PIN THEN Nothing ELSE Input(at, LOW)
    OBVIOUS
  <2>1. InitUpdates(x6, x7)[i] = PinModeAt(at, INPUT)[1]
    BY DEF InitUpdates
  <2> QED BY <1>1, <1>3, <2>1, Zenon
<1>6. DOMAIN InitUpdates(x6, x7) = 1..20
  BY DEF InitUpdates
<1> QED BY <1>4, <1>5, <1>6, Zenon

\* The bits of a pin that each update of init() changes.
LEMMA InitBits ==
  ASSUME PinsBoardOK, BeyondApart, NEW x6 \in Beyond, NEW x7 \in Beyond, NEW p \in used,
         NEW i \in 1..20
  PROVE  LET w == InitUpdates(x6, x7)[i].writes
         IN  /\ i <= 12 => (ModeBit(p) \in DOMAIN w <=> PinOf(i + 1) = PinOf(p))
             /\ i > 12 => (ModeBit(p) \in DOMAIN w <=>
                            /\ Known(A0[board] + i - 13)
                            /\ PinOf(A0[board] + i - 13) = PinOf(p))
             /\ ModeBit(p) \in DOMAIN w => w[ModeBit(p)] = IF i <= 12 THEN 1 ELSE 0
             /\ LevelBit(p) \in DOMAIN w => w[LevelBit(p)] = 0
             /\ TimerBit(p) \notin DOMAIN w /\ DutyBit(p) \notin DOMAIN w
             /\ \A b \in DOMAIN w : w[b] \in {0, 1}
<1> DEFINE w == InitUpdates(x6, x7)[i].writes
           at == InitAt(A0[board] + i - 13, x6, x7)
<1>1. PinOf(p) \in Places
  BY PinsApart
<1>2. \A x : DDR(x) # TimerBit(p) /\ DDR(x) # DutyBit(p) /\ PORT(x) # TimerBit(p) /\ PORT(x) # DutyBit(p)
  BY DEF TimerBit, DutyBit, DDR, PORT, TCCR, OCR
<1>3. ModeBit(p) = DDR(PinOf(p)) /\ LevelBit(p) = PORT(PinOf(p))
  BY DEF ModeBit, LevelBit
<1>4. CASE i <= 12
  <2>1. i \in 1..12 /\ i + 1 \in 2..13
    BY <1>4
  <2>2. w = Setting(DDR(PinOf(i + 1)), 1)
    BY <2>1, InitUpdate, Zenon
  <2>3. PinOf(i + 1) \in Places
    BY <2>1, InitPlaces, Zenon
  <2> HIDE DEF w
  <2>4. DOMAIN w = {DDR(PinOf(i + 1))} /\ w[DDR(PinOf(i + 1))] = 1
    BY <2>2 DEF Setting
  <2>5. /\ DDR(PinOf(p)) = DDR(PinOf(i + 1)) <=> PinOf(i + 1) = PinOf(p)
        /\ PORT(PinOf(p)) # DDR(PinOf(i + 1))
    BY <1>1, <2>3, PlacesDiffer
  <2>6. /\ ModeBit(p) \in DOMAIN w <=> PinOf(i + 1) = PinOf(p)
        /\ ModeBit(p) \in DOMAIN w => w[ModeBit(p)] = 1
        /\ LevelBit(p) \notin DOMAIN w
        /\ TimerBit(p) \notin DOMAIN w /\ DutyBit(p) \notin DOMAIN w
        /\ \A b \in DOMAIN w : w[b] \in {0, 1}
    BY <1>2, <1>3, <2>4, <2>5
  <2> QED BY <1>4, <2>6 DEF w
<1>5. CASE i > 12
  <2>1. i \in 13..20 /\ A0[board] \in Nat
    BY <1>5, InitPlaces
  <2> DEFINE q == A0[board] + i - 13
  <2>2. q \in AnalogPins
    BY <2>1 DEF AnalogPins
  <2>3. w = IF at = NOT_A_PIN THEN Nothing ELSE Input(at, LOW)
    BY <2>1, InitUpdate, Zenon
  <2>4. \/ Known(q) /\ at = PinOf(q) /\ at \in Places
        \/ ~Known(q) /\ at = NOT_A_PIN
        \/ ~Known(q) /\ at \in Places /\ at # PinOf(p)
    BY <2>2, InitPlaces, Zenon
  <2>5. NOT_A_PIN \notin Places
    BY NotInTables
  <2> HIDE DEF w, at, q
  <2>6. CASE at = NOT_A_PIN
    <3>1. DOMAIN w = {} /\ ~Known(q)
      BY <2>3, <2>4, <2>5, <2>6 DEF Nothing
    <3> QED BY <1>5, <3>1 DEF w, q
  <2>7. CASE at # NOT_A_PIN
    <3>1. at \in Places /\ w = Input(at, LOW)
      BY <2>3, <2>4, <2>7, Zenon
    <3>2. DOMAIN w = {DDR(at), PORT(at)} /\ w[DDR(at)] = 0 /\ w[PORT(at)] = 0
      BY <3>1 DEF Input, LOW
    <3>3. /\ DDR(PinOf(p)) = DDR(at) <=> at = PinOf(p)
          /\ DDR(PinOf(p)) # PORT(at) /\ PORT(PinOf(p)) # DDR(at)
      BY <1>1, <3>1, PlacesDiffer
    <3>4. at = PinOf(p) <=> Known(q) /\ PinOf(q) = PinOf(p)
      BY <2>4, <2>7, Zenon
    <3>5. /\ ModeBit(p) \in DOMAIN w <=> Known(q) /\ PinOf(q) = PinOf(p)
          /\ ModeBit(p) \in DOMAIN w => w[ModeBit(p)] = 0
          /\ LevelBit(p) \in DOMAIN w => w[LevelBit(p)] = 0
          /\ TimerBit(p) \notin DOMAIN w /\ DutyBit(p) \notin DOMAIN w
          /\ \A b \in DOMAIN w : w[b] \in {0, 1}
      BY <1>2, <1>3, <3>2, <3>3, <3>4
    <3> QED BY <1>5, <3>5 DEF w, q
  <2> QED BY <2>6, <2>7
<1> QED BY <1>4, <1>5

\* What init() makes of the bits of a pin.
LEMMA InitMakes ==
  ASSUME PinsBoardOK, BeyondApart, NEW x6 \in Beyond, NEW x7 \in Beyond, NEW v \in Bytes(Bits)
  PROVE  LET w == After(InitUpdates(x6, x7), v)
         IN  /\ w \in Bytes(Bits)
             /\ \A p \in used :
                  /\ v[ModeBit(p)] # 1 => (w[ModeBit(p)] = 1 <=> InitialOutput(p))
                  /\ v[LevelBit(p)] # 1 => w[LevelBit(p)] # 1
                  /\ w[TimerBit(p)] = v[TimerBit(p)] /\ w[DutyBit(p)] = v[DutyBit(p)]
<1> DEFINE s == InitUpdates(x6, x7)
           w == After(s, v)
<1>1. DOMAIN s = 1..20 /\ 20 \in Nat
  BY InitUpdate
<1>2. \A p \in used : \A i \in 1..20 :
        /\ i <= 12 => (ModeBit(p) \in DOMAIN s[i].writes <=> PinOf(i + 1) = PinOf(p))
        /\ i > 12 => (ModeBit(p) \in DOMAIN s[i].writes <=>
                       Known(A0[board] + i - 13) /\ PinOf(A0[board] + i - 13) = PinOf(p))
        /\ ModeBit(p) \in DOMAIN s[i].writes =>
             s[i].writes[ModeBit(p)] = IF i <= 12 THEN 1 ELSE 0
        /\ LevelBit(p) \in DOMAIN s[i].writes => s[i].writes[LevelBit(p)] = 0
        /\ TimerBit(p) \notin DOMAIN s[i].writes /\ DutyBit(p) \notin DOMAIN s[i].writes
        /\ \A b \in DOMAIN s[i].writes : s[i].writes[b] \in {0, 1}
  BY InitBits
<1> HIDE DEF s
<1>3. \A b \in Bits :
        \/ b \notin Changes(s) /\ w[b] = v[b]
        \/ b \in Changes(s) /\ w[b] = s[LastOf(s, b)].writes[b]
  BY DEF After, Bytes
<1>4. \A b \in Changes(s) :
        /\ LastOf(s, b) \in 1..20
        /\ b \in DOMAIN s[LastOf(s, b)].writes
        /\ \A j \in 1..20 : b \in DOMAIN s[j].writes => j <= LastOf(s, b)
  BY <1>1, LastExists
<1>5. \A p \in used : {ModeBit(p), LevelBit(p), TimerBit(p), DutyBit(p)} \subseteq Bits
  BY FourBits
<1>6. \A b : b \in Changes(s) <=> \E i \in 1..20 : b \in DOMAIN s[i].writes
  BY <1>1 DEF Changes
<1>7. w \in Bytes(Bits)
  <2>1. DOMAIN w = Bits
    BY DEF After, Bytes
  <2>2. \A b \in Bits : w[b] \in Byte
    <3> SUFFICES ASSUME NEW b \in Bits, b \in Changes(s) PROVE w[b] \in Byte
      BY <1>3 DEF Bytes
    <3>1. PICK p \in used : b \in BitsOf(p)
      BY DEF Bits
    <3>2. s[LastOf(s, b)].writes[b] \in {0, 1}
      BY <1>2, <1>4, <3>1
    <3>3. \A x \in {0, 1} : x \in Byte
      BY DEF Byte
    <3> QED BY <1>3, <3>2, <3>3
  <2>3. w = [b \in DOMAIN w |-> w[b]]
    BY DEF After
  <2> HIDE DEF w
  <2> QED BY <2>1, <2>2, <2>3 DEF Bytes
<1> HIDE DEF w
<1>8. ASSUME NEW p \in used
      PROVE  /\ v[ModeBit(p)] # 1 => (w[ModeBit(p)] = 1 <=> InitialOutput(p))
             /\ v[LevelBit(p)] # 1 => w[LevelBit(p)] # 1
             /\ w[TimerBit(p)] = v[TimerBit(p)] /\ w[DutyBit(p)] = v[DutyBit(p)]
  <2> DEFINE m == ModeBit(p)
             l == LevelBit(p)
  <2>1. w[TimerBit(p)] = v[TimerBit(p)] /\ w[DutyBit(p)] = v[DutyBit(p)]
    BY <1>2, <1>3, <1>5, <1>6
  <2>2. v[l] # 1 => w[l] # 1
    <3>1. CASE l \notin Changes(s)
      BY <1>3, <1>5, <3>1
    <3>2. CASE l \in Changes(s)
      <4>1. s[LastOf(s, l)].writes[l] = 0
        BY <1>2, <1>4, <3>2
      <4> QED BY <1>3, <1>5, <3>2, <4>1
    <3> QED BY <3>1, <3>2
  <2>3. A0[board] \in Nat
    BY InitPlaces
  <2>4. (\E i \in 1..20 : i > 12 /\ m \in DOMAIN s[i].writes) <=>
          \E q \in AnalogPins : Known(q) /\ PinOf(q) = PinOf(p)
    <3>1. ASSUME NEW i \in 1..20, i > 12, m \in DOMAIN s[i].writes
          PROVE  \E q \in AnalogPins : Known(q) /\ PinOf(q) = PinOf(p)
      <4>1. A0[board] + i - 13 \in AnalogPins
        BY <2>3, <3>1 DEF AnalogPins
      <4> QED BY <1>2, <3>1, <4>1
    <3>2. ASSUME NEW q \in AnalogPins, Known(q), PinOf(q) = PinOf(p)
          PROVE  \E i \in 1..20 : i > 12 /\ m \in DOMAIN s[i].writes
      <4> DEFINE i == q - A0[board] + 13
      <4>1. i \in 1..20 /\ i > 12 /\ A0[board] + i - 13 = q
        BY <2>3 DEF AnalogPins
      <4> HIDE DEF i
      <4> QED BY <1>2, <3>2, <4>1
    <3> QED BY <3>1, <3>2
  <2>5. (\E i \in 1..20 : i <= 12 /\ m \in DOMAIN s[i].writes) <=>
          \E q \in 2..13 : PinOf(q) = PinOf(p)
    <3>1. ASSUME NEW i \in 1..20, i <= 12, m \in DOMAIN s[i].writes
          PROVE  \E q \in 2..13 : PinOf(q) = PinOf(p)
      <4>1. i + 1 \in 2..13
        BY <3>1
      <4> QED BY <1>2, <3>1, <4>1
    <3>2. ASSUME NEW q \in 2..13, PinOf(q) = PinOf(p)
          PROVE  \E i \in 1..20 : i <= 12 /\ m \in DOMAIN s[i].writes
      <4> DEFINE i == q - 1
      <4>1. i \in 1..20 /\ i <= 12 /\ i + 1 = q
        OBVIOUS
      <4> HIDE DEF i
      <4> QED BY <1>2, <3>2, <4>1
    <3> QED BY <3>1, <3>2
  <2> HIDE DEF m
  <2>6. v[m] # 1 => (w[m] = 1 <=> InitialOutput(p))
    <3> SUFFICES ASSUME v[m] # 1 PROVE w[m] = 1 <=> InitialOutput(p)
      OBVIOUS
    <3>1. CASE \E i \in 1..20 : i > 12 /\ m \in DOMAIN s[i].writes
      <4>1. m \in Changes(s)
        BY <1>6, <3>1
      <4>2. LastOf(s, m) \in 1..20 /\ LastOf(s, m) > 12 /\ m \in DOMAIN s[LastOf(s, m)].writes
        BY <1>4, <3>1, <4>1
      <4>3. s[LastOf(s, m)].writes[m] = 0
        BY <1>2, <4>2 DEF m
      <4>4. w[m] = 0
        BY <1>3, <1>5, <4>1, <4>3 DEF m
      <4>5. ~InitialOutput(p)
        BY <2>4, <3>1, Zenon DEF InitialOutput
      <4> QED BY <4>4, <4>5
    <3>2. CASE ~ \E i \in 1..20 : i > 12 /\ m \in DOMAIN s[i].writes
      <4>1. InitialOutput(p) <=> \E i \in 1..20 : i <= 12 /\ m \in DOMAIN s[i].writes
        BY <2>4, <2>5, <3>2, Zenon DEF InitialOutput
      <4>2. CASE m \in Changes(s)
        <5>1. LastOf(s, m) \in 1..20 /\ LastOf(s, m) <= 12 /\ m \in DOMAIN s[LastOf(s, m)].writes
          BY <1>4, <3>2, <4>2
        <5>2. s[LastOf(s, m)].writes[m] = 1
          BY <1>2, <5>1 DEF m
        <5>3. w[m] = 1
          BY <1>3, <1>5, <4>2, <5>2 DEF m
        <5> QED BY <4>1, <5>1, <5>3
      <4>3. CASE m \notin Changes(s)
        <5>1. w[m] = v[m]
          BY <1>3, <1>5, <4>3 DEF m
        <5>2. ~InitialOutput(p)
          BY <1>6, <4>1, <4>3
        <5> QED BY <5>1, <5>2
      <4> QED BY <4>2, <4>3
    <3> QED BY <3>1, <3>2
  <2> QED BY <2>1, <2>2, <2>6 DEF m
<1> QED BY <1>7, <1>8 DEF s, w

LEMMA InitPinsKeeps == BeyondApart /\ PinsIInv /\ InitPins => PinsIInv'
<1> SUFFICES ASSUME BeyondApart, PinsIInv, InitPins PROVE PinsIInv'
  OBVIOUS
<1>1. PinTypes /\ PinCall /\ PinRead /\ PinFresh /\ PortsKept /\ DutiesKept
  BY DEF PinsIInv
<1>2. PinsBoardOK /\ registers \in Bytes(Bits) /\ pinAsked \in [used -> Asked]
  BY <1>1 DEF PinTypes
<1>3. reset /\ ~reset' /\ board' = board /\ used' = used /\ todo' = todo
      /\ readCopy' = readCopy /\ pin' = pin /\ collided' = collided
      /\ pinAsked' = [p \in used |-> [pinAsked[p] EXCEPT !.out = InitialOutput(p)]]
  BY DEF InitPins
<1>4. \E x6, x7 \in Beyond : registers' = After(InitUpdates(x6, x7), registers)
  BY Zenon DEF InitPins, InitUpdates, InitAt
<1>5. PICK x6 \in Beyond, x7 \in Beyond : registers' = After(InitUpdates(x6, x7), registers)
  BY <1>4
<1>6. /\ registers' \in Bytes(Bits)
      /\ \A p \in used :
           /\ registers[ModeBit(p)] # 1 => (registers'[ModeBit(p)] = 1 <=> InitialOutput(p))
           /\ registers[LevelBit(p)] # 1 => registers'[LevelBit(p)] # 1
           /\ registers'[TimerBit(p)] = registers[TimerBit(p)]
           /\ registers'[DutyBit(p)] = registers[DutyBit(p)]
  BY <1>2, <1>5, InitMakes
<1>7. todo = <<>> /\ readCopy = Nothing /\ DOMAIN readCopy = {}
  BY <1>1, <1>3 DEF PinCall, PinRead, Nothing
<1>8. After(todo, registers) = registers /\ After(todo', registers') = registers'
  BY <1>2, <1>3, <1>6, <1>7, AfterNothing DEF Bytes
<1>9. \A p \in used :
        /\ pinAsked'[p] \in Asked
        /\ pinAsked'[p].out = TRUE <=> InitialOutput(p)
        /\ pinAsked'[p].high = pinAsked[p].high
        /\ pinAsked'[p].duty = pinAsked[p].duty
  <2> SUFFICES ASSUME NEW p \in used
               PROVE  /\ pinAsked'[p] \in Asked
                      /\ pinAsked'[p].out = TRUE <=> InitialOutput(p)
                      /\ pinAsked'[p].high = pinAsked[p].high
                      /\ pinAsked'[p].duty = pinAsked[p].duty
    OBVIOUS
  <2> DEFINE a == pinAsked[p]
             up == InitialOutput(p)
             r == [a EXCEPT !.out = up]
  <2>1. pinAsked'[p] = r
    BY <1>3
  <2>2. up \in BOOLEAN
    BY DEF InitialOutput
  <2>3. a \in Asked
    BY <1>2
  <2> HIDE DEF a, up
  <2>4. r \in Asked /\ r.out = up /\ r.high = a.high /\ r.duty = a.duty
    BY <2>2, <2>3 DEF Asked
  <2> HIDE DEF r
  <2>5. r.out = TRUE <=> InitialOutput(p)
    BY <2>2, <2>4, Zenon DEF up
  <2> QED BY <2>1, <2>4, <2>5, Zenon DEF a
<1>10. PinTypes'
  <2>1. pinAsked' \in [used -> Asked]
    BY <1>3, <1>9
  <2> QED BY <1>2, <1>3, <1>6, <2>1, SameBoard DEF PinTypes, Bytes
<1>11. PinCall'
  BY <1>3, <1>7 DEF PinCall, OfPin
<1>12. PinRead'
  <2>1. readCopy' = Nothing /\ DOMAIN readCopy' = {}
    BY <1>3, <1>7
  <2> QED BY <2>1, Zenon DEF PinRead, Nothing
<1>13. PinFresh'
  BY <1>3 DEF PinFresh
<1>14. PortsKept'
  <2> SUFFICES ASSUME NEW p \in used PROVE PortMeets(registers', p, pinAsked'[p])
    BY <1>3, <1>8, SameBoard
  <2>1. PortMeets(registers, p, pinAsked[p])
    BY <1>1, <1>8 DEF PortsKept
  <2>2. pinAsked[p].out # TRUE /\ pinAsked[p].high # TRUE
    BY <1>1, <1>3 DEF PinFresh
  <2>3. registers[ModeBit(p)] # 1 /\ registers[LevelBit(p)] # 1
    BY <2>1, <2>2, Zenon DEF PortMeets
  <2>4. registers'[ModeBit(p)] = 1 <=> pinAsked'[p].out = TRUE
    BY <1>6, <1>9, <2>3, Zenon
  <2>5. registers'[LevelBit(p)] = 1 <=> pinAsked'[p].high = TRUE
    BY <1>6, <1>9, <2>2, <2>3, Zenon
  <2> QED BY <2>4, <2>5, Zenon DEF PortMeets
<1>15. DutiesKept'
  <2> SUFFICES ASSUME ~collided', NEW p \in used PROVE DutyMeets(registers', p, pinAsked'[p])
    BY <1>3, <1>8, SameBoard
  <2>1. DutyMeets(registers, p, pinAsked[p])
    BY <1>1, <1>3, <1>8 DEF DutiesKept
  <2>2. /\ registers'[TimerBit(p)] = registers[TimerBit(p)]
        /\ registers'[DutyBit(p)] = registers[DutyBit(p)]
        /\ pinAsked'[p].duty = pinAsked[p].duty
    BY <1>6, <1>9
  <2> QED BY <2>1, <2>2 DEF DutyMeets
<1> QED BY <1>10, <1>11, <1>12, <1>13, <1>14, <1>15 DEF PinsIInv

\* The register that was read is written back whole: without a handler's change to it
\* that is the update itself, and with one it still writes no port.
LEMMA WriteRegisterKeeps == PinsIInv /\ WriteRegister => PinsIInv'
<1> SUFFICES ASSUME PinsIInv, WriteRegister PROVE PinsIInv'
  OBVIOUS
<1>1. PinTypes /\ PinCall /\ PinRead /\ PinFresh /\ PortsKept /\ DutiesKept
  BY DEF PinsIInv
<1>2. PinsBoardOK /\ registers \in Bytes(Bits) /\ pinAsked \in [used -> Asked]
  BY <1>1 DEF PinTypes
<1>3. readCopy # Nothing /\ board' = board /\ used' = used /\ readCopy' = Nothing
      /\ pin' = pin /\ reset' = reset /\ pinAsked' = pinAsked /\ collided' = collided
      /\ registers' = After(<<[writes |-> readCopy], Head(todo)>>, registers) /\ todo' = Tail(todo)
  BY DEF WriteRegister
<1>4. todo # <<>> /\ Head(todo).whole = FALSE
      /\ (\A b \in DOMAIN readCopy : readCopy[b] \in Byte /\ \E p \in used : b = TimerBit(p))
  BY <1>1, <1>3 DEF PinRead
<1>5. OfPin(todo, pin) /\ pin \in used
  BY <1>1, <1>4 DEF PinCall
<1> DEFINE old == Over(readCopy, registers)
           u == Head(todo)
<1>6. old \in Bytes(Bits) /\ \A b \in Bits : old[b] = IF b \in DOMAIN readCopy THEN readCopy[b]
                                                     ELSE registers[b]
  BY <1>2, <1>4 DEF Over, Bytes
<1>7. registers' = After(<<u>>, old)
  <2> DEFINE g == [writes |-> readCopy]
             s == <<g, u>>
  <2>1. g.writes = readCopy
    OBVIOUS
  <2> HIDE DEF g
  <2>2. s \in Seq({g, u}) /\ s # <<>> /\ Head(s) = g /\ Tail(s) = <<u>>
    OBVIOUS
  <2> HIDE DEF s
  <2>3. After(s, registers) = After(Tail(s), After(<<Head(s)>>, registers))
    BY <2>2, AfterRest, Zenon
  <2>4. After(<<g>>, registers) = old
    BY <2>1, AfterOne DEF Over
  <2>5. registers' = After(s, registers)
    BY <1>3 DEF s, g
  <2> QED BY <2>2, <2>3, <2>4, <2>5
<1> HIDE DEF old, u
<1>8. /\ registers' \in Bytes(Bits)
      /\ After(todo', registers') = After(todo, old)
      /\ OfPin(todo', pin)
  BY <1>1, <1>3, <1>4, <1>6, <1>7, HeadMakes DEF u
<1>9. PinTypes'
  BY <1>2, <1>3, <1>8, SameBoard DEF PinTypes, Bytes
<1>10. PinCall'
  <2>1. OfPin(todo, pin)'
    BY <1>3, <1>8, SameCall
  <2> QED BY <1>1, <1>3, <1>4, <2>1 DEF PinCall
<1>11. PinRead'
  <2>1. readCopy' = Nothing /\ DOMAIN readCopy' = {}
    BY <1>3 DEF Nothing
  <2> QED BY <2>1, Zenon DEF PinRead, Nothing
<1>12. PinFresh'
  BY <1>1, <1>3 DEF PinFresh
<1>13. PortsKept'
  <2> SUFFICES ASSUME NEW p \in used PROVE PortMeets(After(todo, old), p, pinAsked[p])
    BY <1>3, <1>8, SameBoard
  <2>1. ModeBit(p) \in Bits /\ LevelBit(p) \in Bits
    BY <1>2, FourBits
  <2>2. \A q \in used : ModeBit(p) # TimerBit(q) /\ LevelBit(p) # TimerBit(q)
    BY <1>2, BitsApart, Zenon
  <2>3. ModeBit(p) \notin DOMAIN readCopy /\ LevelBit(p) \notin DOMAIN readCopy
    BY <1>4, <2>2
  <2>4. old[ModeBit(p)] = registers[ModeBit(p)] /\ old[LevelBit(p)] = registers[LevelBit(p)]
    BY <1>6, <2>1, <2>3
  <2>5. PortMeets(After(todo, registers), p, pinAsked[p])
    BY <1>1 DEF PortsKept
  <2> QED BY <1>2, <1>6, <2>4, <2>5, AgreeMeets, Zenon
<1>14. DutiesKept'
  <2> SUFFICES ASSUME ~collided, NEW p \in used PROVE DutyMeets(After(todo, old), p, pinAsked[p])
    BY <1>3, <1>8, SameBoard
  <2>1. \A b \in DOMAIN readCopy : readCopy[b] = registers[b]
    BY <1>1 DEF PinRead
  <2>2. \A b \in Bits : old[b] = registers[b]
    BY <1>6, <2>1
  <2>3. old = registers
    BY <1>2, <1>6, <2>2 DEF Bytes
  <2> QED BY <1>1, <2>3 DEF DutiesKept
<1> QED BY <1>9, <1>10, <1>11, <1>12, <1>13, <1>14 DEF PinsIInv

\* A handler's call comes between two steps of the program's, which is on another pin.
LEMMA HandlerCallsKeeps == PinsIInv /\ HandlerCalls => PinsIInv'
<1> SUFFICES ASSUME PinsIInv, HandlerCalls PROVE PinsIInv'
  OBVIOUS
<1>1. PinTypes /\ PinCall /\ PinRead /\ PinFresh /\ PortsKept /\ DutiesKept
  BY DEF PinsIInv
<1>2. PinsBoardOK /\ registers \in Bytes(Bits) /\ pinAsked \in [used -> Asked]
  BY <1>1 DEF PinTypes
<1>3. ~reset /\ board' = board /\ used' = used /\ todo' = todo
      /\ readCopy' = readCopy /\ pin' = pin /\ reset' = reset
      /\ (collided' <=> (collided \/ \E b \in DOMAIN readCopy : registers'[b] # registers[b]))
  BY DEF HandlerCalls
<1>4. PICK p \in used, c \in Calls :
        /\ todo = <<>> \/ p # pin
        /\ registers' = After(Updates(p, c), registers)
        /\ pinAsked' = [pinAsked EXCEPT ![p] = Asks(p, c, pinAsked[p])]
  BY DEF HandlerCalls
<1> DEFINE a == Asks(p, c, pinAsked[p])
           w == After(Updates(p, c), registers)
<1>5. pinAsked[p] \in Asked
  BY <1>2
<1>6. a \in Asked
  BY <1>5, AsksIs, Zenon
<1>7. Makes(p, c, registers, w)
  BY <1>2, CallMakes, Zenon
<1>8. /\ PortMeets(registers, p, pinAsked[p]) => PortMeets(w, p, a)
      /\ DutyMeets(registers, p, pinAsked[p]) => DutyMeets(w, p, a)
  BY <1>5, <1>7, MakesMeets, Zenon
<1>9. pinAsked'[p] = a /\ (\A q \in used : q # p => pinAsked'[q] = pinAsked[q])
      /\ pinAsked' \in [used -> Asked]
  <2> HIDE DEF a
  <2>1. pinAsked' = [pinAsked EXCEPT ![p] = a]
    BY <1>4 DEF a
  <2> QED BY <1>2, <1>6, <2>1
<1>10. registers' = w
  BY <1>4
<1> HIDE DEF a, w
<1>11. w \in Bytes(Bits) /\ \A b \in Bits \ BitsOf(p) : w[b] = registers[b]
  BY <1>7, Zenon DEF Makes
<1>12. \A q \in used : q # p =>
         /\ w[ModeBit(q)] = registers[ModeBit(q)] /\ w[LevelBit(q)] = registers[LevelBit(q)]
         /\ OnTimer(q) => /\ w[TimerBit(q)] = registers[TimerBit(q)]
                          /\ w[DutyBit(q)] = registers[DutyBit(q)]
  BY <1>2, <1>11, OtherBits
<1>13. PinTypes'
  BY <1>2, <1>3, <1>9, <1>10, <1>11, SameBoard DEF PinTypes, Bytes
<1>14. PinCall'
  <2>1. OfPin(todo, pin)'
    BY <1>1, <1>3, SameCall DEF PinCall
  <2> QED BY <1>1, <1>3, <2>1 DEF PinCall
<1>15. PinRead'
  <2>1. \A q : TimerBit(q)' = TimerBit(q)
    BY <1>3, SameBoard
  <2>2. readCopy' # Nothing => todo' # <<>> /\ Head(todo').whole = FALSE
    BY <1>1, <1>3 DEF PinRead
  <2>3. \A b \in DOMAIN readCopy' : readCopy'[b] \in Byte /\ \E q \in used' : b = TimerBit(q)'
    BY <1>1, <1>3, <2>1 DEF PinRead
  <2>4. ~collided' => \A b \in DOMAIN readCopy' : readCopy'[b] = registers'[b]
    BY <1>1, <1>3 DEF PinRead
  <2> QED BY <2>2, <2>3, <2>4, Zenon DEF PinRead, Nothing
<1>16. PinFresh'
  BY <1>3 DEF PinFresh
<1>17. PortsKept'
  <2> SUFFICES ASSUME NEW q \in used PROVE PortMeets(After(todo, w), q, pinAsked'[q])
    BY <1>3, <1>10, SameBoard
  <2>1. PortMeets(After(todo, registers), q, pinAsked[q])
    BY <1>1 DEF PortsKept
  <2>2. CASE q = p
    <3>1. PortMeets(registers, p, pinAsked[p])
      BY <1>1, <1>2, <1>4, <2>1, <2>2, AwayMeets
    <3>2. PortMeets(w, p, a)
      BY <1>8, <3>1
    <3>3. PortMeets(After(todo, w), p, a)
      BY <1>1, <1>2, <1>4, <1>11, <3>2, AwayMeets
    <3> QED BY <1>9, <2>2, <3>3
  <2>3. CASE q # p
    <3>1. PortMeets(After(todo, w), q, pinAsked[q])
      BY <1>2, <1>11, <1>12, <2>1, <2>3, AgreeMeets, Zenon
    <3> QED BY <1>9, <2>3, <3>1
  <2> QED BY <2>2, <2>3
<1>18. DutiesKept'
  <2> SUFFICES ASSUME ~collided', NEW q \in used PROVE DutyMeets(After(todo, w), q, pinAsked'[q])
    BY <1>3, <1>10, SameBoard
  <2>1. DutyMeets(After(todo, registers), q, pinAsked[q])
    BY <1>1, <1>3 DEF DutiesKept
  <2>2. CASE q = p
    <3>1. DutyMeets(registers, p, pinAsked[p])
      BY <1>1, <1>2, <1>4, <2>1, <2>2, AwayMeets
    <3>2. DutyMeets(w, p, a)
      BY <1>8, <3>1
    <3>3. DutyMeets(After(todo, w), p, a)
      BY <1>1, <1>2, <1>4, <1>11, <3>2, AwayMeets
    <3> QED BY <1>9, <2>2, <3>3
  <2>3. CASE q # p
    <3>1. DutyMeets(After(todo, w), q, pinAsked[q])
      BY <1>2, <1>11, <1>12, <2>1, <2>3, AgreeMeets, Zenon
    <3> QED BY <1>9, <2>3, <3>1
  <2> QED BY <2>2, <2>3
<1> QED BY <1>13, <1>14, <1>15, <1>16, <1>17, <1>18 DEF PinsIInv

LEMMA PinsKeep == BeyondApart /\ PinsIInv /\ [PinsNext]_pinVars => PinsIInv'
<1> SUFFICES ASSUME BeyondApart, PinsIInv, [PinsNext]_pinVars PROVE PinsIInv'
  OBVIOUS
<1>1. CASE InitPins
  BY <1>1, InitPinsKeeps
<1>2. CASE CallPin
  BY <1>2, CallPinKeeps
<1>3. CASE MakeWhole
  BY <1>3, MakeWholeKeeps
<1>4. CASE ReadRegister
  BY <1>4, ReadRegisterKeeps
<1>5. CASE WriteRegister
  BY <1>5, WriteRegisterKeeps
<1>6. CASE HandlerCalls
  BY <1>6, HandlerCallsKeeps
<1>7. CASE UNCHANGED pinVars
  <2>1. board' = board /\ used' = used /\ registers' = registers /\ todo' = todo
        /\ readCopy' = readCopy /\ pin' = pin /\ reset' = reset /\ pinAsked' = pinAsked
        /\ collided' = collided
    BY <1>7 DEF pinVars
  <2>2. PinTypes' /\ PinFresh'
    BY <2>1, SameBoard DEF PinsIInv, PinTypes, PinFresh, Bytes
  <2>3. PinCall'
    <3>1. OfPin(todo, pin)'
      BY <2>1, SameCall DEF PinsIInv, PinCall
    <3> QED BY <2>1, <3>1 DEF PinsIInv, PinCall
  <2>4. PinRead'
    <3>1. \A q : TimerBit(q)' = TimerBit(q)
      BY <2>1, SameBoard
    <3> QED BY <2>1, <3>1, Zenon DEF PinsIInv, PinRead, Nothing
  <2>5. PortsKept' /\ DutiesKept'
    BY <2>1, SameBoard DEF PinsIInv, PortsKept, DutiesKept
  <2> QED BY <2>2, <2>3, <2>4, <2>5 DEF PinsIInv
<1> QED BY <1>1, <1>2, <1>3, <1>4, <1>5, <1>6, <1>7 DEF PinsNext

LEMMA PinsImplies == PinsIInv => PinsInv
<1> SUFFICES ASSUME PinsIInv PROVE PinsInv
  OBVIOUS
<1>1. PinTypes /\ PinCall /\ PinRead /\ PortsKept /\ DutiesKept
  BY DEF PinsIInv
<1>2. PinsBoardOK /\ registers \in Bytes(Bits) /\ pinAsked \in [used -> Asked]
  BY <1>1 DEF PinTypes
<1>3. PinsTypeOK
  <2>1. readCopy # Nothing => todo # <<>> /\ ~Head(todo).whole
    BY <1>1, Zenon DEF PinRead
  <2> QED BY <1>2, <2>1 DEF PinsTypeOK, Bytes, Byte, Asked
<1>4. \A p \in used : todo = <<>> \/ p # pin => PortMeets(registers, p, pinAsked[p])
  BY <1>1, <1>2, AwayMeets DEF PortsKept
<1>5. ASSUME NEW p \in used, PortMeets(registers, p, pinAsked[p])
      PROVE  Does(p).out = pinAsked[p].out /\ Does(p).high = pinAsked[p].high
  <2> DEFINE a == pinAsked[p]
             x == registers[ModeBit(p)] = 1
             y == registers[LevelBit(p)] = 1
  <2>1. a \in Asked
    BY <1>2
  <2>2. a.out \in BOOLEAN /\ a.high \in BOOLEAN
    BY <2>1 DEF Asked
  <2>3. (x <=> a.out = TRUE) /\ (y <=> a.high = TRUE)
    BY <1>5, Zenon DEF PortMeets
  <2>4. x = a.out /\ y = a.high
    BY <2>2, <2>3, Zenon
  <2>5. Does(p).out = x /\ Does(p).high = y
    BY DEF Does, ModeBit, LevelBit
  <2> QED BY <2>4, <2>5, Zenon
<1>6. PortsNotLost
  BY <1>4, <1>5, Zenon DEF PortsNotLost
<1>7. PinsAsAsked
  <2> SUFFICES ASSUME todo = <<>>, ~collided, NEW p \in used PROVE Does(p) = pinAsked[p]
    BY DEF PinsAsAsked
  <2>1. PortMeets(registers, p, pinAsked[p])
    BY <1>4
  <2>2. DutyMeets(registers, p, pinAsked[p])
    BY <1>1, <1>2, AwayMeets DEF DutiesKept
  <2>3. Does(p).out = pinAsked[p].out /\ Does(p).high = pinAsked[p].high
    BY <1>5, <2>1
  <2>4. Does(p).duty = pinAsked[p].duty
    BY <2>2 DEF Does, DutyMeets, OnTimer, TimerBit, DutyBit
  <2>5. pinAsked[p] \in Asked
    BY <1>2
  <2> DEFINE a == pinAsked[p]
             d == Does(p)
  <2>6. a = [out |-> a.out, high |-> a.high, duty |-> a.duty]
    BY <2>5 DEF Asked
  <2>7. d = [out |-> d.out, high |-> d.high, duty |-> d.duty]
    BY DEF Does
  <2> HIDE DEF a, d
  <2> QED BY <2>3, <2>4, <2>6, <2>7 DEF a, d
<1> QED BY <1>3, <1>6, <1>7 DEF PinsInv

\* Pins that do what they were asked, between calls and during those on other pins, on
\* every board and with every interleaving of the program and its handlers, where what
\* init() reads after the tables is no pin of the sketch (wiring_digital.c,
\* wiring_analog.c, wiring.c).
THEOREM PinsKept == BeyondApart => (PinsSpec => []PinsInv)
<1> SUFFICES ASSUME BeyondApart PROVE PinsSpec => []PinsInv
  OBVIOUS
<1>1. PinsInit => PinsIInv
  BY PinsStart
<1>2. PinsIInv /\ [PinsNext]_pinVars => PinsIInv'
  BY PinsKeep
<1>3. PinsIInv => PinsInv
  BY PinsImplies
<1> QED BY <1>1, <1>2, <1>3, PTL DEF PinsSpec

=============================================================================
