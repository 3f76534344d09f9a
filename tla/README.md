# Robcmp in TLA+

Robcmp compiles a small robotics language to LLVM IR for AVR and ARM boards.
The repository holds the compiler (`src/*.cpp`, `src/Language.l`, `src/Language.y`),
copies of Arduino run-time code that compiled programs are linked with (`arduinowire/`,
`src/2018arm/`), sample programs (`hack/`, `test/`), documentation and packaging. The
modules here describe what the compiler does with a program and what the run-time
library does beside interrupts, check both on small instances with TLC, and prove the main
results for every instance with TLAPS. Paths are relative to the repository;
`PROJECT.json` gives the lines each definition stands for.

## 1. Inventory

### The compiler

| Part | State | Operations | Hard behaviour | What makes it correct | Modules |
|---|---|---|---|---|---|
| Function bodies (`FunctionDecl.cpp`, `Stmts.cpp`, `If.cpp`, `While.cpp`, `Loop.cpp`, `Return.cpp`) | the basic blocks and the recursive `generate()` calls | create blocks, emit instructions, branch | statements after a return, compound statements at the end of a branch, nested functions, loops around branches | every block has one terminator, at its end; branches stay in the function; running the blocks runs the source | `Source`, `ControlFlow`, `Execution`, `Structured` |
| Arrays, matrices (`Array.cpp`, `Matrix.cpp`, `LoadArray.cpp`, `UpdateArray.cpp`, `LoadMatrix.h`, `UpdateMatrix.h`) | the array in its symbol | expand repeated elements, compute an index | ragged matrices, the width of an index | every element has its place, no index of a legal position leaves the array | `Arrays`, `Grid` |
| Scopes and symbols (`Header.h`, `Scalar.cpp`, `Load.cpp`, `Pointer.cpp`, `FunctionCall.cpp`, `FunctionDecl.cpp`) | `tabelasym`: for each allocation block a map from names to symbols | declare on first assignment, load, store, declare and call functions | nested functions, constants, failures that return NULL | a name denotes storage of its own function or of the program, and goes on doing so; failures are reported | `Symbols` |
| Values (`BinaryOp.cpp`, `CmpOp.cpp`, `Coercion.cpp`, `Cast.cpp`, `FlipOp.cpp`) | none | operators and conversions on integers of 1 to 64 bits | widths, sign extension, shifts beyond the width, a type that is predicted apart from the value | predicted type = actual type; comparisons and wide shifts are exact | `Values` |
| Driver (`main.cpp`, `BackLLVM.cpp`, `Program.cpp`, `Language.y`) | options, `errorsfound`, `mainmodule` | read options, parse, generate, emit | options without their value, statuses of eight bits | object code only for a program without errors, a failing status otherwise | `Driver` |
| Events (`AttachInterrupt.h`, `Stmts.cpp`, `Language.y`) | the events to attach, the statements | make a function of a block, prepend the attachments | the callee must precede the call; nested blocks | each event is attached once, after its function | `Events` |
| String escapes (`unescape.cpp`) | a buffer | decode in place | a reader ahead of a writer, octal numbers of 1 to 3 digits | the buffer holds the decoded string | `Unescape` |

### The run-time library

| Part | State | Operations | Hard behaviour | What makes it correct | Modules |
|---|---|---|---|---|---|
| Clock (`wiring.c`, `hooks.c`) | timer 0, three counters | overflow interrupt, `millis`, `micros`, `delay` | interrupts between any two accesses, wrap-around | time is neither lost nor counted twice, delays are exact and end | `Timer0` |
| Busy waits (`wiring.c`) | a count | `delayMicroseconds`, `delay2` | six clocks, overhead of the call | the time asked for, no zero count | `BusyWait` |
| External interrupts (`WInterrupts.c`) | `intFunc`, mode and mask registers | attach, detach, service routines | events between any two accesses; vectors numbered otherwise than lines | the routine attached is the one called | `Interrupts` |
| Pins (`wiring_digital.c`, `wiring_analog.c`, pin tables) | ports, timers | `pinMode`, `digitalWrite`, `digitalRead`, `analogWrite`, `init` | registers shared between pins and with handlers | every pin does what it was asked | `Pins` |
| Conversions (`wiring_analog.c`) | multiplexer, result, lock | `analogRead`, `analogReference` | a handler that reads too, registers changed in part | the signal of the pin asked for; it returns | `Adc` |
| Pulses in (`wiring_pulse.c`) | three loops | `pulseInLong` | timeout across loops and clock wrap | the length of a pulse, in the time allowed | `Pulse` |
| Shifts (`wiring_shift.c`) | two lines | `shiftOut`, `shiftIn` | order of clock and data | bytes cross whole | `Shift` |
| Servo pulses (`2018arm/Servo.cpp`) | channels, a timer per twelve | compare interrupt, `attach`, `detach`, `write` | the interrupt walks what the program changes | one pulse at a time, of its width, not too often, again and again | `Servo`, `ServoAngles` |
| Steppers (`2018arm/AccelStepper.cpp`, `stepper_aux.cpp`) | position, ramp, coils | `moveTo`, `stop`, `run`, `setSpeed`, `stepper_goto` | targets moved at any time, rounding, coil patterns | the motor follows, ramps down, arrives | `Coils`, `Stepper`, `Arm` |

### How the parts interact

`main` reads options and calls `yyparse`, whose actions build a tree. If no error was
counted the driver calls `Program::generate`, which runs `Stmts::generate` on the
top-level statements. Every node's `generate(func, block, allocblock)` emits
instructions at the end of `block`, puts allocations in `allocblock`, which is also the
key of its scope in `tabelasym`, and returns an LLVM `Value`. The statements of a body
are tied together by the *kind* of that value alone: when it is a basic block, the rest
of the body goes there (`Stmts.cpp:31`); when it is NULL, something failed. This
protocol between the recursive calls is the heart of the compiler: `ControlFlow` and
`Execution` take up its blocks, `Symbols` its names and its failures, `Values` its types.

The compiler is sequential: it has no threads and persists nothing, so crash recovery
and interleaving do not arise in it. The run-time library is the opposite: small calls,
each a handful of register accesses, and interrupt handlers between any two of them. The
parts of the library share no registers with each other (the clock is read by `delay` and
`pulseInLong` only), so each is a module with its own interrupt and its own hardware.

`PROJECT.json` lists the hazards, each at its line.

## 2. Modules

| Module | Models | |
|---|---|---|
| `Source` | the grammar's statements and the order in which structured control flow runs them | operators |
| `ControlFlow` | `generate()` of functions, statements, conditions, whiles, loops and returns | state machine |
| `Execution` | the generated blocks, run by the target machine | composes `ControlFlow` |
| `Structured` | what a programmer expects: the source itself, run | abstract specification |
| `Arrays` | declaration, layout, loads and stores of arrays and matrices | state machine |
| `Grid` | what an array promises: independent positions | abstract specification |
| `Symbols` | the table of names, and every `generate()` that binds, finds or forgets one | state machine |
| `Values` | expressions, in postfix order on a stack of nodes | state machine |
| `Driver`, `Events`, `Unescape` | the command line; event blocks; string escapes | state machines |
| `Timer0`, `Interrupts`, `Pins`, `Adc` | library calls between interrupts, access by access | state machines with their hardware |
| `BusyWait`, `Pulse`, `Shift`, `ServoAngles` | library calls that count, measure, clock bits, convert | state machines with their hardware |
| `Servo` | servo objects against the interrupt that pulses them | state machine with its timer |
| `Coils` | which pins a step raises, and how far a motor turns by it | operators |
| `Stepper` | targets, ramps, speeds, steps | extends `Coils` |
| `Arm` | `stepper_goto()` | extends `Stepper` |
| `*_proofs` | | the theorems; `Compiler_proofs` has those of `Symbols`, `Driver`, `Events`, `Unescape` and `Values`, `Library_proofs` those of `Timer0`, `Interrupts` and `Pins`, `Servo_proofs` those of `Servo` and `ServoAngles`, `Stepper_proofs` those of `Stepper` and `Arm`, `Calls_proofs` those of `Adc`, `BusyWait`, `Pulse` and `Shift` |
| `MC*` | | instances for TLC |

An `MC` module extends the modules that theorems are about (`MCLibrary`, say, extends `Timer0`,
`Interrupts`, `Pins` and `ServoAngles`). A run and a theorem thus speak of the same
definition, and TLC evaluates the assumptions the theorem rests on.

### `ControlFlow`

The tree is not chosen beforehand. Code generation walks it in source order, so each
action *reads* the next statement and does what the code does at that point; the
behaviours are then all programs up to a bound. A compound statement has one action for
the part of its `generate()` before the recursive call (`BeginIf`, `BeginElse`,
`BeginWhile`, `BeginLoop`, `BeginFunction`) and one for the part after it
(`EndIfWithoutElse`, `EndIfWithElse`, `EndWhile`, `EndLoop`, `EndFunction`).

| Variable | In the code |
|---|---|
| `src` | the statements walked so far, one token per simple statement and per opening, `else` and closing of a compound one |
| `code[b]` | the instruction list of a `BasicBlock`; blocks are numbered in creation order |
| `owner[b]` | `getParent()`, the function, known by its entry block |
| `frames` | the C++ stack of `generate()` calls; a frame's `block` is the local variable of `Stmts::generate`, `first` the block the body started in, `cond` the `condwhile` of a while |
| `misuse` | history, read by no action: functions whose own source continues a body after a return, or has a branch or a return in the body of a `loop` |

An instruction is an operation, its successors and the statement it comes from; `inst`
stands for the run of instructions of an expression or an assignment. The statements are
those of a program without semantic errors. `getTerminator()` is modelled as LLVM defines
it: it looks at the *last* instruction only.

Two consequences of the code are not hidden by the model. A statement after a `return`
goes on in the same block, behind the `ret`. And `Loop::generate` puts its back edge at
the end of the *first* block of the body, wherever the body ended: a loop around a
condition gets its back edge behind the condition's branch. Functions that do either are
recorded in `misuse`, and the two properties about well-formed blocks and about execution
speak of the other functions. They do so for a whole program: a function that misuses a
return must not disturb another one.

### `Execution` and `Structured`

When no `generate()` call is under way, any well-formed function may be called. `Execute`
runs one instruction, with either outcome of a conditional branch. `Structured` runs the
source directly: it knows positions in the source and nothing of blocks. The refinement
mapping gives the position of the instruction under the program counter; the entry block,
whose allocations serve the whole body, belongs to the declaration of the function.

### `Arrays` and `Grid`

One array or matrix, local to a function, from its initializer to its last access.
`AppendElement` and `AppendLine` are the parser's `append` calls; `DeclareArray` and
`DeclareMatrix` are the whole of `generate()`: the common type of the elements, the values
with their repeat counts, the allocation, the stores and the symbol. `LoadElement` and
`UpdateElement` compute an index as the code does, as a product and a sum of `BinaryOp`
nodes whose integer type is that of the wider operand, and access the memory there.

| Variable | In the code |
|---|---|
| `line`, `lines` | the `ArrayElements` and `MatrixElements` built so far, with their repeat counts |
| `sym` | the `RobSymbol`: `matrixLines`, `matrixCols` (0 for an array) and the type of the elements |
| `mem` | the elements in memory; what is not initialized holds anything of `Garbage` |
| `access`, `stray` | history, read by no action: the last access; whether one fell outside |
| `crashed` | the compiler dereferenced NULL |

An integer type is known by half its range, so 128 stands for `int8`; this keeps sign
extension, truncation and wrap-around and lets TLC use types of 4 and 6 bits. An index
expression may have any type that can hold its value. Programs are assumed to
access positions that exist, with one index in an array and two in a matrix. The language
checks neither: `test/matrix-global.rob:10` stores to line 2 of a matrix that has lines
0 and 1. `PositionsFit` says that the number of elements fits the positive values of
the narrowest type; it is a condition of the results below, not of the model.

`Grid` is a function from positions to values. A store changes one position and keeps a
value that fits; a load returns what is there. The refinement mapping reads the grid off
the memory in row order, so an index that is off by anything shows.

### `Symbols`

A step is the `generate()` of one statement, in the innermost function under way.

| Variable | In the code |
|---|---|
| `stack`, `functions` | the nested calls of `FunctionDecl::generate`; how many bodies have begun |
| `table[s][n]` | `tabelasym[alloc]`, one map per allocation block, with the program's (`global_alloc`) as scope 0 |
| `symbols` | symbols made so far, which gives each an identity |
| `errorsfound` | `errorsfound` |
| `crashed` | what has been dereferenced as NULL: a value, or the type of an array's element |
| `last` | history, read by no action: the scope and symbols of the last statement, the names that gave it NULL, whether it generated anything, its errors |

Of a value only what the table depends on is kept: NULL, a constant or an instruction, with
its type. A failure travels as NULL, so `Generate` returns with it the errors counted and the
symbols that gave NULL. `Elements` generates those of an array one after another until one is NULL, after
`ElementType` has announced their types; an element without a type ends the compiler there.

`GenerateCall` generates its arguments and looks at none of them, so an argument may be NULL.
`CallInst::Create` then depends on the build of LLVM: with assertions it compares the types of the
arguments with those of the parameters and dereferences NULL, without it makes the call. Both happen (`Handed`).
Two abstractions: the errors of several arguments or elements count as one, since the
properties ask only whether there was one; and an argument of a call that is itself part of an
expression is a literal or a name.

### `Values`

Expressions in postfix order: an action takes its operands from a stack of nodes and
pushes the node that `generate()` returns, with the type that `getLLVMResultType()`
announced for it. Numbers wrap in their width, constants are folded as LLVM folds
them, an undefined result is a value of its own. `Ladder` is the set of widths, each twice the
one before: 8 to 64 in the language. `wideAmount` is history: it records that a shift met an
amount of a type wider than that the shift is done in.

### `Driver`, `Events`, `Unescape`

One action per phase of `main()`, option by option; one per statement of the grammar's
start rule and then per element of `vectorglobal` and per statement; one per turn of
`unescape()`'s loop.

### The library: program, interrupt and hardware

Each module has the accesses of a call as separate steps wherever an interrupt may fall
between them (`pc` says which comes next), the interrupt as an action that is enabled
between any two, and the hardware as actions of its own. What the code protects by
`cli()` or by being in a handler is one step.

- `Timer0`: `Tick` is one count of TCNT0 and `ticks` is true time, which the program never
  sees. The overflow interrupt waits at most `MaxLatency` counts. `millis()` copies its
  counter in two halves. A handler of another interrupt calls `millis()` and `micros()`.
- `Interrupts`: four processors with the bit, the mode field and the vector of each line.
  A function's address is stored in two steps. Service routines call, attach and detach.
- `Pins`: a call is the list of its updates, each a function from the bits it changes to their
  values. What `cli()` protects is one step, any other update reads its register and writes it
  back, and a handler's whole call may come in between. Of the registers only the bits of the
  sketch's pins are kept, since no call of theirs changes another. The pin tables are those of
  the source, with the mistakes they might hold.
- `Adc`: a conversion ends at any moment, the result registers are locked from the reading
  of the lower to the reading of the higher, and a handler may read at any access.
- `Pulse`: the pin changes when it likes but keeps a level for `Hold` ticks. The time allowed
  (`Allowed`) is the timeout, or that of the first turn of the loop, which is made whatever the timeout.
- `Servo`: the interrupt comes up to `MaxLate` ticks after its compare register. A register set fewer
  than `Margin` ticks ahead may be passed before it is set; the match then comes a turn of the count later
  (`Matches`). The constructor counts its channel first and gives it a width in a second step, between which
  the interrupt finds the channel with zero ticks. `detach()` is modelled for objects that have a channel.
- `Stepper`: real numbers are rounded to whole ticks and tenths of a step per second. When a
  step is due is left open. `Coils` knows, from outside the code, where each pattern
  of coils pulls the motor, so a step that the motor cannot follow shows (`lost`). A
  motor whose steps are functions of the program (`FUNCTION`) is not followed.

### Properties

Where a component's invariants are checked together, one named property is their
conjunction; the table gives the parts.

| Property | Says |
|---|---|
| `FinishedWellFormed` | each block of a finished function has exactly one terminator, at its end |
| `BranchesStayInside` | no branch leaves its function or enters the entry block |
| `AllocasInEntry` | variables are allocated in the entry block, before its terminator |
| `FinishedIsFrozen` | a step never changes the code of a finished function, also when that function was declared inside a body that is still open |
| `IInv` of `ControlFlow` | each block without a terminator is awaited by exactly one call |
| `RunsTheSource` | `Execution` implements `Structured` |
| `LoopFreeReturns` | a call of a function without whiles and loops returns |
| `NoStrayAccess` | an access to a position that exists stays inside the elements; needs `PositionsFit` |
| `IInv` of `Arrays` | the symbol describes the memory that was allocated |
| `LinesInPlace` | the values of each line are where the index looks for them, up to and including the first line that is too short |
| `IsGrid` | `Arrays` implements `Grid` |
| `NeverCrashes` | the compiler survives a constant among the elements; violated |
| `NoBranchAfterTerminator` | what the comments of `If.cpp` and `While.cpp` say of their guards; violated |
| `NamesInv` | an instruction refers only to storage of its own function or of the program (`NoForeignStorage`) |
| `BindingStable` | a name that a function can see keeps its storage, unless a declaration takes the name over |
| `FailuresReported` | a name that gives NULL has been reported, unless it is a function's (`NullsReported`); a statement of a function that generates nothing has counted an error, and so has one that dereferences a NULL value, unless it used a function's name as a variable (`StatementsReported`) |
| `ValuesInv` | `TypesPredicted`, `ComparisonsExact`, `WideShiftsExact` |
| `DriverInv`, `Ends` | the option loop stays in `argv`, the back end has a module without errors, the status tells the outcome; the driver ends |
| `EventsInv` | the functions of events at the top are found (`FoundAtTheTop`), each event is attached once (`EachAttachedOnce`) |
| `UnescapeInv` | `StaysInside`, and the decoded string against a reference (`DecodesInPlace`) |
| `ClockInv` | every overflow is counted and milliseconds do not drift (`TimeKept`); handlers stay uninterrupted |
| `ClockRead` | `micros()` returns a time between call and return; `millis()` a value its counter had |
| `DelayAccurate` | `delay()` is never short, and late by one turn only |
| `InterruptsInv` | service routines call what was attached, never half an address; after a call just the attached lines are enabled |
| `PinsInv` | between calls each pin does what it was asked (`PinsAsAsked`), during them ports lose nothing (`PortsNotLost`) |
| `AnglesInv` | pulses stay within limits; an angle written is read back |
| `WaitInv` | the busy loop never starts from zero; the wait has the cycles asked for |
| `AdcInv` | a reading nobody overlapped is of the pin and reference asked for |
| `PulsesMeasured` | a result is the length of a pulse that began and ended in the call, and comes in time |
| `ShiftsWhole` | a byte sent and taken back is itself, or reversed; data is stable while the clock is high |
| `EveryCallReturns` | `delay`, busy waits, conversions and `pulseInLong` return |
| `ServoInv` | one pulse at a time on a timer; none before the refresh interval has passed, whose end is not missed (`RefreshNotMissed`) |
| `PulseAccurate` | a pulse has the width set when it began, whatever the program does meanwhile |
| `AttachedArePulsed` | a servo that stays attached is pulsed again and again |
| `StepperInv` | the motor makes every step the position counts (`MotorFollows`) |
| `RampsDown` | it turns round only when slow enough to stop within a step; the arm never passes its position |
| `EachArrives` | once left alone it comes to rest at its target; at constant speed it reaches it; `stepper_goto()` returns, with the motor there and without power |

## 3. Runs

| Run | Question | Bounds |
|---|---|---|
| `control_flow` | are the blocks of each program well-formed, are the invariant and the step property true? | 8 tokens, all kinds, with and without parameters |
| `execution` | do the blocks run the source? does a call without loops return? | 8 tokens, all kinds |
| `nesting` | the refinement on deeper nesting | 10 tokens, without `decl` and `loop` |
| `branch_guard` | is a branch ever put behind a terminator? (a violation) | 8 tokens |
| `arrays` | are elements where the index finds them, and independent? | 6 elements, types -8..7 and -32..31, counts 1 and 2 |
| `wide_matrix` | what if the elements outnumber the index type? (a violation) | 12 elements, same types |
| `constant_element` | does the compiler survive a constant element? (a violation) | 4 elements |
| `compiler` | names, values, command line, events, escapes | 2 variables, 2 functions, 4 symbols; 5 nodes at widths 6, 12 and 24; 4 words; 4 top-level statements; 5 characters |
| `library` | clock, external interrupts, pins, angles | 8 counts per overflow, clocks of 16 values; 2 lines on 4 processors; 2 pins of 2 boards; all angles |
| `calls` | do the calls that wait return, in time and with the right value? | 4 counts per overflow, clock of 8; counts of 6 bits; 2 pins and 2 levels; timeout of 5 ticks; 5 bytes |
| `stepper` | does a motor follow, ramp down and arrive? | an accelerated motor on four wires, targets -2 to 3; all wirings at constant speeds, targets -3 to 4; the arm among 19 positions |
| `servo` | are pulses apart, accurate and recurrent? | 3 objects for 2 channels, latenesses 0 and 1, matches less than 2 ticks ahead missed or not |

Four runs put components **side by side** that share no state: a variable `part` says which
one runs and the others keep their initial state. TLC thus explores the sum of their
states and not the product, and nothing is lost, since no step of one reads a variable of
another. Where components do interact they are composed: `Execution` with `ControlFlow`,
`Arm` with `Stepper` with `Coils`, and every library module with its interrupts and
hardware.

**Bounds.** `MaxTokens` bounds the length of a program and `MaxBlocks` (never reached in these
runs) the blocks of a module. Eight tokens hold `func if func stmt end end stmt end`, a function
declared inside a branch, and `func if if stmt end end end`, a condition at the end
of a branch; ten hold an `if else` inside a `while` inside a function, and a while whose
body ends in a condition that ends in a return. `EndsAfter` keeps only the programs that
can still be closed within the bound, so no branch of the exploration is wasted.

`MaxElements` bounds the elements of an array. Six hold a 2 x 3 and a 3 x 2 matrix, which
tell lines from columns, a repeated line of repeated elements, and a ragged matrix of two
or three lines; the types are as small as the number of elements allows, so a
conversion of the values in the inputs really changes them (-9 does not fit -8..7, and the
literal 9 makes the elements wide).

In `compiler`, two functions nest in each other, and one may be declared beside the
other; four symbols let a function, its parameter, a global and a local of the same name
meet. The name `f` is that of a function and of a variable. The lists of arguments and elements hold a literal,
a name that may have no type or be a function's, and a name before a call whose own argument may be
NULL. Nothing is compiled after the first statement with an error (`MaxErrors`), so no failure hides
behind the report of an earlier one; the theorem has no such bound. The widths 6, 12 and 24 keep what is hard about 8 to 64: a type twice as wide, one wider
than that, one with no wider type, the boolean below; and a negative amount of a narrower type still reads
as more than every width. There are no products, which would be beyond TLC's integers at 24
bits. Four words hold `-a -o f x` in every
order, and an option without its value. Five characters hold an octal number of three digits
and a fourth, and a backslash escaped before it.

In `library` and `calls` the moduli are small and keep the divisibility the code relies on
(`ClockAssumption`): milliseconds that are not a whole number of overflows, a remainder
that carries, clocks that wrap many times in a run. Two lines or pins are enough, since
a call touches one and what can go wrong is done to another; the pairs are chosen to share
ports, timers and renumbered vectors. `stepper` uses a maximum speed that takes three steps to reach
and targets on both sides; the arm's positions are far enough apart for a ramp up, a stretch
and a ramp down. Histories (`since`, `elapsed`, `last`, ...) are capped where they cannot matter any
more, and each cap is a named constant.

`CHECK_DEADLOCK FALSE` is set where the system really stops: a program of the full length has no
next statement, a compiler that crashed or exited is gone, a table is full.

**Fairness.**

- `Execution`: `WF_evars(Execute)`. A processor that has entered a function goes on
  executing. Nothing is assumed of compilation or of calls being made, and nothing of the
  outcome of conditions, so a while may run for ever and `LoopFreeReturns` is limited to
  programs without one.
- `Driver`: weak fairness of its steps: a sequential program goes on.
- `Timer0`: strong fairness of `Tick` and of `Overflow`. The counter never stops; `Tick` waits in the
  model for the program, which is bounded to act within `Limit` counts. The interrupt is
  served after at most one instruction with interrupts enabled, and every call enables
  them again. Weak fairness of the program inside a call. Nothing obliges a program to call.
- `Adc`: conversions end; a handler, once begun, goes on; the sketch goes on if handlers let
  it again and again (strong fairness, since handlers preempt it).
- `BusyWait`, `Pulse`: time passes and the program goes on.
- `Servo`: `WF(Interrupt(t))`: a running timer reaches its compare register.
- `Stepper`, `Arm`: the program goes on calling `run()`, the loop of
  `runToPosition()`; nothing is assumed of the calls that move the target.

**Findings.** `branch_guard` shows `func if return stmt end ... end`: the `ret` of the branch
is followed by the store, so `If.cpp:35` finds no terminator and adds a branch. The block
then has two terminators, against the comment at `If.cpp:34`. The compiler never calls
LLVM's verifier, so the module goes to the back end as it is.

`wide_matrix` shows a 3 x 4 matrix under a type of -8..7: for line 2 the product 2 * 4
wraps. In the language's terms, a matrix of 20 x 20 read with two `int8` counters looks for
[10][10] at -46 (`LoadMatrix.h:16`, `UpdateMatrix.h:17`), which is not the "accessed
accordingly" of `Matrix.cpp:6`.

`constant_element` shows the crash `test/vector-global.rob` runs into: the type of
a global constant is NULL (`Load.cpp:11`) and `ArrayElements.cpp:25` dereferences it.

Every property of a passing run has a mutant: a plausible mistake in the code (written
next to the definition it replaces and introduced by "Mistaken:") under which TLC finds
the property violated.

### What the models follow though it may surprise

These are behaviours of the code met while modelling. The modules do what the code does; no
property is claimed where it would be false.

| Where | What the code does |
|---|---|
| `Loop.cpp:12` | the back edge of a `loop` leaves the first block of its body, also when the body ended elsewhere (`misuse` in `ControlFlow`) |
| `FlipOp.cpp:14` | the complement of a constant is its arithmetic negation; `hack/avr/blink.rob:32` relies on the bits |
| `BinaryOp.cpp:67`, `BinaryOp.cpp:121` | a shift by a known amount whose own type is wider than the type shifted in (`x << (70000 - 69990)`) is generated in the type of the amount and announced in the other (`wideAmount` in `Values`) |
| `BinaryOp.cpp:52`, `BinaryOp.cpp:119` | the amount is read without its sign but kept in an `int64_t`: a negative amount of a narrower type is more than every width, one of 64 bits stays negative and is below every width, so it neither widens the operand nor counts an error |
| `BinaryOp.cpp:53` | a shift by exactly the width is not widened and has no value in LLVM |
| `CmpOp.cpp:38` | two floating-point values are compared on the integer path, through a failed cast |
| `Load.cpp:45` | the name of a function used as a variable gives NULL, which is printed but not counted as an error: `f = f` in a function dereferences it (`Scalar.cpp:46`), `x = f` for a new `x` generates nothing |
| `ArrayElements.cpp:25` | an element without a type (an undeclared name, a function's, a global constant) is dereferenced before any error is counted (`crashed = "type"`) |
| `ArrayElements.cpp:36` | when no element is a number an error is counted, and the NULL returned is dereferenced as the type of the array (`Array.cpp:12`) |
| `Scalar.cpp:23` | a global whose value is not a constant is dropped without an error |
| `Array.cpp:35` | a global array with a call among its elements is dropped without an error, against the comment there: a load is reported, a call is not |
| `FunctionCall.cpp:28` | an argument that failed is handed to `CallInst::Create` as NULL |
| `Scalar.cpp:46` | a value stored into an existing variable is not converted to its type |
| `FunctionCall.cpp:27` | arguments are neither counted nor converted; `test/bellmanford.rob:60` passes wider ones |
| `main.cpp:38` | `-O` is taken to have a level when the *first* argument is longer than two characters, whichever argument the option is |
| `main.cpp:63` | the exit status is the number of errors modulo 256 |
| `AttachInterrupt.h:21` | an event block inside a function is attached in front of the top-level statements, where its function is not known: the assertion fails |
| `AttachInterrupt.h:49`, `Language.y:81` | attachments are statements of the top level, which has no basic block: their calls are created in none |
| `wiring.c:186` | `delayMicroseconds()` wraps beyond 16383 microseconds at 16 MHz |
| `wiring.c:413` | `init()` sets pins beyond the tables of the smaller board |
| `wiring_digital.c:82`, `wiring_analog.c:106` | timer control registers are changed with interrupts enabled (`collided` in `Pins`) |
| `WInterrupts.c:142` | a handler that attaches while the program does loses or undoes a change (`raced`) |
| `Servo.cpp:250` | limits that do not fit a byte in units of four microseconds are cut |
| `Servo.cpp:271`, `Servo.h:107` | `write()` takes 200 to 543 as angles, cut to 180, where the comment in the header has them as microseconds |
| `Servo.cpp:262` | `detach()` during a pulse leaves the pin high (`stuck`); of an object without a channel it clears a bit behind the array of servos, which is not modelled |
| `Servo.cpp:231` | the interrupt may find a channel counted before its width is stored: its turn takes no ticks, and the match may be missed |
| `AccelStepper.cpp:213` | `_cmin` is 1 until `setMaxSpeed()` is called: the first maximum speed is not kept |
| `AccelStepper.cpp:425` | on three wires a negative position has no case: no coil changes |
| `AccelStepper.cpp` `setCurrentPosition()` | the position restarts, the coils do not: the next step may turn the motor by more than one |

## 4. Proofs

The theorems hold for every value of the constants that satisfies the named assumptions of
the modules, which TLC evaluates for each instance. Each of them follows the same way: an
inductive invariant, checked by TLC first, holds initially (`...Starts`, `Init...`), is kept by
each action (`...Keeps`, `Next...`) and implies the property.

| Module | Theorem | States | Needs |
|---|---|---|---|
| `ControlFlow_proofs` | `TypeCorrect`, `Inductive` | `TypeOK`, `IInv` | |
| | `WellFormed`, `Frozen` | `FinishedWellFormed`, `FinishedIsFrozen` | |
| | `BranchesStay`, `AllocasPlaced` | `BranchesStayInside`, `AllocasInEntry` | |
| `Execution_proofs` | `RunsStayInside` | `ExecTypeOK`: a running function stays among its own instructions | |
| | `BlocksRunTheSource` | `RunsTheSource`, the refinement of `Structured` | |
| `Arrays_proofs` | `ArraysTyped` | `TypeOK` | |
| | `LinesLaidOut` | `LinesInPlace` | |
| | `ArraysInductive`, `AccessesStayInside` | `IInv`, `NoStrayAccess` | `PositionsFit` |
| | `ArraysAreGrids` | `IsGrid`, the refinement of `Grid` | `PositionsFit` |
| `Compiler_proofs` | `NamesKept` | `NamesInv` | |
| | `NamesStable` | `BindingStable` | |
| | `FailuresSeen` | `FailuresReported` | |
| | `DriverKept` | `DriverInv` | |
| | `EventsKept` | `EventsInv` | |
| | `StringsDecoded` | `UnescapeInv` | |
| | `ValuesTyped` | `ValuesInv` | |
| `Library_proofs` | `ClockKept`, `ClockReadsNow` | `ClockInv`, `ClockRead` | |
| | `DelaysAccurate` | `DelayAccurate` | `DelayFits` |
| | `LinesAsAttached` | `InterruptsInv` | |
| | `PinsKept` | `PinsInv` | `BeyondApart` |
| `Calls_proofs` | `ReadingsKept` | `AdcInv` | |
| | `WaitsAccurate` | `WaitInv` | |
| | `PulsesKept` | `PulsesMeasured` | |
| | `BytesCrossWhole` | `ShiftsWhole` | |
| `Servo_proofs` | `ServosKept` | `ServoInv` | |
| | `PulsesAccurate` | `PulseAccurate` | |
| | `AnglesKept` | `AnglesInv` | |
| `Stepper_proofs` | `AcceleratedFollows`, `ConstantFollows`, `ArmFollows` | `StepperInv`, of `Spec`, `ConstantSpec`, `ArmSpec` | |

What the last column names is a condition of the theorem, besides the assumptions on constants:

- `PositionsFit`: the number of elements fits the narrowest index type. It cannot be dropped,
  as `wide_matrix` shows.
- `DelayFits`: a millisecond is a whole number of counts, at least two, and together with the
  longest `yield()` fits the clock's word. `delay()` subtracts two readings of an `unsigned long`, which
  tells how long ago something was only that far back; a delay itself may be any number of
  milliseconds.
- `BeyondApart`: `init()` sets A0 to A7 on boards that have fewer (`wiring.c:413`), so it reads ports and
  bits from behind the tables. What it finds there is no pin of the sketch, or no pin at all; otherwise
  `init()` would make an input of a pin it has just made an output.

### Control flow

`FinishedWellFormed` is not inductive: it says nothing of the blocks of a function under
way. The strengthening is about the calls. A call *awaits* the blocks it will still add
to whatever it is called with: the current block of its body, the entry block that misses
its branch, the condition of a while that misses its branch (`Awaits`).

- `FramesLinked`: the blocks of a call exist and belong to the function it generates, the
  caller's function unless the call declares a nested one.
- `AwaitedOnce`: two calls never await the same block. This is why the second half of `If`
  or `While` finds the caller's block as the first half left it.
- `AwaitedClean`: awaited blocks have no terminator yet, except where the body returned.
- `UnsealedAwaited`: a block without its terminator is awaited by some call.
- `FramesHistory`: what the history fields mean.

A finished function has no call, so nothing awaits its blocks and `UnsealedAwaited` makes
each of them sealed. For `Frozen` the same argument shows `OthersKept`: a step changes
blocks of the function of the innermost call only, and new ones.

The actions are proved through three shapes of a step: `GrowStep` (a statement adds to the
current block), `BeginStep` (a call is pushed with fresh blocks) and `EndStep` (calls are
popped, their awaited blocks sealed, the caller moves to a fresh block). Each action lemma
shows that the action has its shape; `BeginFunction` and `EndFunction`, which start and
finish a function, are proved directly. `NextInv` puts them together.

`BranchesStay` and `AllocasPlaced` are about single instructions, and an instruction that is
well placed stays so while blocks are added. `PlacedInv` says it of all instructions at once;
`Stage` says it of an unfinished list of blocks under the owners the step ends with, so that
an action is the chain of its emits (`EmitStage`, `NewBlockStage`). That the targets of those
emits are blocks of the right function is `FramesLinked`, and that an alloca finds no terminator
in front of it is `AwaitedClean`.

`RunsStayInside` puts these results to use. That the program counter of a running function is
always at an instruction needs both: in a finished program each block of a well-formed
function ends in its only terminator (`BlocksSealed`, from `UnsealedAwaited`), so a block that is
entered has a first instruction and one that is no terminator has another behind it; and a branch leads
to a block of the same function (`SuccessorStarts`, from `PlacedInv`).

`BlocksRunTheSource` is the refinement, and what says most about this compiler. Two things
have to be tied together: where code generation *is* in the source, and what each block
*runs* of it (`FlowInv`).

- `Nested`: the calls of `generate()` under way are exactly the statements that are open in
  what has been read, each with the opening it began at.
- `FlowsFrom(start)`: there is a position for every block, chosen when the block is created
  and never changed, such that the block follows the source from there. Each
  instruction continues with the position its successor is at (`Linked`), and the last one
  with the position the block is left for; a block still under construction goes on at the
  position the call that awaits it will read next (`CallFlows`).
- `Passed`, `Reaches`, `Lands`, `Leaves`: `Structured` skips over the rest of a condition by
  looking for a least position. In a source that is still being read there need not be one, and
  it may change. These relations say the same of any two positions and survive each further
  token (`PassedKept`, `LandsKept`, ...), and `SkipReaches` leads back to the definition when the
  function is closed.

Each action of code generation has a lemma (`StatementFlows`, `EndIfWithElseFlows`, ...): the blocks it
creates get their positions, its emits link them. In a finished function every position
has then been settled, and the step of a sealed block is a step of the source or a
stutter (`ExecuteImplements`). `EmptyEnters` and `TestFits` are where it could go wrong: a body with
nothing in it, and the test of a while, which is emitted after the body it branches over.

### Arrays

`NoStrayAccess` is a history flag
and needs the shape of the memory: `IInv` adds that the initializer under construction
stays within the bound, and that a symbol has `lines * columns` elements in memory
(`DefineFits`). An index then lies inside because each of its intermediate results is at
most the number of elements (`MatrixIndex`), hence fits whatever type the operands give it
(`TimesExact`, `PlusExact`, `IndexWithin`).

`ArraysTyped` does not rely on `PositionsFit`: whatever the index computes, each element is a
value of the array's type (`MemoryHolds`), also those that are left uninitialized and those
a stray store would have hit. `ArraysAreGrids` maps each step to one of `Grid` or to a
stutter: declarations create the grid, and an access reads or writes exactly the position in
row order, because index computation is exact where `IInv` holds and row order gives two
positions two places.

`LinesLaidOut` is about what a declaration writes, for initializers of any length with any
repeat counts. The counts of the entries, summed (`Adds`), say where the copies of each begin
(`SizeSums`, `EntryIs`); joining sequences puts each behind the lengths of those before it
(`FlattenPlaces`), so copies stand at multiples of their length (`RepeatPlaces`), elements of an array where
counting finds them (`ArrayPlaces`), and lines of a matrix one behind the other (`LinePlaces`). This
is the line's number times the number of columns as long as all lines before it are that long
(`FullLines`, `MatrixPlaces`), which is what the index computation supposes. What would be an
induction over the sequence is in each case a least number for which the claim fails.

### Names

The strengthening `NamesIInv` says that a symbol in the table of a function belongs to that
function or to the program (part of `NamesInv`), that the tables are total (`Tables`) and that
the program is at the bottom of the stack and nowhere else. The last part is what makes
`EndFunction` return to a scope that exists, and a nested function not be its own
surroundings. `LookupOwn` follows, then the same for every expression (`GenerateOwn`); each
statement either counts errors (`FailStep`), binds nothing (`KeepStep`) or binds one name
in its own scope (`BindStep`).

For `NamesStable` the same shapes are used again: a step that binds a name disturbs no other
(`TakeOver`), and an assignment binds one only when its search found none (`ScalarStays`).
Beginning a function fills the table of a scope that no function on the stack has
(`StackScopes`). For `FailuresSeen` each value is
shown to have reported the names that gave it NULL, and a value that is NULL, or that was handed one,
to have such a name or an error (`Reported`): for a name (`LoadReports`), a call whose arguments are reported
(`CallReports`), an expression (`GenerateReports`) and the elements of an array (`ElementsReport`). What is left
for each statement is to pass on its value's errors and names (`Does`). No condition on names is
needed: a function's name used as a variable is among `last.nulls`, so the property itself can
tell that failure from the others.

### Driver and events

`DriverInv` speaks of the end of a run; `PhasesOK` adds what each phase leaves to the next: no
error is known while options are read, a program parsed without errors has been generated
before the back end is reached, and an output is the last thing a run does. `StatusRange`, 256 in
the code, is assumed to be at least 2.

`EventsIInv` follows the list of statements through three stages. `AttachedInOrder(n)`: the
attachments of the first `n` events stand right behind the last function, the last found
first, and nowhere else, since inserting one moves the others by one place (`InsertKeeps`).
`Generated`: the functions declared are those in front of `pos`, and the calls made are the
attachments in front of it. At the end the calls are therefore the events in reverse, and
`MirroredCounts`, a bijection of places, says that each event occurs among them as often as
among the blocks.

### String escapes

`unescape()` writes into the buffer it reads. `UnescapeIInv` says of it at every turn: what has been
written, followed by the decoding of what is still to be read, is the decoding of the
string as it was (`Split`), and the reader is never behind the writer, so what is still to
be read is as it was (`Ahead`). The reader is never inside an escape sequence, which is why an
escaped backslash does not begin a second one. What the decoding *is*, a recursive function
of the string, exists by an argument about a least counterexample from the last position
back (`DecodingExists`); each kind of turn then takes one element off it
(`PlainKeeps`, `OctalKeeps`, `EscapeKeeps`).

### Values

`ValuesIInv` says two things of each node. It is `Typed`: its value fits its width, and its announced
width, if any, is that of an integer type. And it is `Announced`: the type announced is the type it
has, as long as no shift has been reported as an error or met an amount that is wider
(`wideAmount`). The operators are proved one at a time: a conversion is exact when it widens
(`ConvertLemma`), the operands of an operator end with the wider of their types (`WiderLemma`,
`OnIntegersLemma`, `OnFloatsLemma`), a shift by more than the width is done in the next type
and is then the exact product or quotient (`WideShiftExact`), a comparison compares the numbers
themselves (`CompareLemma`).

Powers of two are a recursive function, whose existence on an interval is again shown by a least
counterexample (`RecursionOnInterval`, `TwoToLemma`); all wrap-around is the uniqueness of quotient
and remainder (`RemainderLemma`, then `SignedLemma`, `UnsignedLemma`, `FitsLemma`). `LadderAssumption` says
that each width but the largest has its double, as 8 to 64 do, and that half the range of the
narrowest integer reaches the largest width: a negative amount of a narrower type, read without its sign, is
then more than any width (-128 reads as 128, against 64). `Amount` is the code's `int64_t`: of the
widest type a negative amount stays negative (`AmountValue`), and widens nothing.

### Clock and delays

The counts are unbounded in truth and wrap in the program, so everything is said modulo the
word, of the number of overflows *served*: `Counted` states what the three counters hold
of it, and `Overflow` keeps that since the fraction carries exactly when the milliseconds
gained make another whole one. `Reading` says what a call has read so far and how old it may
be: `micros()` may find the counter past zero, but then the flag is raised, and it is late by at
most one count. The assumptions (`ClockAssumption`) are about the timer: 256 counts to an
overflow, microseconds to a count, and a remainder of milliseconds that the grain of the
fraction divides, as at 8 and 16 MHz; a word that is a multiple of an overflow's microseconds,
as 2^32 is; an interrupt served before the next overflow.

`DelaysAccurate` adds `InDelay`: true time since the start, less the milliseconds already
counted off, is a lag (`Lag`) that stays below a bound that depends on the point of
the loop (`Soon`), and `start` is the present less this lag, modulo the word. The subtraction
the code makes is then exact, as the lag is small against the word.

### External interrupts

An invariant that is preserved has to say what is true in the middle of a call, at each of
its accesses. `LinesKept` does: the line a call is about is disabled and its entry is written
from the low byte to the high one (`InProgress`), every other line agrees with what was
last asked (`Undisturbed`). Lines that a handler attached anew during a call about them
(`reattached`), and programs in which two calls raced (`raced`), are set apart as in the property. `ModesSet` says that an enabled line has its mode set, also
while a call holds a copy of the register, and `Serving` that the routine called was read whole.
The facts about the four processors, which vector and which bit belong to which line, are
proved by cases (`BitNumbers`).

### Pins

A pin in the middle of a call is not yet what was asked of it, and may not be what was asked
before either. `PinsIInv` speaks of the bits the updates still to be made will leave (`After(todo,
registers)`): *these* always are what each pin was asked to be, its port bits whatever happens
(`PortsKept`), its timer's as long as no handler changed the register the program had read
(`DutiesKept`). Updates of the program touch bits of the one pin the call is about (`OfPin`), so for
every other pin what will be is what is, and between calls it is so for all of them. The copy of
a register under way equals the register unless a handler came in between (`PinRead`), so writing it
back changes one bit; ports are never read that way, which is why they need no exception.

What a sequence of updates leaves is what its last update of each bit sets (`After`), and calls
have at most three updates, so what each call makes of the bits (`Makes`) is proved by cases. Pins
have bits of their own because the tables name no bit and no timer output twice among the
pins of a sketch (`PinsAssumption`, `PinsApart`): two names of one pin, as the larger board has,
would have to be asked as one. `init()` is the only long sequence; the last of its updates of a
bit is found in each of the two tables.

### Conversions and busy waits

`AdcIInv` follows a call that nobody interrupts through its accesses (`Progress`). What such a call
relies on is a fact about all calls, the interrupted ones too: a conversion is under way only
while some call waits for one (`ConversionAwaited`), so the bit that starts one is never
already set, and the result is locked only in front of the reading of its high byte
(`LockReleased`), so a new result is never held back. The pins are those the board has.

`WaitIInv` adds up the calls a wait is made of: `n` calls with argument `a` have taken `n * a`
microseconds, but for a slack each (`Took`), and the loop under way stands for four cycles a
turn. The assumption that a millisecond is at least three calls' units (1000 in the code) is needed
because a call that returns early, for one or two microseconds, misses by more than the slack; a
wait made of many calls never has such ones.

### Pulses measured

`PulseIInv` says at each access what the call knows (`Seen`): how late it was when it looked last,
and, after it has seen the pin at a level, how long ago the pin may have come to it. Where the pin is
seen to rise or to fall this bounds the change within two turns of a loop, so the time from
`start` and the length of the pulse differ by three paces at most (`Measured`), in whichever order the
pin changes, time passes and the program looks; the pin holds a level for longer than that, hence does
not rise and fall between two looks. `SinceTicks` is the clock: differences modulo the word are true
times while they are smaller than it, and they are since the call is given up in time. That the
result comes within the timeout *and two turns* was not true as first stated: with a
timeout shorter than a turn the first turn is still made, which `Allowed` accounts for.

### Shifts

A byte is its bits (`Halves`), and a row of bits read by the other order is the byte reversed
(`RoundTrips`). `ShiftIInv` says how many bits have crossed the wires, which they do when the
clock rises: those sent stand at the end of the register, in the order of the call that
sends them (`Sent`), those still to be taken back at its beginning (`Kept`), and `shiftIn()` has
added up as many bits of the row as have crossed (`Parts8`). Between the two calls
the one reading of the register is the other (`SentIsKept`).

### Servos

`ServoInv` says that one pin of a timer is high at a time and not before the refresh interval
has passed. Neither is inductive. `PulseUnderWay` adds that the channel whose pin is high is
the one the timer is at, with the compare register set for its width; `Counts` and `Turns`
bound the count by the channel's turn: the k-th channel is raised no later than
k times the longest pulse and the longest lateness, and no earlier than k times the shortest
pulse. Hence the channels whose turn is still to come were raised in the round before, and the
interval has passed when it comes. `ServoAssumption` has the numbers this rests on: twelve
channels of at most 4800 ticks, with lateness and margin, are below the 65536 of the
counter, and the interval of 40000 is below it too; no width is below the margin and the
lateness is, so a pulse's end and the interval's are never set too near to be met (`RefreshAhead`).
Only the match of a channel without a width, or the first of a timer, may be missed, and `Constructed` says which that is: the last one counted,
while its constructor is between its two stores, which is not active and pulses nothing. `PulsesAccurate` follows from `PulseUnderWay`: a
pin goes down when its timer reaches the compare register, and the width is added to the count
at which it was raised.

### Angles

Limits are kept as bytes in units of four microseconds, angles are mapped to pulses by a division and
pulses to ticks of the timer by another. `AnglesIInv` says that the ticks are those of what the last
call asked for, within the limits. Both divisions lose something on the way back:
microseconds that become ticks and microseconds again are at most one less, and none at 8 or 16
MHz (`TicksAndBack`); the pulse of an angle reads back as the angle when the one microsecond is added
that `Servo::read()` adds (`AnglePulse`), because a byte keeps the limits more than 180 microseconds
apart (`LimitsApart`). `AnglesAssumption` has clocks of 8 to 22 MHz, so that ticks times eight fit
the word the code computes in.

### Steppers

`MotorFollows` alone is not inductive: whether the next step is made depends on where the last
one left the motor. `Stands` says where that is. Each kind of wiring has one angle for
every position (`AngleAt`): the mask of the position's case pulls the motor there and nowhere
else (`Pulled`), and the angles of neighbouring positions are one step of the motor apart
(`NextAngle`), round the end of the table too. Behind a driver the step line is low between
steps, so the pulse of the next one is seen, by a direction line that was set before it
(`DrivenOne`). None of this asks which way the motor is going or for how long, so it holds for
targets moved at any time, and `Follows` is the same lemma for both kinds of program.

Three wires have a case only for positions from the origin up. `Ahead` says that the
position stays there, which is true of `runSpeedToPosition()`, that never passes its target, and
not of `run()`, that may: `Spec` excludes three wires, and `ConstantSpec` their targets below the
origin. It also keeps `setCurrentPosition()` to drivers, for which the position is a number only.

The types rest on the intervals: an interval computed is never below the shortest one
(`NewSpeed`) and that is a tick at least (`SpeedInterval`, `FirstInterval`), so no speed is
divided by zero. `StepperAssumption` bounds the maximum speeds and accelerations by the length of
a tick, whatever it is; with microseconds these are a million steps per second and beyond.

### What stays with TLC

- All liveness (`LoopFreeReturns`, `Ends`, `EveryCallReturns`, `AttachedArePulsed`,
  `EachArrives`): it rests on fairness and `ENABLED`.
- `RampsDown`: it depends on how the model rounds real numbers (how far `_n` is from the speed)
  and is meaningful for the instance only.
- The three runs that expect a violation.

## 5. Plan

Done: the compiler's control flow, arrays, names, values, driver, events and escapes; the
run-time library's clock, waits, interrupts, pins, conversions, pulses, shifts, servos and
steppers; the proofs of section 4.

Left, in order:

1. A `loop` around a branch or a return (`Loop.cpp:12`), which `misuse` sets apart: which
   programs of the samples meet it, and what their blocks then run.
2. Global arrays; pin inversion and the enable pin of steppers.

## 6. Not modelled

- Types of returned values, attributes, names and alignment: they do not influence control
  flow.
- Compound statements at the top level, outside every function: the code creates
  blocks without a function there and no sample does it.
- Global arrays (their values must all be constants; layout and index are the same) and
  accesses with the wrong number of indices.
- Repeat counts of zero, which the grammar accepts: no sample uses one.
- Floating-point arithmetic: `Values` knows the types and the conversions that the code
  chooses, not what the target computes.
- `print`, `delay` and port statements (`Print.cpp`, `Delay.cpp`, `InPort.h`, `OutPort.h`): each calls a
  run-time function that `Program::declara_auxiliary_c_funcs` would declare, and nothing
  declares any; `generate()` dereferences NULL.
- The scanner, error recovery, syntax-tree printing and visitors: input and output without
  state of interest. `main.cpp` and `node.h` in the top directory are an earlier version of the
  compiler; the Makefile compiles `src/` only.
- `pulseIn`, whose loop is in an assembler file outside of the repository; `pulseInLong`
  measures the same by the clock.
- The timers that only boards without a pin table in the repository have; `binary.h`, names
  for constants.
- Pin inversion, the enable pin and the width of the step pulse of steppers: wiring.
- LLVM itself (optimization, object code), the PlatformIO scripts, documentation,
  editor syntax files, and vendored headers.
