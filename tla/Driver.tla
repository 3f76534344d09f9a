-------------------------------- MODULE Driver --------------------------------
(***************************************************************************)
(* The command line compiler (src/src/main.cpp, BackLLVM.cpp, Program.cpp, *)
(* the start rule of Language.y): options, parsing, generation, output and *)
(* exit status.                                                            *)
(*                                                                         *)
(* Of the source file only the numbers of its errors are kept: those the   *)
(* scanner and the parser count (an empty file is one of them, a statement *)
(* that error recovery skips counts one and parsing goes on), and those of *)
(* generate().                                                             *)
(***************************************************************************)
EXTENDS Integers, Sequences, FiniteSets

CONSTANTS
    Words,          \* the arguments of the command line
    LevelOf,        \* the level of each word that begins with -O
    TargetWords,    \* the words that begin with -a
    OutputWords,    \* the words that begin with -o
    ShortWords,     \* the words of at most two characters
    Readable,       \* the words that name a file that can be opened
    Writable,       \* the words that name a file that can be written
    Supported,      \* the names of supportedTargets
    Built,          \* the targets the LLVM library was built for
    MaxArgs,        \* bound on the number of arguments
    MaxFound,       \* bound on the errors of each phase
    StatusRange     \* number of exit statuses the system tells apart

LevelWords == DOMAIN LevelOf
NULL == "NULL"
Host == "host"
NoTarget == ""

ASSUME WordsAssumption ==
    /\ LevelWords \cup TargetWords \cup OutputWords \cup Readable \subseteq Words
    /\ LevelWords \cap TargetWords = {} /\ (LevelWords \cup TargetWords) \cap OutputWords = {}
    /\ Host \notin Words /\ NULL \notin Words /\ Built \subseteq Supported \cup {Host}
    /\ StatusRange \in Nat \ {0, 1} /\ MaxFound \in Nat /\ MaxArgs \in Nat

VARIABLES
    phase,      \* what main() is doing
    argv,       \* the arguments behind the name of the program
    argi,       \* the argument of the option loop
    level,      \* optimization
    target,     \* targetarch
    output,     \* build_outputfilename
    input,      \* build_filename, "stdin" when there is none
    errors,     \* errorsfound
    module,     \* whether mainmodule has been generated
    written,    \* the outputs written: [kind, to, target, level]
    status      \* the exit status, -1 before the exit

driverVars == <<phase, argv, argi, level, target, output, input, errors, module, written, status>>
options == <<level, target, output, input>>

\* The arguments as main() indexes them; the one behind the last is NULL.
Arg(k) == IF k <= Len(argv) THEN argv[k] ELSE NULL

DriverInit ==
    /\ phase = "options"
    /\ argv \in UNION {[1..n -> Words] : n \in 0..MaxArgs}
    /\ argi = 1
    /\ level = "z" /\ target = NoTarget /\ output = NULL /\ input = "stdin"
    /\ errors = 0
    /\ module = FALSE
    /\ written = {}
    /\ status = -1


Exit(s) ==
    /\ phase' = "exited"
    /\ status' = s % StatusRange

-----------------------------------------------------------------------------
(* main(): the options *)

Usage ==
    /\ phase = "options" /\ argv = <<>>
    /\ Exit(1)
    /\ UNCHANGED <<argv, argi, options, errors, module, written>>

\* The level of -O: the length looked at is that of the first argument, whatever
\* the option is.  An option without a level leaves the zero that ends it.
LevelAt(k) == IF Arg(1) \in ShortWords THEN level ELSE LevelOf[Arg(k)]

\* Mistaken: the value of an option is not skipped.
NextOptionSlow(k) == argi' = k

\* The arguments an option takes up, its value included.
NextOption(k) == argi' = k + 1

Option ==
    /\ phase = "options" /\ argv # <<>> /\ argi <= Len(argv)
    /\ \/ /\ Arg(argi) \in LevelWords
          /\ level' = LevelAt(argi)
          /\ NextOption(argi)
          /\ UNCHANGED <<target, output, input>>
       \/ /\ Arg(argi) \in TargetWords
          /\ target' = Arg(argi + 1)
          /\ NextOption(argi + 1)
          /\ UNCHANGED <<level, output, input>>
       \/ /\ Arg(argi) \in OutputWords
          /\ output' = Arg(argi + 1)
          /\ NextOption(argi + 1)
          /\ UNCHANGED <<level, target, input>>
       \/ /\ Arg(argi) \in Readable \ (LevelWords \cup TargetWords \cup OutputWords)
          /\ input' = Arg(argi)
          /\ NextOption(argi)
          /\ UNCHANGED <<level, target, output>>
    /\ UNCHANGED <<phase, argv, errors, module, written, status>>

\* A file that cannot be opened ends the compiler in the middle of the options.
CannotOpen ==
    /\ phase = "options" /\ argi <= Len(argv)
    /\ Arg(argi) \notin LevelWords \cup TargetWords \cup OutputWords \cup Readable
    /\ Exit(1)
    /\ UNCHANGED <<argv, argi, options, errors, module, written>>

-----------------------------------------------------------------------------
(* yyparse() and Program::generate() *)

\* With errors the parser may have given up or skipped to the end of the file.
Parse ==
    /\ phase = "options" /\ argv # <<>> /\ argi > Len(argv)
    /\ \E n \in 0..MaxFound :
          /\ errors' = n
          /\ phase' = IF n = 0 THEN "generate" ELSE "parsed"
    /\ UNCHANGED <<argv, argi, options, module, written, status>>

GenerateProgram ==
    /\ phase = "generate"
    /\ \E n \in 0..MaxFound : errors' = errors + n
    /\ module' = TRUE
    /\ phase' = "parsed"
    /\ UNCHANGED <<argv, argi, options, written, status>>

\* Mistaken: the compiler reports success.
ReportQuietly ==
    /\ phase = "parsed"
    /\ IF errors > 0 THEN Exit(0) ELSE phase' = "backend" /\ UNCHANGED status
    /\ UNCHANGED <<argv, argi, options, errors, module, written>>

\* main(): the number of errors is the exit status.
Report ==
    /\ phase = "parsed"
    /\ IF errors > 0 THEN Exit(errors) ELSE phase' = "backend" /\ UNCHANGED status
    /\ UNCHANGED <<argv, argi, options, errors, module, written>>

-----------------------------------------------------------------------------
(* print_llvm_ir() *)

\* An unknown target is the machine the compiler runs on.
Resolved(t) == IF t \in Supported THEN t ELSE Host

Levels == {"0", "1", "2", "3", "s", "z"}
Pipeline(l) == IF l \in Levels THEN l ELSE "z"

Written(kind, to) == [kind |-> kind, to |-> to, target |-> Resolved(target), level |-> Pipeline(level)]

BackEnd ==
    /\ phase = "backend"
    /\ IF target = NULL THEN phase' = "crashed" /\ UNCHANGED <<written, status>>
       ELSE IF Resolved(target) \notin Built THEN Exit(1) /\ UNCHANGED written
       ELSE IF output # NULL /\ output \notin Writable THEN Exit(1) /\ UNCHANGED written
       ELSE /\ written' = {IF output = NULL THEN Written("ir", "stdout") ELSE Written("object", output)}
            /\ Exit(0)
    /\ UNCHANGED <<argv, argi, options, errors, module>>

DriverNext == Usage \/ Option \/ CannotOpen \/ Parse \/ GenerateProgram \/ Report \/ BackEnd

\* main() runs on: its input ends, and so does every phase.
DriverSpec == DriverInit /\ [][DriverNext]_driverVars /\ WF_driverVars(DriverNext)
-----------------------------------------------------------------------------
(* Properties *)

DriverTypeOK ==
    /\ phase \in {"options", "generate", "parsed", "backend", "exited", "crashed"}
    /\ target \in Words \cup {NoTarget, NULL} /\ output \in Words \cup {NULL}
    /\ input \in Readable \cup {"stdin"}
    /\ errors \in Nat /\ status \in (-1)..(StatusRange - 1)
    /\ module \in BOOLEAN /\ Cardinality(written) <= 1

\* The option loop reads no argument behind the NULL that ends them, not even
\* for an option whose value is missing (main.cpp:42, 45).
ArgvInBounds == argi <= Len(argv) + 2

\* The back end works on a module that generate() has completed without an error
\* (Language.y:90, main.cpp:61): mainmodule is a pointer it does not check.
BackEndHasModule == phase = "backend" \/ written # {} => module /\ errors = 0

\* Success is reported exactly when an output has been written, while the number
\* of errors is less than the statuses the system tells apart (main.cpp:63).
StatusTellsOutcome ==
    phase = "exited" /\ errors < StatusRange => (status = 0) = (written # {})

\* The compiler ends whatever its arguments are.
DriverEnds == <>(phase \in {"exited", "crashed"})

\* The type invariant, and the promises of the driver, from the first option to
\* the exit status (main.cpp 30-63).
DriverInv == DriverTypeOK /\ ArgvInBounds /\ BackEndHasModule /\ StatusTellsOutcome

=============================================================================
