------------------------------ MODULE Execution ------------------------------
(***************************************************************************)
(* The generated functions of ControlFlow, run: once every function of the *)
(* program is generated, one that is well-formed is called and executed    *)
(* instruction by instruction, with any outcome at each conditional        *)
(* branch.  This is what the target machine does with the basic blocks;    *)
(* the module implements Structured, which knows only the source.          *)
(***************************************************************************)
EXTENDS ControlFlow

VARIABLES
    pc,    \* <<block, index>> of the next instruction
    cond   \* the value of the last condition evaluated in this run

evars == <<src, code, owner, frames, misuse, pc, cond>>

Idle == <<0, 0>>

EInit == Init /\ pc = Idle /\ cond = FALSE

Compile == pc = Idle /\ Next /\ UNCHANGED <<pc, cond>>

Enter ==
    /\ pc = Idle
    /\ frames = <<>>
    /\ \E f \in Blocks \ misuse : owner[f] = f /\ pc' = <<f, 1>>
    /\ UNCHANGED <<vars, cond>>

Here == code[pc[1]][pc[2]]

Execute ==
    /\ pc # Idle
    /\ \/ /\ ~ IsTerm(Here)
          /\ pc' = <<pc[1], pc[2] + 1>>
          /\ UNCHANGED cond
       \/ /\ Here.op = "br"
          /\ pc' = <<Here.to[1], 1>>
          /\ UNCHANGED cond
       \/ /\ Here.op = "cbr"
          /\ cond' \in BOOLEAN
          /\ pc' = <<IF cond' THEN Here.to[1] ELSE Here.to[2], 1>>
       \/ /\ Here.op = "ret"
          /\ pc' = Idle
          /\ cond' = FALSE
    /\ UNCHANGED vars

ENext == Compile \/ Enter \/ Execute

\* The processor does not stop in the middle of a function.
ESpec == EInit /\ [][ENext]_evars /\ WF_evars(Execute)

-----------------------------------------------------------------------------
(* Properties *)

\* Type invariant: a run stands at an instruction that exists, so control
\* never falls off the end of a block.
ExecTypeOK ==
    /\ pc # Idle => pc[1] \in Blocks /\ pc[2] \in 1..Len(code[pc[1]])
    /\ cond \in BOOLEAN

\* The statement an instruction belongs to.  The entry block belongs to the
\* declaration of the function as a whole: its allocas are the variables of
\* the entire body.
Position ==
    IF pc = Idle THEN 0
    ELSE LET c == code[pc[1]]
         IN  IF owner[pc[1]] = pc[1] THEN c[Len(c)].at ELSE c[pc[2]].at

\* Refinement: the generated blocks run the statements of the source in the
\* order of structured control flow (If.cpp, While.cpp, Loop.cpp and Stmts.cpp
\* together), for every nesting, every outcome of the conditions and also with
\* functions declared inside bodies.
S == INSTANCE Structured WITH at <- Position
RunsTheSource == S!Spec

\* Liveness: a call of a function of a program without while and loop returns,
\* whatever its conditions evaluate to.
LoopFreeReturns ==
    (\A i \in DOMAIN src : src[i] \notin {"while", "loop"}) /\ pc # Idle ~> pc = Idle
=============================================================================
