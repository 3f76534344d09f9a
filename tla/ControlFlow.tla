----------------------------- MODULE ControlFlow -----------------------------
(***************************************************************************)
(* Code generation of function bodies (src/src/FunctionDecl.cpp, Stmts.cpp,*)
(* If.cpp, While.cpp, Loop.cpp, Return.cpp): how the recursive generate()  *)
(* calls create the basic blocks of a function, which block receives the   *)
(* next instruction and which branches tie the blocks together.            *)
(*                                                                         *)
(* The syntax tree is not fixed beforehand: each action takes the next     *)
(* statement of a tree that is read in the order in which generate() walks *)
(* it, so that the behaviours range over every program of the bounded      *)
(* size.  All these statements are free of semantic errors.                *)
(***************************************************************************)
EXTENDS Integers, Sequences, FiniteSets

CONSTANTS
    Alphabet,   \* the kinds of statement the programs are made of
    HasParams,  \* whether their functions have parameters
    MaxTokens,  \* bound on the tokens of a program
    MaxBlocks   \* bound on the basic blocks of the module

ASSUME BoundsAssumption ==
    /\ Alphabet \subseteq STRING
    /\ HasParams \subseteq BOOLEAN
    /\ MaxTokens \in Nat
    /\ MaxBlocks \in Nat

VARIABLES
    src,     \* the statements read so far, in source order
    code,    \* code[b]: the instructions of basic block b, in creation order
    owner,   \* owner[b]: the entry block of the LLVM function b belongs to
    frames,  \* the generate() calls of functions and bodies under way
    misuse   \* history: the functions whose source has a statement after a
             \* return of the same body, or a loop whose body branches or returns

vars == <<src, code, owner, frames, misuse>>

\* The statements, with one token for each opening, "else" and closing of a
\* compound one.
Opening == {"func", "if", "while", "loop"}
Tokens == Opening \cup {"stmt", "decl", "return", "else", "end"}

\* The bodies.
Kinds == {"func", "then", "else", "while", "loop"}

-----------------------------------------------------------------------------
(* Basic blocks.  "inst" is the run of instructions of an expression or of  *)
(* a statement, which contains no terminator; at is the statement it comes  *)
(* from; to holds the successors, for cbr the true one first.               *)

Instr(op, to, at) == [op |-> op, to |-> to, at |-> at]

Terminators == {"ret", "br", "cbr"}
IsTerm(i) == i.op \in Terminators

\* BasicBlock::getTerminator() # NULL: only the last instruction counts.
Terminated(c) == c # <<>> /\ IsTerm(c[Len(c)])

Emit(cs, b, i) == [cs EXCEPT ![b] = Append(@, i)]

\* "if (!last->getTerminator()) BranchInst::Create(...)"
EmitUnlessTerminated(cs, b, i) == IF Terminated(cs[b]) THEN cs ELSE Emit(cs, b, i)

NewBlock(cs) == Append(cs, <<>>)

-----------------------------------------------------------------------------
(* The calls of generate().  block is the local variable of                 *)
(* Stmts::generate, first the block the body starts in, cond the block that *)
(* evaluates the condition of a while.  straight and returned are history:  *)
(* the body holds no branch and no return; it holds a return.               *)

top == frames[Len(frames)]
caller == frames[Len(frames) - 1]

Frame(kind, fn, block, cond) ==
    [kind |-> kind, tok |-> Len(src) + 1, fn |-> fn, block |-> block,
     first |-> block, cond |-> cond, straight |-> TRUE, returned |-> FALSE]

Push(f) == frames' = Append([frames EXCEPT ![Len(frames)].straight = FALSE], f)

\* The n innermost calls return; the caller goes on in block b.
PopInto(n, b) ==
    LET k == Len(frames) - n
    IN  frames' = [SubSeq(frames, 1, k) EXCEPT ![k].block = b]

\* The number of "end" tokens that close what is open once token is read.
EndsAfter(token) ==
    Cardinality({k \in DOMAIN frames : frames[k].kind # "else"})
        + (IF token = "end" THEN -1
           ELSE IF token \in Opening THEN 1 ELSE 0)

\* The next token; there is always room left to close every open statement.
Read(token) ==
    /\ token \in Alphabet
    /\ Len(src) + 1 + EndsAfter(token) <= MaxTokens
    /\ src' = Append(src, token)
Room(n) == Len(code) + n <= MaxBlocks

InBody == frames # <<>>
\* The grammar has no empty body.
BodyComplete(kind) == InBody /\ top.kind = kind /\ Len(src) > top.tok

\* The history of a statement of a body.
NoteStatement == misuse' = IF top.returned THEN misuse \cup {top.fn} ELSE misuse

-----------------------------------------------------------------------------
Init ==
    /\ src = <<>>
    /\ code = <<>>
    /\ owner = <<>>
    /\ frames = <<>>
    /\ misuse = {}

(* FunctionDecl::generate up to stmts->generate: at the top level or inside *)
(* any body, for a nested declaration.  Parameters are allocated in "entry" *)
(* and stored in "body".                                                    *)
BeginFunction ==
    /\ Read("func")
    /\ Room(2)
    /\ LET falloc == Len(code) + 1
           fblock == Len(code) + 2
           Of(op) == <<Instr(op, <<>>, Len(src) + 1)>>
       IN /\ \E hasParams \in HasParams :
                code' = code \o IF hasParams THEN <<Of("alloca"), Of("inst")>>
                                             ELSE << <<>>, <<>> >>
          /\ owner' = owner \o <<falloc, falloc>>
          /\ frames' = Append(frames, Frame("func", falloc, fblock, 0))
    /\ UNCHANGED misuse

\* Mistaken: the missing return is left out.
EndFunctionWithoutReturn ==
    /\ BodyComplete("func")
    /\ Read("end")
    /\ code' = Emit(code, top.fn, Instr("br", <<top.first>>, top.tok))
    /\ frames' = SubSeq(frames, 1, Len(frames) - 1)
    /\ UNCHANGED <<owner, misuse>>

\* Mistaken: generate() returns the last block of the body, in which the body
\* around a nested declaration then goes on.
EndFunctionReturnsBlock ==
    /\ BodyComplete("func")
    /\ Read("end")
    /\ code' = Emit(EmitUnlessTerminated(code, top.block, Instr("ret", <<>>, Len(src) + 1)),
                    top.fn, Instr("br", <<top.first>>, top.tok))
    /\ IF Len(frames) > 1 THEN PopInto(1, top.block) ELSE frames' = <<>>
    /\ UNCHANGED <<owner, misuse>>

(* FunctionDecl::generate after the body: the missing return, then the     *)
(* branch from "entry" to "body".  It returns the Function, which is not a *)
(* basic block, so an outer Stmts::generate keeps its current block.       *)
EndFunction ==
    /\ BodyComplete("func")
    /\ Read("end")
    /\ code' = Emit(EmitUnlessTerminated(code, top.block, Instr("ret", <<>>, Len(src) + 1)),
                    top.fn, Instr("br", <<top.first>>, top.tok))
    /\ frames' = SubSeq(frames, 1, Len(frames) - 1)
    /\ UNCHANGED <<owner, misuse>>

\* Mistaken: the alloca goes where the statement is.
StatementAllocatesInPlace ==
    /\ InBody
    /\ \/ /\ Read("stmt")
          /\ code' = Emit(code, top.block, Instr("inst", <<>>, Len(src) + 1))
       \/ /\ Read("decl")
          /\ code' = Emit(Emit(code, top.block, Instr("alloca", <<>>, Len(src) + 1)),
                          top.block, Instr("inst", <<>>, Len(src) + 1))
    /\ NoteStatement
    /\ UNCHANGED <<owner, frames>>

(* A statement without control flow; one that declares a variable puts its *)
(* alloca at the end of "entry".                                           *)
Statement ==
    /\ InBody
    /\ \/ /\ Read("stmt")
          /\ code' = Emit(code, top.block, Instr("inst", <<>>, Len(src) + 1))
       \/ /\ Read("decl")
          /\ code' = Emit(Emit(code, top.fn, Instr("alloca", <<>>, Len(src) + 1)),
                          top.block, Instr("inst", <<>>, Len(src) + 1))
    /\ NoteStatement
    /\ UNCHANGED <<owner, frames>>

(* Return::generate: what it returns is not a basic block either, so the   *)
(* statements that follow it in the body go to the same block.             *)
Return ==
    /\ InBody
    /\ Read("return")
    /\ code' = Emit(code, top.block, Instr("ret", <<>>, Len(src) + 1))
    /\ frames' = [frames EXCEPT ![Len(frames)].straight = FALSE,
                                ![Len(frames)].returned = TRUE]
    /\ NoteStatement
    /\ UNCHANGED owner

(* If::generate up to thenst->generate: the condition goes to the caller's *)
(* block, whose branch is created only after both branches.                *)
BeginIf ==
    /\ InBody
    /\ Read("if")
    /\ Room(1)
    /\ code' = NewBlock(Emit(code, top.block, Instr("inst", <<>>, Len(src) + 1)))
    /\ owner' = Append(owner, top.fn)
    /\ Push(Frame("then", top.fn, Len(code) + 1, 0))
    /\ NoteStatement

(* If::generate between the branches.  The call of the then branch has     *)
(* returned; its frame stays below for what If::generate keeps of it, thenb *)
(* and thennewb.                                                            *)
BeginElse ==
    /\ BodyComplete("then")
    /\ Read("else")
    /\ Room(1)
    /\ code' = NewBlock(code)
    /\ owner' = Append(owner, top.fn)
    /\ frames' = Append(frames, Frame("else", top.fn, Len(code) + 1, 0))
    /\ UNCHANGED misuse

\* Mistaken: "if_cont" is created outside the function.
JoinIfWithoutBlock(cs, block, then, thenEnd, elseb, lastelse, mergb) ==
    EmitUnlessTerminated(
        EmitUnlessTerminated(
            Emit(cs, block, Instr("cbr", <<then.first, elseb>>, then.tok)),
            then.block, Instr("br", <<mergb>>, thenEnd)),
        lastelse, Instr("br", <<mergb>>, Len(src) + 1))

\* Mistaken: the successors of the condition are swapped.
JoinIfSwapped(cs, block, then, thenEnd, elseb, lastelse, mergb) ==
    EmitUnlessTerminated(
        EmitUnlessTerminated(
            NewBlock(Emit(cs, block, Instr("cbr", <<elseb, then.first>>, then.tok))),
            then.block, Instr("br", <<mergb>>, thenEnd)),
        lastelse, Instr("br", <<mergb>>, Len(src) + 1))

\* Mistaken: the then branch ends with a branch back to its first block.
JoinIfRepeats(cs, block, then, thenEnd, elseb, lastelse, mergb) ==
    EmitUnlessTerminated(
        EmitUnlessTerminated(
            NewBlock(Emit(cs, block, Instr("cbr", <<then.first, elseb>>, then.tok))),
            then.block, Instr("br", <<then.first>>, thenEnd)),
        lastelse, Instr("br", <<mergb>>, Len(src) + 1))

\* Mistaken: the branch to "if_cont" leaves the first block of the then branch,
\* as if the branch held no compound statement.
JoinIfForgetsLastThen(cs, block, then, thenEnd, elseb, lastelse, mergb) ==
    EmitUnlessTerminated(
        EmitUnlessTerminated(
            NewBlock(Emit(cs, block, Instr("cbr", <<then.first, elseb>>, then.tok))),
            then.first, Instr("br", <<mergb>>, thenEnd)),
        lastelse, Instr("br", <<mergb>>, Len(src) + 1))

\* If::generate after both branches: the conditional branch at the end of
\* the caller's block, then a branch to "if_cont" where there is no terminator.
JoinIf(cs, block, then, thenEnd, elseb, lastelse, mergb) ==
    EmitUnlessTerminated(
        EmitUnlessTerminated(
            NewBlock(Emit(cs, block, Instr("cbr", <<then.first, elseb>>, then.tok))),
            then.block, Instr("br", <<mergb>>, thenEnd)),
        lastelse, Instr("br", <<mergb>>, Len(src) + 1))

EndIfWithoutElse ==
    /\ BodyComplete("then")
    /\ Read("end")
    /\ Room(2)
    /\ LET elseb == Len(code) + 1
           mergb == Len(code) + 2
       IN /\ code' = JoinIf(NewBlock(code), caller.block, top, Len(src) + 1,
                            elseb, elseb, mergb)
          /\ PopInto(1, mergb)
    /\ owner' = owner \o <<top.fn, top.fn>>
    /\ UNCHANGED misuse

EndIfWithElse ==
    /\ BodyComplete("else")
    /\ Read("end")
    /\ Room(1)
    /\ LET mergb == Len(code) + 1
       IN /\ code' = JoinIf(code, frames[Len(frames) - 2].block, caller, top.tok,
                            top.first, top.block, mergb)
          /\ PopInto(2, mergb)
    /\ owner' = Append(owner, top.fn)
    /\ UNCHANGED misuse

(* While::generate up to stmts->generate. *)
BeginWhile ==
    /\ InBody
    /\ Read("while")
    /\ Room(2)
    /\ LET condwhile == Len(code) + 1
           bodywhile == Len(code) + 2
       IN /\ code' = code \o << <<Instr("inst", <<>>, Len(src) + 1)>>, <<>> >>
          /\ Push(Frame("while", top.fn, bodywhile, condwhile))
    /\ owner' = owner \o <<top.fn, top.fn>>
    /\ NoteStatement

\* Mistaken: the branch back goes to the body and skips the condition.
EndWhileSkipsCondition ==
    /\ BodyComplete("while")
    /\ Read("end")
    /\ Room(1)
    /\ LET endwhile == Len(code) + 1
           entered == Emit(NewBlock(code), caller.block,
                           Instr("br", <<top.cond>>, top.tok))
           tested == Emit(entered, top.cond,
                          Instr("cbr", <<top.first, endwhile>>, top.tok))
       IN /\ code' = EmitUnlessTerminated(tested, top.block,
                                          Instr("br", <<top.first>>, Len(src) + 1))
          /\ PopInto(1, endwhile)
    /\ owner' = Append(owner, top.fn)
    /\ UNCHANGED misuse

(* While::generate after the body. *)
EndWhile ==
    /\ BodyComplete("while")
    /\ Read("end")
    /\ Room(1)
    /\ LET endwhile == Len(code) + 1
           entered == Emit(NewBlock(code), caller.block,
                           Instr("br", <<top.cond>>, top.tok))
           tested == Emit(entered, top.cond,
                          Instr("cbr", <<top.first, endwhile>>, top.tok))
       IN /\ code' = EmitUnlessTerminated(tested, top.block,
                                          Instr("br", <<top.cond>>, Len(src) + 1))
          /\ PopInto(1, endwhile)
    /\ owner' = Append(owner, top.fn)
    /\ UNCHANGED misuse

(* Loop::generate up to stmts->generate. *)
BeginLoop ==
    /\ InBody
    /\ Read("loop")
    /\ Room(1)
    /\ code' = NewBlock(code)
    /\ owner' = Append(owner, top.fn)
    /\ Push(Frame("loop", top.fn, Len(code) + 1, 0))
    /\ NoteStatement

(* Loop::generate after the body: the back edge leaves the first block of  *)
(* the body, wherever the body ended and whatever that block holds by now. *)
EndLoop ==
    /\ BodyComplete("loop")
    /\ Read("end")
    /\ Room(1)
    /\ code' = NewBlock(Emit(Emit(code, top.first, Instr("br", <<top.first>>, Len(src) + 1)),
                             caller.block, Instr("br", <<top.first>>, top.tok)))
    /\ PopInto(1, Len(code) + 1)
    /\ owner' = Append(owner, top.fn)
    /\ misuse' = IF top.straight THEN misuse ELSE misuse \cup {top.fn}

Next ==
    \/ BeginFunction \/ EndFunction
    \/ Statement \/ Return
    \/ BeginIf \/ BeginElse \/ EndIfWithoutElse \/ EndIfWithElse
    \/ BeginWhile \/ EndWhile
    \/ BeginLoop \/ EndLoop

Spec == Init /\ [][Next]_vars
-----------------------------------------------------------------------------
(* Properties *)

Blocks == 1..Len(code)
Calls == 1..Len(frames)

InstrType == [op : {"inst", "alloca"} \cup Terminators, to : Seq(Nat), at : Nat]
FrameType == [kind : Kinds, tok : Nat, fn : Nat, block : Nat, first : Nat,
              cond : Nat, straight : BOOLEAN, returned : BOOLEAN]

\* Type invariant: the blocks and the calls have the shape of their C++
\* counterparts.
TypeOK ==
    /\ src \in Seq(Tokens)
    /\ code \in Seq(Seq(InstrType))
    /\ owner \in Seq(Nat)
    /\ Len(owner) = Len(code)
    /\ frames \in Seq(FrameType)
    /\ misuse \subseteq Nat

\* A function is finished when no generate() call works on it any more.
Finished(b) == \A k \in Calls : frames[k].fn # owner[b]

\* One terminator, at the end.
Sealed(c) == Terminated(c) /\ \A i \in 1..(Len(c) - 1) : ~ IsTerm(c[i])
\* No terminator yet.
Clean(c) == \A i \in 1..Len(c) : ~ IsTerm(c[i])

\* Once FunctionDecl::generate is done, every basic block of the function ends
\* in a terminator and holds no other: the branches of If, While and Loop, the
\* return at the end of the body and the "already has a terminator" guards
\* together seal each block exactly once.  This is promised for a function
\* whose own source does not put a statement after a return, nor a branch or a
\* return in a loop; what other functions of the program do, nested ones
\* included, must not matter.
FinishedWellFormed ==
    \A b \in Blocks : Finished(b) /\ owner[b] \notin misuse => Sealed(code[b])

\* A branch never leaves the function of its block and never goes back to the
\* entry block (LLVM allows neither), also when a nested function is generated
\* between the two halves of If, While or Loop.
BranchesStayInside ==
    \A b \in Blocks : \A i \in 1..Len(code[b]) : \A j \in 1..Len(code[b][i].to) :
        LET t == code[b][i].to[j]
        IN  t \in Blocks /\ owner[t] = owner[b] /\ owner[t] # t

\* "if then block already has a terminator, don't generate branch"
\* (src/src/If.cpp:34, and :43 of the else block; src/src/While.cpp:28): no
\* branch is put into a block behind a terminator, for any source.
NoBranchAfterTerminator ==
    \A b \in Blocks : \A i \in 1..Len(code[b]) :
        code[b][i].op = "br" => Clean(SubSeq(code[b], 1, i - 1))

\* Every alloca is in the entry block of its function ("alloc instructions
\* inside bodywhile should go to allocblock to prevent repeatedly allocation",
\* src/src/While.cpp:15), and before the only terminator of that block.
AllocasInEntry ==
    \A b \in Blocks : \A i \in 1..Len(code[b]) :
        code[b][i].op = "alloca" =>
            owner[b] = b /\ \A j \in 1..i : ~ IsTerm(code[b][j])

\* No step changes the code of a finished function.
FinishedIsFrozen ==
    [][\A b \in Blocks : Finished(b) => code'[b] = code[b] /\ owner'[b] = owner[b]]_vars
-----------------------------------------------------------------------------
(* The inductive invariant behind the safety properties *)

\* The blocks to which a call will still add instructions whatever it is
\* called with: where the body goes on, the entry block that misses its
\* branch, the condition of a while that misses its branch.
Awaits(f) ==
    {f.block}
        \cup (IF f.kind = "func" THEN {f.fn} ELSE {})
        \cup (IF f.kind = "while" THEN {f.cond} ELSE {})

\* The blocks a call refers to exist and belong to the function it generates,
\* which is the caller's unless the call is that of a nested declaration.
FramesLinked ==
    \A k \in Calls :
        LET f == frames[k]
        IN  /\ f.fn \in Blocks /\ owner[f.fn] = f.fn
            /\ f.block \in Blocks /\ owner[f.block] = f.fn /\ f.block # f.fn
            /\ f.first \in Blocks /\ owner[f.first] = f.fn /\ f.first # f.fn
            /\ f.kind = "while" =>
                  /\ f.cond \in Blocks /\ owner[f.cond] = f.fn
                  /\ f.cond # f.fn /\ f.cond # f.block
            /\ f.kind = "func" => \A j \in 1..(k - 1) : frames[j].fn # f.fn
            /\ f.kind # "func" => k > 1 /\ frames[k - 1].fn = f.fn
            /\ f.kind = "else" => frames[k - 1].kind = "then"

\* No block is awaited by two calls.
AwaitedOnce ==
    \A j, k \in Calls : j # k => Awaits(frames[j]) \cap Awaits(frames[k]) = {}

\* What the history says of the calls under way.
FramesHistory ==
    \A k \in Calls :
        LET f == frames[k]
        IN  /\ f.straight => f.block = f.first /\ ~ f.returned
            /\ f.kind \notin {"func", "else"} =>
                  ~ frames[k - 1].straight /\ (f.fn \notin misuse => ~ frames[k - 1].returned)

\* An awaited block holds no terminator, except where its body has returned;
\* an entry block that is awaited never does, whatever the source.
AwaitedClean ==
    \A k \in Calls :
        LET f == frames[k]
        IN  /\ Clean(code[f.fn])
            /\ f.fn \notin misuse =>
                  /\ ~ f.returned => Clean(code[f.block])
                  /\ f.kind = "while" => Clean(code[f.cond])

\* A block that is not sealed is awaited.
UnsealedAwaited ==
    \A b \in Blocks :
        owner[b] \notin misuse =>
            Sealed(code[b]) \/ (Clean(code[b]) /\ \E k \in Calls : b \in Awaits(frames[k]))

IInv == FramesLinked /\ AwaitedOnce /\ FramesHistory /\ AwaitedClean /\ UnsealedAwaited
=============================================================================
