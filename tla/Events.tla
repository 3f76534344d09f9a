-------------------------------- MODULE Events --------------------------------
(***************************************************************************)
(* Event blocks, "quando 2 esta 1 { ... }" (the rules programa and         *)
(* eventblock of src/src/Language.y, Stmts.cpp, AttachInterrupt.h,         *)
(* FunctionDecl.cpp): the parser turns a block into a function and         *)
(* remembers that it is to be attached; the calls that attach the          *)
(* functions are put among the statements of the program before these are  *)
(* generated in order.                                                     *)
(***************************************************************************)
EXTENDS Integers, Sequences, FiniteSets, SequencesExt

CONSTANTS
    Events,         \* pin and edge of an event, which make the name of its function
    FunctionNames,  \* the names of functions
    MaxTop          \* bound on the statements of the program

ASSUME EventsAssumption == Events \cap FunctionNames = {} /\ MaxTop \in Nat

VARIABLES
    stage,       \* "parse", "prepend", "generate", "done" or "aborted"
    stmts,       \* the statements of the program: [kind, name, inner]
    pending,     \* vectorglobal, the events to attach
    pos,         \* the event to prepend, or the statement to generate
    declared,    \* the functions in the table of the program
    calls,       \* the calls of attachInterrupt: [event, block]
    eventErrors  \* errors counted

eventVars == <<stage, stmts, pending, pos, declared, calls, eventErrors>>

Stmt(kind, name, inner) == [kind |-> kind, name |-> name, inner |-> inner]
None == "NULL"

EventsInit ==
    /\ stage = "parse"
    /\ stmts = <<>>
    /\ pending = <<>>
    /\ pos = 1
    /\ declared = {}
    /\ calls = <<>>
    /\ eventErrors = 0


\* An event block is a function, and its event is to be attached.
ParseEvent ==
    \E e \in Events :
        /\ stage = "parse" /\ Len(stmts) < MaxTop
        /\ stmts' = Append(stmts, Stmt("function", e, <<>>))
        /\ pending' = Append(pending, e)
        /\ UNCHANGED <<stage, pos, declared, calls, eventErrors>>

\* A function may hold event blocks, which the grammar has among its statements.
ParseFunction ==
    \E f \in FunctionNames, inner \in {<<>>} \cup {<<e>> : e \in Events} :
        /\ stage = "parse" /\ Len(stmts) < MaxTop
        /\ stmts' = Append(stmts, Stmt("function", f, inner))
        /\ pending' = pending \o inner
        /\ UNCHANGED <<stage, pos, declared, calls, eventErrors>>

ParseOther ==
    /\ stage = "parse" /\ Len(stmts) < MaxTop
    /\ stmts' = Append(stmts, Stmt("other", None, <<>>))
    /\ UNCHANGED <<stage, pending, pos, declared, calls, eventErrors>>

ParsedAll ==
    /\ stage = "parse" /\ stmts # <<>>
    /\ stage' = "prepend"
    /\ UNCHANGED <<stmts, pending, pos, declared, calls, eventErrors>>

-----------------------------------------------------------------------------
(* Stmts::prepend *)

\* Behind the last function, behind the first statement if there is none.
InsertionPoint(s) ==
    LET functions == {k \in DOMAIN s : s[k].kind = "function"}
    IN  IF functions = {} THEN 1 ELSE CHOOSE k \in functions : \A m \in functions : m <= k

\* Mistaken: the loop over the events is repeated for the last one.
PrependAgain ==
    /\ stage = "prepend"
    /\ IF pos <= Len(pending) + 1 /\ pending # <<>>
       THEN LET e == pending[IF pos > Len(pending) THEN Len(pending) ELSE pos]
            IN  /\ stmts' = InsertAt(stmts, InsertionPoint(stmts) + 1, Stmt("attach", e, <<>>))
                /\ pos' = pos + 1
                /\ UNCHANGED stage
       ELSE stage' = "generate" /\ pos' = 1 /\ UNCHANGED stmts
    /\ UNCHANGED <<pending, declared, calls, eventErrors>>

Prepend ==
    /\ stage = "prepend"
    /\ IF pos <= Len(pending)
       THEN /\ stmts' = InsertAt(stmts, InsertionPoint(stmts) + 1, Stmt("attach", pending[pos], <<>>))
            /\ pos' = pos + 1
            /\ UNCHANGED stage
       ELSE stage' = "generate" /\ pos' = 1 /\ UNCHANGED stmts
    /\ UNCHANGED <<pending, declared, calls, eventErrors>>

-----------------------------------------------------------------------------
(* Program::generate *)

\* FunctionDecl::generate registers the function in the table of the scope the
\* declaration is in: those inside another function do not reach the program's.
\* A name the program's table has counts two errors.
GenerateFunction ==
    LET s == stmts[pos]
        wrong == IF s.name \in declared THEN {s.name}
                 ELSE {e \in ToSet(s.inner) : e \in declared}
    IN  /\ stage = "generate" /\ pos <= Len(stmts) /\ s.kind = "function"
        /\ declared' = declared \cup {s.name}
        /\ eventErrors' = eventErrors + 2 * Cardinality(wrong)
        /\ pos' = pos + 1
        /\ UNCHANGED <<stage, stmts, pending, calls>>

\* AttachInterrupt::generate: the function must be found, and the call is put in
\* the block of the statement, which at the top of the program is NULL.
GenerateAttach ==
    LET s == stmts[pos]
    IN  /\ stage = "generate" /\ pos <= Len(stmts) /\ s.kind = "attach"
        /\ IF s.name \notin declared
           THEN stage' = "aborted" /\ UNCHANGED <<pos, calls>>
           ELSE /\ calls' = Append(calls, [event |-> s.name, block |-> None])
                /\ pos' = pos + 1
                /\ UNCHANGED stage
        /\ UNCHANGED <<stmts, pending, declared, eventErrors>>

GenerateOther ==
    /\ stage = "generate" /\ pos <= Len(stmts) /\ stmts[pos].kind = "other"
    /\ pos' = pos + 1
    /\ UNCHANGED <<stage, stmts, pending, declared, calls, eventErrors>>

GeneratedAll ==
    /\ stage = "generate" /\ pos > Len(stmts)
    /\ stage' = "done"
    /\ UNCHANGED <<stmts, pending, pos, declared, calls, eventErrors>>

EventsNext ==
    \/ ParseEvent \/ ParseFunction \/ ParseOther \/ ParsedAll \/ Prepend
    \/ GenerateFunction \/ GenerateAttach \/ GenerateOther \/ GeneratedAll

EventsSpec == EventsInit /\ [][EventsNext]_eventVars
-----------------------------------------------------------------------------
(* Properties *)

EventsTypeOK ==
    /\ stage \in {"parse", "prepend", "generate", "done", "aborted"}
    /\ pending \in Seq(Events)
    /\ declared \subseteq Events \cup FunctionNames
    /\ \A k \in DOMAIN stmts : stmts[k].kind \in {"function", "attach", "other"}
    /\ eventErrors \in Nat

TopEvents == {e \in Events : \E k \in DOMAIN stmts : stmts[k].kind = "function" /\ stmts[k].name = e}

\* The function of an event block at the top of the program has been declared
\* when its attachment looks it up, wherever the block stands among the other
\* statements (Stmts.cpp:16, "put after function declarations").
FoundAtTheTop == stage = "aborted" => stmts[pos].name \notin TopEvents

\* Every event block is attached exactly once, and those at the top of a program
\* without errors are handled by a function of their own: a second block for the
\* same event is reported.
EachAttachedOnce ==
    stage = "done" =>
        /\ \A e \in Events :
              Cardinality({k \in DOMAIN calls : calls[k].event = e})
                  = Cardinality({k \in DOMAIN pending : pending[k] = e})
        /\ eventErrors = 0 => \A k, m \in DOMAIN stmts :
                            stmts[k].kind = "function" /\ stmts[m].kind = "function"
                            /\ stmts[k].name = stmts[m].name => k = m

\* The type invariant, and events whose functions are found and attached once
\* (Language.y 81-90, Stmts.cpp 12-26, AttachInterrupt.h 18-52).
EventsInv == EventsTypeOK /\ FoundAtTheTop /\ EachAttachedOnce

=============================================================================
