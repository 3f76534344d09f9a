------------------------------ MODULE MCCompiler ------------------------------
(***************************************************************************)
(* The parts of the compiler that share no state, side by side for TLC:    *)
(* names (Symbols), values (Values), the command line (Driver), events     *)
(* (Events) and string escapes (Unescape).  part says which of them runs;  *)
(* the others keep their initial state.                                    *)
(***************************************************************************)
EXTENDS Symbols, Values, Driver, Events, Unescape

CONSTANT Parts  \* the parts that are checked

VARIABLE part   \* the part that runs

\* Two variables and two functions of at most one parameter; a name of both kinds, which
\* is declared as either and used as either.
Literal(t) == [op |-> "literal", type |-> t]
LoadOf(n) == [op |-> "load", name |-> n]
MCVariables == {"x", "f"}
MCFunctions == {"f", "g"}
CallOf(n, args) == [op |-> "call", name |-> n, args |-> args]
MCExprs == {Literal("i8"), LoadOf("x"), LoadOf("f"), CallOf("f", <<LoadOf("x")>>)}
MCParamLists == {<<>>, <<[name |-> "x", type |-> "i16"]>>}
MCExprLists ==
    {<<>>, <<Literal("i8")>>, <<LoadOf("f")>>, <<LoadOf("x"), CallOf("f", <<LoadOf("x")>>)>>}
MCTypes == {"i16"}

\* Variables of each width, and one of floating point.
Local(w, v) == [width |-> w, val |-> v, global |-> FALSE]
Global(w, v) == [width |-> w, val |-> v, global |-> TRUE]
MCVariableValues == {Local(6, -3), Global(12, -77), Local(1001, 0)}

\* Only the shorter of the two options for the level has none.
MCLevelOf == [w \in {"-O", "-O2"} |-> IF w = "-O2" THEN "2" ELSE "none"]
-----------------------------------------------------------------------------
compilerVars == <<part, vars, valuesVars, driverVars, eventVars, unescapeVars>>

CompilerInit ==
    /\ part \in Parts
    /\ part # "driver" => argv = <<>>
    /\ part # "unescape" => source = <<>>
    /\ Init /\ ValuesInit /\ DriverInit /\ EventsInit /\ UnescapeInit

CompilerNext ==
    \/ /\ part = "symbols" /\ Next
       /\ UNCHANGED <<part, valuesVars, driverVars, eventVars, unescapeVars>>
    \/ /\ part = "values" /\ ValuesNext
       /\ UNCHANGED <<part, vars, driverVars, eventVars, unescapeVars>>
    \/ /\ part = "driver" /\ DriverNext
       /\ UNCHANGED <<part, vars, valuesVars, eventVars, unescapeVars>>
    \/ /\ part = "events" /\ EventsNext
       /\ UNCHANGED <<part, vars, valuesVars, driverVars, unescapeVars>>
    \/ /\ part = "unescape" /\ UnescapeNext
       /\ UNCHANGED <<part, vars, valuesVars, driverVars, eventVars>>

CompilerSpec ==
    CompilerInit /\ [][CompilerNext]_compilerVars
    /\ WF_driverVars(part = "driver" /\ DriverNext)
-----------------------------------------------------------------------------
(* The property of the driver; the others are those of the parts *)

\* The compiler ends: see DriverEnds.
Ends == part = "driver" => DriverEnds
=============================================================================
