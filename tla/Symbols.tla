-------------------------------- MODULE Symbols --------------------------------
(***************************************************************************)
(* Names and storage (src/src/Header.h, RobSymbol.h, Scalar.cpp, Load.cpp, *)
(* Pointer.cpp, Array.cpp, FunctionDecl.cpp, FunctionDeclExtern.cpp,       *)
(* FunctionCall.cpp): generate() looks names up in the table of the        *)
(* function it is in, then in that of the program, and binds new ones.     *)
(*                                                                         *)
(* A step is the generate() of one statement.  Scope 0 is the program      *)
(* (global_alloc), the others are the functions in the order of their      *)
(* declarations.  Of a value only what the table depends on is kept:       *)
(* whether it is NULL, an llvm::Constant or an instruction, and its type,  *)
(* with the errors counted on the way and the names that gave NULL.        *)
(***************************************************************************)
EXTENDS Integers, Sequences

CONSTANTS
    Variables,     \* names that scalars, arrays and registers are given
    Functions,     \* names that functions are given, some of them perhaps variables' too
    Exprs,         \* the expressions of the program
    ParamLists,    \* parameter lists: sequences of [name, type]
    ExprLists,     \* lists of expressions: arguments of calls, elements of arrays
    Types,         \* the types of registers
    MaxScopes,     \* bound on the functions of a program
    MaxSymbols,    \* bound on the symbols of a program
    MaxErrors      \* bound on the errors after which no more is compiled

Names == Variables \cup Functions
Qualifiers == {"none", "const", "volatile"}
Scopes == 0..MaxScopes
Program == 0

SymbolBounds == MaxScopes \in Nat /\ MaxSymbols \in Nat /\ MaxErrors \in Nat
\* An argument of a call in an expression is a literal or a name; those of a call
\* that is a statement may be calls.
Simple(e) == e.op = "literal" \/ (e.op = "load" /\ e.name \in Names)
ExprsAssumption ==
    \A e \in Exprs :
        \/ Simple(e)
        \/ e.op = "call" /\ e.name \in Names /\ \A i \in DOMAIN e.args : Simple(e.args[i])
ListsAssumption == ExprLists \subseteq Seq(Exprs)
ParamsAssumption ==
    \A ps \in ParamLists : ps \in Seq([name : Names, type : Types])

ASSUME SymbolsAssumption ==
    SymbolBounds /\ ExprsAssumption /\ ListsAssumption /\ ParamsAssumption

VARIABLES
    stack,        \* the functions being generated, the innermost first
    functions,    \* number of function bodies begun
    table,        \* tabelasym
    symbols,      \* number of symbols created
    errorsfound,  \* errors counted
    crashed,      \* what generate() has dereferenced as NULL: a value, or the type of an element
    last          \* history: what the last statement did

vars == <<stack, functions, table, symbols, errorsfound, crashed, last>>

\* A symbol: the LLVM value it is bound to (its kind, the scope it belongs to
\* and its type), its qualifier, and the parameters of a function.
NoSymbol ==
    [kind |-> "none", owner |-> Program, type |-> "none", id |-> 0, qualifier |-> "none",
     params |-> <<>>]
Bound(kind, owner, type, qualifier) ==
    [NoSymbol EXCEPT !.kind = kind, !.owner = owner, !.type = type, !.id = symbols + 1,
                     !.qualifier = qualifier]

\* What a statement did: in which scope, the symbols its instructions refer to,
\* those of the names that gave NULL, the errors counted, whether anything was
\* generated, and the name it declares.
Nothing == [scope |-> Program, uses |-> {}, nulls |-> {}, errors |-> 0, made |-> FALSE,
            declares |-> "none"]

scope == Head(stack)

-----------------------------------------------------------------------------
(* search_symbol *)

\* Mistaken: the function around a nested one is searched before the program.
LookupEnclosing(s, name) ==
    IF table[s][name] # NoSymbol THEN table[s][name]
    ELSE IF Len(stack) > 1 /\ table[stack[2]][name] # NoSymbol THEN table[stack[2]][name]
    ELSE table[Program][name]

Lookup(s, name) ==
    IF table[s][name] # NoSymbol THEN table[s][name] ELSE table[Program][name]

\* Functions, registers and calls search the program only.
GlobalSymbol(name) == table[Program][name]

-----------------------------------------------------------------------------
(* Expressions: the value, the errors counted, the symbols referred to, those *)
(* of the names that gave NULL, and whether a call was handed a NULL argument *)

NoValue ==
    [kind |-> "null", type |-> "none", errors |-> 0, uses |-> {}, nulls |-> {}, handed |-> FALSE]
Null(n, symbol) == [NoValue EXCEPT !.errors = n, !.nulls = {symbol}]
Value(kind, type, uses) == [NoValue EXCEPT !.kind = kind, !.type = type, !.uses = uses]

\* Mistaken: an unknown name is not reported.
GenerateLoadQuietly(name) ==
    LET symbol == Lookup(scope, name)
    IN  IF symbol = NoSymbol THEN Null(0, symbol)
                             ELSE Value("instruction", symbol.type, {symbol})

\* Load::generate.  A constant is whatever its symbol is bound to: the value of
\* a global one, the address of a local one.  A function is no variable, which is
\* printed and not counted.
GenerateLoad(name) ==
    LET symbol == Lookup(scope, name)
    IN  CASE symbol = NoSymbol -> Null(1, symbol)
          [] symbol.qualifier = "const" ->
                 IF symbol.kind = "constant" THEN Value("constant", symbol.type, {symbol})
                                             ELSE Value("instruction", "pointer", {symbol})
          [] symbol # NoSymbol /\ symbol.qualifier # "const" ->
                 IF scope = Program THEN Null(1, symbol)
                 ELSE IF symbol.kind = "function" THEN Null(0, symbol)
                 ELSE Value("instruction", symbol.type, {symbol})

\* Several values, whose errors count as one: whether some were reported.
SomeErrors(values, positions) == IF \E i \in positions : values[i].errors > 0 THEN 1 ELSE 0
AllUses(values) == UNION {values[i].uses : i \in DOMAIN values}
AllNulls(values, positions) == UNION {values[i].nulls : i \in positions}

\* FunctionCall::generate: the arguments are compared with nothing, neither with
\* the parameters nor with NULL.  At the top of the program the call is in no block.
GenerateCall(name, values) ==
    LET symbol == GlobalSymbol(name)
    IN  IF symbol.kind # "function" THEN Null(1, symbol)
        ELSE [Value("instruction", symbol.type, {symbol} \cup AllUses(values)) EXCEPT
                 !.errors = SomeErrors(values, DOMAIN values),
                 !.nulls = AllNulls(values, DOMAIN values),
                 !.handed = \E i \in DOMAIN values : values[i].kind = "null" \/ values[i].handed]

GenerateSimple(e) ==
    IF e.op = "literal" THEN Value("constant", e.type, {}) ELSE GenerateLoad(e.name)
Generate(e) ==
    IF e.op = "call" THEN GenerateCall(e.name, [i \in DOMAIN e.args |-> GenerateSimple(e.args[i])])
                     ELSE GenerateSimple(e)
GenerateAll(es) == [i \in DOMAIN es |-> Generate(es[i])]

\* getLLVMResultType(), "none" for NULL: a constant's value and a function have none.
ElementType(e) ==
    CASE e.op = "literal" -> e.type
      [] e.op = "load" ->
             IF Lookup(scope, e.name).kind \in {"alloca", "global", "address"}
             THEN Lookup(scope, e.name).type ELSE "none"
      [] e.op = "call" ->
             IF GlobalSymbol(e.name).kind = "function" THEN GlobalSymbol(e.name).type ELSE "none"

\* Types that are not converted to a number; Coercion::Convert counts an error.
NoNumbers == {"array", "pointer"}

\* The elements of an array: they are generated in turn until one is NULL, and
\* converted to the type of the array.
Elements(values) ==
    LET reached == {i \in DOMAIN values : \A j \in 1..(i - 1) : values[j].kind # "null"}
        null == \E i \in DOMAIN values : values[i].kind = "null"
        constant == \A i \in DOMAIN values : values[i].kind = "constant"
    IN  [kind |-> IF null THEN "null" ELSE IF constant THEN "constant" ELSE "instruction",
         type |-> "array",
         errors |-> IF \E i \in reached : values[i].type \in NoNumbers THEN 1
                    ELSE SomeErrors(values, reached),
         uses |-> AllUses(values),
         nulls |-> AllNulls(values, reached),
         handed |-> \E i \in reached : values[i].handed]

-----------------------------------------------------------------------------
Init ==
    /\ stack = <<Program>>
    /\ functions = 0
    /\ table = [s \in Scopes |-> [n \in Names |-> NoSymbol]]
    /\ symbols = 0
    /\ errorsfound = 0
    /\ crashed = "nothing"
    /\ last = [Nothing EXCEPT !.made = TRUE]

Compiling == crashed = "nothing" /\ errorsfound <= MaxErrors
Room == symbols < MaxSymbols

\* What becomes of a statement that generates the value and counts n more errors.
Does(value, n) ==
    [Nothing EXCEPT !.scope = scope, !.uses = value.uses, !.nulls = value.nulls,
                    !.errors = value.errors + n]

\* The statement generates nothing.
Fail(value, n) ==
    /\ errorsfound' = errorsfound + value.errors + n
    /\ last' = Does(value, n)
    /\ UNCHANGED <<stack, functions, table, symbols, crashed>>

\* The compiler ends by dereferencing NULL.
Crash(what, value, n) ==
    /\ crashed' = what
    /\ errorsfound' = errorsfound + value.errors + n
    /\ last' = Does(value, n)
    /\ UNCHANGED <<stack, functions, table, symbols>>

\* CallInst::Create looks at the types of the arguments in a build of LLVM with
\* assertions only; without them the call is made, with an operand that is NULL.
Handed(value) == value.handed /\ Crash("value", value, 0)

\* The statement generates instructions that refer to the symbols in uses; they
\* are in the block of the function, and in none at the top of the program.
Emit(value, uses) ==
    /\ errorsfound' = errorsfound + value.errors
    /\ last' = [Does(value, 0) EXCEPT !.uses = value.uses \cup uses, !.made = scope # Program]
    /\ UNCHANGED <<stack, functions, table, symbols, crashed>>

\* The name is bound in the table of the function, or of the program.
Bind(name, symbol, value, declares) ==
    /\ Room
    /\ table' = [table EXCEPT ![scope][name] = symbol]
    /\ symbols' = symbols + 1
    /\ errorsfound' = errorsfound + value.errors
    /\ last' = [Does(value, 0) EXCEPT !.uses = value.uses \cup {symbol}, !.made = TRUE,
                                      !.declares = declares]
    /\ UNCHANGED <<stack, functions, crashed>>

\* Scalar::generate for a name that is not bound.
NewScalar(name, value, qualifier) ==
    LET kind == IF scope # Program THEN "alloca"
                ELSE IF qualifier = "const" THEN "constant" ELSE "global"
    IN  \/ Handed(value)
        \/ IF value.kind = "null" \/ (scope = Program /\ value.kind # "constant") THEN Fail(value, 0)
           ELSE Bind(name, Bound(kind, scope, value.type, qualifier), value, "none")

\* Scalar::generate for a name that is bound; the conversion of a NULL value
\* dereferences it.  The address of a register has the type of the register, that of
\* a variable is any pointer.
StoreScalar(symbol, value) ==
    LET unconverted == symbol.kind = "address" /\ value.type \in NoNumbers
    IN  IF symbol.qualifier = "const" THEN Fail(NoValue, 1)
        ELSE \/ Handed(value)
             \/ IF value.kind = "null" THEN Crash("value", value, 0)
                ELSE Emit([value EXCEPT !.errors = @ + (IF unconverted THEN 1 ELSE 0)], {symbol})

\* Mistaken: the name is searched among those of the program only.
ScalarGlobal(name, value, qualifier) ==
    /\ Compiling
    /\ IF GlobalSymbol(name) = NoSymbol THEN NewScalar(name, value, qualifier)
                                        ELSE StoreScalar(GlobalSymbol(name), value)

\* Scalar::generate
Scalar(name, value, qualifier) ==
    /\ Compiling
    /\ IF Lookup(scope, name) = NoSymbol THEN NewScalar(name, value, qualifier)
                                         ELSE StoreScalar(Lookup(scope, name), value)

Assign == \E name \in Variables, e \in Exprs, q \in Qualifiers : Scalar(name, Generate(e), q)

\* name++, name += 1: Scalar with a BinaryOp of the name's own value, NULL when
\* the load is; the names added to are those of numbers.
Update ==
    \E name \in Variables :
        /\ Lookup(scope, name).type \notin NoNumbers
        /\ Scalar(name, GenerateLoad(name), "none")

\* Array::generate and Matrix::generate.  The type of the elements comes first: one
\* without a type is dereferenced, and so is the type of elements that are no numbers,
\* after an error.  The name is bound without a search.
DeclareArray ==
    \E name \in Variables, elements \in ExprLists \ {<<>>} :
        LET types == {ElementType(elements[i]) : i \in DOMAIN elements}
            value == Elements(GenerateAll(elements))
            kind == IF scope = Program THEN "global" ELSE "alloca"
        IN  /\ Compiling
            /\ IF "none" \in types THEN Crash("type", NoValue, 0)
               ELSE IF types \subseteq NoNumbers THEN Crash("type", NoValue, 1)
               ELSE \/ Handed(value)
                    \/ IF value.kind = "null" \/ (scope = Program /\ value.kind # "constant")
                       THEN Fail(value, 0)
                       ELSE Bind(name, Bound(kind, scope, "array", "none"), value, name)

\* Pointer::generate, the register statement; every register is volatile.
DeclareRegister ==
    \E name \in Variables, type \in Types, e \in Exprs :
        LET address == Generate(e)
        IN  /\ Compiling
            /\ IF GlobalSymbol(name) # NoSymbol THEN Fail(NoValue, 2)
               ELSE \/ Handed(address)
                    \/ IF address.kind = "null" THEN Fail(address, 1)
                       ELSE Bind(name, Bound("address", scope, type, "volatile"), address, name)

\* FunctionDecl::generate and FunctionDeclExtern::generate up to the symbol.
DeclaredFunction(name, params) ==
    [Bound("function", Program, "i8", "none") EXCEPT !.params = params]

\* FunctionDeclExtern::generate
DeclareExtern ==
    \E name \in Functions, params \in ParamLists :
        /\ Compiling
        /\ IF GlobalSymbol(name) # NoSymbol THEN Fail(NoValue, 2)
           ELSE Bind(name, DeclaredFunction(name, params), NoValue, name)

\* The table of a function begins with an alloca for each parameter.
ParamTable(s, params) ==
    [n \in Names |->
        LET named == {i \in DOMAIN params : params[i].name = n}
        IN  IF named = {} THEN NoSymbol
            ELSE LET i == CHOOSE j \in named : \A k \in named : k <= j
                 IN  [Bound("alloca", s, params[i].type, "none") EXCEPT !.id = symbols + 1 + i]]

\* FunctionDecl::generate, up to the generation of the body.
BeginFunction ==
    \E name \in Functions, params \in ParamLists :
        /\ Compiling
        /\ functions < MaxScopes
        /\ IF GlobalSymbol(name) # NoSymbol THEN Fail(NoValue, 2)
           ELSE /\ symbols + 1 + Len(params) <= MaxSymbols
                /\ functions' = functions + 1
                /\ table' = [table EXCEPT ![scope][name] = DeclaredFunction(name, params),
                                          ![functions'] = ParamTable(functions', params)]
                /\ symbols' = symbols + 1 + Len(params)
                /\ stack' = <<functions'>> \o stack
                /\ last' = [Nothing EXCEPT !.scope = scope, !.made = TRUE, !.declares = name]
                /\ UNCHANGED <<errorsfound, crashed>>

\* FunctionDecl::generate, after the body.
EndFunction ==
    /\ Compiling
    /\ scope # Program
    /\ stack' = Tail(stack)
    /\ last' = [Nothing EXCEPT !.scope = scope, !.made = TRUE]
    /\ UNCHANGED <<functions, table, symbols, errorsfound, crashed>>

\* A call as a statement, which the grammar has in functions only.
Call ==
    \E name \in Names, args \in ExprLists :
        LET value == GenerateCall(name, GenerateAll(args))
        IN  /\ Compiling
            /\ scope # Program
            /\ \/ Handed(value)
               \/ IF value.kind = "null" THEN Fail(value, 0) ELSE Emit(value, {})

Next ==
    \/ Assign \/ Update \/ DeclareArray \/ DeclareRegister
    \/ DeclareExtern \/ BeginFunction \/ EndFunction \/ Call

Spec == Init /\ [][Next]_vars
-----------------------------------------------------------------------------
(* Properties *)

Symbol(sym) ==
    /\ sym.kind \in {"none", "constant", "global", "alloca", "address", "function"}
    /\ sym.owner \in Scopes
    /\ sym.id \in 0..MaxSymbols
    /\ sym.qualifier \in Qualifiers

\* Type invariant, with what the scope of a symbol says of its table: a local is
\* found only in the table of the function it belongs to.
SymbolsTypeOK ==
    /\ stack \in Seq(Scopes) /\ stack # <<>>
    /\ functions \in Scopes
    /\ \A i \in DOMAIN stack : stack[i] <= functions
    /\ symbols \in 0..MaxSymbols
    /\ errorsfound \in Nat
    /\ crashed \in {"nothing", "value", "type"}
    /\ last.scope \in Scopes
    /\ \A s \in Scopes, n \in Names :
          Symbol(table[s][n]) /\ table[s][n].owner \in {Program, s}

\* An instruction refers only to storage of the function it is in or of the
\* program, however functions are nested: LLVM has no other (search_symbol with
\* the alloc blocks that generate() hands down, FunctionDecl.cpp:45).
NoForeignStorage == \A sym \in last.uses : sym.owner \in {Program, last.scope}

\* The statement has used the name of a function as that of a variable.
FunctionRead == \E symbol \in last.nulls : symbol.kind = "function"

\* An expression that gives NULL has reported it (CmpOp.cpp:16: "can't generate
\* values, error message emitted during generate"), but for functions' names, which
\* Load.cpp:45 prints and does not count.
NullsReported == \A symbol \in last.nulls : symbol.kind # "function" => last.errors > 0

\* In a function a statement that generates nothing has reported an error, and so has
\* one that dereferences a NULL value; the type of an element is dereferenced without.
StatementsReported ==
    \/ crashed = "value"
    \/ crashed = "nothing" /\ last.scope # Program /\ ~ last.made
    => last.errors > 0 \/ FunctionRead

\* A name that a function has used keeps its storage for the rest of that
\* function, and one of the program for the rest of the program, except for what
\* an array, a register or a function of that name takes over: a scalar never
\* moves (Scalar.cpp:11 searches before it binds).
BindingStable ==
    [][\A s \in Scopes, n \in Names :
          /\ s \in {stack[i] : i \in DOMAIN stack}
          /\ Lookup(s, n) # NoSymbol
          /\ last'.declares # n
          => Lookup(s, n)' = Lookup(s, n)]_vars

\* The type invariant, and names that keep to their functions (Header.h 147-165).
NamesInv == SymbolsTypeOK /\ NoForeignStorage

\* A failure is silent in two ways only, that both are in the code: an element of an
\* array without a type (ArrayElements.cpp:25), and a function's name used as a
\* variable (Load.cpp:45).
FailuresReported == NullsReported /\ StatementsReported

=============================================================================
