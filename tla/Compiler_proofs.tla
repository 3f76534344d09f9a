--------------------------- MODULE Compiler_proofs --------------------------
(***************************************************************************)
(* Theorems about five parts of the compiler, which share no state.        *)
(* Symbols: however many functions a program nests, and whatever they      *)
(* declare, an instruction refers to storage of its own function or of the *)
(* program.  Driver: whatever the command line and the errors found on the *)
(* way, output is written for a program without errors only.  Events:      *)
(* every event block is attached once, to a function found in the table.   *)
(* Unescape: every string of the scanner is decoded where it stands.       *)
(* Values: every value is one of its type, the one announced for it.       *)
(***************************************************************************)
EXTENDS Symbols, Driver, Events, Unescape, Values, TLAPS, SequenceTheorems, FiniteSetTheorems,
        WellFoundedInduction

\* The least element of a set of numbers.
LEMMA LeastOf ==
    ASSUME NEW A \in SUBSET Nat, A # {}
    PROVE  \E b \in A : \A c \in A : b <= c
<1>1. PICK b \in A : \A c \in A : ~ (<<c, b>> \in OpToRel(<, Nat))
  BY NatLessThanWellFounded, WFMin
<1>2. \A c \in A : ~ (c < b)
  BY <1>1, Zenon DEF OpToRel
<1>3. \A c \in A : b <= c
  BY <1>2
<1> QED
  BY <1>3

-----------------------------------------------------------------------------
(* Symbols: the names of a program *)

\* The inductive invariant: tables are tables, and the program is around everything.
Tables ==
    /\ table = [s \in Scopes |-> table[s]]
    /\ \A s \in Scopes : table[s] = [n \in Names |-> table[s][n]]
NamesIInv ==
    /\ NamesInv /\ Tables
    /\ \A i \in DOMAIN stack : stack[i] = Program <=> i = Len(stack)

\* The owners of the symbols an instruction in scope s may refer to.
Own(uses, s) == \A sym \in uses : sym.owner \in {Program, s}

-----------------------------------------------------------------------------
(* What is looked up *)

\* The current scope is that of a function already begun, or the program.
LEMMA ScopeIsScope ==
    ASSUME NamesIInv
    PROVE  scope \in Scopes /\ scope <= functions /\ Program \in Scopes
<1>1. stack \in Seq(Scopes) /\ stack # <<>> /\ \A i \in DOMAIN stack : stack[i] <= functions
  BY DEF NamesIInv, NamesInv, SymbolsTypeOK
<1>2. Len(stack) \in Nat /\ Len(stack) >= 1 /\ DOMAIN stack = 1..Len(stack) /\ scope = stack[1]
  BY <1>1 DEF scope
<1>3. stack[1] \in Scopes /\ stack[1] <= functions
  BY <1>1, <1>2
<1>4. MaxScopes \in Nat
  BY SymbolsAssumption DEF SymbolBounds
<1> QED
  BY <1>2, <1>3, <1>4 DEF Scopes, Program

\* A lookup finds the current function's symbol or the program's, never another's.
LEMMA LookupOwn ==
    ASSUME NamesIInv, NEW name \in Names
    PROVE  Lookup(scope, name).owner \in {Program, scope} /\ GlobalSymbol(name).owner = Program
<1>1. Program \in Scopes /\ scope \in Scopes
  BY ScopeIsScope
<1> QED
  BY <1>1 DEF NamesIInv, NamesInv, SymbolsTypeOK, Lookup, GlobalSymbol

\* What a statement can do with a value: its errors are counted, its instructions belong here.
Usable(value) == value.errors \in Nat /\ Own(value.uses, scope)

\* So does a load.
LEMMA LoadOwn ==
    ASSUME NamesIInv, NEW name \in Names
    PROVE  Usable(GenerateLoad(name))
<1>1. Lookup(scope, name).owner \in {Program, scope}
  BY LookupOwn
<1> QED
  BY <1>1 DEF GenerateLoad, Usable, Own, Null, NoValue, Value

\* So does an argument.
LEMMA SimpleOwn ==
    ASSUME NamesIInv, NEW e, Simple(e)
    PROVE  Usable(GenerateSimple(e))
<1>1. CASE e.op = "literal"
  BY <1>1 DEF GenerateSimple, Usable, Own, Value, NoValue
<1>2. CASE e.op # "literal"
  BY <1>2, LoadOwn DEF GenerateSimple, Simple
<1> QED
  BY <1>1, <1>2

\* Errors are counted once for all the values.
LEMMA SomeErrorsNat == \A values, positions : SomeErrors(values, positions) \in {0, 1}
BY DEF SomeErrors

\* So does a call, if its arguments do.
LEMMA CallOwn ==
    ASSUME NamesIInv, NEW name \in Names, NEW values,
           \A i \in DOMAIN values : Usable(values[i])
    PROVE  Usable(GenerateCall(name, values))
<1>1. GlobalSymbol(name).owner = Program
  BY LookupOwn
<1>2. CASE GlobalSymbol(name).kind # "function"
  BY <1>2 DEF GenerateCall, Usable, Own, Null, NoValue
<1>3. CASE GlobalSymbol(name).kind = "function"
  <2>1. /\ GenerateCall(name, values).errors = SomeErrors(values, DOMAIN values)
        /\ GenerateCall(name, values).uses = {GlobalSymbol(name)} \cup AllUses(values)
    BY <1>3 DEF GenerateCall, Value, NoValue
  <2>2. GenerateCall(name, values).errors \in Nat
    BY <2>1, SomeErrorsNat
  <2>3. Own(GenerateCall(name, values).uses, scope)
    BY <1>1, <2>1 DEF Own, AllUses, Usable
  <2> QED
    BY <2>2, <2>3 DEF Usable
<1> QED
  BY <1>2, <1>3

\* And so does every expression.
LEMMA GenerateOwn ==
    ASSUME NamesIInv, NEW e \in Exprs
    PROVE  Usable(Generate(e))
<1>1. CASE e.op = "call"
  <2> DEFINE values == [i \in DOMAIN e.args |-> GenerateSimple(e.args[i])]
  <2>1. e.name \in Names /\ \A i \in DOMAIN e.args : Simple(e.args[i])
    BY <1>1, SymbolsAssumption DEF ExprsAssumption, Simple
  <2>2. \A i \in DOMAIN values : Usable(values[i])
    BY <2>1, SimpleOwn
  <2>3. Generate(e) = GenerateCall(e.name, values)
    BY <1>1 DEF Generate
  <2> HIDE DEF values
  <2> QED
    BY <2>1, <2>2, <2>3, CallOwn
<1>2. CASE e.op # "call"
  <2>1. Simple(e)
    BY <1>2, SymbolsAssumption DEF ExprsAssumption
  <2> QED
    BY <1>2, <2>1, SimpleOwn DEF Generate
<1> QED
  BY <1>1, <1>2

\* And every expression of a list.
LEMMA AllOwn ==
    ASSUME NamesIInv, NEW es \in ExprLists
    PROVE  /\ \A i \in DOMAIN GenerateAll(es) : Usable(GenerateAll(es)[i])
           /\ Usable(Elements(GenerateAll(es)))
<1>1. es \in Seq(Exprs)
  BY SymbolsAssumption DEF ListsAssumption
<1>2. \A i \in DOMAIN es : es[i] \in Exprs
  BY <1>1
<1> DEFINE values == GenerateAll(es)
<1>3. \A i \in DOMAIN values : Usable(values[i])
  BY <1>2, GenerateOwn DEF GenerateAll
<1> HIDE DEF values
<1>4. Elements(values).errors = 1 \/ \E positions : Elements(values).errors = SomeErrors(values, positions)
  BY DEF Elements
<1>5. Elements(values).errors \in Nat
  BY <1>4, SomeErrorsNat
<1>6. Own(Elements(values).uses, scope)
  BY <1>3 DEF Elements, Own, AllUses, Usable
<1> QED
  BY <1>3, <1>5, <1>6 DEF Usable, values

\* Nothing to use.
LEMMA NoValueOwn == Usable(NoValue)
BY DEF Usable, NoValue, Own

-----------------------------------------------------------------------------
(* What a statement does *)

\* A nonempty set of positions has a greatest element.
LEMMA GreatestElement ==
    ASSUME NEW n \in Nat, NEW S \in SUBSET (1..n), S # {}
    PROVE  \E j \in S : \A k \in S : k <= j
<1> DEFINE left == {m \in Nat : \A k \in S : k <= m}
<1>1. n \in left /\ left \in SUBSET Nat
  OBVIOUS
<1>2. PICK m \in left : \A l \in left : ~ (<<l, m>> \in OpToRel(<, Nat))
  BY <1>1, NatLessThanWellFounded, WFMin
<1>3. \A l \in left : ~ (l < m)
  BY <1>1, <1>2, Zenon DEF OpToRel
<1>4. m \in S
  <2>1. SUFFICES ASSUME m \notin S PROVE FALSE
    OBVIOUS
  <2>2. PICK k \in S : TRUE
    OBVIOUS
  <2>3. m > 0 /\ \A j \in S : j <= m - 1
    BY <2>1, <2>2
  <2>4. m - 1 \in left
    BY <2>3
  <2> QED
    BY <1>3, <2>4
<1> QED
  BY <1>4

\* A statement that binds nothing.
LEMMA KeepStep ==
    ASSUME NamesIInv, errorsfound' \in Nat, crashed' \in {"nothing", "value", "type"}, last'.scope = scope,
           Own(last'.uses, scope), UNCHANGED <<stack, functions, table, symbols>>
    PROVE  NamesIInv'
<1>1. scope \in Scopes
  BY ScopeIsScope
<1>2. SymbolsTypeOK'
  BY <1>1 DEF NamesIInv, NamesInv, SymbolsTypeOK, Symbol
<1>3. NoForeignStorage'
  BY DEF NoForeignStorage, Own
<1> QED
  BY <1>2, <1>3 DEF NamesIInv, NamesInv, Tables

\* A statement that binds a name in the scope it is in, to a symbol of that scope or of
\* the program.
LEMMA BindingStep ==
    ASSUME NamesIInv, Room, NEW name \in Names, NEW symbol, errorsfound' \in Nat,
           Symbol(symbol), symbol.owner \in {Program, scope},
           Own(last'.uses, scope), last'.scope = scope,
           table' = [table EXCEPT ![scope][name] = symbol], symbols' = symbols + 1,
           UNCHANGED <<stack, functions, crashed>>
    PROVE  NamesIInv'
<1>1. scope \in Scopes
  BY ScopeIsScope
<1>2. table' = [s \in Scopes |-> IF s = scope THEN [table[scope] EXCEPT ![name] = symbol]
                                 ELSE table[s]]
  BY <1>1 DEF NamesIInv, Tables
<1>3. \A s \in Scopes, n \in Names :
         table'[s][n] = IF s = scope /\ n = name THEN symbol ELSE table[s][n]
  BY <1>1, <1>2 DEF NamesIInv, Tables
<1>4. Tables'
  <2>1. ASSUME NEW s \in Scopes PROVE table'[s] = [n \in Names |-> table'[s][n]]
    <3>1. table[s] = [n \in Names |-> table[s][n]]
      BY DEF NamesIInv, Tables
    <3>2. CASE s = scope
      <4>1. table'[s] = [table[s] EXCEPT ![name] = symbol]
        BY <1>2, <3>2
      <4> QED
        BY <3>1, <4>1
    <3>3. CASE s # scope
      <4>1. table'[s] = table[s]
        BY <1>2, <3>3
      <4> QED
        BY <3>1, <4>1
    <3> QED
      BY <3>2, <3>3
  <2>2. table' = [s \in Scopes |-> table'[s]]
    BY <1>2
  <2> QED
    BY <2>1, <2>2 DEF Tables
<1>5. \A s \in Scopes, n \in Names :
         Symbol(table'[s][n]) /\ table'[s][n].owner \in {Program, s}
  BY <1>3 DEF NamesIInv, NamesInv, SymbolsTypeOK
<1>6. symbols' \in 0..MaxSymbols
  BY SymbolsAssumption DEF Room, NamesIInv, NamesInv, SymbolsTypeOK, SymbolBounds
<1>7. SymbolsTypeOK'
  BY <1>1, <1>5, <1>6 DEF NamesIInv, NamesInv, SymbolsTypeOK, Symbol
<1>8. NoForeignStorage'
  BY DEF NoForeignStorage, Own
<1> QED
  BY <1>4, <1>7, <1>8 DEF NamesIInv, NamesInv

\* The symbols bound.
LEMMA BoundOwn ==
    ASSUME NamesIInv, Room, NEW kind, NEW owner \in Scopes, NEW type,
           NEW qualifier \in Qualifiers,
           kind \in {"none", "constant", "global", "alloca", "address", "function"}
    PROVE  Symbol(Bound(kind, owner, type, qualifier)) /\ Bound(kind, owner, type, qualifier).owner = owner
<1>1. symbols + 1 \in 0..MaxSymbols
  BY SymbolsAssumption DEF Room, NamesIInv, NamesInv, SymbolsTypeOK, SymbolBounds
<1> QED
  BY <1>1 DEF Symbol, Bound, NoSymbol

-----------------------------------------------------------------------------
(* The statements *)

\* What the last statement is said to have done.
LEMMA DoesLemma ==
    ASSUME NEW value, NEW n
    PROVE  /\ Does(value, n).scope = scope /\ Does(value, n).uses = value.uses
           /\ Does(value, n).nulls = value.nulls /\ Does(value, n).errors = value.errors + n
           /\ Does(value, n).made = FALSE
BY DEF Does, Nothing

\* A statement that only counts errors, or with which the compiler ends.
LEMMA FailStep ==
    ASSUME NamesIInv, NEW value, Usable(value), NEW n \in Nat, NEW what \in {"value", "type"},
           Fail(value, n) \/ Crash(what, value, n)
    PROVE  NamesIInv'
<1>1. errorsfound \in Nat /\ crashed \in {"nothing", "value", "type"} /\ value.errors \in Nat
  BY DEF NamesIInv, NamesInv, SymbolsTypeOK, Usable
<1>2. /\ errorsfound' = errorsfound + value.errors + n /\ last' = Does(value, n)
      /\ UNCHANGED <<stack, functions, table, symbols>>
      /\ crashed' = what \/ crashed' = crashed
  BY DEF Fail, Crash
<1>3. errorsfound' \in Nat
  BY <1>1, <1>2
<1>4. crashed' \in {"nothing", "value", "type"}
  BY <1>1, <1>2
<1>5. last'.scope = scope /\ Own(last'.uses, scope)
  BY <1>2, DoesLemma DEF Usable
<1> QED
  BY <1>2, <1>3, <1>4, <1>5, KeepStep

\* A call that was handed NULL may end the compiler.
LEMMA HandedStep ==
    ASSUME NamesIInv, NEW value, Usable(value), Handed(value)
    PROVE  NamesIInv'
BY FailStep DEF Handed

\* A statement that generates a value and stores it.
LEMMA EmitStep ==
    ASSUME NamesIInv, NEW value, Usable(value), NEW uses, Own(uses, scope), Emit(value, uses)
    PROVE  NamesIInv'
<1>1. errorsfound \in Nat /\ value.errors \in Nat
  BY DEF NamesIInv, NamesInv, SymbolsTypeOK, Usable
<1>2. errorsfound' \in Nat /\ crashed' \in {"nothing", "value", "type"}
  BY <1>1 DEF NamesIInv, NamesInv, SymbolsTypeOK, Emit
<1>3. last'.scope = scope /\ last'.uses = value.uses \cup uses
  BY DEF Emit, Does, Nothing
<1>4. Own(last'.uses, scope)
  BY <1>3 DEF Usable, Own
<1> QED
  BY <1>2, <1>3, <1>4, KeepStep DEF Emit

\* A statement that binds a name to a symbol of its scope or of the program.
LEMMA BindStep ==
    ASSUME NamesIInv, NEW name \in Names, NEW symbol, Symbol(symbol),
           symbol.owner \in {Program, scope}, NEW value, Usable(value), NEW declares,
           Bind(name, symbol, value, declares)
    PROVE  NamesIInv'
<1>1. errorsfound \in Nat /\ value.errors \in Nat
  BY DEF NamesIInv, NamesInv, SymbolsTypeOK, Usable
<1>2. errorsfound' \in Nat
  BY <1>1 DEF Bind
<1>3. last'.scope = scope /\ last'.uses = value.uses \cup {symbol}
  BY DEF Bind, Does, Nothing
<1>4. Own(last'.uses, scope)
  BY <1>3 DEF Usable, Own
<1> QED
  BY <1>2, <1>3, <1>4, BindingStep DEF Bind

\* The cases that an assignment and an update share (Scalar::generate).
LEMMA ScalarStep ==
    ASSUME NamesIInv, NEW name \in Names, NEW value, NEW qualifier \in Qualifiers,
           Usable(value), Scalar(name, value, qualifier)
    PROVE  NamesIInv'
<1>1. scope \in Scopes /\ Program \in Scopes
  BY ScopeIsScope
<1>2. ASSUME NewScalar(name, value, qualifier) PROVE NamesIInv'
  <2> DEFINE kind == IF scope # Program THEN "alloca"
                     ELSE IF qualifier = "const" THEN "constant" ELSE "global"
             symbol == Bound(kind, scope, value.type, qualifier)
  <2>1. Handed(value) \/ Fail(value, 0) \/ Bind(name, symbol, value, "none")
    BY <1>2 DEF NewScalar
  <2>2. ASSUME Bind(name, symbol, value, "none") PROVE Symbol(symbol) /\ symbol.owner = scope
    <3>1. Room
      BY <2>2 DEF Bind
    <3>2. kind \in {"none", "constant", "global", "alloca", "address", "function"}
      OBVIOUS
    <3> QED
      BY <1>1, <3>1, <3>2, BoundOwn
  <2> HIDE DEF symbol
  <2> QED
    BY <2>1, <2>2, HandedStep, FailStep, BindStep
<1>3. ASSUME StoreScalar(Lookup(scope, name), value) PROVE NamesIInv'
  <2> DEFINE symbol == Lookup(scope, name)
             counted == [value EXCEPT !.errors =
                            @ + (IF symbol.kind = "address" /\ value.type \in NoNumbers THEN 1 ELSE 0)]
  <2>1. Fail(NoValue, 1) \/ Handed(value) \/ Crash("value", value, 0) \/ Emit(value, {symbol})
        \/ Emit(counted, {symbol})
    BY <1>3 DEF StoreScalar
  <2>2. Own({symbol}, scope)
    BY LookupOwn DEF Own
  <2>3. value.errors \in Nat
    BY DEF Usable
  <2>4. ASSUME Emit(counted, {symbol}) PROVE NamesIInv'
    <3>1. counted.uses = value.uses
      OBVIOUS
    <3>2. counted.errors \in Nat
      BY <2>3
    <3> QED
      BY <2>2, <2>4, <3>1, <3>2, EmitStep DEF Usable
  <2> HIDE DEF counted, symbol
  <2> QED
    BY <2>1, <2>2, <2>4, NoValueOwn, HandedStep, FailStep, EmitStep
<1> QED
  BY <1>2, <1>3 DEF Scalar

\* Assignments, also those that declare.
LEMMA AssignStep == ASSUME NamesIInv, Assign PROVE NamesIInv'
<1>1. PICK name \in Variables, e \in Exprs, q \in Qualifiers : Scalar(name, Generate(e), q)
  BY DEF Assign
<1> QED
  BY <1>1, GenerateOwn, ScalarStep DEF Names

\* Updates: a variable is stored what is computed from itself.
LEMMA UpdateStep == ASSUME NamesIInv, Update PROVE NamesIInv'
<1>1. PICK name \in Variables : Scalar(name, GenerateLoad(name), "none")
  BY DEF Update
<1>2. name \in Names /\ "none" \in Qualifiers
  BY DEF Names, Qualifiers
<1> QED
  BY <1>1, <1>2, LoadOwn, ScalarStep

\* Arrays and matrices.
LEMMA DeclareArrayStep == ASSUME NamesIInv, DeclareArray PROVE NamesIInv'
<1> DEFINE symbol == Bound(IF scope = Program THEN "global" ELSE "alloca", scope, "array", "none")
<1>1. PICK name \in Variables, elements \in ExprLists :
        LET value == Elements(GenerateAll(elements))
        IN  \/ Crash("type", NoValue, 0) \/ Crash("type", NoValue, 1)
            \/ Handed(value) \/ Fail(value, 0) \/ Bind(name, symbol, value, name)
  BY DEF DeclareArray
<1> DEFINE value == Elements(GenerateAll(elements))
<1>2. Usable(value) /\ Usable(NoValue)
  BY AllOwn, NoValueOwn
<1>3. ASSUME Bind(name, symbol, value, name) PROVE Symbol(symbol) /\ symbol.owner = scope
  BY <1>3, ScopeIsScope, BoundOwn DEF Qualifiers, Bind
<1> HIDE DEF symbol, value
<1>4. name \in Names
  BY DEF Names
<1>5. \/ Crash("type", NoValue, 0) \/ Crash("type", NoValue, 1)
      \/ Handed(value) \/ Fail(value, 0) \/ Bind(name, symbol, value, name)
  BY <1>1 DEF value
<1> QED
  BY <1>2, <1>3, <1>4, <1>5, HandedStep, FailStep, BindStep

\* Memory-mapped registers.
LEMMA DeclareRegisterStep == ASSUME NamesIInv, DeclareRegister PROVE NamesIInv'
<1>1. PICK name \in Variables, type \in Types, e \in Exprs :
        \/ Fail(NoValue, 2) \/ Handed(Generate(e)) \/ Fail(Generate(e), 1)
        \/ Bind(name, Bound("address", scope, type, "volatile"), Generate(e), name)
  BY DEF DeclareRegister
<1> DEFINE symbol == Bound("address", scope, type, "volatile")
<1>2. Usable(Generate(e)) /\ Usable(NoValue) /\ name \in Names
  BY GenerateOwn, NoValueOwn DEF Names
<1>3. ASSUME Bind(name, symbol, Generate(e), name) PROVE Symbol(symbol) /\ symbol.owner = scope
  BY <1>3, ScopeIsScope, BoundOwn DEF Qualifiers, Bind
<1>4. \/ Fail(NoValue, 2) \/ Handed(Generate(e)) \/ Fail(Generate(e), 1)
      \/ Bind(name, symbol, Generate(e), name)
  BY <1>1
<1> HIDE DEF symbol
<1> QED
  BY <1>2, <1>3, <1>4, HandedStep, FailStep, BindStep

\* The symbol of a function.
LEMMA FunctionOwn ==
    ASSUME NamesIInv, Room, NEW name, NEW params
    PROVE  Symbol(DeclaredFunction(name, params)) /\ DeclaredFunction(name, params).owner = Program
<1>1. symbols + 1 \in 0..MaxSymbols /\ Program \in Scopes
  BY ScopeIsScope, SymbolsAssumption DEF Room, NamesIInv, NamesInv, SymbolsTypeOK, SymbolBounds
<1> QED
  BY <1>1 DEF DeclaredFunction, Symbol, Bound, NoSymbol, Qualifiers

\* External functions are bound in the program.
LEMMA DeclareExternStep == ASSUME NamesIInv, DeclareExtern PROVE NamesIInv'
<1>1. PICK name \in Functions, params \in ParamLists :
        Fail(NoValue, 2) \/ Bind(name, DeclaredFunction(name, params), NoValue, name)
  BY DEF DeclareExtern
<1> DEFINE f == DeclaredFunction(name, params)
<1>2. ASSUME Bind(name, f, NoValue, name) PROVE Symbol(f) /\ f.owner = Program
  BY <1>2, FunctionOwn DEF Bind
<1>3. Fail(NoValue, 2) \/ Bind(name, f, NoValue, name)
  BY <1>1
<1> HIDE DEF f
<1>4. name \in Names
  BY DEF Names
<1> QED
  BY <1>2, <1>3, <1>4, NoValueOwn, FailStep, BindStep

\* A sequence with a length has positions.
LEMMA NonemptyLemma ==
    ASSUME NEW S, NEW t \in Seq(S), Len(t) > 0
    PROVE  t # <<>> /\ DOMAIN t = 1..Len(t)
OBVIOUS

\* What is left of a sequence without its first element.
LEMMA TailLemma ==
    ASSUME NEW S, NEW s \in Seq(S), Len(s) > 1
    PROVE  /\ Tail(s) \in Seq(S) /\ Tail(s) # <<>> /\ Len(Tail(s)) = Len(s) - 1
           /\ \A i \in DOMAIN Tail(s) : i + 1 \in DOMAIN s /\ Tail(s)[i] = s[i + 1]
<1> DEFINE t == Tail(s)
<1>1. s # <<>> /\ Len(s) \in Nat /\ DOMAIN s = 1..Len(s)
  OBVIOUS
<1>2. /\ t \in Seq(S) /\ Len(t) = Len(s) - 1
      /\ \A i \in 1..Len(t) : t[i] = s[i + 1]
  BY <1>1, HeadTailProperties, Zenon
<1> HIDE DEF t
<1>3. Len(t) > 0
  BY <1>1, <1>2
<1>4. t # <<>> /\ DOMAIN t = 1..Len(t)
  BY <1>2, <1>3, NonemptyLemma
<1>5. \A i \in DOMAIN t : i + 1 \in DOMAIN s /\ t[i] = s[i + 1]
  BY <1>1, <1>2, <1>4
<1> QED
  BY <1>2, <1>4, <1>5 DEF t

\* What a sequence becomes with an element in front.
LEMMA PushLemma ==
    ASSUME NEW S, NEW s \in Seq(S), NEW e \in S
    PROVE  /\ <<e>> \o s \in Seq(S) /\ <<e>> \o s # <<>> /\ Len(<<e>> \o s) = Len(s) + 1
           /\ \A i \in DOMAIN (<<e>> \o s) :
                 IF i = 1 THEN (<<e>> \o s)[i] = e
                 ELSE i - 1 \in DOMAIN s /\ (<<e>> \o s)[i] = s[i - 1]
OBVIOUS

\* Calls: the instructions of the arguments and the function.
LEMMA CallStep == ASSUME NamesIInv, Call PROVE NamesIInv'
<1>1. PICK name \in Names, args \in ExprLists :
        LET value == GenerateCall(name, GenerateAll(args))
        IN  Handed(value) \/ Fail(value, 0) \/ Emit(value, {})
  BY DEF Call
<1> DEFINE value == GenerateCall(name, GenerateAll(args))
<1>2. Usable(value)
  BY AllOwn, CallOwn
<1>3. Handed(value) \/ Fail(value, 0) \/ Emit(value, {})
  BY <1>1
<1> HIDE DEF value
<1>4. Own({}, scope)
  BY DEF Own
<1> QED
  BY <1>2, <1>3, <1>4, HandedStep, FailStep, EmitStep

\* The end of a function gives its caller's scope back.
LEMMA EndFunctionStep == ASSUME NamesIInv, EndFunction PROVE NamesIInv'
<1>1. scope \in Scopes /\ Program \in Scopes
  BY ScopeIsScope
<1>2. /\ stack \in Seq(Scopes) /\ stack # <<>>
      /\ \A i \in DOMAIN stack : stack[i] <= functions
      /\ \A i \in DOMAIN stack : stack[i] = Program <=> i = Len(stack)
  BY DEF NamesIInv, NamesInv, SymbolsTypeOK
<1>3. stack' = Tail(stack) /\ scope # Program /\ scope = stack[1] /\ 1 \in DOMAIN stack
  BY <1>2 DEF EndFunction, scope
<1>4. Len(stack) \in Nat /\ Len(stack) > 1
  BY <1>2, <1>3
<1>5. /\ stack' \in Seq(Scopes) /\ stack' # <<>> /\ Len(stack') = Len(stack) - 1
      /\ \A i \in DOMAIN stack' : i + 1 \in DOMAIN stack /\ stack'[i] = stack[i + 1]
  BY <1>2, <1>3, <1>4, TailLemma
<1>6. \A i \in DOMAIN stack' : i \in Nat /\ (i = Len(stack') <=> i + 1 = Len(stack))
  BY <1>4, <1>5
<1>7. /\ \A i \in DOMAIN stack' : stack'[i] <= functions
      /\ \A i \in DOMAIN stack' : stack'[i] = Program <=> i = Len(stack')
  BY <1>2, <1>5, <1>6
<1>8. last'.scope = scope /\ last'.uses = {} /\ UNCHANGED <<functions, table, symbols, errorsfound, crashed>>
  BY DEF EndFunction, Nothing
<1>9. SymbolsTypeOK'
  BY <1>1, <1>5, <1>7, <1>8 DEF NamesIInv, NamesInv, SymbolsTypeOK, Symbol
<1> QED
  BY <1>7, <1>8, <1>9 DEF NamesIInv, NamesInv, NoForeignStorage, Tables

\* The table a function begins with.
LEMMA ParamOwn ==
    ASSUME NamesIInv, NEW s \in Scopes, NEW params \in ParamLists,
           symbols + 1 + Len(params) <= MaxSymbols, NEW n \in Names
    PROVE  Symbol(ParamTable(s, params)[n]) /\ ParamTable(s, params)[n].owner \in {Program, s}
<1> DEFINE named == {i \in DOMAIN params : params[i].name = n}
           first == CHOOSE j \in named : \A k \in named : k <= j
<1>1. params \in Seq([name : Names, type : Types])
  BY SymbolsAssumption DEF ParamsAssumption
<1>2. Program \in Scopes /\ symbols \in Nat /\ MaxSymbols \in Nat
  BY ScopeIsScope, SymbolsAssumption DEF NamesIInv, NamesInv, SymbolsTypeOK, SymbolBounds
<1>3. CASE named = {}
  <2>1. ParamTable(s, params)[n] = NoSymbol
    BY <1>3 DEF ParamTable
  <2> QED
    BY <1>2, <2>1 DEF NoSymbol, Symbol, Qualifiers
<1>4. CASE named # {}
  <2>1. \E j \in named : \A k \in named : k <= j
    <3>1. named \subseteq 1..Len(params) /\ Len(params) \in Nat
      BY <1>1
    <3> QED
      BY <1>4, <3>1, GreatestElement
  <2>2. first \in named
    BY <2>1
  <2>3. first \in 1..Len(params)
    BY <1>1, <2>2
  <2>4. symbols + 1 + first \in 0..MaxSymbols
    BY <1>1, <1>2, <2>3
  <2> HIDE DEF first
  <2>5. ParamTable(s, params)[n] = [Bound("alloca", s, params[first].type, "none") EXCEPT !.id = symbols + 1 + first]
    BY <1>4 DEF ParamTable, first
  <2> QED
    BY <2>4, <2>5 DEF Bound, NoSymbol, Symbol, Qualifiers
<1> QED
  BY <1>3, <1>4

\* A function is bound where it is declared; its own table holds its parameters.
LEMMA BeginFunctionStep == ASSUME NamesIInv, BeginFunction PROVE NamesIInv'
<1>1. PICK name \in Functions, params \in ParamLists :
        /\ functions < MaxScopes
        /\ \/ Fail(NoValue, 2)
           \/ /\ symbols + 1 + Len(params) <= MaxSymbols
              /\ functions' = functions + 1
              /\ table' = [table EXCEPT ![scope][name] = DeclaredFunction(name, params),
                                        ![functions'] = ParamTable(functions', params)]
              /\ symbols' = symbols + 1 + Len(params)
              /\ stack' = <<functions'>> \o stack
              /\ last'.scope = scope /\ last'.uses = {}
              /\ UNCHANGED <<errorsfound, crashed>>
  BY DEF BeginFunction, Nothing
<1>2. CASE Fail(NoValue, 2)
  BY <1>2, NoValueOwn, FailStep
<1>3. CASE ~ Fail(NoValue, 2)
  <2>1. scope \in Scopes /\ Program \in Scopes /\ scope <= functions
    BY ScopeIsScope
  <2>2. /\ functions \in Nat /\ MaxScopes \in Nat /\ symbols \in Nat /\ MaxSymbols \in Nat
        /\ stack \in Seq(Scopes) /\ stack # <<>>
        /\ \A i \in DOMAIN stack : stack[i] <= functions
        /\ \A i \in DOMAIN stack : stack[i] = Program <=> i = Len(stack)
    <3>1. functions \in Scopes /\ symbols \in 0..MaxSymbols /\ MaxScopes \in Nat /\ MaxSymbols \in Nat
      BY SymbolsAssumption DEF NamesIInv, NamesInv, SymbolsTypeOK, SymbolBounds
    <3>2. functions \in Nat /\ symbols \in Nat
      BY <3>1 DEF Scopes
    <3> QED
      BY <3>1, <3>2 DEF NamesIInv, NamesInv, SymbolsTypeOK
  <2>3. Len(params) \in Nat
    <3>1. params \in Seq([name : Names, type : Types])
      BY <1>1, SymbolsAssumption DEF ParamsAssumption
    <3> QED
      BY <3>1
  <2>4. functions' \in Scopes /\ functions' # Program /\ scope # functions'
    BY <1>1, <1>3, <2>1, <2>2 DEF Scopes, Program
  <2>5. Room /\ name \in Names
    BY <1>1, <1>3, <2>2, <2>3 DEF Room, Names
  <2> DEFINE f == DeclaredFunction(name, params)
             start == ParamTable(functions', params)
  <2>6. Symbol(f) /\ f.owner = Program
    BY <2>5, FunctionOwn
  <2>7. \A n \in Names : Symbol(start[n]) /\ start[n].owner \in {Program, functions'}
    BY <1>1, <1>3, <2>4, ParamOwn
  <2>8. start = [n \in Names |-> start[n]]
    BY DEF ParamTable
  <2>9. table' = [table EXCEPT ![scope][name] = f, ![functions'] = start]
    BY <1>1, <1>3
  <2> HIDE DEF f, start
  <2>10. table' = [s \in Scopes |-> IF s = functions' THEN start
                                    ELSE IF s = scope THEN [table[scope] EXCEPT ![name] = f]
                                    ELSE table[s]]
    BY <2>1, <2>4, <2>9 DEF NamesIInv, Tables
  <2>11. \A s \in Scopes, n \in Names :
            table'[s][n] = IF s = functions' THEN start[n]
                           ELSE IF s = scope /\ n = name THEN f ELSE table[s][n]
    BY <2>1, <2>5, <2>10 DEF NamesIInv, Tables
  <2>12. Tables'
    <3>1. ASSUME NEW s \in Scopes PROVE table'[s] = [n \in Names |-> table'[s][n]]
      <4>1. table[s] = [n \in Names |-> table[s][n]]
        BY DEF NamesIInv, Tables
      <4>2. CASE s = functions'
        BY <2>8, <2>10, <4>2
      <4>3. CASE s # functions' /\ s = scope
        <5>1. table'[s] = [table[s] EXCEPT ![name] = f]
          BY <2>10, <4>3
        <5> QED
          BY <4>1, <5>1
      <4>4. CASE s # functions' /\ s # scope
        <5>1. table'[s] = table[s]
          BY <2>10, <4>4
        <5> QED
          BY <4>1, <5>1
      <4> QED
        BY <4>2, <4>3, <4>4
    <3>2. table' = [s \in Scopes |-> table'[s]]
      BY <2>10
    <3> QED
      BY <3>1, <3>2 DEF Tables
  <2>13. \A s \in Scopes, n \in Names :
            Symbol(table'[s][n]) /\ table'[s][n].owner \in {Program, s}
    BY <2>6, <2>7, <2>11 DEF NamesIInv, NamesInv, SymbolsTypeOK
  <2>14. symbols' \in 0..MaxSymbols
    BY <1>1, <1>3, <2>2, <2>3
  <2>15. /\ stack' \in Seq(Scopes) /\ stack' # <<>> /\ Len(stack') = Len(stack) + 1
         /\ \A i \in DOMAIN stack' : IF i = 1 THEN stack'[i] = functions'
                                     ELSE i - 1 \in DOMAIN stack /\ stack'[i] = stack[i - 1]
    <3>1. stack' = <<functions'>> \o stack
      BY <1>1, <1>3
    <3> QED
      BY <2>2, <2>4, <3>1, PushLemma
  <2>16. \A i \in DOMAIN stack' : stack'[i] <= functions'
    <3>1. functions' = functions + 1
      BY <1>1, <1>3
    <3>2. ASSUME NEW i \in DOMAIN stack', i # 1 PROVE stack'[i] <= functions'
      <4>1. stack'[i] \in Scopes /\ stack'[i] <= functions
        BY <2>2, <2>15, <3>2
      <4> QED
        BY <2>2, <3>1, <4>1 DEF Scopes
    <3> QED
      BY <2>2, <2>15, <3>1, <3>2
  <2>17. \A i \in DOMAIN stack' : stack'[i] = Program <=> i = Len(stack')
    <3>1. Len(stack) \in Nat /\ Len(stack) >= 1 /\ DOMAIN stack' = 1..Len(stack')
      BY <2>2, <2>15
    <3> QED
      BY <2>2, <2>4, <2>15, <3>1
  <2>18. SymbolsTypeOK'
    BY <1>1, <1>3, <2>1, <2>4, <2>13, <2>14, <2>15, <2>16 DEF NamesIInv, NamesInv, SymbolsTypeOK, Symbol
  <2> QED
    BY <1>1, <1>3, <2>12, <2>17, <2>18 DEF NamesIInv, NamesInv, NoForeignStorage
<1> QED
  BY <1>2, <1>3

-----------------------------------------------------------------------------
(* The theorem *)

\* At first there is the program, with empty tables.
LEMMA InitIInv == ASSUME Init PROVE NamesIInv
<1>1. Program \in Scopes /\ 0 \in 0..MaxSymbols
  BY SymbolsAssumption DEF SymbolBounds, Scopes, Program
<1>2. stack = <<Program>> /\ functions = Program
  BY DEF Init, Program
<1>3. /\ stack \in Seq(Scopes) /\ stack # <<>> /\ DOMAIN stack = {1} /\ Len(stack) = 1
      /\ stack[1] = Program
  BY <1>1, <1>2
<1>4. Program <= functions
  BY <1>2 DEF Program
<1>5. table = [s \in Scopes |-> [n \in Names |-> NoSymbol]]
  BY DEF Init
<1>6. Symbol(NoSymbol) /\ NoSymbol.owner = Program
  BY <1>1 DEF NoSymbol, Symbol, Qualifiers
<1>7. last.scope = Program /\ last.uses = {}
  BY DEF Init, Nothing
<1>8. SymbolsTypeOK
  <2>1. symbols \in 0..MaxSymbols /\ errorsfound \in Nat
    BY <1>1 DEF Init
  <2>2. crashed \in {"nothing", "value", "type"}
    BY DEF Init
  <2>3. \A s \in Scopes, n \in Names : Symbol(table[s][n]) /\ table[s][n].owner \in {Program, s}
    BY <1>5, <1>6
  <2>4. \A i \in DOMAIN stack : stack[i] <= functions
    BY <1>3, <1>4
  <2> QED
    BY <1>1, <1>2, <1>3, <1>7, <2>1, <2>2, <2>3, <2>4, Zenon DEF SymbolsTypeOK
<1>9. Tables
  BY <1>5 DEF Tables
<1> QED
  BY <1>3, <1>7, <1>8, <1>9 DEF NamesIInv, NamesInv, NoForeignStorage

\* Every statement keeps the invariant, and so does a step that changes nothing.
LEMMA NextIInv == ASSUME NamesIInv, [Next]_vars PROVE NamesIInv'
<1>1. CASE UNCHANGED vars
  BY <1>1 DEF vars, NamesIInv, NamesInv, SymbolsTypeOK, Symbol, NoForeignStorage, Tables
<1> QED
  BY <1>1, AssignStep, UpdateStep, DeclareArrayStep, DeclareRegisterStep, DeclareExternStep,
     BeginFunctionStep, EndFunctionStep, CallStep DEF Next

\* An instruction refers only to storage of its own function or of the program, for
\* programs of any size, names shared among functions in any way (Header.h 147-165,
\* FunctionDecl.cpp 17-60).
THEOREM NamesKept == Spec => []NamesInv
<1>1. Init => NamesIInv
  BY InitIInv
<1>2. NamesIInv /\ [Next]_vars => NamesIInv'
  BY NextIInv
<1>3. NamesIInv => NamesInv
  BY DEF NamesIInv
<1> QED
  BY <1>1, <1>2, <1>3, PTL DEF Spec

-----------------------------------------------------------------------------
(* What a step leaves of the tables *)

\* A name is bound in the current scope; a function is, and its own table begins.
Binds(name, symbol) == table' = [table EXCEPT ![scope][name] = symbol]
Begins(name, f, start) ==
    /\ functions < MaxScopes
    /\ functions' = functions + 1
    /\ table' = [table EXCEPT ![scope][name] = f, ![functions'] = start]

\* A name bound in the current scope changes no other entry.
LEMMA BindTable ==
    ASSUME NamesIInv, NEW name \in Names, NEW symbol, Binds(name, symbol)
    PROVE  \A s \in Scopes, n \in Names :
              table'[s][n] = IF s = scope /\ n = name THEN symbol ELSE table[s][n]
<1>1. scope \in Scopes
  BY ScopeIsScope
<1>2. table' = [s \in Scopes |-> IF s = scope THEN [table[scope] EXCEPT ![name] = symbol]
                                 ELSE table[s]]
  BY <1>1 DEF NamesIInv, Tables, Binds
<1> QED
  BY <1>1, <1>2 DEF NamesIInv, Tables

\* A function that begins has a new table, and is bound in the current one.
LEMMA BeginTable ==
    ASSUME NamesIInv, NEW name \in Names, NEW f, NEW start, Begins(name, f, start)
    PROVE  \A s \in Scopes, n \in Names :
              s <= functions =>
                table'[s][n] = IF s = scope /\ n = name THEN f ELSE table[s][n]
<1>1. scope \in Scopes /\ scope <= functions
  BY ScopeIsScope
<1>2. functions \in Scopes /\ MaxScopes \in Nat
  BY SymbolsAssumption DEF NamesIInv, NamesInv, SymbolsTypeOK, SymbolBounds
<1>3. functions' \in Scopes /\ functions' # scope
  BY <1>1, <1>2 DEF Scopes, Begins
<1>4. table' = [s \in Scopes |-> IF s = functions' THEN start
                                 ELSE IF s = scope THEN [table[scope] EXCEPT ![name] = f]
                                 ELSE table[s]]
  BY <1>1, <1>3 DEF NamesIInv, Tables, Begins
<1>5. \A s \in Scopes : s <= functions => s # functions'
  BY <1>2 DEF Scopes, Begins
<1> QED
  BY <1>1, <1>4, <1>5 DEF NamesIInv, Tables

\* The functions under way and the program: theirs are the first tables, and the
\* program is the only one when it is the current scope.
LEMMA StackScopes ==
    ASSUME NamesIInv, NEW s \in {stack[i] : i \in DOMAIN stack}
    PROVE  s \in Scopes /\ s <= functions /\ (scope = Program => s = Program)
<1>1. /\ stack \in Seq(Scopes) /\ stack # <<>>
      /\ \A k \in DOMAIN stack : stack[k] <= functions
      /\ \A k \in DOMAIN stack : stack[k] = Program <=> k = Len(stack)
  BY DEF NamesIInv, NamesInv, SymbolsTypeOK
<1>2. PICK k \in DOMAIN stack : s = stack[k]
  OBVIOUS
<1>3. scope = stack[1] /\ 1 \in DOMAIN stack /\ DOMAIN stack = 1..Len(stack) /\ Len(stack) \in Nat
  BY <1>1 DEF scope
<1>4. ASSUME scope = Program PROVE s = Program
  <2>1. stack[1] = Program
    BY <1>3, <1>4
  <2>2. Len(stack) = 1
    BY <1>1, <1>3, <2>1
  <2>3. k = 1
    BY <1>3, <2>2
  <2> QED
    BY <1>2, <2>1, <2>3
<1> QED
  BY <1>1, <1>2, <1>4

-----------------------------------------------------------------------------
(* Names keep their storage *)

\* What BindingStable says of a step.
Stays(s, n) ==
    Lookup(s, n) # NoSymbol /\ last'.declares # n => Lookup(s, n)' = Lookup(s, n)
StaysEverywhere == \A s \in Scopes, n \in Names : s \in {stack[i] : i \in DOMAIN stack} => Stays(s, n)

\* A step that leaves the tables leaves the names.
LEMMA KeepNames == ASSUME table' = table PROVE StaysEverywhere
BY DEF StaysEverywhere, Stays, Lookup

\* A declaration takes over its own name, whatever it binds it to.
LEMMA TakeOver ==
    ASSUME NamesIInv, NEW name \in Names, NEW symbol, last'.declares = name,
           \A s \in Scopes, n \in Names :
              s <= functions =>
                table'[s][n] = IF s = scope /\ n = name THEN symbol ELSE table[s][n]
    PROVE  StaysEverywhere
<1> SUFFICES ASSUME NEW s \in Scopes, NEW n \in Names, s \in {stack[i] : i \in DOMAIN stack},
                    n # name
             PROVE  Lookup(s, n)' = Lookup(s, n)
  BY DEF StaysEverywhere, Stays
<1>1. s <= functions /\ Program \in Scopes
  BY StackScopes, ScopeIsScope
<1>2. Program <= functions
  BY DEF NamesIInv, NamesInv, SymbolsTypeOK, Scopes, Program
<1>3. table'[s][n] = table[s][n] /\ table'[Program][n] = table[Program][n]
  BY <1>1, <1>2
<1> QED
  BY <1>3 DEF Lookup

\* A scalar is bound only where its name is not found: no function under way loses by it.
LEMMA ScalarStays ==
    ASSUME NamesIInv, NEW name \in Names, NEW value, NEW qualifier, Scalar(name, value, qualifier)
    PROVE  StaysEverywhere
<1>1. CASE table' = table
  BY <1>1, KeepNames
<1>2. ASSUME NEW symbol, Binds(name, symbol), Lookup(scope, name) = NoSymbol
      PROVE  StaysEverywhere
  <2>1. \A s \in Scopes, n \in Names :
           table'[s][n] = IF s = scope /\ n = name THEN symbol ELSE table[s][n]
    BY <1>2, BindTable
  <2> SUFFICES ASSUME NEW s \in Scopes, NEW n \in Names, s \in {stack[i] : i \in DOMAIN stack},
                      Lookup(s, n) # NoSymbol
               PROVE  Lookup(s, n)' = Lookup(s, n)
    BY DEF StaysEverywhere, Stays
  <2>2. Program \in Scopes /\ scope \in Scopes /\ (scope = Program => s = Program)
    BY StackScopes, ScopeIsScope
  <2>3. ~ (s = scope /\ n = name)
    BY <1>2
  <2>4. table'[s][n] = table[s][n]
    BY <2>1, <2>3
  <2>5. ~ (Program = scope /\ n = name)
    BY <2>2, <2>3
  <2>6. table'[Program][n] = table[Program][n]
    BY <2>1, <2>2, <2>5
  <2> QED
    BY <2>4, <2>6 DEF Lookup
<1>3. CASE Lookup(scope, name) = NoSymbol
  <2>1. NewScalar(name, value, qualifier)
    BY <1>3 DEF Scalar
  <2>2. table' = table \/ \E symbol : Binds(name, symbol)
    BY <2>1 DEF NewScalar, Handed, Crash, Fail, Bind, Binds
  <2> QED
    BY <1>1, <1>2, <1>3, <2>2
<1>4. CASE Lookup(scope, name) # NoSymbol
  BY <1>1, <1>4 DEF Scalar, StoreScalar, Handed, Crash, Fail, Emit
<1> QED
  BY <1>3, <1>4

\* A declaration that binds says so.
LEMMA BindDeclares ==
    ASSUME NEW name, NEW symbol, NEW value, Bind(name, symbol, value, name)
    PROVE  Binds(name, symbol) /\ last'.declares = name
BY DEF Bind, Binds, Does, Nothing

\* Every statement.
LEMMA NextStays == ASSUME NamesIInv, [Next]_vars PROVE StaysEverywhere
<1>1. CASE UNCHANGED vars \/ EndFunction \/ Call
  <2>1. table' = table
    BY <1>1 DEF vars, EndFunction, Call, Handed, Crash, Fail, Emit
  <2> QED
    BY <2>1, KeepNames
<1>2. CASE Assign \/ Update
  BY <1>2, ScalarStays DEF Assign, Update, Names
<1>3. ASSUME NEW name \in Names, NEW symbol, NEW value, Bind(name, symbol, value, name)
      PROVE  StaysEverywhere
  <2>1. Binds(name, symbol) /\ last'.declares = name
    BY <1>3, BindDeclares
  <2>2. \A s \in Scopes, n \in Names :
           table'[s][n] = IF s = scope /\ n = name THEN symbol ELSE table[s][n]
    BY <2>1, BindTable
  <2> QED
    BY <2>1, <2>2, TakeOver
<1>4. CASE DeclareArray \/ DeclareRegister \/ DeclareExtern
  <2>1. \/ table' = table
        \/ \E name \in Names : \E symbol, value : Bind(name, symbol, value, name)
    <3>1. CASE DeclareArray
      BY <3>1 DEF DeclareArray, Handed, Crash, Fail, Names
    <3>2. CASE DeclareRegister
      BY <3>2 DEF DeclareRegister, Handed, Crash, Fail, Names
    <3>3. CASE DeclareExtern
      BY <3>3 DEF DeclareExtern, Fail, Names
    <3> QED
      BY <1>4, <3>1, <3>2, <3>3
  <2> QED
    BY <1>3, <2>1, KeepNames
<1>7. CASE BeginFunction
  <2>1. PICK name \in Functions, params \in ParamLists :
           \/ table' = table
           \/ /\ Begins(name, DeclaredFunction(name, params), ParamTable(functions', params))
              /\ last'.declares = name
    BY <1>7 DEF BeginFunction, Nothing, Fail, Begins
  <2>2. CASE table' = table
    BY <2>2, KeepNames
  <2>3. CASE table' # table
    <3> DEFINE f == DeclaredFunction(name, params)
               start == ParamTable(functions', params)
    <3>1. Begins(name, f, start) /\ last'.declares = name
      BY <2>1, <2>3
    <3> HIDE DEF f, start
    <3>2. name \in Names
      BY DEF Names
    <3>3. \A s \in Scopes, n \in Names :
             s <= functions =>
               table'[s][n] = IF s = scope /\ n = name THEN f ELSE table[s][n]
      BY <3>1, <3>2, BeginTable
    <3> QED
      BY <3>1, <3>2, <3>3, TakeOver
  <2> QED
    BY <2>2, <2>3
<1> QED
  BY <1>1, <1>2, <1>4, <1>7 DEF Next

\* A name that a function under way has used keeps its storage, except for what is
\* declared anew under that name (Scalar.cpp:11 searches before it binds).
THEOREM NamesStable == Spec => BindingStable
<1>1. Init => NamesIInv
  BY InitIInv
<1>2. NamesIInv /\ [Next]_vars => NamesIInv'
  BY NextIInv
<1>3. NamesIInv /\ [Next]_vars => [StaysEverywhere]_vars
  BY NextStays
<1>4. Spec => [][StaysEverywhere]_vars
  BY <1>1, <1>2, <1>3, PTL DEF Spec
<1>5. StaysEverywhere <=>
        \A s \in Scopes, n \in Names :
           /\ s \in {stack[i] : i \in DOMAIN stack}
           /\ Lookup(s, n) # NoSymbol
           /\ last'.declares # n
           => Lookup(s, n)' = Lookup(s, n)
  BY DEF StaysEverywhere, Stays
<1> QED
  BY <1>4, <1>5, PTL DEF BindingStable

-----------------------------------------------------------------------------
(* Failures are reported *)

\* A value that is NULL, or a call that was handed one, knows the names it is due to, and
\* has been reported unless they are those of functions.
Reported(value) ==
    /\ value.kind = "null" \/ value.handed => value.nulls # {}
    /\ \A symbol \in value.nulls : symbol.kind # "function" => value.errors > 0

\* A load reports what it does not find.
LEMMA LoadReports == \A name : Reported(GenerateLoad(name))
BY DEF Reported, GenerateLoad, Null, NoValue, Value

\* So does an argument.
LEMMA SimpleReports == \A e : Reported(GenerateSimple(e))
BY LoadReports DEF GenerateSimple, Reported, Value, NoValue

\* The errors of some values are counted if one of them has any.
LEMMA SomeErrorsCount ==
    ASSUME NEW values, NEW positions, NEW i \in positions, values[i].errors > 0
    PROVE  SomeErrors(values, positions) > 0
BY DEF SomeErrors

\* A call reports for its arguments.
LEMMA CallReports ==
    ASSUME NEW name, NEW values, \A i \in DOMAIN values : Reported(values[i])
    PROVE  Reported(GenerateCall(name, values))
<1>1. CASE GlobalSymbol(name).kind # "function"
  BY <1>1 DEF GenerateCall, Reported, Null, NoValue
<1>2. CASE GlobalSymbol(name).kind = "function"
  <2> DEFINE value == GenerateCall(name, values)
  <2>1. /\ value.errors = SomeErrors(values, DOMAIN values)
        /\ value.nulls = AllNulls(values, DOMAIN values)
        /\ value.handed = \E i \in DOMAIN values : values[i].kind = "null" \/ values[i].handed
        /\ value.kind = "instruction"
    BY <1>2 DEF GenerateCall, Value, NoValue
  <2> HIDE DEF value
  <2>2. ASSUME value.handed PROVE value.nulls # {}
    <3>1. PICK i \in DOMAIN values : values[i].kind = "null" \/ values[i].handed
      BY <2>1, <2>2
    <3>2. values[i].nulls # {}
      BY <3>1 DEF Reported
    <3> QED
      BY <2>1, <3>2 DEF AllNulls
  <2>3. ASSUME NEW symbol \in value.nulls, symbol.kind # "function" PROVE value.errors > 0
    <3>1. PICK i \in DOMAIN values : symbol \in values[i].nulls
      BY <2>1 DEF AllNulls
    <3>2. values[i].errors > 0
      BY <2>3, <3>1 DEF Reported
    <3> QED
      BY <2>1, <3>2, SomeErrorsCount
  <2>4. Reported(value)
    BY <2>1, <2>2, <2>3 DEF Reported
  <2> QED
    BY <2>4 DEF value
<1> QED
  BY <1>1, <1>2

\* So does every expression.
LEMMA GenerateReports == \A e : Reported(Generate(e))
<1> SUFFICES ASSUME NEW e PROVE Reported(Generate(e))
  OBVIOUS
<1>1. CASE e.op = "call"
  <2> DEFINE values == [i \in DOMAIN e.args |-> GenerateSimple(e.args[i])]
  <2>1. \A i \in DOMAIN values : Reported(values[i])
    BY SimpleReports
  <2>2. Generate(e) = GenerateCall(e.name, values)
    BY <1>1 DEF Generate
  <2> HIDE DEF values
  <2> QED
    BY <2>1, <2>2, CallReports
<1>2. CASE e.op # "call"
  BY <1>2, SimpleReports DEF Generate
<1> QED
  BY <1>1, <1>2

\* And an array, whose elements are generated up to the first that is NULL.
LEMMA ElementsReport ==
    ASSUME NEW es \in ExprLists
    PROVE  Reported(Elements(GenerateAll(es)))
<1> DEFINE values == GenerateAll(es)
           reached == {i \in DOMAIN values : \A j \in 1..(i - 1) : values[j].kind # "null"}
           value == Elements(values)
<1>1. DOMAIN values = 1..Len(es) /\ Len(es) \in Nat
  BY SymbolsAssumption DEF ListsAssumption, GenerateAll
<1>2. \A i \in DOMAIN values : Reported(values[i])
  BY GenerateReports DEF GenerateAll
<1>3. /\ value.kind = "null" => \E i \in DOMAIN values : values[i].kind = "null"
      /\ value.errors = 1 \/ value.errors = SomeErrors(values, reached)
      /\ value.nulls = AllNulls(values, reached)
      /\ value.handed = \E i \in reached : values[i].handed
  BY DEF Elements
<1>4. reached \subseteq DOMAIN values
  OBVIOUS
<1>5. ASSUME NEW k \in DOMAIN values, values[k].kind = "null"
      PROVE  \E i \in reached : values[i].kind = "null"
  <2> DEFINE nulls == {i \in DOMAIN values : values[i].kind = "null"}
  <2>1. nulls \in SUBSET Nat /\ nulls # {}
    BY <1>1, <1>5
  <2>2. PICK i \in nulls : \A j \in nulls : i <= j
    <3> HIDE DEF nulls
    <3> QED
      BY <2>1, LeastOf
  <2>3. i \in DOMAIN values /\ values[i].kind = "null" /\ i \in Nat
    BY <1>1, <2>2
  <2>4. ASSUME NEW j \in 1..(i - 1) PROVE values[j].kind # "null"
    <3>1. j \in DOMAIN values /\ ~ (i <= j)
      BY <1>1, <2>3, <2>4
    <3> QED
      BY <2>2, <3>1
  <2> QED
    BY <2>3, <2>4
<1> HIDE DEF values, reached, value
<1>6. ASSUME value.kind = "null" \/ value.handed PROVE value.nulls # {}
  <2>1. PICK i \in reached : values[i].kind = "null" \/ values[i].handed
    BY <1>3, <1>5, <1>6
  <2>2. values[i].nulls # {}
    BY <1>2, <1>4, <2>1 DEF Reported
  <2> QED
    BY <1>3, <2>2 DEF AllNulls
<1>7. ASSUME NEW symbol \in value.nulls, symbol.kind # "function" PROVE value.errors > 0
  <2>1. PICK i \in reached : symbol \in values[i].nulls
    BY <1>3 DEF AllNulls
  <2>2. values[i].errors > 0
    BY <1>2, <1>4, <1>7, <2>1 DEF Reported
  <2>3. SomeErrors(values, reached) > 0
    BY <2>2, SomeErrorsCount
  <2> QED
    BY <1>3, <2>3
<1>8. Reported(value)
  BY <1>6, <1>7 DEF Reported
<1> QED
  BY <1>8 DEF value, values

\* A value of the program, with more errors than its own.
LEMMA StillReported ==
    ASSUME NEW value, value.errors \in Nat, Reported(value), NEW n \in Nat
    PROVE  \A symbol \in value.nulls : symbol.kind # "function" => value.errors + n > 0
BY DEF Reported

\* A statement that generates nothing: at the top of the program, or with errors, or
\* because its value is NULL.
LEMMA FailReported ==
    ASSUME crashed = "nothing", NEW value, Usable(value), Reported(value), NEW n \in Nat,
           Fail(value, n), scope = Program \/ n > 0 \/ value.kind = "null"
    PROVE  FailuresReported'
<1>1. last'.scope = scope /\ last'.nulls = value.nulls /\ last'.errors = value.errors + n
  BY DoesLemma DEF Fail
<1>2. value.errors \in Nat
  BY DEF Usable
<1>3. NullsReported'
  BY <1>1, <1>2, StillReported DEF NullsReported
<1>4. crashed' = "nothing"
  BY DEF Fail
<1>5. ASSUME scope # Program PROVE last'.errors > 0 \/ FunctionRead'
  <2>1. CASE n > 0
    BY <1>1, <1>2, <2>1
  <2>2. CASE value.kind = "null"
    <3>1. PICK symbol \in value.nulls : TRUE
      BY <2>2 DEF Reported
    <3>2. CASE symbol.kind = "function"
      BY <1>1, <3>2 DEF FunctionRead
    <3>3. CASE symbol.kind # "function"
      BY <1>1, <1>3, <3>3 DEF NullsReported
    <3> QED
      BY <3>2, <3>3
  <2> QED
    BY <1>5, <2>1, <2>2
<1> QED
  BY <1>1, <1>3, <1>4, <1>5 DEF FailuresReported, StatementsReported

\* A NULL value dereferenced, by the program or by a call.
LEMMA CrashReported ==
    ASSUME NEW value, Usable(value), Reported(value), Crash("value", value, 0),
           value.kind = "null" \/ value.handed
    PROVE  FailuresReported'
<1>1. last'.nulls = value.nulls /\ last'.errors = value.errors + 0
  BY DoesLemma DEF Crash
<1>2. value.errors \in Nat
  BY DEF Usable
<1>3. NullsReported'
  BY <1>1, <1>2, StillReported DEF NullsReported
<1>4. PICK symbol \in value.nulls : TRUE
  BY DEF Reported
<1>5. last'.errors > 0 \/ FunctionRead'
  BY <1>1, <1>3, <1>4 DEF NullsReported, FunctionRead
<1> QED
  BY <1>3, <1>5 DEF FailuresReported, StatementsReported

\* The type of an element dereferenced, which the property sets apart.
LEMMA TypeReported ==
    ASSUME NEW n \in Nat, Crash("type", NoValue, n)
    PROVE  FailuresReported'
<1>1. last'.nulls = {} /\ crashed' = "type"
  BY DoesLemma DEF Crash, NoValue
<1> QED
  BY <1>1 DEF FailuresReported, StatementsReported, NullsReported

\* Statements that generate something.
LEMMA MadeReported ==
    ASSUME crashed = "nothing", NEW value, Usable(value), Reported(value),
           crashed' = crashed, last'.nulls = value.nulls,
           NEW n \in Nat, last'.errors = value.errors + n,
           last'.made \/ last'.scope = Program
    PROVE  FailuresReported'
<1>1. NullsReported'
  BY StillReported DEF NullsReported, Usable
<1> QED
  BY <1>1 DEF FailuresReported, StatementsReported

LEMMA EmitReported ==
    ASSUME crashed = "nothing", NEW value, Usable(value), Reported(value), NEW uses,
           Emit(value, uses)
    PROVE  FailuresReported'
<1>1. /\ last'.nulls = value.nulls /\ last'.errors = value.errors + 0 /\ last'.scope = scope
      /\ last'.made = (scope # Program) /\ crashed' = crashed
  BY DEF Emit, Does, Nothing
<1>2. last'.made \/ last'.scope = Program
  BY <1>1
<1> QED
  BY <1>1, <1>2, MadeReported

LEMMA BindReported ==
    ASSUME crashed = "nothing", NEW value, Usable(value), Reported(value), NEW name,
           NEW symbol, NEW declares, Bind(name, symbol, value, declares)
    PROVE  FailuresReported'
<1>1. /\ last'.nulls = value.nulls /\ last'.errors = value.errors + 0 /\ last'.made
      /\ crashed' = crashed
  BY DEF Bind, Does, Nothing
<1> QED
  BY <1>1, MadeReported

\* Declarations have no value.
LEMMA NoneReported ==
    ASSUME crashed' = "nothing", last'.nulls = {}, last'.made \/ last'.errors > 0
    PROVE  FailuresReported'
BY DEF FailuresReported, StatementsReported, NullsReported

LEMMA DeclarationReported ==
    ASSUME crashed = "nothing", NEW n \in Nat, n > 0, NEW name, NEW symbol,
           Fail(NoValue, n) \/ Bind(name, symbol, NoValue, name)
    PROVE  FailuresReported'
<1>1. CASE Fail(NoValue, n)
  <2>1. last'.nulls = {} /\ last'.errors = 0 + n /\ crashed' = crashed
    BY <1>1, DoesLemma DEF Fail, NoValue
  <2> QED
    BY <2>1, NoneReported
<1>2. CASE Bind(name, symbol, NoValue, name)
  <2>1. last'.nulls = {} /\ last'.made /\ crashed' = crashed
    BY <1>2 DEF Bind, Does, Nothing, NoValue
  <2> QED
    BY <2>1, NoneReported
<1> QED
  BY <1>1, <1>2

\* Assignments and updates.
LEMMA ScalarReported ==
    ASSUME NEW name, NEW value, NEW qualifier, Usable(value), Reported(value),
           Scalar(name, value, qualifier)
    PROVE  FailuresReported'
<1>0. crashed = "nothing"
  BY DEF Scalar, Compiling
<1>1. CASE NewScalar(name, value, qualifier)
  <2>1. \/ Handed(value)
        \/ Fail(value, 0) /\ (value.kind = "null" \/ scope = Program)
        \/ \E symbol : Bind(name, symbol, value, "none")
    BY <1>1 DEF NewScalar
  <2> QED
    BY <1>0, <2>1, CrashReported, FailReported, BindReported DEF Handed
<1>2. CASE StoreScalar(Lookup(scope, name), value)
  <2> DEFINE symbol == Lookup(scope, name)
             more == IF symbol.kind = "address" /\ value.type \in NoNumbers THEN 1 ELSE 0
             counted == [value EXCEPT !.errors = @ + more]
  <2>1. \/ Fail(NoValue, 1)
        \/ Handed(value)
        \/ Crash("value", value, 0) /\ value.kind = "null"
        \/ Emit(counted, {symbol})
    BY <1>2 DEF StoreScalar
  <2>2. CASE Emit(counted, {symbol})
    <3>1. more \in Nat /\ value.errors \in Nat
      BY DEF Usable
    <3>2. counted.nulls = value.nulls /\ counted.errors = value.errors + more
      BY DEF Usable
    <3> HIDE DEF counted, more
    <3>3. /\ last'.nulls = counted.nulls /\ last'.errors = counted.errors + 0
          /\ last'.scope = scope /\ last'.made = (scope # Program) /\ crashed' = crashed
      BY <2>2 DEF Emit, Does, Nothing
    <3>4. last'.errors = value.errors + more
      BY <3>1, <3>2, <3>3
    <3>5. last'.made \/ last'.scope = Program
      BY <3>3
    <3> QED
      BY <1>0, <3>1, <3>2, <3>3, <3>4, <3>5, MadeReported
  <2>3. CASE Fail(NoValue, 1)
    BY <1>0, <2>3, DeclarationReported
  <2> QED
    BY <1>0, <2>1, <2>2, <2>3, CrashReported DEF Handed
<1> QED
  BY <1>1, <1>2 DEF Scalar

\* Every statement.
LEMMA NextReports == ASSUME NamesIInv, FailuresReported, [Next]_vars PROVE FailuresReported'
<1>1. CASE UNCHANGED vars
  BY <1>1 DEF vars, FailuresReported, NullsReported, StatementsReported, FunctionRead
<1>2. CASE Assign
  BY <1>2, GenerateOwn, GenerateReports, ScalarReported DEF Assign
<1>3. CASE Update
  <2>1. PICK name \in Variables : Scalar(name, GenerateLoad(name), "none")
    BY <1>3 DEF Update
  <2>2. name \in Names
    BY DEF Names
  <2> QED
    BY <2>1, <2>2, LoadOwn, LoadReports, ScalarReported
<1>4. CASE DeclareArray
  <2>1. PICK name \in Variables, elements \in ExprLists :
          LET value == Elements(GenerateAll(elements))
          IN  /\ Compiling
              /\ \/ Crash("type", NoValue, 0) \/ Crash("type", NoValue, 1)
                 \/ Handed(value)
                 \/ Fail(value, 0) /\ (value.kind = "null" \/ scope = Program)
                 \/ \E symbol : Bind(name, symbol, value, name)
    BY <1>4 DEF DeclareArray
  <2> DEFINE value == Elements(GenerateAll(elements))
  <2>2. Usable(value) /\ Reported(value)
    BY AllOwn, ElementsReport
  <2>3. /\ crashed = "nothing"
        /\ \/ Crash("type", NoValue, 0) \/ Crash("type", NoValue, 1)
           \/ Handed(value)
           \/ Fail(value, 0) /\ (value.kind = "null" \/ scope = Program)
           \/ \E symbol : Bind(name, symbol, value, name)
    BY <2>1 DEF Compiling
  <2> HIDE DEF value
  <2> QED
    BY <2>2, <2>3, TypeReported, CrashReported, FailReported, BindReported DEF Handed
<1>5. CASE DeclareRegister
  <2>1. PICK name \in Variables, e \in Exprs :
          /\ Compiling
          /\ \/ Fail(NoValue, 2) \/ Handed(Generate(e)) \/ Fail(Generate(e), 1)
             \/ \E symbol : Bind(name, symbol, Generate(e), name)
    BY <1>5 DEF DeclareRegister
  <2>2. Usable(Generate(e)) /\ Reported(Generate(e))
    BY GenerateOwn, GenerateReports
  <2>3. crashed = "nothing"
    BY <2>1 DEF Compiling
  <2> QED
    BY <2>1, <2>2, <2>3, DeclarationReported, CrashReported, FailReported, BindReported DEF Handed
<1>6. CASE DeclareExtern
  <2>1. PICK name \in Functions :
          /\ Compiling
          /\ Fail(NoValue, 2) \/ \E symbol : Bind(name, symbol, NoValue, name)
    BY <1>6 DEF DeclareExtern
  <2>2. PICK symbol : Fail(NoValue, 2) \/ Bind(name, symbol, NoValue, name)
    BY <2>1
  <2>3. crashed = "nothing"
    BY <2>1 DEF Compiling
  <2> QED
    BY <2>2, <2>3, DeclarationReported
<1>7. CASE BeginFunction
  <2>1. \/ Fail(NoValue, 2)
        \/ last'.nulls = {} /\ last'.made /\ crashed' = crashed
    BY <1>7 DEF BeginFunction, Nothing
  <2>2. crashed = "nothing"
    BY <1>7 DEF BeginFunction, Compiling
  <2> QED
    BY <2>1, <2>2, DeclarationReported, NoneReported
<1>8. CASE EndFunction
  <2>1. last'.nulls = {} /\ last'.made /\ crashed' = "nothing"
    BY <1>8 DEF EndFunction, Nothing, Compiling
  <2> QED
    BY <2>1, NoneReported
<1>9. CASE Call
  <2>1. PICK name \in Names, args \in ExprLists :
          LET value == GenerateCall(name, GenerateAll(args))
          IN  /\ Compiling
              /\ \/ Handed(value) \/ Emit(value, {})
                 \/ Fail(value, 0) /\ value.kind = "null"
    BY <1>9 DEF Call
  <2> DEFINE value == GenerateCall(name, GenerateAll(args))
  <2>2. Usable(value)
    BY AllOwn, CallOwn
  <2>3. \A i \in DOMAIN GenerateAll(args) : Reported(GenerateAll(args)[i])
    BY GenerateReports DEF GenerateAll
  <2>4. Reported(value)
    BY <2>3, CallReports
  <2>5. /\ crashed = "nothing"
        /\ \/ Handed(value) \/ Emit(value, {})
           \/ Fail(value, 0) /\ value.kind = "null"
    BY <2>1 DEF Compiling
  <2> HIDE DEF value
  <2> QED
    BY <2>2, <2>4, <2>5, CrashReported, EmitReported, FailReported DEF Handed
<1> QED
  BY <1>1, <1>2, <1>3, <1>4, <1>5, <1>6, <1>7, <1>8, <1>9 DEF Next

\* In programs of any size, whatever names they use for functions and variables alike, an
\* expression that gives NULL has counted an error and so has a statement of a function that
\* generates nothing or ends the compiler with it (Scalar.cpp 9-54, Pointer.cpp 4-30,
\* FunctionCall.cpp 13-38, Array.cpp 20-38), but where the name of a function is used as a
\* variable (Load.cpp:45) or an element of an array has no type (ArrayElements.cpp:25).
THEOREM FailuresSeen == Spec => []FailuresReported
<1>1. Init => FailuresReported
  BY DEF Init, FailuresReported, NullsReported, StatementsReported, Nothing
<1>2. Init => NamesIInv
  BY InitIInv
<1>3. NamesIInv /\ [Next]_vars => NamesIInv'
  BY NextIInv
<1>4. NamesIInv /\ FailuresReported /\ [Next]_vars => FailuresReported'
  BY NextReports
<1> QED
  BY <1>1, <1>2, <1>3, <1>4, PTL DEF Spec

-----------------------------------------------------------------------------
(* Driver: the command line and the exit status *)

\* What each phase of the driver relies on: no error is known while there are options,
\* a program parsed without one has been generated, and an output ends the run.
PhasesOK ==
    /\ phase \in {"options", "generate"} => errors = 0
    /\ phase = "parsed" /\ errors = 0 => module
    /\ phase # "exited" => written = {}
DriverIInv == DriverInv /\ PhasesOK /\ argv \in Seq(Words) /\ argi \in Nat

LEMMA ArgIsWord ==
    ASSUME argv \in Seq(Words), NEW k \in Nat \ {0}
    PROVE  Arg(k) \in Words \cup {NULL}
<1>1. CASE k <= Len(argv)
    BY <1>1 DEF Arg
<1>2. CASE ~(k <= Len(argv))
    BY <1>2 DEF Arg
<1> QED
    BY <1>1, <1>2

LEMMA DriverStarts == DriverInit => DriverIInv
<1> SUFFICES ASSUME DriverInit PROVE DriverIInv
    OBVIOUS
<1>1. argv \in Seq(Words)
  <2>1. PICK n \in 0..MaxArgs : argv \in [1..n -> Words]
    BY DEF DriverInit
  <2>2. n \in Nat
    BY <2>1, WordsAssumption
  <2> QED
    BY <2>1, <2>2, SeqDef
<1>2. Cardinality(written) <= 1
  <2>1. written = {}
    BY DEF DriverInit
  <2> QED
    BY <2>1, FS_EmptySet
<1>3. DriverTypeOK
  <2>1. /\ phase = "options" /\ target = NoTarget /\ output = NULL /\ input = "stdin"
        /\ errors = 0 /\ module = FALSE /\ status = -1
    BY DEF DriverInit
  <2>2. status \in (-1)..(StatusRange - 1)
    BY <2>1, WordsAssumption
  <2> QED
    BY <1>2, <2>1, <2>2 DEF DriverTypeOK
<1>4. ArgvInBounds
    BY <1>1 DEF DriverInit, ArgvInBounds
<1>5. BackEndHasModule /\ StatusTellsOutcome /\ PhasesOK
  <2>1. phase = "options" /\ errors = 0 /\ written = {}
    BY DEF DriverInit
  <2> QED
    BY <2>1 DEF BackEndHasModule, StatusTellsOutcome, PhasesOK
<1> QED
    BY <1>1, <1>3, <1>4, <1>5 DEF DriverInit, DriverIInv, DriverInv

\* An exit status is the number of errors as far as the system tells them apart.
LEMMA ExitStatus ==
    ASSUME NEW s \in Nat
    PROVE  /\ s % StatusRange \in (-1)..(StatusRange - 1)
           /\ s < StatusRange => s % StatusRange = s
<1>1. StatusRange \in Nat /\ StatusRange > 1
    BY WordsAssumption
<1> QED
    BY <1>1

LEMMA OptionKeeps ==
    ASSUME DriverIInv, Option
    PROVE  DriverIInv'
<1> USE DEF DriverIInv, DriverInv
<1>1. argv' = argv /\ argi <= Len(argv) /\ argv \in Seq(Words) /\ argi \in Nat /\ Len(argv) \in Nat
    BY DEF Option
<1>2. argi' \in Nat /\ argi' <= Len(argv) + 2
    BY <1>1 DEF Option, NextOption
<1>3. argi > 0 => Arg(argi + 1) \in Words \cup {NULL}
    BY <1>1, ArgIsWord
<1>4. Arg(argi + 1) \in Words \cup {NULL}
    BY <1>1, ArgIsWord
<1>5. /\ target' \in Words \cup {NoTarget, NULL} /\ output' \in Words \cup {NULL}
      /\ input' \in Readable \cup {"stdin"}
    BY <1>4 DEF Option, DriverTypeOK
<1>6. DriverTypeOK'
    BY <1>5 DEF Option, DriverTypeOK
<1>7. ArgvInBounds'
    BY <1>1, <1>2 DEF ArgvInBounds
<1>8. BackEndHasModule' /\ StatusTellsOutcome' /\ PhasesOK'
    BY DEF Option, BackEndHasModule, StatusTellsOutcome, PhasesOK
<1> QED
    BY <1>1, <1>2, <1>6, <1>7, <1>8

\* Leaving without an output, with an error or the status of one.
LEMMA ExitKeeps ==
    ASSUME DriverIInv, NEW s \in Nat, Exit(s), UNCHANGED <<argv, argi, options, errors, module, written>>,
           written = {}, s < StatusRange => s # 0, s = errors \/ s < StatusRange
    PROVE  DriverIInv'
<1> USE DEF DriverIInv, DriverInv
<1>1. DriverTypeOK'
    BY ExitStatus DEF DriverTypeOK, Exit, options
<1>2. ArgvInBounds' /\ BackEndHasModule' /\ PhasesOK'
    BY DEF ArgvInBounds, BackEndHasModule, PhasesOK, Exit
<1>3. StatusTellsOutcome'
    BY ExitStatus DEF StatusTellsOutcome, Exit
<1> QED
    BY <1>1, <1>2, <1>3

LEMMA ParseKeeps ==
    ASSUME DriverIInv, Parse
    PROVE  DriverIInv'
<1> USE DEF DriverIInv, DriverInv
<1>1. errors' \in Nat /\ phase' = IF errors' = 0 THEN "generate" ELSE "parsed"
    BY WordsAssumption DEF Parse
<1>2. DriverTypeOK'
    BY <1>1 DEF Parse, options, DriverTypeOK
<1>3. ArgvInBounds' /\ BackEndHasModule' /\ StatusTellsOutcome' /\ PhasesOK'
    BY <1>1 DEF Parse, ArgvInBounds, BackEndHasModule, StatusTellsOutcome, PhasesOK
<1> QED
    BY <1>2, <1>3 DEF Parse

LEMMA GenerateProgramKeeps ==
    ASSUME DriverIInv, GenerateProgram
    PROVE  DriverIInv'
<1> USE DEF DriverIInv, DriverInv
<1>1. errors' \in Nat
    BY WordsAssumption DEF GenerateProgram, DriverTypeOK
<1>2. DriverTypeOK'
    BY <1>1 DEF GenerateProgram, options, DriverTypeOK
<1>3. ArgvInBounds' /\ BackEndHasModule' /\ StatusTellsOutcome' /\ PhasesOK'
    BY DEF GenerateProgram, ArgvInBounds, BackEndHasModule, StatusTellsOutcome, PhasesOK
<1> QED
    BY <1>2, <1>3 DEF GenerateProgram

LEMMA ReportKeeps ==
    ASSUME DriverIInv, Report
    PROVE  DriverIInv'
<1>1. errors \in Nat /\ written = {}
    BY DEF DriverIInv, DriverInv, DriverTypeOK, PhasesOK, Report
<1>2. CASE errors > 0
    BY <1>1, <1>2, ExitKeeps DEF Report
<1>3. CASE ~(errors > 0)
    BY <1>1, <1>3 DEF Report, options, DriverIInv, DriverInv, DriverTypeOK, ArgvInBounds,
      BackEndHasModule, StatusTellsOutcome, PhasesOK
<1> QED
    BY <1>2, <1>3

LEMMA BackEndKeeps ==
    ASSUME DriverIInv, BackEnd
    PROVE  DriverIInv'
<1>1. written = {} /\ module /\ errors = 0 /\ StatusRange > 1
    BY WordsAssumption DEF DriverIInv, DriverInv, PhasesOK, BackEndHasModule, BackEnd
<1>2. CASE Exit(1) /\ UNCHANGED written
    BY <1>1, <1>2, ExitKeeps DEF BackEnd
<1>3. CASE phase' = "crashed" /\ UNCHANGED <<written, status>>
    BY <1>1, <1>3 DEF BackEnd, options, DriverIInv, DriverInv, DriverTypeOK, ArgvInBounds,
      BackEndHasModule, StatusTellsOutcome, PhasesOK
<1>4. ASSUME NEW w, written' = {w}, Exit(0) PROVE DriverIInv'
  <2>1. Cardinality(written') = 1 /\ written' # {}
    BY <1>4, FS_Singleton
  <2>2. status' = 0 /\ phase' = "exited"
    BY <1>4, WordsAssumption DEF Exit
  <2>3. DriverTypeOK'
    BY <2>1, <2>2, WordsAssumption DEF BackEnd, options, DriverIInv, DriverInv, DriverTypeOK
  <2>4. BackEndHasModule' /\ StatusTellsOutcome'
    BY <1>1, <2>1, <2>2 DEF BackEnd, BackEndHasModule, StatusTellsOutcome
  <2> QED
    BY <2>2, <2>3, <2>4 DEF BackEnd, DriverIInv, DriverInv, ArgvInBounds, PhasesOK
<1> QED
    BY <1>2, <1>3, <1>4 DEF BackEnd

LEMMA DriverKeeps == DriverIInv /\ [DriverNext]_driverVars => DriverIInv'
<1> SUFFICES ASSUME DriverIInv, [DriverNext]_driverVars PROVE DriverIInv'
    OBVIOUS
<1>1. StatusRange > 1
    BY WordsAssumption
<1>2. phase = "options" => written = {}
    BY DEF DriverIInv, PhasesOK
<1>3. CASE Usage
    BY <1>1, <1>2, <1>3, ExitKeeps DEF Usage
<1>4. CASE Option
    BY <1>4, OptionKeeps
<1>5. CASE CannotOpen
    BY <1>1, <1>2, <1>5, ExitKeeps DEF CannotOpen
<1>6. CASE Parse
    BY <1>6, ParseKeeps
<1>7. CASE GenerateProgram
    BY <1>7, GenerateProgramKeeps
<1>8. CASE Report
    BY <1>8, ReportKeeps
<1>9. CASE BackEnd
    BY <1>9, BackEndKeeps
<1>10. CASE UNCHANGED driverVars
    BY <1>10 DEF driverVars, DriverIInv, DriverInv, DriverTypeOK, ArgvInBounds,
      BackEndHasModule, StatusTellsOutcome, PhasesOK
<1> QED
    BY <1>3, <1>4, <1>5, <1>6, <1>7, <1>8, <1>9, <1>10 DEF DriverNext

\* Of any command line and any number of errors: no argument behind the end is read,
\* the back end has a module without errors, and the status tells whether an output
\* has been written (main.cpp 30-63).
THEOREM DriverKept == DriverSpec => []DriverInv
<1>1. DriverIInv => DriverInv
    BY DEF DriverIInv
<1> QED
    BY <1>1, DriverStarts, DriverKeeps, PTL DEF DriverSpec

-----------------------------------------------------------------------------
(* Events: the blocks of a program attached to the pins *)

Statements ==
    [kind : {"function", "attach", "other"}, name : Events \cup FunctionNames \cup {None},
     inner : Seq(Events)]
Attachments == [event : Events, block : {None}]
EventsTypes ==
    /\ stage \in {"parse", "prepend", "generate", "done", "aborted"}
    /\ stmts \in Seq(Statements) /\ pending \in Seq(Events) /\ pos \in Nat \ {0}
    /\ calls \in Seq(Attachments)
    /\ declared \subseteq Events \cup FunctionNames /\ eventErrors \in Nat

\* A function is named, and a program that has events has a function.
FunctionAt(k) == stmts[k].kind = "function"
FunctionsOK ==
    /\ pending # <<>> => \E k \in DOMAIN stmts : FunctionAt(k)
    /\ \A k \in DOMAIN stmts : FunctionAt(k) => stmts[k].name \in Events \cup FunctionNames
    /\ stage # "parse" => stmts # <<>>

\* The statements that attach the first n events stand right behind the functions, that
\* of the event found last in front.
Behind == InsertionPoint(stmts)
AttachAt(k, e) == stmts[k] = Stmt("attach", e, <<>>)
AttachedInOrder(n) ==
    /\ Behind + n <= Len(stmts)
    /\ \A j \in 1..n : AttachAt(Behind + j, pending[n + 1 - j])
    /\ \A k \in DOMAIN stmts : stmts[k].kind = "attach" => k \in (Behind + 1)..(Behind + n)

NothingGenerated == calls = <<>> /\ declared = {} /\ eventErrors = 0

\* What has been generated of the statements in front of pos.
Generated ==
    /\ \A e : e \in declared <=> \E k \in 1..(pos - 1) : FunctionAt(k) /\ stmts[k].name = e
    /\ eventErrors = 0 => \A k, m \in 1..(pos - 1) :
          FunctionAt(k) /\ FunctionAt(m) /\ stmts[k].name = stmts[m].name => k = m
    /\ Len(calls) = IF pos <= Behind THEN 0
                    ELSE IF pos <= Behind + Len(pending) THEN pos - (Behind + 1)
                    ELSE Len(pending)
    /\ \A j \in DOMAIN calls : calls[j].event = pending[Len(pending) + 1 - j]

StageOK ==
    /\ stage = "parse" =>
          NothingGenerated /\ pos = 1 /\ \A k \in DOMAIN stmts : stmts[k].kind # "attach"
    /\ stage = "prepend" =>
          NothingGenerated /\ pos <= Len(pending) + 1 /\ AttachedInOrder(pos - 1)
    /\ stage \in {"generate", "done", "aborted"} =>
          AttachedInOrder(Len(pending)) /\ Generated /\ pos <= Len(stmts) + 1
    /\ stage = "done" => pos = Len(stmts) + 1
    /\ stage = "aborted" =>
          pos <= Len(stmts) /\ stmts[pos].kind = "attach" /\ stmts[pos].name \notin declared

EventsIInv == EventsTypes /\ FunctionsOK /\ StageOK

\* A bounded nonempty set of positions has a last one: the least of its bounds.
LEMMA LastPosition ==
    ASSUME NEW n \in Nat, NEW S \in SUBSET (1..n), S # {}
    PROVE  \E k \in S : \A m \in S : m <= k
<1> DEFINE Bounds == {b \in Nat : \A m \in S : m <= b}
<1>1. n \in Bounds /\ Bounds \in SUBSET Nat
    OBVIOUS
<1>2. PICK b \in Bounds : \A c \in Bounds : ~ (<<c, b>> \in OpToRel(<, Nat))
  <2> HIDE DEF Bounds
  <2> QED
    BY <1>1, NatLessThanWellFounded, WFMin
<1>3. \A c \in Bounds : ~ (c < b)
    BY <1>1, <1>2, Zenon DEF OpToRel
<1>4. b \in S
  <2> SUFFICES ASSUME b \notin S PROVE FALSE
    OBVIOUS
  <2>1. PICK m \in S : TRUE
    OBVIOUS
  <2>2. b - 1 \in Bounds
    BY <2>1
  <2> QED
    BY <1>3, <2>2
<1> QED
    BY <1>4

\* Statements are put behind the last function, or the first statement.
LEMMA InsertionPointIs ==
    ASSUME NEW s \in Seq(Statements), s # <<>>
    PROVE  /\ InsertionPoint(s) \in 1..Len(s)
           /\ \A k \in DOMAIN s : s[k].kind = "function" => k <= InsertionPoint(s)
           /\ (\E k \in DOMAIN s : s[k].kind = "function") => s[InsertionPoint(s)].kind = "function"
<1> DEFINE heads == {k \in DOMAIN s : s[k].kind = "function"}
           P == IF heads = {} THEN 1
                ELSE CHOOSE k \in heads : \A m \in heads : m <= k
<1>1. InsertionPoint(s) = P
    BY DEF InsertionPoint
<1>2. Len(s) \in Nat /\ Len(s) >= 1 /\ DOMAIN s = 1..Len(s)
    OBVIOUS
<1>3. CASE heads = {}
    BY <1>1, <1>2, <1>3
<1>4. CASE heads # {}
  <2>1. heads \in SUBSET (1..Len(s))
    BY <1>2
  <2>2. P \in heads /\ \A m \in heads : m <= P
    <3> HIDE DEF heads
    <3>1. \E k \in heads : \A m \in heads : m <= k
      BY <1>2, <1>4, <2>1, LastPosition
    <3> QED
      BY <1>4, <3>1
  <2> QED
    BY <1>1, <1>2, <2>2
<1> QED
    BY <1>3, <1>4

LEMMA EventsStart == EventsInit => EventsIInv
<1> SUFFICES ASSUME EventsInit PROVE EventsIInv
    OBVIOUS
<1>1. EventsTypes
    BY DEF EventsInit, EventsTypes
<1>2. FunctionsOK
    BY DEF EventsInit, FunctionsOK
<1>3. StageOK
    BY DEF EventsInit, StageOK, NothingGenerated
<1> QED
    BY <1>1, <1>2, <1>3 DEF EventsIInv

\* The parser takes up a statement that attaches nothing, with the events found in it.
LEMMA ParseKeepsEvents ==
    ASSUME EventsIInv, stage = "parse", NEW s \in Statements, s.kind # "attach",
           s.kind = "function" => s.name \in Events \cup FunctionNames,
           NEW found \in Seq(Events), found # <<>> => s.kind = "function",
           stmts' = Append(stmts, s), pending' = pending \o found,
           UNCHANGED <<stage, pos, declared, calls, eventErrors>>
    PROVE  EventsIInv'
<1>1. stmts \in Seq(Statements) /\ pending \in Seq(Events)
    BY DEF EventsIInv, EventsTypes
<1>2. /\ stmts' \in Seq(Statements) /\ Len(stmts') = Len(stmts) + 1
      /\ \A k \in 1..Len(stmts) : stmts'[k] = stmts[k]
      /\ stmts'[Len(stmts) + 1] = s
    BY <1>1
<1>3. pending' \in Seq(Events) /\ (pending' # <<>> => pending # <<>> \/ found # <<>>)
    BY <1>1
<1>4. EventsTypes'
    BY <1>2, <1>3 DEF EventsIInv, EventsTypes
<1>5. FunctionsOK'
  <2>1. pending' # <<>> => \E k \in DOMAIN stmts' : stmts'[k].kind = "function"
    <3>1. CASE pending # <<>>
      <4>1. PICK k \in DOMAIN stmts : stmts[k].kind = "function"
        BY <3>1 DEF EventsIInv, FunctionsOK, FunctionAt
      <4>2. k \in DOMAIN stmts' /\ stmts'[k] = stmts[k]
        BY <1>1, <1>2
      <4> QED
        BY <4>1, <4>2
    <3>2. CASE found # <<>>
      <4>1. Len(stmts) + 1 \in DOMAIN stmts' /\ stmts'[Len(stmts) + 1].kind = "function"
        BY <1>1, <1>2, <3>2
      <4> QED
        BY <4>1
    <3> QED
      BY <1>3, <3>1, <3>2
  <2>2. \A k \in DOMAIN stmts' :
           stmts'[k].kind = "function" => stmts'[k].name \in Events \cup FunctionNames
    BY <1>1, <1>2 DEF EventsIInv, FunctionsOK, FunctionAt
  <2> QED
    BY <2>1, <2>2 DEF FunctionsOK, FunctionAt
<1>6. StageOK'
  <2>1. \A k \in DOMAIN stmts' : stmts'[k].kind # "attach"
    <3>1. \A k \in 1..Len(stmts) : stmts[k].kind # "attach"
      BY <1>1 DEF EventsIInv, StageOK
    <3> QED
      BY <1>1, <1>2, <3>1
  <2>2. NothingGenerated /\ pos = 1
    BY DEF EventsIInv, StageOK
  <2> QED
    BY <2>1, <2>2 DEF StageOK, NothingGenerated
<1> QED
    BY <1>4, <1>5, <1>6 DEF EventsIInv

LEMMA FunctionStatement ==
    ASSUME NEW name \in Events \cup FunctionNames, NEW inner \in Seq(Events)
    PROVE  /\ Stmt("function", name, inner) \in Statements
           /\ Stmt("function", name, inner).kind = "function"
           /\ Stmt("function", name, inner).name = name
    BY DEF Stmt, Statements

LEMMA ParseEventKeeps ==
    ASSUME EventsIInv, ParseEvent
    PROVE  EventsIInv'
<1>1. PICK e \in Events :
         /\ stage = "parse" /\ stmts' = Append(stmts, Stmt("function", e, <<>>))
         /\ pending' = Append(pending, e) /\ UNCHANGED <<stage, pos, declared, calls, eventErrors>>
    BY DEF ParseEvent
<1> DEFINE s == Stmt("function", e, <<>>)
<1>2. s \in Statements /\ s.kind = "function" /\ s.name = e
  <2>1. <<>> \in Seq(Events)
    OBVIOUS
  <2> QED
    BY <2>1, FunctionStatement
<1>3. <<e>> \in Seq(Events) /\ pending' = pending \o <<e>>
    BY <1>1 DEF EventsIInv, EventsTypes
<1> HIDE DEF s
<1> QED
    BY <1>1, <1>2, <1>3, ParseKeepsEvents DEF s

LEMMA ParseFunctionKeeps ==
    ASSUME EventsIInv, ParseFunction
    PROVE  EventsIInv'
<1>1. PICK f \in FunctionNames, inner \in {<<>>} \cup {<<e>> : e \in Events} :
         /\ stage = "parse" /\ stmts' = Append(stmts, Stmt("function", f, inner))
         /\ pending' = pending \o inner /\ UNCHANGED <<stage, pos, declared, calls, eventErrors>>
    BY DEF ParseFunction
<1> DEFINE s == Stmt("function", f, inner)
<1>2. inner \in Seq(Events)
  <2>1. CASE inner = <<>>
    BY <2>1
  <2>2. CASE inner \in {<<e>> : e \in Events}
    <3>1. PICK e \in Events : inner = <<e>>
      BY <2>2
    <3> QED
      BY <3>1
  <2> QED
    BY <2>1, <2>2
<1>3. s \in Statements /\ s.kind = "function" /\ s.name = f
    BY <1>2, FunctionStatement
<1> HIDE DEF s
<1> QED
    BY <1>1, <1>2, <1>3, ParseKeepsEvents DEF s

LEMMA ParseOtherKeeps ==
    ASSUME EventsIInv, ParseOther
    PROVE  EventsIInv'
<1> DEFINE s == Stmt("other", None, <<>>)
<1>1. s \in Statements /\ s.kind = "other"
    BY DEF Stmt, Statements
<1>2. <<>> \in Seq(Events) /\ pending \o <<>> = pending
    BY DEF EventsIInv, EventsTypes
<1>3. /\ stage = "parse" /\ stmts' = Append(stmts, s)
      /\ UNCHANGED <<pending, stage, pos, declared, calls, eventErrors>>
    BY DEF ParseOther
<1> HIDE DEF s
<1> QED
    BY <1>1, <1>2, <1>3, ParseKeepsEvents

LEMMA ParsedAllKeeps ==
    ASSUME EventsIInv, ParsedAll
    PROVE  EventsIInv'
<1>1. /\ stage = "parse" /\ stmts # <<>> /\ stage' = "prepend"
      /\ UNCHANGED <<stmts, pending, pos, declared, calls, eventErrors>>
    BY DEF ParsedAll
<1>2. EventsTypes' /\ FunctionsOK'
    BY <1>1 DEF EventsIInv, EventsTypes, FunctionsOK, FunctionAt
<1>3. /\ NothingGenerated /\ pos = 1 /\ (\A k \in DOMAIN stmts : stmts[k].kind # "attach")
      /\ stmts \in Seq(Statements) /\ pending \in Seq(Events)
    BY <1>1 DEF EventsIInv, StageOK, EventsTypes
<1>4. Behind \in 1..Len(stmts)
    BY <1>1, <1>3, InsertionPointIs DEF Behind
<1>5. AttachedInOrder(0)
    BY <1>3, <1>4 DEF AttachedInOrder
<1>6. AttachedInOrder(0)' <=> AttachedInOrder(0)
    BY <1>1 DEF AttachedInOrder, AttachAt, Behind
<1>7. StageOK'
    BY <1>1, <1>3, <1>5, <1>6 DEF StageOK, NothingGenerated
<1> QED
    BY <1>2, <1>7 DEF EventsIInv

\* Statements put behind the last function leave the functions where they are.
LEMMA InsertKeeps ==
    ASSUME NEW s \in Seq(Statements), s # <<>>, NEW a \in Statements, a.kind = "attach",
           NEW t, t = InsertAt(s, InsertionPoint(s) + 1, a)
    PROVE  /\ t \in Seq(Statements) /\ Len(t) = Len(s) + 1
           /\ \A k \in 1..InsertionPoint(s) : t[k] = s[k]
           /\ t[InsertionPoint(s) + 1] = a
           /\ \A k \in (InsertionPoint(s) + 2)..(Len(s) + 1) : t[k] = s[k - 1]
           /\ InsertionPoint(t) = InsertionPoint(s)
<1> DEFINE p == InsertionPoint(s)
           front == SubSeq(s, 1, (p + 1) - 1)
           back == SubSeq(s, p + 1, Len(s))
<1>1. p \in 1..Len(s) /\ Len(s) \in Nat /\ DOMAIN s = 1..Len(s) /\ \A k \in 1..Len(s) : s[k] \in Statements
    BY InsertionPointIs
<1>2. t = front \o <<a>> \o back
  <2> HIDE DEF p
  <2> QED
    BY Zenon DEF InsertAt, p
<1>3. \A k \in DOMAIN s : s[k].kind = "function" => k <= p
    BY InsertionPointIs
<1> HIDE DEF p
<1>0. p \in Nat /\ p >= 1 /\ Len(s) \in Nat /\ p <= Len(s)
    BY <1>1
<1>4. front \in Seq(Statements) /\ Len(front) = p /\ \A k \in 1..p : front[k] = s[k]
  <2>1. (p + 1) - 1 = p
    BY <1>1
  <2>2. \A k \in 1..p : s[k] \in Statements
    BY <1>1
  <2> QED
    BY <1>1, <2>1, <2>2, SubSeqProperties
<1>5. /\ back \in Seq(Statements) /\ Len(back) = Len(s) - p
      /\ \A k \in 1..(Len(s) - p) : back[k] = s[p + k]
  <2>1. \A k \in (p + 1)..Len(s) : s[k] \in Statements
    BY <1>1
  <2>2. /\ back \in Seq(Statements)
        /\ Len(back) = IF p + 1 <= Len(s) THEN Len(s) - (p + 1) + 1 ELSE 0
        /\ \A k \in 1..(Len(s) - (p + 1) + 1) : back[k] = s[(p + 1) + k - 1]
    BY <1>1, <2>1, SubSeqProperties
  <2> HIDE DEF back
  <2>3. /\ Len(s) - (p + 1) + 1 = Len(s) - p /\ (p + 1 <= Len(s) \/ Len(s) - p = 0)
        /\ \A k \in 1..(Len(s) - p) : (p + 1) + k - 1 = p + k
    BY <1>0
  <2> QED
    BY <2>2, <2>3
<1> HIDE DEF front, back
<1>6. /\ t \in Seq(Statements) /\ Len(t) = Len(s) + 1
      /\ \A k \in 1..p : t[k] = s[k]
      /\ t[p + 1] = a
      /\ \A k \in (p + 2)..(Len(s) + 1) : t[k] = s[k - 1]
  <2> DEFINE u == front \o <<a>>
  <2>1. /\ u \in Seq(Statements) /\ Len(u) = p + 1
        /\ \A k \in 1..p : u[k] = s[k]
        /\ u[p + 1] = a
    BY <1>1, <1>4
  <2> HIDE DEF u
  <2>2. /\ t \in Seq(Statements) /\ Len(t) = (p + 1) + (Len(s) - p)
        /\ \A k \in 1..((p + 1) + (Len(s) - p)) : t[k] = IF k <= p + 1 THEN u[k] ELSE back[k - (p + 1)]
    <3>1. t = u \o back
      BY <1>2 DEF u
    <3>2. /\ u \o back \in Seq(Statements) /\ Len(u \o back) = Len(u) + Len(back)
          /\ \A k \in 1..(Len(u) + Len(back)) :
               (u \o back)[k] = IF k <= Len(u) THEN u[k] ELSE back[k - Len(u)]
      BY <1>5, <2>1, ConcatProperties
    <3> QED
      BY <1>5, <2>1, <3>1, <3>2
  <2>3. (p + 1) + (Len(s) - p) = Len(s) + 1
    BY <1>1
  <2>4. ASSUME NEW k \in (p + 2)..(Len(s) + 1) PROVE t[k] = s[k - 1]
    <3>1. t[k] = back[k - (p + 1)] /\ k - (p + 1) \in 1..(Len(s) - p) /\ p + (k - (p + 1)) = k - 1
      BY <1>1, <2>2, <2>3
    <3> QED
      BY <1>5, <3>1
  <2>5. (\A k \in 1..p : t[k] = s[k]) /\ t[p + 1] = a
  <3>1. \A k \in 1..(p + 1) : k \in 1..(Len(s) + 1) /\ k <= p + 1
    BY <1>0
  <3>2. \A k \in 1..(p + 1) : t[k] = u[k]
    BY <2>2, <2>3, <3>1
  <3> QED
    BY <1>0, <2>1, <3>2
  <2> QED
    BY <2>2, <2>3, <2>4, <2>5
<1> DEFINE Fs == {k \in DOMAIN s : s[k].kind = "function"}
           Ft == {k \in DOMAIN t : t[k].kind = "function"}
<1>7. Ft = Fs
  <2>1. DOMAIN t = 1..(Len(s) + 1)
    BY <1>1, <1>6
  <2>2. ASSUME NEW k \in 1..Len(s), s[k].kind = "function" PROVE k \in 1..(Len(s) + 1) /\ t[k].kind = "function"
    BY <1>1, <1>3, <1>6, <2>2
  <2>3. ASSUME NEW k \in 1..(Len(s) + 1), t[k].kind = "function"
        PROVE  k \in 1..Len(s) /\ s[k].kind = "function"
    <3>1. CASE k <= p
      BY <1>1, <1>6, <2>3, <3>1
    <3>2. CASE k = p + 1
      BY <1>6, <2>3, <3>2
    <3>3. CASE k > p + 1
      <4>1. t[k] = s[k - 1] /\ k - 1 \in 1..Len(s)
        BY <1>1, <1>6, <3>3
      <4>2. k - 1 <= p
        BY <1>1, <1>3, <2>3, <4>1
      <4> QED
        BY <1>1, <3>3, <4>2
    <3> QED
      BY <1>1, <3>1, <3>2, <3>3
  <2> QED
    BY <1>1, <2>1, <2>2, <2>3
<1>8. /\ InsertionPoint(t) = IF Ft = {} THEN 1 ELSE CHOOSE k \in Ft : \A m \in Ft : m <= k
      /\ p = IF Fs = {} THEN 1 ELSE CHOOSE k \in Fs : \A m \in Fs : m <= k
    BY DEF InsertionPoint, p
<1>9. InsertionPoint(t) = p
  <2> HIDE DEF Fs, Ft
  <2> QED
    BY <1>7, <1>8
<1> QED
    BY <1>6, <1>9 DEF p

LEMMA PrependKeeps ==
    ASSUME EventsIInv, Prepend
    PROVE  EventsIInv'
<1>1. /\ stage = "prepend" /\ UNCHANGED <<pending, declared, calls, eventErrors>>
      /\ stmts \in Seq(Statements) /\ stmts # <<>> /\ pending \in Seq(Events)
      /\ pos \in Nat \ {0} /\ pos <= Len(pending) + 1
      /\ NothingGenerated /\ AttachedInOrder(pos - 1)
    BY DEF Prepend, EventsIInv, EventsTypes, FunctionsOK, StageOK
<1>2. Behind \in 1..Len(stmts)
    BY <1>1, InsertionPointIs DEF Behind
<1>3. CASE pos <= Len(pending)
  <2> DEFINE a == Stmt("attach", pending[pos], <<>>)
  <2>1. /\ stmts' = InsertAt(stmts, InsertionPoint(stmts) + 1, a)
        /\ pos' = pos + 1 /\ stage' = stage
    BY <1>3 DEF Prepend
  <2>2. a \in Statements /\ a.kind = "attach"
    <3>1. pending[pos] \in Events
      BY <1>1, <1>3
    <3> QED
      BY <3>1 DEF Stmt, Statements
  <2>3. /\ stmts' \in Seq(Statements) /\ Len(stmts') = Len(stmts) + 1
        /\ \A k \in 1..Behind : stmts'[k] = stmts[k]
        /\ stmts'[Behind + 1] = a
        /\ \A k \in (Behind + 2)..(Len(stmts) + 1) : stmts'[k] = stmts[k - 1]
        /\ InsertionPoint(stmts') = Behind
    <3> DEFINE t == stmts'
    <3>1. stmts \in Seq(Statements) /\ stmts # <<>> /\ t = InsertAt(stmts, InsertionPoint(stmts) + 1, a)
      BY <1>1, <2>1
    <3> HIDE DEF a, t
    <3>2. /\ t \in Seq(Statements) /\ Len(t) = Len(stmts) + 1
          /\ \A k \in 1..Behind : t[k] = stmts[k]
          /\ t[Behind + 1] = a
          /\ \A k \in (Behind + 2)..(Len(stmts) + 1) : t[k] = stmts[k - 1]
          /\ InsertionPoint(t) = Behind
      BY <2>2, <3>1, InsertKeeps DEF Behind
    <3> QED
      BY <3>2 DEF t
  <2>4. Behind' = Behind
    BY <2>3 DEF Behind
  <2>5. Len(stmts) \in Nat /\ DOMAIN stmts = 1..Len(stmts) /\ DOMAIN stmts' = 1..(Len(stmts) + 1)
    BY <1>1, <2>3
  <2>6. AttachedInOrder(pos - 1)'
    <3> USE DEF AttachAt
    <3>1. pos' - 1 = pos
      BY <1>1, <2>1
    <3>2. ASSUME NEW j \in 1..pos PROVE stmts'[Behind + j] = Stmt("attach", pending[pos + 1 - j], <<>>)
      <4>1. CASE j = 1
        BY <1>1, <2>3, <4>1
      <4>2. CASE j # 1
        <5>1. /\ j - 1 \in 1..(pos - 1) /\ (pos - 1) + 1 - (j - 1) = pos + 1 - j
              /\ Behind + (pos - 1) <= Len(stmts)
          BY <1>1, <4>2 DEF AttachedInOrder
        <5>2. stmts[Behind + (j - 1)] = Stmt("attach", pending[pos + 1 - j], <<>>)
          BY <1>1, <5>1 DEF AttachedInOrder
        <5>3. stmts'[Behind + j] = stmts[Behind + j - 1] /\ Behind + j - 1 = Behind + (j - 1)
          BY <1>1, <1>2, <2>3, <2>5, <4>2, <5>1
        <5> QED
          BY <5>2, <5>3
      <4> QED
        BY <4>1, <4>2
    <3>3. ASSUME NEW k \in DOMAIN stmts', stmts'[k].kind = "attach"
          PROVE  k \in (Behind + 1)..(Behind + pos)
      <4>1. CASE k <= Behind
        BY <1>1, <1>2, <2>3, <2>5, <3>3, <4>1 DEF AttachedInOrder
      <4>2. CASE k = Behind + 1
        BY <1>1, <1>2, <4>2
      <4>3. CASE k > Behind + 1
        <5>1. stmts'[k] = stmts[k - 1] /\ k - 1 \in DOMAIN stmts
          BY <1>2, <2>3, <2>5, <4>3
        <5>2. k - 1 \in (Behind + 1)..(Behind + (pos - 1))
          BY <1>1, <3>3, <5>1 DEF AttachedInOrder
        <5> QED
          BY <1>1, <1>2, <2>5, <5>2
      <4> QED
        BY <1>2, <2>5, <4>1, <4>2, <4>3
    <3>4. Behind + pos <= Len(stmts')
      BY <1>1, <1>2, <2>3, <2>5 DEF AttachedInOrder
    <3> QED
      BY <1>1, <2>4, <3>1, <3>2, <3>3, <3>4 DEF AttachedInOrder
  <2>7. EventsTypes'
    BY <1>1, <2>1, <2>3 DEF EventsIInv, EventsTypes
  <2>8. FunctionsOK'
    <3>1. \A k \in DOMAIN stmts' : stmts'[k].kind = "function" =>
            \E m \in DOMAIN stmts : stmts'[k] = stmts[m]
      <4> SUFFICES ASSUME NEW k \in DOMAIN stmts', stmts'[k].kind = "function"
                   PROVE  \E m \in DOMAIN stmts : stmts'[k] = stmts[m]
        OBVIOUS
      <4>1. CASE k <= Behind
        BY <1>2, <2>3, <2>5, <4>1
      <4>2. CASE k = Behind + 1
        BY <2>2, <2>3, <4>2
      <4>3. CASE k > Behind + 1
        BY <1>2, <2>3, <2>5, <4>3
      <4> QED
        BY <1>2, <2>5, <4>1, <4>2, <4>3
    <3>2. ASSUME pending # <<>> PROVE \E k \in DOMAIN stmts' : stmts'[k].kind = "function"
      <4>1. stmts[Behind].kind = "function"
        BY <1>1, <3>2, InsertionPointIs DEF Behind, EventsIInv, FunctionsOK, FunctionAt
      <4>2. stmts'[Behind].kind = "function" /\ Behind \in DOMAIN stmts'
        BY <1>2, <2>3, <2>5, <4>1
      <4> QED
        BY <4>2
    <3>3. stmts' # <<>>
      BY <2>3, <2>5
    <3> QED
      BY <1>1, <3>1, <3>2, <3>3 DEF EventsIInv, FunctionsOK, FunctionAt
  <2>9. StageOK'
    <3>1. pos' <= Len(pending') + 1 /\ NothingGenerated'
      BY <1>1, <1>3, <2>1 DEF NothingGenerated
    <3>2. stage' = "prepend"
      BY <1>1, <2>1
    <3> QED
      BY <2>6, <3>1, <3>2 DEF StageOK
  <2> QED
    BY <2>7, <2>8, <2>9 DEF EventsIInv
<1>4. CASE ~(pos <= Len(pending))
  <2>1. pos = Len(pending) + 1 /\ stage' = "generate" /\ pos' = 1 /\ stmts' = stmts
    BY <1>1, <1>4 DEF Prepend
  <2>2. EventsTypes' /\ FunctionsOK'
    BY <1>1, <2>1 DEF EventsIInv, EventsTypes, FunctionsOK, FunctionAt
  <2>3. Behind' = Behind
    BY <2>1 DEF Behind
  <2>4. AttachedInOrder(Len(pending))'
    <3>1. pos - 1 = Len(pending)
      BY <1>1, <2>1
    <3> QED
      BY <1>1, <2>1, <2>3, <3>1 DEF AttachedInOrder, AttachAt
  <2>5. Generated'
    BY <1>1, <1>2, <2>1, <2>3 DEF Generated, NothingGenerated, FunctionAt
  <2> QED
    BY <1>1, <2>1, <2>2, <2>4, <2>5 DEF EventsIInv, StageOK
<1> QED
    BY <1>3, <1>4

\* The elements of a sequence that have a property are finitely many.
LEMMA SomeElementsFinite ==
    ASSUME NEW S, NEW s \in Seq(S), NEW T \in SUBSET ToSet(s)
    PROVE  IsFiniteSet(T) /\ Cardinality(T) \in Nat /\ (Cardinality(T) = 0 => T = {})
<1>1. Len(s) \in Int /\ 1 \in Int /\ s \in [1..Len(s) -> ToSet(s)] /\ DOMAIN s = 1..Len(s)
    BY DEF ToSet
<1>2. IsFiniteSet(1..Len(s))
    BY <1>1, FS_Interval
<1>3. s \in Surjection(1..Len(s), ToSet(s))
    BY <1>1 DEF Surjection, ToSet
<1>4. IsFiniteSet(ToSet(s))
    BY <1>2, <1>3, FS_Surjection
<1>5. IsFiniteSet(T)
    BY <1>4, FS_Subset
<1> QED
    BY <1>5, FS_CardinalityType, FS_EmptySet

\* What the generating steps find: a state of the program as it has been parsed.
LEMMA GenerationFinds ==
    ASSUME EventsIInv, stage \in {"generate", "done", "aborted"}
    PROVE  /\ stmts \in Seq(Statements) /\ Len(stmts) \in Nat /\ DOMAIN stmts = 1..Len(stmts)
           /\ pending \in Seq(Events) /\ Len(pending) \in Nat
           /\ pos \in Nat \ {0} /\ pos <= Len(stmts) + 1
           /\ AttachedInOrder(Len(pending)) /\ Generated
           /\ Behind \in 1..Len(stmts) /\ Behind + Len(pending) <= Len(stmts)
           /\ \A k \in DOMAIN stmts : FunctionAt(k) => k <= Behind
           /\ \A k \in DOMAIN stmts :
                 stmts[k].kind = "attach" <=> k \in (Behind + 1)..(Behind + Len(pending))
<1>1. /\ stmts \in Seq(Statements) /\ stmts # <<>> /\ pending \in Seq(Events)
      /\ pos \in Nat \ {0} /\ pos <= Len(stmts) + 1 /\ AttachedInOrder(Len(pending)) /\ Generated
    BY DEF EventsIInv, EventsTypes, FunctionsOK, StageOK
<1>2. Len(stmts) \in Nat /\ DOMAIN stmts = 1..Len(stmts) /\ Len(pending) \in Nat
    BY <1>1
<1>3. /\ Behind \in 1..Len(stmts) /\ Behind + Len(pending) <= Len(stmts)
      /\ \A k \in DOMAIN stmts : FunctionAt(k) => k <= Behind
    BY <1>1, InsertionPointIs DEF Behind, FunctionAt, AttachedInOrder
<1>4. ASSUME NEW k \in (Behind + 1)..(Behind + Len(pending)) PROVE stmts[k].kind = "attach"
  <2>1. k - Behind \in 1..Len(pending) /\ Behind + (k - Behind) = k
    BY <1>2, <1>3
  <2>2. AttachAt(Behind + (k - Behind), pending[Len(pending) + 1 - (k - Behind)])
    BY <1>1, <2>1 DEF AttachedInOrder
  <2> QED
    BY <2>1, <2>2 DEF AttachAt, Stmt
<1>5. \A k \in DOMAIN stmts :
         stmts[k].kind = "attach" => k \in (Behind + 1)..(Behind + Len(pending))
    BY <1>1 DEF AttachedInOrder
<1> QED
    BY <1>1, <1>2, <1>3, <1>4, <1>5

\* Generating a statement changes neither the program nor what it is to attach.
LEMMA GenerateKeepsProgram ==
    ASSUME EventsIInv, stage = "generate", UNCHANGED <<stmts, pending>>,
           stage' \in {"generate", "done", "aborted"},
           pos' \in Nat \ {0}, pos' <= Len(stmts) + 1,
           calls' \in Seq(Attachments), declared' \subseteq Events \cup FunctionNames,
           eventErrors' \in Nat, Generated',
           stage' = "done" => pos' = Len(stmts) + 1,
           stage' = "aborted" =>
              pos' <= Len(stmts) /\ stmts[pos'].kind = "attach" /\ stmts[pos'].name \notin declared'
    PROVE  EventsIInv'
<1>1. EventsTypes' /\ FunctionsOK'
    BY DEF EventsIInv, EventsTypes, FunctionsOK, FunctionAt
<1>2. AttachedInOrder(Len(pending))'
  <2>1. AttachedInOrder(Len(pending)) /\ Behind' = Behind
    BY GenerationFinds DEF Behind
  <2> QED
    BY <2>1 DEF AttachedInOrder, AttachAt
<1>3. StageOK'
    BY <1>2 DEF StageOK
<1> QED
    BY <1>1, <1>3 DEF EventsIInv

LEMMA GenerateFunctionKeeps ==
    ASSUME EventsIInv, GenerateFunction
    PROVE  EventsIInv'
<1> DEFINE s == stmts[pos]
           wrong == IF s.name \in declared THEN {s.name}
                    ELSE {e \in ToSet(s.inner) : e \in declared}
<1>1. /\ stage = "generate" /\ pos <= Len(stmts) /\ FunctionAt(pos)
      /\ declared' = declared \cup {s.name}
      /\ eventErrors' = eventErrors + 2 * Cardinality(wrong)
      /\ pos' = pos + 1 /\ UNCHANGED <<stage, stmts, pending, calls>>
    BY DEF GenerateFunction, FunctionAt
<1>2. /\ stmts \in Seq(Statements) /\ Len(stmts) \in Nat /\ pos \in 1..Len(stmts)
      /\ DOMAIN stmts = 1..Len(stmts) /\ Len(pending) \in Nat /\ Generated
      /\ Behind \in 1..Len(stmts) /\ pos <= Behind
    BY <1>1, GenerationFinds
<1>3. /\ s.name \in Events \cup FunctionNames /\ declared \subseteq Events \cup FunctionNames
      /\ calls \in Seq(Attachments) /\ eventErrors \in Nat
    BY <1>1, <1>2 DEF EventsIInv, EventsTypes, FunctionsOK
<1>4. Cardinality(wrong) \in Nat /\ (Cardinality(wrong) = 0 => s.name \notin declared)
  <2>1. CASE s.name \in declared
    <3>1. Cardinality({s.name}) = 1
      BY FS_Singleton
    <3> QED
      BY <2>1, <3>1
  <2>2. CASE s.name \notin declared
    <3>1. s.inner \in Seq(Events)
      <4>1. s \in Statements
        BY <1>2
      <4> HIDE DEF s, wrong
      <4> QED
        BY <4>1 DEF Statements
    <3>2. wrong \in SUBSET ToSet(s.inner)
      BY <2>2
    <3> HIDE DEF s, wrong
    <3>3. Cardinality(wrong) \in Nat
      BY <3>1, <3>2, SomeElementsFinite
    <3> QED
      BY <2>2, <3>3
  <2> QED
    BY <2>1, <2>2
<1> HIDE DEF wrong
<1>5. eventErrors' \in Nat /\ (eventErrors' = 0 => eventErrors = 0 /\ s.name \notin declared)
    BY <1>1, <1>3, <1>4
<1>6. Generated'
  <2>1. Behind' = Behind /\ pos' - 1 = pos
    BY <1>1, <1>2 DEF Behind
  <2>2. \A k \in 1..pos : k \in 1..(pos - 1) \/ k = pos
    BY <1>2
  <2>3. \A k \in 1..(pos - 1) : k \in 1..pos
    BY <1>2
  <2>4. \A e : e \in declared' <=> \E k \in 1..pos : FunctionAt(k) /\ stmts[k].name = e
    BY <1>1, <1>2, <2>2, <2>3 DEF Generated
  <2>5. ASSUME eventErrors' = 0, NEW k \in 1..pos, NEW m \in 1..pos,
               FunctionAt(k), FunctionAt(m), stmts[k].name = stmts[m].name
        PROVE  k = m
    <3>1. eventErrors = 0 /\ s.name \notin declared
      BY <1>5, <2>5
    <3>2. \A j \in 1..(pos - 1) : FunctionAt(j) => stmts[j].name # s.name
      BY <1>2, <3>1 DEF Generated
    <3>3. CASE k = pos \/ m = pos
      BY <2>2, <2>5, <3>2, <3>3
    <3>4. CASE k # pos /\ m # pos
      BY <1>2, <2>2, <2>5, <3>1, <3>4 DEF Generated
    <3> QED
      BY <3>3, <3>4
  <2>6. Len(calls') = IF pos' <= Behind THEN 0
                     ELSE IF pos' <= Behind + Len(pending) THEN pos' - (Behind + 1)
                     ELSE Len(pending)
    <3>1. Len(calls) = 0
      BY <1>2 DEF Generated
    <3> QED
      BY <1>1, <1>2, <3>1
  <2>7. \A j \in DOMAIN calls : calls[j].event = pending[Len(pending) + 1 - j]
    BY <1>2 DEF Generated
  <2> HIDE DEF s
  <2> QED
    BY <1>1, <2>1, <2>4, <2>5, <2>6, <2>7, Zenon DEF Generated, FunctionAt
<1>7. pos' \in Nat \ {0} /\ pos' <= Len(stmts) + 1
    BY <1>1, <1>2
<1> QED
    BY <1>1, <1>3, <1>5, <1>6, <1>7, GenerateKeepsProgram

LEMMA GenerateAttachKeeps ==
    ASSUME EventsIInv, GenerateAttach
    PROVE  EventsIInv'
<1>1. /\ stage = "generate" /\ pos <= Len(stmts) /\ stmts[pos].kind = "attach"
      /\ UNCHANGED <<stmts, pending, declared, eventErrors>>
    BY DEF GenerateAttach
<1>2. /\ stmts \in Seq(Statements) /\ Len(stmts) \in Nat /\ pos \in 1..Len(stmts)
      /\ DOMAIN stmts = 1..Len(stmts) /\ pending \in Seq(Events) /\ Len(pending) \in Nat
      /\ Behind \in 1..Len(stmts) /\ pos \in (Behind + 1)..(Behind + Len(pending))
      /\ AttachedInOrder(Len(pending)) /\ Generated
    BY <1>1, GenerationFinds
<1>3. /\ declared \subseteq Events \cup FunctionNames
      /\ calls \in Seq(Attachments) /\ eventErrors \in Nat
    BY DEF EventsIInv, EventsTypes
<1>4. Behind' = Behind
    BY <1>1 DEF Behind
<1>5. CASE stmts[pos].name \notin declared
  <2>1. stage' = "aborted" /\ UNCHANGED <<pos, calls>>
    BY <1>5 DEF GenerateAttach
  <2>2. Generated'
    BY <1>1, <1>2, <1>4, <2>1 DEF Generated, FunctionAt
  <2> QED
    BY <1>1, <1>2, <1>3, <1>5, <2>1, <2>2, GenerateKeepsProgram
<1>6. CASE stmts[pos].name \in declared
  <2> DEFINE call == [event |-> stmts[pos].name, block |-> None]
             j == pos - Behind
  <2>1. calls' = Append(calls, call) /\ pos' = pos + 1 /\ stage' = "generate"
    BY <1>1, <1>6 DEF GenerateAttach
  <2>2. j \in 1..Len(pending) /\ Behind + j = pos /\ Len(pending) + 1 - j \in 1..Len(pending)
    BY <1>2
  <2>3. stmts[pos].name = pending[Len(pending) + 1 - j]
    <3>1. AttachAt(Behind + j, pending[Len(pending) + 1 - j])
      BY <1>2, <2>2 DEF AttachedInOrder
    <3> QED
      BY <2>2, <3>1 DEF AttachAt, Stmt
  <2>4. call \in Attachments
    BY <1>2, <2>2, <2>3 DEF Attachments
  <2>5. Len(calls) = j - 1
    BY <1>2 DEF Generated
  <2>6. call.event = pending[Len(pending) + 1 - j]
    BY <2>3
  <2> HIDE DEF call
  <2>7. /\ calls' \in Seq(Attachments) /\ Len(calls') = j /\ DOMAIN calls' = 1..j
        /\ DOMAIN calls = 1..(j - 1)
        /\ (\A m \in 1..(j - 1) : calls'[m] = calls[m]) /\ calls'[j] = call
    BY <1>3, <2>1, <2>2, <2>4, <2>5
  <2>8. Len(calls') = IF pos' <= Behind THEN 0
                      ELSE IF pos' <= Behind + Len(pending) THEN pos' - (Behind + 1)
                      ELSE Len(pending)
    <3>1. /\ Behind \in Nat /\ Len(pending) \in Nat /\ pos \in Nat
          /\ pos <= Behind + Len(pending) /\ pos > Behind
      BY <1>2
    <3>2. Len(calls') = pos - Behind /\ pos' = pos + 1
      BY <2>1, <2>7
    <3> HIDE DEF j
    <3> QED
      BY <3>1, <3>2
  <2>9. \A m \in DOMAIN calls' : calls'[m].event = pending[Len(pending) + 1 - m]
    <3>1. \A m \in 1..(j - 1) : calls[m].event = pending[Len(pending) + 1 - m]
      BY <1>2, <2>7 DEF Generated
    <3>2. \A m \in 1..j : m \in 1..(j - 1) \/ m = j
      BY <2>2
    <3> QED
      BY <2>6, <2>7, <3>1, <3>2
  <2>10. \A k \in 1..pos : FunctionAt(k) => k \in 1..(pos - 1)
    BY <1>1, <1>2 DEF FunctionAt
  <2>11. \A k \in 1..(pos - 1) : k \in 1..pos
    BY <1>2
  <2>12. \A e : e \in declared <=> \E k \in 1..pos : FunctionAt(k) /\ stmts[k].name = e
    BY <1>2, <2>10, <2>11 DEF Generated
  <2>13. eventErrors = 0 => \A k, m \in 1..pos :
            FunctionAt(k) /\ FunctionAt(m) /\ stmts[k].name = stmts[m].name => k = m
    BY <1>2, <2>10 DEF Generated
  <2>14. pos' - 1 = pos
    BY <1>2, <2>1
  <2>15. Generated'
    BY <1>1, <1>4, <2>8, <2>9, <2>12, <2>13, <2>14, Zenon DEF Generated, FunctionAt
  <2>16. pos' \in Nat \ {0} /\ pos' <= Len(stmts) + 1
    BY <1>2, <2>1
  <2> QED
    BY <1>1, <1>3, <2>1, <2>7, <2>15, <2>16, GenerateKeepsProgram
<1> QED
    BY <1>5, <1>6

LEMMA GenerateOtherKeeps ==
    ASSUME EventsIInv, GenerateOther
    PROVE  EventsIInv'
<1>1. /\ stage = "generate" /\ pos <= Len(stmts) /\ stmts[pos].kind = "other" /\ pos' = pos + 1
      /\ UNCHANGED <<stage, stmts, pending, declared, calls, eventErrors>>
    BY DEF GenerateOther
<1>2. /\ Len(stmts) \in Nat /\ pos \in 1..Len(stmts)
      /\ DOMAIN stmts = 1..Len(stmts) /\ Len(pending) \in Nat
      /\ Behind \in 1..Len(stmts) /\ pos \notin (Behind + 1)..(Behind + Len(pending)) /\ Generated
    BY <1>1, GenerationFinds
<1>3. /\ declared \subseteq Events \cup FunctionNames
      /\ calls \in Seq(Attachments) /\ eventErrors \in Nat
    BY DEF EventsIInv, EventsTypes
<1>4. Behind' = Behind /\ pos' - 1 = pos
    BY <1>1, <1>2 DEF Behind
<1>5. Generated'
  <2>1. \A k \in 1..pos : FunctionAt(k) => k \in 1..(pos - 1)
    BY <1>1, <1>2 DEF FunctionAt
  <2>2. \A k \in 1..(pos - 1) : k \in 1..pos
    BY <1>2
  <2>3. \A e : e \in declared <=> \E k \in 1..pos : FunctionAt(k) /\ stmts[k].name = e
    BY <1>2, <2>1, <2>2 DEF Generated
  <2>4. eventErrors = 0 => \A k, m \in 1..pos :
            FunctionAt(k) /\ FunctionAt(m) /\ stmts[k].name = stmts[m].name => k = m
    BY <1>2, <2>1 DEF Generated
  <2>5. Len(calls) = IF pos' <= Behind THEN 0
                     ELSE IF pos' <= Behind + Len(pending) THEN pos' - (Behind + 1)
                     ELSE Len(pending)
    BY <1>1, <1>2 DEF Generated
  <2>6. \A m \in DOMAIN calls : calls[m].event = pending[Len(pending) + 1 - m]
    BY <1>2 DEF Generated
  <2> QED
    BY <1>1, <1>4, <2>3, <2>4, <2>5, <2>6, Zenon DEF Generated, FunctionAt
<1>6. pos' \in Nat \ {0} /\ pos' <= Len(stmts) + 1
    BY <1>1, <1>2
<1> QED
    BY <1>1, <1>3, <1>5, <1>6, GenerateKeepsProgram

LEMMA GeneratedAllKeeps ==
    ASSUME EventsIInv, GeneratedAll
    PROVE  EventsIInv'
<1>1. /\ stage = "generate" /\ pos > Len(stmts) /\ stage' = "done"
      /\ UNCHANGED <<stmts, pending, pos, declared, calls, eventErrors>>
    BY DEF GeneratedAll
<1>2. /\ pos \in Nat \ {0} /\ pos = Len(stmts) + 1 /\ Generated
    BY <1>1, GenerationFinds
<1>3. /\ declared \subseteq Events \cup FunctionNames
      /\ calls \in Seq(Attachments) /\ eventErrors \in Nat
    BY DEF EventsIInv, EventsTypes
<1>4. Generated'
    BY <1>1, <1>2 DEF Generated, FunctionAt, Behind
<1> QED
    BY <1>1, <1>2, <1>3, <1>4, GenerateKeepsProgram

LEMMA EventsKeeps == EventsIInv /\ [EventsNext]_eventVars => EventsIInv'
<1> SUFFICES ASSUME EventsIInv, [EventsNext]_eventVars PROVE EventsIInv'
    OBVIOUS
<1>1. CASE UNCHANGED eventVars
  <2>1. UNCHANGED <<stage, stmts, pending, pos, declared, calls, eventErrors>>
    BY <1>1 DEF eventVars
  <2> QED
    BY <2>1 DEF EventsIInv, EventsTypes, FunctionsOK, StageOK, NothingGenerated, Generated,
                AttachedInOrder, AttachAt, Behind, FunctionAt
<1> QED
    BY <1>1, ParseEventKeeps, ParseFunctionKeeps, ParseOtherKeeps, ParsedAllKeeps, PrependKeeps,
       GenerateFunctionKeeps, GenerateAttachKeeps, GenerateOtherKeeps, GeneratedAllKeeps
       DEF EventsNext

\* Positions counted from either end of a sequence are as many.
LEMMA MirroredCounts ==
    ASSUME NEW n \in Nat, NEW A \in SUBSET (1..n), NEW B \in SUBSET (1..n),
           \A k \in 1..n : k \in A <=> n + 1 - k \in B
    PROVE  Cardinality(A) = Cardinality(B)
<1> DEFINE mirror == [k \in A |-> n + 1 - k]
<1>1. \A k \in 1..n : n + 1 - k \in 1..n /\ n + 1 - (n + 1 - k) = k
    OBVIOUS
<1>2. mirror \in [A -> B] /\ DOMAIN mirror = A
    OBVIOUS
<1>3. \A k, m \in A : mirror[k] = mirror[m] => k = m
    OBVIOUS
<1>4. \A m \in B : n + 1 - m \in A /\ mirror[n + 1 - m] = m
    BY <1>1
<1>5. IsFiniteSet(A)
  <2>1. IsFiniteSet(1..n)
    BY FS_Interval
  <2> QED
    BY <2>1, FS_Subset
<1>6. ExistsBijection(A, B)
  <2> HIDE DEF mirror
  <2>1. mirror \in Bijection(A, B)
    BY <1>2, <1>3, <1>4 DEF Bijection, Injection, Surjection, IsInjective
  <2> QED
    BY <2>1 DEF ExistsBijection
<1> QED
    BY <1>5, <1>6, FS_Bijection

LEMMA EventsImplied == EventsIInv => EventsInv
<1> SUFFICES ASSUME EventsIInv PROVE EventsInv
    OBVIOUS
<1>1. EventsTypeOK
  <2>1. \A k \in DOMAIN stmts : stmts[k] \in Statements
    BY DEF EventsIInv, EventsTypes
  <2> QED
    BY <2>1 DEF EventsIInv, EventsTypes, EventsTypeOK, Statements
<1>2. FoundAtTheTop
  <2> SUFFICES ASSUME stage = "aborted", stmts[pos].name \in TopEvents PROVE FALSE
    BY DEF FoundAtTheTop
  <2>1. pos <= Len(stmts) /\ stmts[pos].kind = "attach" /\ stmts[pos].name \notin declared
    BY DEF EventsIInv, StageOK
  <2>2. PICK k \in DOMAIN stmts : FunctionAt(k) /\ stmts[k].name = stmts[pos].name
    BY DEF TopEvents, FunctionAt
  <2>3. pos \in DOMAIN stmts /\ k \in 1..(pos - 1)
    BY <2>1, <2>2, GenerationFinds
  <2>4. stmts[pos].name \in declared
    BY <2>2, <2>3, GenerationFinds DEF Generated
  <2> QED
    BY <2>1, <2>4
<1>3. EachAttachedOnce
  <2> SUFFICES ASSUME stage = "done" PROVE EachAttachedOnce
    BY DEF EachAttachedOnce
  <2>1. /\ Len(stmts) \in Nat /\ DOMAIN stmts = 1..Len(stmts) /\ pos = Len(stmts) + 1
        /\ pending \in Seq(Events) /\ Len(pending) \in Nat
        /\ Behind \in 1..Len(stmts) /\ Behind + Len(pending) <= Len(stmts) /\ Generated
    BY GenerationFinds DEF EventsIInv, StageOK
  <2>2. Len(calls) = Len(pending) /\ DOMAIN calls = 1..Len(pending) /\ DOMAIN pending = 1..Len(pending)
    <3>1. Len(calls) = Len(pending)
      BY <2>1 DEF Generated
    <3>2. calls \in Seq(Attachments)
      BY DEF EventsIInv, EventsTypes
    <3> QED
      BY <2>1, <3>1, <3>2
  <2>3. ASSUME NEW e \in Events
        PROVE  Cardinality({k \in DOMAIN calls : calls[k].event = e})
                   = Cardinality({k \in DOMAIN pending : pending[k] = e})
    <3> DEFINE n == Len(pending)
               A == {k \in DOMAIN calls : calls[k].event = e}
               B == {k \in DOMAIN pending : pending[k] = e}
    <3>1. A \in SUBSET (1..n) /\ B \in SUBSET (1..n) /\ n \in Nat
      BY <2>1, <2>2
    <3>2. \A k \in 1..n : k \in A <=> n + 1 - k \in B
      <4>1. \A k \in 1..n : calls[k].event = pending[n + 1 - k] /\ n + 1 - k \in 1..n
        BY <2>1, <2>2 DEF Generated
      <4> QED
        BY <2>2, <4>1
    <3> HIDE DEF n, A, B
    <3>3. Cardinality(A) = Cardinality(B)
      BY <3>1, <3>2, MirroredCounts
    <3> QED
      BY <3>3 DEF A, B
  <2>4. ASSUME eventErrors = 0, NEW k \in DOMAIN stmts, NEW m \in DOMAIN stmts,
               FunctionAt(k), FunctionAt(m), stmts[k].name = stmts[m].name
        PROVE  k = m
    <3>1. k \in 1..(pos - 1) /\ m \in 1..(pos - 1)
      BY <2>1
    <3> QED
      BY <2>1, <2>4, <3>1 DEF Generated
  <2> QED
    BY <2>3, <2>4 DEF EachAttachedOnce, FunctionAt
<1> QED
    BY <1>1, <1>2, <1>3 DEF EventsInv

\* The events of a program find their functions and are attached exactly once (Language.y
\* 81-90, Stmts.cpp 12-26, FunctionDecl.cpp 39-77, AttachInterrupt.h 18-52): the attaching
\* statements stand right behind the last function, so every function of the program is in
\* its table when the first of them is generated.
THEOREM EventsKept == EventsSpec => []EventsInv
<1>1. EventsInit => EventsIInv
    BY EventsStart
<1>2. EventsIInv /\ [EventsNext]_eventVars => EventsIInv'
    BY EventsKeeps
<1>3. EventsIInv => EventsInv
    BY EventsImplied
<1> QED
    BY <1>1, <1>2, <1>3, PTL DEF EventsSpec

-----------------------------------------------------------------------------
(* Unescape: strings are decoded where they stand *)

\* The characters from position i on, by those of later positions.
DecodedAt(s, decode, i) ==
    IF i > Len(s) THEN <<>>
    ELSE IF s[i] # Backslash THEN <<s[i]>> \o decode[i + 1]
    ELSE IF i < Len(s) /\ IsOctal(s[i + 1])
         THEN <<Number(s, i + 1) % 256>> \o decode[i + 1 + DigitsAt(s, i + 1)]
    ELSE <<Letter(s[i + 1])>> \o decode[i + 2]

\* The places of a decoding, and the characters in it.  Behind a last backslash it
\* would find anything.
Places(s) == 1..(Len(s) + 4)
Found(s) == Int \cup {Letter(s[Len(s) + 1])}

\* An octal number has one to three digits.
LEMMA DigitsLemma == ASSUME NEW s, NEW i PROVE DigitsAt(s, i) \in 1..3
BY DEF DigitsAt

\* A byte is a number: the provers need it for terms they do not look into.
LEMMA ByteInt == ASSUME NEW x \in 0..255 PROVE x \in Int
OBVIOUS

\* The characters of a string are codes.
LEMMA CodesLemma ==
    ASSUME NEW s \in Seq(Codes)
    PROVE  Len(s) \in Nat /\ \A i \in 1..Len(s) : s[i] \in Codes /\ s[i] \in 0..255 /\ s[i] \in Int
<1>1. Len(s) \in Nat /\ \A i \in 1..Len(s) : s[i] \in Codes
  BY ElementOfSeq
<1>2. \A c \in Codes : c \in 0..255 /\ c \in Int
  BY DEF Codes
<1> QED
  BY <1>1, <1>2

\* Codes are numbers, and so is what they stand for.
LEMMA NumberLemma ==
    ASSUME NEW s \in Seq(Codes), NEW i \in 1..Len(s), IsOctal(s[i])
    PROVE  /\ Number(s, i) \in 0..511
           /\ Number(s, i) % 256 \in 0..255
<1>1. \A x \in 0..7 : x \in 0..511
  OBVIOUS
<1>2. DigitsAt(s, i) \in 1..3 /\ Len(s) \in Nat
  BY DigitsLemma, CodesLemma
<1>3. /\ DigitsAt(s, i) > 1 => i + 1 \in 1..Len(s) /\ IsOctal(s[i + 1])
      /\ DigitsAt(s, i) > 2 => i + 2 \in 1..Len(s) /\ IsOctal(s[i + 2])
  BY <1>2 DEF DigitsAt
<1>4. \A c : IsOctal(c) => DigitValue(c) \in 0..7
  BY DEF IsOctal, DigitValue, Zero
<1>5. Number(s, i) \in 0..511
  <2>1. CASE DigitsAt(s, i) = 1
    BY <1>1, <1>4, <2>1 DEF Number
  <2>2. CASE DigitsAt(s, i) = 2
    <3>1. PICK x \in 0..7, y \in 0..7 : x = DigitValue(s[i]) /\ y = DigitValue(s[i + 1])
      BY <1>3, <1>4, <2>2
    <3>2. Number(s, i) = 8 * x + y
      BY <2>2, <3>1 DEF Number
    <3>3. 8 * x + y \in 0..511
      OBVIOUS
    <3> QED
      BY <3>2, <3>3
  <2>3. CASE DigitsAt(s, i) = 3
    <3>1. PICK x \in 0..7, y \in 0..7, z \in 0..7 :
             x = DigitValue(s[i]) /\ y = DigitValue(s[i + 1]) /\ z = DigitValue(s[i + 2])
      BY <1>3, <1>4, <2>3
    <3>2. Number(s, i) = 64 * x + 8 * y + z
      BY <2>3, <3>1 DEF Number
    <3>3. 64 * x + 8 * y + z \in 0..511
      OBVIOUS
    <3> QED
      BY <3>2, <3>3
  <2> QED
    BY <1>2, <2>1, <2>2, <2>3
<1>6. PICK n \in 0..511 : n = Number(s, i)
  BY <1>5
<1>7. n % 256 \in 0..255
  OBVIOUS
<1> QED
  BY <1>6, <1>7

\* The character that a letter stands for is a byte.
LEMMA LetterLemma == ASSUME NEW c \in 0..255 PROVE Letter(c) \in 0..255
<1>1. CASE c \in {97, 98, 102, 110, 114, 116, 118}
  BY <1>1 DEF Letter
<1>2. CASE c \notin {97, 98, 102, 110, 114, 116, 118}
  <2>1. Letter(c) = c
    BY <1>2 DEF Letter
  <2> QED
    BY <2>1
<1> QED
  BY <1>1, <1>2

\* What is found at a position depends on later positions only.
LEMMA DecodedAtLater ==
    ASSUME NEW s \in Seq(Codes), NEW i \in Places(s), NEW f, NEW g,
           \A j \in Places(s) : j > i => f[j] = g[j]
    PROVE  DecodedAt(s, f, i) = DecodedAt(s, g, i)
<1>1. CASE i > Len(s)
  BY <1>1 DEF DecodedAt
<1>2. CASE i <= Len(s)
  <2>1. DigitsAt(s, i + 1) \in 1..3 /\ Len(s) \in Nat
    BY DigitsLemma
  <2>2. /\ f[i + 1] = g[i + 1] /\ f[i + 2] = g[i + 2]
        /\ f[i + 1 + DigitsAt(s, i + 1)] = g[i + 1 + DigitsAt(s, i + 1)]
    BY <1>2, <2>1 DEF Places
  <2> QED
    BY <2>2 DEF DecodedAt
<1> QED
  BY <1>1, <1>2 DEF Places

\* What is found at a position is a sequence, if that holds for later positions.
LEMMA DecodedAtTyped ==
    ASSUME NEW s \in Seq(Codes), NEW i \in Places(s), NEW f,
           \A j \in Places(s) : j > i => f[j] \in Seq(Found(s))
    PROVE  DecodedAt(s, f, i) \in Seq(Found(s))
<1> DEFINE X == Found(s)
<1>1. CASE i > Len(s)
  BY <1>1 DEF DecodedAt
<1>2. CASE i <= Len(s)
  <2>1. DigitsAt(s, i + 1) \in 1..3 /\ Len(s) \in Nat /\ i \in 1..Len(s)
    BY <1>2, DigitsLemma DEF Places
  <2>2. /\ f[i + 1] \in Seq(X) /\ f[i + 2] \in Seq(X)
        /\ f[i + 1 + DigitsAt(s, i + 1)] \in Seq(X)
    BY <1>2, <2>1 DEF Places
  <2>3. s[i] \in X
    BY <2>1, CodesLemma DEF Found
  <2>4. i < Len(s) /\ IsOctal(s[i + 1]) => Number(s, i + 1) % 256 \in X
    <3> SUFFICES ASSUME i < Len(s), IsOctal(s[i + 1]) PROVE Number(s, i + 1) % 256 \in X
      OBVIOUS
    <3>1. i + 1 \in 1..Len(s)
      BY <2>1
    <3>2. Number(s, i + 1) % 256 \in 0..255
      BY <3>1, NumberLemma
    <3>3. Number(s, i + 1) % 256 \in Int
      BY <3>2, ByteInt
    <3> QED
      BY <3>3 DEF Found
  <2>5. Letter(s[i + 1]) \in X
    <3>1. CASE i = Len(s)
      BY <3>1 DEF Found
    <3>2. CASE i # Len(s)
      <4>1. i + 1 \in 1..Len(s)
        BY <2>1, <3>2
      <4>2. s[i + 1] \in 0..255
        BY <4>1, CodesLemma
      <4>3. Letter(s[i + 1]) \in Int
        <5>1. Letter(s[i + 1]) \in 0..255
          BY <4>2, LetterLemma
        <5> QED
          BY <5>1, ByteInt
      <4> QED
        BY <4>3 DEF Found
    <3> QED
      BY <3>1, <3>2
  <2> HIDE DEF X
  <2>6. \A x \in X, r \in Seq(X) : <<x>> \o r \in Seq(X)
    OBVIOUS
  <2>7. DecodedAt(s, f, i) \in Seq(X)
    <3>1. CASE s[i] # Backslash
      <4>1. DecodedAt(s, f, i) = <<s[i]>> \o f[i + 1]
        BY <2>1, <3>1 DEF DecodedAt
      <4> QED
        BY <2>2, <2>3, <2>6, <4>1
    <3>2. CASE s[i] = Backslash /\ i < Len(s) /\ IsOctal(s[i + 1])
      <4>1. DecodedAt(s, f, i)
              = <<Number(s, i + 1) % 256>> \o f[i + 1 + DigitsAt(s, i + 1)]
        BY <2>1, <3>2 DEF DecodedAt
      <4> QED
        BY <2>2, <2>4, <2>6, <3>2, <4>1
    <3>3. CASE s[i] = Backslash /\ ~ (i < Len(s) /\ IsOctal(s[i + 1]))
      <4>1. DecodedAt(s, f, i) = <<Letter(s[i + 1])>> \o f[i + 2]
        BY <2>1, <3>3 DEF DecodedAt
      <4> QED
        BY <2>2, <2>5, <2>6, <4>1
    <3> QED
      BY <3>1, <3>2, <3>3
  <2> QED
    BY <2>7 DEF X
<1> QED
  BY <1>1, <1>2 DEF Places

\* Every string has a decoding: it is found from the last position back to the first.
LEMMA DecodingExists ==
    ASSUME NEW s \in Seq(Codes)
    PROVE  \E f : f = [i \in Places(s) |-> DecodedAt(s, f, i)]
<1> DEFINE N == Len(s) + 4
           Partial(k, f) == /\ f = [i \in 1..N |-> f[i]]
                            /\ \A i \in k..N : f[i] = DecodedAt(s, f, i)
           A == {k \in 1..(N + 1) : \E f : Partial(k, f)}
<1>0. N \in Nat \ {0} /\ Places(s) = 1..N
  BY DEF Places
<1> HIDE DEF N
<1>1. N + 1 \in A
  <2> DEFINE f == [i \in 1..N |-> <<>>]
  <2>1. Partial(N + 1, f)
    <3>1. (N + 1)..N = {}
      BY <1>0
    <3> QED
      BY <3>1
  <2> QED
    BY <1>0, <2>1
<1>2. PICK m \in A : \A c \in A : m <= c
  <2>1. A \in SUBSET Nat /\ A # {}
    BY <1>0, <1>1
  <2> HIDE DEF A
  <2> QED
    BY <2>1, LeastOf
<1>3. PICK f : Partial(m, f)
  BY <1>2
<1>4. m = 1
  <2> SUFFICES ASSUME m > 1 PROVE FALSE
    BY <1>0, <1>2
  <2> DEFINE k == m - 1
             g == [i \in 1..N |-> IF i = k THEN DecodedAt(s, f, k) ELSE f[i]]
  <2>1. k \in 1..N /\ m \in 2..(N + 1) /\ k < m /\ \A i \in k..N : i = k \/ i \in m..N
    BY <1>0, <1>2
  <2>2. g = [i \in 1..N |-> g[i]] /\ g[k] = DecodedAt(s, f, k)
        /\ \A i \in 1..N : i > k => g[i] = f[i]
    BY <2>1
  <2> HIDE DEF g
  <2>3. ASSUME NEW i \in k..N PROVE DecodedAt(s, g, i) = DecodedAt(s, f, i)
    <3>1. i \in Places(s) /\ \A j \in Places(s) : j > i => g[j] = f[j]
      BY <1>0, <2>1, <2>2
    <3> QED
      BY <3>1, DecodedAtLater
  <2>4. ASSUME NEW i \in k..N PROVE g[i] = DecodedAt(s, g, i)
    <3>1. CASE i = k
      BY <2>2, <2>3, <3>1
    <3>2. CASE i \in m..N
      <4>1. i \in 1..N /\ i > k
        BY <1>0, <2>1, <3>2
      <4> QED
        BY <1>3, <2>2, <2>3, <3>2, <4>1
    <3> QED
      BY <2>1, <3>1, <3>2
  <2>5. Partial(k, g)
    BY <2>2, <2>4
  <2>6. k \in A
    <3>1. k \in 1..(N + 1)
      BY <1>0, <2>1
    <3> HIDE DEF k, Partial
    <3> QED
      BY <2>5, <3>1
  <2> QED
    BY <1>2, <2>1, <2>6
<1>5. f = [i \in 1..N |-> DecodedAt(s, f, i)]
  BY <1>3, <1>4
<1> QED
  BY <1>0, <1>5

\* The decoding of a string is found position by position.
LEMMA DecodingLemma ==
    ASSUME NEW s \in Seq(Codes)
    PROVE  /\ \A i \in Places(s) : Decoding(s)[i] = DecodedAt(s, Decoding(s), i)
           /\ \A i \in Places(s) : Decoding(s)[i] \in Seq(Found(s))
<1> DEFINE d == Decoding(s)
           N == Len(s) + 4
<1>1. d = CHOOSE f : f = [i \in Places(s) |-> DecodedAt(s, f, i)]
  BY DEF Decoding, DecodedAt, Places
<1>2. d = [i \in Places(s) |-> DecodedAt(s, d, i)]
  BY <1>1, DecodingExists
<1> HIDE DEF d
<1>3. \A i \in Places(s) : d[i] = DecodedAt(s, d, i)
  BY <1>2
<1>4. N \in Nat /\ Places(s) = 1..N
  BY DEF Places
<1> DEFINE B == {j \in 1..N : d[N + 1 - j] \notin Seq(Found(s))}
<1> HIDE DEF N
<1>5. B = {}
  <2> SUFFICES ASSUME B # {} PROVE FALSE
    OBVIOUS
  <2>1. B \in SUBSET Nat
    BY <1>4
  <2>2. PICK b \in B : \A c \in B : b <= c
    <3> HIDE DEF B
    <3> QED
      BY <2>1, LeastOf
  <2> DEFINE i == N + 1 - b
  <2>3. i \in Places(s) /\ b \in 1..N
    BY <1>4, <2>2
  <2>4. ASSUME NEW j \in Places(s), j > i PROVE d[j] \in Seq(Found(s))
    <3>1. N + 1 - j \in 1..N /\ N + 1 - j < b /\ N + 1 - (N + 1 - j) = j
      BY <1>4, <2>3, <2>4
    <3>2. N + 1 - j \notin B
      BY <2>2, <2>3, <3>1
    <3> QED
      BY <3>1, <3>2
  <2>5. d[i] \in Seq(Found(s))
    <3> HIDE DEF i, B
    <3>1. DecodedAt(s, d, i) \in Seq(Found(s))
      BY <2>3, <2>4, DecodedAtTyped
    <3> QED
      BY <1>3, <2>3, <3>1
  <2> QED
    BY <2>2, <2>5
<1>6. ASSUME NEW i \in Places(s) PROVE d[i] \in Seq(Found(s))
  <2>1. N + 1 - i \in 1..N /\ N + 1 - (N + 1 - i) = i
    BY <1>4
  <2> QED
    BY <1>5, <2>1
<1> QED
  BY <1>3, <1>6 DEF d

-----------------------------------------------------------------------------

\* The inductive invariant: what is written and what is still to be decoded make up
\* the decoded string, and no escape sequence is under way where the reader is.
Split(ends) == Splits(source, ends) /\ (~ done => ends[current - 1])
Progress == SubSeq(data, 1, unescaped - 1) \o Decoding(source)[current]
UnescapeIInv ==
    /\ UnescapeInv
    /\ source \in Seq(Codes)
    /\ \E ends \in [0..Len(source) -> BOOLEAN] : Split(ends)
    /\ ~ done => Progress = Decoded(source)

\* What the reader finds, and where.
LEMMA Ahead ==
    ASSUME UnescapeIInv, ~ done
    PROVE  /\ Len(source) \in Nat /\ Len(data) = Len(source) + 1 /\ data \in Seq(0..255)
           /\ current \in 1..(Len(source) + 1) /\ unescaped \in 1..current
           /\ \A i \in current..Len(source) : At(i) = source[i] /\ source[i] \in Codes
           /\ \A i \in Nat : i > Len(source) => At(i) = Nul
<1>1. /\ source \in Seq(Codes) /\ data \in Seq(0..255) /\ Len(data) = Len(source) + 1
      /\ current \in 1..(Len(source) + 1) /\ unescaped \in 1..current
      /\ \A i \in current..Len(data) : data[i] = Append(source, Nul)[i]
  BY DEF UnescapeIInv, UnescapeInv, UnescapeTypeOK
<1>2. Len(source) \in Nat /\ \A i \in 1..Len(source) : source[i] \in Codes
  BY <1>1, CodesLemma
<1>3. /\ \A i \in 1..Len(source) : Append(source, Nul)[i] = source[i]
      /\ Append(source, Nul)[Len(source) + 1] = Nul
  BY <1>1
<1>4. DOMAIN data = 1..Len(data)
  BY <1>1
<1>5. ASSUME NEW i \in current..Len(source) PROVE At(i) = source[i] /\ source[i] \in Codes
  <2>1. i \in 1..Len(source) /\ i \in current..Len(data) /\ i \in DOMAIN data
    BY <1>1, <1>2, <1>4
  <2> QED
    BY <1>1, <1>2, <1>3, <2>1 DEF At
<1>6. ASSUME NEW i \in Nat, i > Len(source) PROVE At(i) = Nul
  <2>1. CASE i = Len(source) + 1
    <3>1. i \in current..Len(data) /\ i \in DOMAIN data
      BY <1>1, <1>2, <1>4, <2>1
    <3> QED
      BY <1>1, <1>3, <2>1, <3>1 DEF At
  <2>2. CASE i # Len(source) + 1
    <3>1. i \notin DOMAIN data
      BY <1>1, <1>2, <1>4, <1>6, <2>2
    <3> QED
      BY <3>1 DEF At
  <2> QED
    BY <2>1, <2>2
<1> QED
  BY <1>1, <1>2, <1>5, <1>6

\* One more character is written.
LEMMA WriteLemma ==
    ASSUME NEW X, NEW d \in Seq(X), NEW u \in 1..Len(d), NEW c \in X
    PROVE  LET e == [d EXCEPT ![u] = c]
           IN  /\ e \in Seq(X) /\ Len(e) = Len(d)
               /\ \A i \in 1..Len(d) : i # u => e[i] = d[i]
               /\ SubSeq(e, 1, u) = Append(SubSeq(d, 1, u - 1), c)
<1> DEFINE e == [d EXCEPT ![u] = c]
<1>1. /\ e \in Seq(X) /\ Len(e) = Len(d) /\ Len(d) \in Nat
      /\ \A i \in 1..Len(d) : i # u => e[i] = d[i]
      /\ e[u] = c
  OBVIOUS
<1> HIDE DEF e
<1> DEFINE l == SubSeq(e, 1, u)
           r == Append(SubSeq(d, 1, u - 1), c)
<1>2. /\ l \in Seq(X) /\ Len(l) = u /\ \A i \in 1..u : l[i] = e[i]
  <2>1. 1 \in 1..(Len(e) + 1) /\ u \in (1 - 1)..Len(e) /\ u - 1 + 1 = u
    BY <1>1
  <2> QED
    BY <1>1, <2>1, SubSeqProperties
<1>3. /\ SubSeq(d, 1, u - 1) \in Seq(X) /\ Len(SubSeq(d, 1, u - 1)) = u - 1
      /\ \A i \in 1..(u - 1) : SubSeq(d, 1, u - 1)[i] = d[i]
  <2>1. 1 \in 1..(Len(d) + 1) /\ u - 1 \in (1 - 1)..Len(d)
    BY <1>1
  <2> QED
    BY <1>1, <2>1, SubSeqProperties
<1>4. r \in Seq(X) /\ Len(r) = u /\ r[u] = c /\ \A i \in 1..(u - 1) : r[i] = d[i]
  <2> DEFINE p == SubSeq(d, 1, u - 1)
  <2>1. p \in Seq(X) /\ Len(p) = u - 1 /\ \A i \in 1..(u - 1) : p[i] = d[i]
    BY <1>3
  <2> HIDE DEF p
  <2>2. /\ Append(p, c) \in Seq(X) /\ Len(Append(p, c)) = u /\ Append(p, c)[u] = c
        /\ \A i \in 1..(u - 1) : Append(p, c)[i] = d[i]
    BY <2>1
  <2> QED
    BY <2>2 DEF p
<1> HIDE DEF l, r
<1>5. \A i \in 1..u : l[i] = r[i]
  <2> TAKE i \in 1..u
  <2>1. CASE i = u
    BY <1>1, <1>2, <1>4, <2>1
  <2>2. CASE i # u
    <3>1. i \in 1..(u - 1) /\ i \in 1..Len(d)
      BY <1>1, <2>2
    <3> QED
      BY <1>1, <1>2, <1>4, <2>2, <3>1
  <2> QED
    BY <2>1, <2>2
<1>6. l = r
  BY <1>2, <1>4, <1>5, SeqEqual
<1> QED
  BY <1>1, <1>6 DEF e, l, r

\* A turn of the loop that decodes one character, and ends where no escape sequence
\* is under way.
LEMMA TurnKeeps ==
    ASSUME UnescapeIInv, ~ done, NEW c \in 0..255, NEW next, Turn(c, next),
           next \in (current + 1)..(Len(source) + 1),
           Decoding(source)[current] = <<c>> \o Decoding(source)[next],
           NEW ends \in [0..Len(source) -> BOOLEAN], Splits(source, ends), ends[next - 1]
    PROVE  UnescapeIInv'
<1>1. /\ Len(source) \in Nat /\ Len(data) = Len(source) + 1 /\ data \in Seq(0..255)
      /\ current \in 1..(Len(source) + 1) /\ unescaped \in 1..current
  BY Ahead
<1>2. /\ data' = [data EXCEPT ![unescaped] = c] /\ unescaped' = unescaped + 1
      /\ current' = next /\ strayed' = (strayed \/ next > Len(data)) /\ source' = source
      /\ done' = done
  BY DEF Turn
<1>3. /\ source \in Seq(Chars) /\ source \in Seq(Codes) /\ strayed = FALSE
      /\ \A i \in current..Len(data) : data[i] = Append(source, Nul)[i]
  BY DEF UnescapeIInv, UnescapeInv, UnescapeTypeOK, StaysInside
<1>a. strayed' = FALSE
  <2>1. ~ (next > Len(data))
    BY <1>1
  <2>2. strayed' = (strayed \/ next > Len(data)) /\ strayed = FALSE
    BY <1>2, <1>3
  <2> QED
    BY <2>1, <2>2, Zenon
<1>4. /\ data' \in Seq(0..255) /\ Len(data') = Len(data)
      /\ \A i \in 1..Len(data) : i # unescaped => data'[i] = data[i]
      /\ SubSeq(data', 1, unescaped) = Append(SubSeq(data, 1, unescaped - 1), c)
  <2> DEFINE X == 0..255
  <2>1. data \in Seq(X) /\ unescaped \in 1..Len(data) /\ c \in X
    BY <1>1
  <2> HIDE DEF X
  <2>2. LET e == [data EXCEPT ![unescaped] = c]
        IN  /\ e \in Seq(X) /\ Len(e) = Len(data)
            /\ \A i \in 1..Len(data) : i # unescaped => e[i] = data[i]
            /\ SubSeq(e, 1, unescaped) = Append(SubSeq(data, 1, unescaped - 1), c)
    BY <2>1, WriteLemma
  <2> QED
    BY <1>2, <2>2 DEF X
<1>5. UnescapeTypeOK'
  <2>1. ASSUME NEW i \in next..Len(data) PROVE data'[i] = Append(source, Nul)[i]
    <3>1. i \in 1..Len(data) /\ i # unescaped /\ i \in current..Len(data)
      BY <1>1
    <3> QED
      BY <1>3, <1>4, <3>1
  <2>2. current' \in 1..(Len(source') + 1) /\ unescaped' \in 1..current'
    BY <1>1, <1>2
  <2>3. strayed' \in BOOLEAN /\ done' \in BOOLEAN
    BY <1>2, <1>a DEF UnescapeIInv, UnescapeInv, UnescapeTypeOK
  <2> QED
    BY <1>1, <1>2, <1>3, <1>4, <2>1, <2>2, <2>3 DEF UnescapeTypeOK
<1>6. ~ strayed'
  BY <1>a
<1>7. ~ done'
  BY <1>2
<1>8. UnescapeInv'
  BY <1>5, <1>6, <1>7 DEF UnescapeInv, StaysInside, DecodesInPlace
<1>9. Split(ends)'
  BY <1>2 DEF Split
<1>10. Progress' = Progress
  <2> DEFINE w == SubSeq(data, 1, unescaped - 1)
             r == Decoding(source)[next]
             X == Found(source)
  <2>1. r \in Seq(X)
    <3>1. next \in Places(source)
      BY <1>1 DEF Places
    <3> QED
      BY <1>3, <3>1, DecodingLemma
  <2>2. w \in Seq(0..255)
    <3> DEFINE Y == 0..255
    <3>1. data \in Seq(Y) /\ 1 \in 1..(Len(data) + 1) /\ unescaped - 1 \in (1 - 1)..Len(data)
      BY <1>1
    <3> HIDE DEF Y
    <3>2. SubSeq(data, 1, unescaped - 1) \in Seq(Y)
      BY <3>1, SubSeqProperties
    <3> QED
      BY <3>2 DEF Y
  <2>3. SubSeq(data', 1, unescaped' - 1) = Append(w, c)
    <3>1. unescaped' - 1 = unescaped
      BY <1>1, <1>2
    <3> QED
      BY <1>4, <3>1
  <2>4. Progress' = Append(w, c) \o r /\ Progress = w \o (<<c>> \o r)
    BY <1>2, <2>3 DEF Progress
  <2>5. w \in Seq(Int \cup X) /\ r \in Seq(Int \cup X) /\ c \in Int \cup X
    <3>1. /\ \A i \in 1..Len(w) : w[i] \in 0..255
          /\ \A i \in 1..Len(r) : r[i] \in X
      BY <2>1, <2>2, ElementOfSeq
    <3>2. \A i \in 1..Len(w) : w[i] \in Int \cup X
      BY <3>1, ByteInt
    <3> HIDE DEF w, r, X
    <3> QED
      BY <2>1, <2>2, <3>1, <3>2
  <2> HIDE DEF w, r, X
  <2>6. Append(w, c) \o r = w \o (<<c>> \o r)
    <3> DEFINE Z == Int \cup X
    <3>1. w \in Seq(Z) /\ r \in Seq(Z) /\ c \in Z
      BY <2>5
    <3> HIDE DEF Z
    <3>2. <<c>> \in Seq(Z) /\ Append(w, c) = w \o <<c>>
      BY <3>1, AppendIsConcat
    <3> QED
      BY <3>1, <3>2, ConcatAssociative
  <2> QED
    BY <2>4, <2>6
<1>11. Decoded(source)' = Decoded(source)
  BY <1>2
<1>12. Progress' = Decoded(source)'
  BY <1>10, <1>11 DEF UnescapeIInv
<1> QED
  BY <1>2, <1>3, <1>8, <1>9, <1>12 DEF UnescapeIInv

\* What comes after a character that is read: the way strings are split.
LEMMA SplitsNext ==
    ASSUME NEW s, NEW ends \in [0..Len(s) -> BOOLEAN], Splits(s, ends), NEW i \in 1..Len(s)
    PROVE  /\ ends[i - 1] /\ s[i] # Backslash => ends[i]
           /\ ends[i - 1] /\ s[i] = Backslash => ~ ends[i]
           /\ ~ ends[i - 1] => ends[i]
           /\ ends[Len(s)]
BY DEF Splits

\* A position that is read is in the string, unless what it holds is zero.
LEMMA InString ==
    ASSUME UnescapeIInv, ~ done, NEW i \in current..(Len(source) + 3), At(i) # Nul
    PROVE  i \in current..Len(source) /\ i \in 1..Len(source) /\ At(i) = source[i]
           /\ source[i] \in Codes
<1>1. Len(source) \in Nat /\ current \in 1..(Len(source) + 1)
  BY Ahead
<1>2. ~ (i > Len(source))
  <2> SUFFICES ASSUME i > Len(source) PROVE FALSE
    OBVIOUS
  <2>1. i \in Nat
    BY <1>1
  <2> QED
    BY <2>1, Ahead
<1>3. i \in current..Len(source) /\ i \in 1..Len(source)
  BY <1>1, <1>2
<1> QED
  BY <1>3, Ahead

\* A digit is neither the end of the string nor a backslash.
LEMMA OctalNul == \A c : IsOctal(c) => c # Nul /\ c # Backslash
BY DEF IsOctal, Zero, Nul, Backslash

\* A backslash does not end the string, and no character does.
LEMMA BackslashNul == Backslash # Nul /\ Nul \notin Codes
BY DEF Backslash, Nul, Codes

\* What is decoded where the reader is.
LEMMA DecodedHere ==
    ASSUME UnescapeIInv, ~ done
    PROVE  Decoding(source)[current] = DecodedAt(source, Decoding(source), current)
<1>1. source \in Seq(Codes)
  BY DEF UnescapeIInv
<1>2. current \in Places(source)
  BY Ahead DEF Places
<1> QED
  BY <1>1, <1>2, DecodingLemma

\* A character that stands for itself is copied to where the writer is.
LEMMA PlainKeeps == ASSUME UnescapeIInv, Plain PROVE UnescapeIInv'
<1>1. ~ done /\ At(current) \notin {Nul, Backslash} /\ Turn(At(current), current + 1)
  BY DEF Plain
<1>2. Len(source) \in Nat /\ current \in 1..(Len(source) + 1)
  BY <1>1, Ahead
<1>3. current \in 1..Len(source) /\ At(current) = source[current] /\ source[current] \in Codes
  <2>1. current \in current..(Len(source) + 3)
    BY <1>2
  <2> QED
    BY <1>1, <2>1, InString
<1>4. PICK ends \in [0..Len(source) -> BOOLEAN] : Split(ends)
  BY DEF UnescapeIInv
<1>5. Splits(source, ends) /\ ends[(current + 1) - 1]
  <2>1. Splits(source, ends) /\ ends[current - 1]
    BY <1>1, <1>4 DEF Split
  <2>2. (current + 1) - 1 = current
    BY <1>2
  <2> QED
    BY <1>1, <1>3, <2>1, <2>2, SplitsNext
<1>6. Decoding(source)[current] = <<At(current)>> \o Decoding(source)[current + 1]
  <2>1. ~ (current > Len(source))
    BY <1>2, <1>3
  <2> QED
    BY <1>1, <1>3, <2>1, DecodedHere DEF DecodedAt
<1>7. At(current) \in 0..255 /\ current + 1 \in (current + 1)..(Len(source) + 1)
  BY <1>2, <1>3 DEF Codes
<1> QED
  BY <1>1, <1>5, <1>6, <1>7, TurnKeeps

\* The digits that the code takes are those of the decoding.
LEMMA OctalIs ==
    ASSUME UnescapeIInv, ~ done, current + 1 <= Len(source), IsOctal(At(current + 1))
    PROVE  LET i == current + 1
           IN  /\ OctalEnd(i) + 1 = i + DigitsAt(source, i)
               /\ OctalValue(i, OctalEnd(i)) = Number(source, i) % 256
               /\ \A j \in i..OctalEnd(i) : j \in 1..Len(source) /\ IsOctal(source[j])
               /\ OctalEnd(i) \in i..Len(source) /\ IsOctal(source[i])
<1> DEFINE i == current + 1
           s == source
<1>1. Len(s) \in Nat /\ current \in 1..(Len(s) + 1)
  BY Ahead
<1>2. i \in 2..Len(s) /\ i \in Nat
  BY <1>1
<1>3. ASSUME NEW j \in i..(i + 2), j \in 1..Len(s) \/ IsOctal(At(j))
      PROVE  j \in 1..Len(s) /\ At(j) = s[j]
  <2>1. j \in current..(Len(s) + 3)
    BY <1>1, <1>2
  <2>2. CASE IsOctal(At(j))
    BY <2>1, <2>2, InString, OctalNul
  <2>3. CASE j \in 1..Len(s)
    <3>1. j \in current..Len(s)
      BY <1>1, <2>1, <2>3
    <3> QED
      BY <2>3, <3>1, Ahead
  <2> QED
    BY <1>3, <2>2, <2>3
<1>4. i \in i..(i + 2) /\ i + 1 \in i..(i + 2) /\ i + 2 \in i..(i + 2)
  BY <1>2
<1>5. /\ At(i) = s[i]
      /\ i + 1 \in 1..Len(s) \/ IsOctal(At(i + 1)) => At(i + 1) = s[i + 1] /\ i + 1 \in 1..Len(s)
      /\ i + 2 \in 1..Len(s) \/ IsOctal(At(i + 2)) => At(i + 2) = s[i + 2] /\ i + 2 \in 1..Len(s)
  BY <1>3, <1>4
<1>6. /\ i + 1 \in 1..Len(s) <=> i < Len(s)
      /\ i + 2 \in 1..Len(s) <=> i + 1 < Len(s)
  BY <1>1, <1>2
<1>7. IsOctal(s[i])
  BY <1>5
<1> HIDE DEF i, s
<1>8. CASE DigitsAt(s, i) = 1
  <2>1. ~ (i < Len(s) /\ IsOctal(s[i + 1]))
    BY <1>8 DEF DigitsAt
  <2>2. ~ IsOctal(At(i + 1))
    BY <1>5, <1>6, <2>1
  <2>3. OctalEnd(i) = i
    BY <2>2 DEF OctalEnd
  <2>4. \A j \in i..i : j = i
    BY <1>2
  <2>5. OctalValue(i, OctalEnd(i)) = Number(s, i) % 256
    BY <1>5, <1>8, <2>3 DEF OctalValue, Number
  <2> QED
    BY <1>2, <1>7, <1>8, <2>3, <2>4, <2>5 DEF i, s
<1>9. CASE DigitsAt(s, i) = 2
  <2>1. i < Len(s) /\ IsOctal(s[i + 1]) /\ ~ (i + 1 < Len(s) /\ IsOctal(s[i + 2]))
    BY <1>9 DEF DigitsAt
  <2>2. IsOctal(At(i + 1)) /\ ~ IsOctal(At(i + 2))
    BY <1>5, <1>6, <2>1
  <2>3. OctalEnd(i) = i + 1 /\ i + 1 # i
    BY <1>2, <2>2 DEF OctalEnd
  <2>4. \A j \in i..(i + 1) : j = i \/ j = i + 1
    BY <1>2
  <2>5. OctalValue(i, OctalEnd(i)) = Number(s, i) % 256
    BY <1>5, <1>6, <1>9, <2>1, <2>3 DEF OctalValue, Number
  <2> QED
    BY <1>2, <1>5, <1>6, <1>7, <1>9, <2>1, <2>3, <2>4, <2>5 DEF i, s
<1>10. CASE DigitsAt(s, i) = 3
  <2>1. i < Len(s) /\ IsOctal(s[i + 1]) /\ i + 1 < Len(s) /\ IsOctal(s[i + 2])
    BY <1>10 DEF DigitsAt
  <2>2. IsOctal(At(i + 1)) /\ IsOctal(At(i + 2))
    BY <1>5, <1>6, <2>1
  <2>3. OctalEnd(i) = i + 2 /\ i + 2 # i /\ i + 2 # i + 1
    BY <1>2, <2>2 DEF OctalEnd
  <2>4. \A j \in i..(i + 2) : j = i \/ j = i + 1 \/ j = i + 2
    BY <1>2
  <2>5. OctalValue(i, OctalEnd(i)) = Number(s, i) % 256
    BY <1>5, <1>6, <1>10, <2>1, <2>3 DEF OctalValue, Number
  <2> QED
    BY <1>2, <1>5, <1>6, <1>7, <1>10, <2>1, <2>3, <2>4, <2>5 DEF i, s
<1>11. DigitsAt(s, i) \in 1..3
  BY DigitsLemma
<1> QED
  BY <1>8, <1>9, <1>10, <1>11

\* An octal number becomes one character, read up to its last digit.
LEMMA OctalKeeps == ASSUME UnescapeIInv, Octal PROVE UnescapeIInv'
<1> DEFINE i == current + 1
           e == OctalEnd(i)
<1>1. /\ ~ done /\ At(current) = Backslash /\ IsOctal(At(i))
      /\ Turn(OctalValue(i, e), e + 1)
  BY DEF Octal
<1>2. Len(source) \in Nat /\ current \in 1..(Len(source) + 1)
  BY <1>1, Ahead
<1>3. current \in 1..Len(source) /\ source[current] = Backslash /\ i \in 1..Len(source)
  <2>1. current \in current..(Len(source) + 3) /\ i \in current..(Len(source) + 3)
    BY <1>2
  <2> QED
    BY <1>1, <2>1, InString, OctalNul, BackslashNul
<1>4. /\ e + 1 = i + DigitsAt(source, i)
      /\ OctalValue(i, e) = Number(source, i) % 256
      /\ \A j \in i..e : j \in 1..Len(source) /\ IsOctal(source[j])
      /\ e \in i..Len(source) /\ IsOctal(source[i])
  <2>1. current + 1 <= Len(source)
    BY <1>2, <1>3
  <2> QED
    BY <1>1, <2>1, OctalIs
<1>5. PICK ends \in [0..Len(source) -> BOOLEAN] : Split(ends)
  BY DEF UnescapeIInv
<1>6. Splits(source, ends) /\ ends[current - 1]
  BY <1>1, <1>5 DEF Split
<1>7. i - 1 = current /\ ~ ends[i - 1]
  <2>1. i - 1 = current
    BY <1>2
  <2> QED
    BY <1>3, <1>6, <2>1, SplitsNext
<1> HIDE DEF i, e
<1>8. ends[e]
  <2>0. \A j \in i..e : j \in 1..Len(source) /\ source[j] # Backslash
    BY <1>4, OctalNul
  <2>1. ends[i]
    BY <1>3, <1>6, <1>7, SplitsNext
  <2>2. ASSUME NEW j \in i..e, ends[j], j + 1 \in i..e PROVE ends[j + 1]
    <3>1. (j + 1) - 1 = j
      BY <1>3
    <3> QED
      BY <1>6, <2>0, <2>2, <3>1, SplitsNext
  <2>3. DigitsAt(source, i) \in 1..3
    BY DigitsLemma
  <2>4. e = i \/ e = i + 1 \/ e = i + 2
    BY <1>3, <1>4, <2>3
  <2>5. CASE e = i
    BY <2>1, <2>5
  <2>6. CASE e = i + 1
    <3>1. i \in i..e /\ i + 1 \in i..e
      BY <1>3, <2>6
    <3> QED
      BY <2>1, <2>2, <2>6, <3>1
  <2>7. CASE e = i + 2
    <3>1. i \in i..e /\ i + 1 \in i..e /\ (i + 1) + 1 \in i..e /\ (i + 1) + 1 = e
      BY <1>3, <2>7
    <3>2. ends[i + 1]
      BY <2>1, <2>2, <3>1
    <3> QED
      BY <2>2, <3>1, <3>2
  <2> QED
    BY <2>4, <2>5, <2>6, <2>7
<1>9. ends[(e + 1) - 1]
  <2>1. (e + 1) - 1 = e
    BY <1>3, <1>4
  <2> QED
    BY <1>8, <2>1
<1>10. Decoding(source)[current] = <<OctalValue(i, e)>> \o Decoding(source)[e + 1]
  <2>1. ~ (current > Len(source)) /\ current < Len(source)
    BY <1>2, <1>3 DEF i
  <2>2. DecodedAt(source, Decoding(source), current)
          = <<Number(source, i) % 256>> \o Decoding(source)[i + DigitsAt(source, i)]
    BY <1>3, <1>4, <2>1 DEF DecodedAt, i
  <2> QED
    BY <1>1, <1>4, <2>2, DecodedHere
<1>11. OctalValue(i, e) \in 0..255
  <2>1. source \in Seq(Codes)
    BY DEF UnescapeIInv
  <2>2. i \in 1..Len(source) /\ IsOctal(source[i])
    BY <1>3
  <2> HIDE DEF i
  <2>3. Number(source, i) % 256 \in 0..255
    BY <2>1, <2>2, NumberLemma
  <2> QED
    BY <1>4, <2>3 DEF i
<1>12. e + 1 \in (current + 1)..(Len(source) + 1)
  BY <1>2, <1>3, <1>4 DEF i
<1> QED
  BY <1>1, <1>6, <1>9, <1>10, <1>11, <1>12, TurnKeeps

\* A backslash is followed by a character, since no string ends within an escape sequence.
LEMMA EscapeKeeps == ASSUME UnescapeIInv, Escape PROVE UnescapeIInv'
<1> DEFINE i == current + 1
<1>1. /\ ~ done /\ At(current) = Backslash /\ ~ IsOctal(At(i)) /\ Turn(Letter(At(i)), current + 2)
  BY DEF Escape
<1>2. Len(source) \in Nat /\ current \in 1..(Len(source) + 1)
  BY <1>1, Ahead
<1>3. current \in 1..Len(source) /\ source[current] = Backslash
  <2>1. current \in current..(Len(source) + 3)
    BY <1>2
  <2> QED
    BY <1>1, <2>1, InString, BackslashNul
<1>4. PICK ends \in [0..Len(source) -> BOOLEAN] : Split(ends)
  BY DEF UnescapeIInv
<1>5. Splits(source, ends) /\ ends[current - 1]
  BY <1>1, <1>4 DEF Split
<1>6. ~ ends[current] /\ ends[Len(source)]
  BY <1>3, <1>5, SplitsNext
<1>7. i \in 1..Len(source) /\ i \in current..Len(source) /\ i - 1 = current /\ (current + 2) - 1 = i
  BY <1>2, <1>3, <1>6
<1>8. ends[(current + 2) - 1]
  BY <1>5, <1>6, <1>7, SplitsNext
<1>9. At(i) = source[i] /\ source[i] \in Codes
  BY <1>1, <1>7, Ahead
<1>10. Letter(At(i)) \in 0..255
  <2>1. \A c \in Codes : c \in 0..255
    BY DEF Codes
  <2>2. At(i) \in 0..255
    BY <1>9, <2>1, Zenon
  <2> QED
    BY <2>2, LetterLemma
<1>11. Decoding(source)[current] = <<Letter(At(i))>> \o Decoding(source)[current + 2]
  <2>1. ~ (current > Len(source)) /\ ~ IsOctal(source[current + 1])
    BY <1>1, <1>2, <1>3, <1>9
  <2>2. DecodedAt(source, Decoding(source), current)
          = <<Letter(source[current + 1])>> \o Decoding(source)[current + 2]
    BY <1>3, <2>1 DEF DecodedAt
  <2> QED
    BY <1>1, <1>9, <2>2, DecodedHere
<1>12. current + 2 \in (current + 1)..(Len(source) + 1)
  BY <1>2, <1>7
<1> HIDE DEF i
<1> QED
  BY <1>1, <1>5, <1>8, <1>10, <1>11, <1>12, TurnKeeps

\* The zero that ends the string is reached when everything is decoded.
LEMMA FinishKeeps == ASSUME UnescapeIInv, Finish PROVE UnescapeIInv'
<1>1. /\ ~ done /\ At(current) = Nul /\ data' = [data EXCEPT ![unescaped] = Nul] /\ done' = TRUE
      /\ source' = source /\ current' = current /\ unescaped' = unescaped /\ strayed' = strayed
  BY DEF Finish
<1>2. /\ Len(source) \in Nat /\ Len(data) = Len(source) + 1 /\ data \in Seq(0..255)
      /\ current \in 1..(Len(source) + 1) /\ unescaped \in 1..current
  BY <1>1, Ahead
<1>3. current = Len(source) + 1
  <2> SUFFICES ASSUME current # Len(source) + 1 PROVE FALSE
    OBVIOUS
  <2>1. current \in current..Len(source)
    BY <1>2
  <2> QED
    BY <1>1, <2>1, Ahead, BackslashNul
<1>4. Decoding(source)[current] = <<>>
  <2>1. current > Len(source)
    BY <1>2, <1>3
  <2> QED
    BY <1>1, <2>1, DecodedHere DEF DecodedAt
<1> DEFINE X == 0..255
           w == SubSeq(data, 1, unescaped - 1)
<1>5. data \in Seq(X) /\ unescaped \in 1..Len(data) /\ Nul \in X /\ 1 \in 1..(Len(data) + 1)
      /\ unescaped - 1 \in (1 - 1)..Len(data)
  BY <1>2 DEF Nul
<1> HIDE DEF X
<1>6. LET e == [data EXCEPT ![unescaped] = Nul]
      IN  /\ e \in Seq(X) /\ Len(e) = Len(data)
          /\ SubSeq(e, 1, unescaped) = Append(w, Nul)
  BY <1>5, WriteLemma
<1>7. w = Decoded(source)
  <2>1. w \in Seq(X)
    BY <1>5, SubSeqProperties
  <2>2. w \o <<>> = w
    BY <2>1, ConcatEmptySeq
  <2> QED
    BY <1>1, <1>4, <2>2 DEF UnescapeIInv, Progress
<1>8. UnescapeTypeOK'
  <2>1. data' \in Seq(0..255) /\ Len(data') = Len(data)
    BY <1>1, <1>6 DEF X
  <2> QED
    BY <1>1, <2>1 DEF UnescapeIInv, UnescapeInv, UnescapeTypeOK
<1>9. SubSeq(data', 1, unescaped') = Append(Decoded(source'), Nul)
  BY <1>1, <1>6, <1>7
<1>10. UnescapeInv'
  BY <1>1, <1>8, <1>9 DEF UnescapeIInv, UnescapeInv, StaysInside, DecodesInPlace
<1>11. PICK ends \in [0..Len(source) -> BOOLEAN] : Split(ends)
  BY DEF UnescapeIInv
<1>12. Split(ends)'
  BY <1>1, <1>11 DEF Split
<1> QED
  BY <1>1, <1>10, <1>11, <1>12 DEF UnescapeIInv

\* All is still to be read.
LEMMA UnescapeStarts == UnescapeInit => UnescapeIInv
<1> SUFFICES ASSUME UnescapeInit PROVE UnescapeIInv
  OBVIOUS
<1>1. /\ source \in Strings /\ data = Append(source, Nul) /\ current = 1 /\ unescaped = 1
      /\ done = FALSE /\ strayed = FALSE
  BY DEF UnescapeInit
<1>2. PICK n \in 0..MaxLength : source \in [1..n -> Chars]
  BY <1>1 DEF Strings
<1>3. n \in Nat /\ Chars \subseteq Codes /\ Chars \subseteq 0..255
  BY LengthAssumption, CharsAssumption DEF Codes
<1>4. source \in Seq(Chars) /\ source \in Seq(Codes) /\ Len(source) = n
  <2>1. source \in Seq(Chars) /\ Len(source) = n
    BY <1>2, <1>3
  <2>2. source \in [1..n -> Codes]
    BY <1>2, <1>3
  <2> HIDE DEF Codes
  <2>3. source \in Seq(Codes)
    BY <1>3, <2>2
  <2> QED
    BY <2>1, <2>3
<1>5. data \in Seq(0..255) /\ Len(data) = Len(source) + 1
  <2> DEFINE X == 0..255
  <2>1. Chars \subseteq X /\ Nul \in X
    BY <1>3 DEF Nul
  <2> HIDE DEF X
  <2>2. \A i \in 1..n : source[i] \in X
    BY <1>2, <2>1
  <2>3. source \in [1..n -> X]
    BY <1>2, <2>2
  <2>4. source \in Seq(X)
    BY <1>3, <2>3
  <2>5. data \in Seq(X) /\ Len(data) = Len(source) + 1
    BY <1>1, <2>1, <2>4
  <2> QED
    BY <2>5 DEF X
<1>6. UnescapeTypeOK
  <2>1. current \in 1..(Len(source) + 1) /\ unescaped \in 1..current
    BY <1>1, <1>3, <1>4
  <2>2. ~ done => \A i \in current..Len(data) : data[i] = Append(source, Nul)[i]
    BY <1>1
  <2>3. done \in BOOLEAN /\ strayed \in BOOLEAN
    BY <1>1
  <2> QED
    BY <1>4, <1>5, <2>1, <2>2, <2>3 DEF UnescapeTypeOK
<1>7. UnescapeInv
  BY <1>1, <1>6 DEF UnescapeInv, StaysInside, DecodesInPlace
<1>8. PICK ends \in [0..Len(source) -> BOOLEAN] : Splits(source, ends)
  BY <1>1 DEF Strings, WellFormed
<1>9. Split(ends)
  <2>1. current - 1 = 0
    BY <1>1
  <2>2. ends[current - 1]
    BY <1>8, <2>1 DEF Splits
  <2> QED
    BY <1>1, <1>8, <2>2 DEF Split
<1>10. Progress = Decoded(source)
  <2> DEFINE X == Found(source)
             r == Decoding(source)[1]
  <2>1. 1 \in Places(source)
    BY <1>3, <1>4 DEF Places
  <2>2. r \in Seq(X)
    BY <1>4, <2>1, DecodingLemma
  <2>3. SubSeq(data, 1, unescaped - 1) = <<>>
    <3> DEFINE Y == 0..255
               e == SubSeq(data, 1, 0)
    <3>1. data \in Seq(Y) /\ 1 \in 1..(Len(data) + 1) /\ 0 \in (1 - 1)..Len(data)
      BY <1>3, <1>4, <1>5
    <3>2. \A i \in 1..0 : data[i] \in Y
      OBVIOUS
    <3> HIDE DEF Y
    <3>3. e \in Seq(Y) /\ Len(e) = 0
      BY <3>2, SubSeqProperties
    <3> HIDE DEF e
    <3>4. e = <<>>
      BY <3>3
    <3> QED
      BY <1>1, <3>4 DEF e
  <2>4. <<>> \o r = r
    BY <2>2, ConcatEmptySeq
  <2> QED
    BY <1>1, <2>3, <2>4 DEF Progress, Decoded
<1> QED
  BY <1>1, <1>4, <1>7, <1>8, <1>9, <1>10 DEF UnescapeIInv

\* Every turn of the loop keeps the invariant.
LEMMA UnescapeKeeps == UnescapeIInv /\ [UnescapeNext]_unescapeVars => UnescapeIInv'
<1> SUFFICES ASSUME UnescapeIInv, [UnescapeNext]_unescapeVars PROVE UnescapeIInv'
  OBVIOUS
<1>1. CASE UNCHANGED unescapeVars
  BY <1>1 DEF unescapeVars, UnescapeIInv, UnescapeInv, UnescapeTypeOK, StaysInside,
              DecodesInPlace, Split, Progress
<1> QED
  BY <1>1, PlainKeeps, OctalKeeps, EscapeKeeps, FinishKeeps DEF UnescapeNext

\* Whatever string the scanner passes, of any length: unescape() reads and writes nothing
\* but the string, writes behind what it reads, and leaves its decoding, the escape
\* sequences taken from the left, with a zero at the end (unescape.cpp).
THEOREM StringsDecoded == UnescapeSpec => []UnescapeInv
<1>1. UnescapeIInv => UnescapeInv
  BY DEF UnescapeIInv
<1> QED
  BY <1>1, UnescapeStarts, UnescapeKeeps, PTL DEF UnescapeSpec

-----------------------------------------------------------------------------
(* Values: the types and values of expressions *)

\* A node of an expression: it has a type, and a value of that type if it is an integer.
NodeRecords == [kind : {"constant", "instruction"}, type : Widths \cup Floats, val : Int,
                poison : BOOLEAN, malformed : BOOLEAN, constExpr : BOOLEAN, predicted : Int]
Proper(n) == n \in NodeRecords /\ (IsInt(n) => Fits(n.val, n.type))
\* An integer is announced of none but integers.
Typed == {n \in NodeRecords : Proper(n) /\ (n.predicted \in Widths => IsInt(n))}
\* Those whose type is the one announced for them.
Announced == {n \in Typed : n.predicted = n.type}

\* The inductive invariant.
ValuesIInv ==
    /\ operands \in Seq(Typed)
    /\ shiftErrors = 0 /\ ~ wideAmount => operands \in Seq(Announced)
    /\ nodes \in 0..MaxNodes /\ shiftErrors \in Nat /\ castFailed \in BOOLEAN /\ wideAmount \in BOOLEAN
    /\ ComparisonsExact /\ WideShiftsExact

-----------------------------------------------------------------------------
(* Least and greatest elements, recursion on an interval *)

\* What Min and Max choose.
LEMMA MinOf ==
    ASSUME NEW A \in SUBSET Nat, A # {}
    PROVE  Min(A) \in A /\ \A a \in A : Min(A) <= a
<1>1. \E b \in A : \A c \in A : b <= c
  BY LeastOf
<1> QED
  BY <1>1, Zenon DEF Min

\* A finite set of numbers has a greatest one: there is no set without one that has
\* the fewest elements.
LEMMA MaxOf ==
    ASSUME NEW A \in SUBSET Nat, IsFiniteSet(A), A # {}
    PROVE  Max(A) \in A /\ \A a \in A : a <= Max(A)
<1> DEFINE Endless(T) == IsFiniteSet(T) /\ T # {} /\ \A m \in T : \E n \in T : m < n
           Bad == {Cardinality(T) : T \in {S \in SUBSET Nat : Endless(S)}}
<1>1. Bad \in SUBSET Nat
  BY FS_CardinalityType
<1>2. Bad = {}
  <2> SUFFICES ASSUME Bad # {} PROVE FALSE
    OBVIOUS
  <2>1. PICK b \in Bad : \A c \in Bad : b <= c
    <3> HIDE DEF Bad
    <3> QED  BY <1>1, LeastOf
  <2>2. PICK T \in SUBSET Nat : Endless(T) /\ Cardinality(T) = b
    BY <2>1
  <2>3. PICK x \in T : \E n \in T : x < n
    BY <2>2
  <2> DEFINE R == T \ {x}
  <2>4. IsFiniteSet(R) /\ Cardinality(R) = Cardinality(T) - 1 /\ R # {} /\ R \in SUBSET Nat
    <3>1. PICK y \in T : x < y
      BY <2>3
    <3>2. IsFiniteSet(R) /\ Cardinality(R) = Cardinality(T) - 1
      BY <2>2, FS_RemoveElement
    <3>3. y \in R
      BY <2>2, <3>1
    <3> QED
      BY <2>2, <3>2, <3>3
  <2>5. \A m \in R : \E n \in R : m < n
    <3> SUFFICES ASSUME NEW m \in R PROVE \E n \in R : m < n
      OBVIOUS
    <3>1. PICK n \in T : m < n
      BY <2>2
    <3>2. CASE n # x
      BY <3>1, <3>2
    <3>3. CASE n = x
      BY <2>3, <3>1, <3>3, <2>2
    <3> QED  BY <3>2, <3>3
  <2>6. Cardinality(R) \in Bad
    BY <2>4, <2>5
  <2>7. Cardinality(R) \in Nat /\ Cardinality(T) \in Nat
    BY <2>2, <2>4, FS_CardinalityType
  <2> HIDE DEF Bad, R
  <2> QED
    BY <2>1, <2>2, <2>4, <2>6, <2>7
<1>3. ~ Endless(A)
  <2> SUFFICES ASSUME Endless(A) PROVE FALSE
    OBVIOUS
  <2>1. Cardinality(A) \in Bad
    OBVIOUS
  <2> QED
    BY <1>2, <2>1
<1>4. PICK m \in A : \A n \in A : ~ (m < n)
  BY <1>3
<1>5. \A n \in A : m >= n
  BY <1>4
<1>6. Max(A) \in A /\ \A n \in A : Max(A) >= n
  BY <1>4, <1>5, Zenon DEF Max
<1> QED
  BY <1>6

\* Each value of f follows from the one a place earlier.
Follows(f, N, c, g) == f[0] = c /\ \A i \in 1..N : f[i] = g[i][f[i - 1]]

\* There is a function whose values each follow from the one a place earlier.
LEMMA RecursionOnInterval ==
    ASSUME NEW N \in Nat, NEW D, NEW c \in D, NEW g \in [1..N -> [D -> D]]
    PROVE  \E f \in [0..N -> D] : Follows(f, N, c, g)
<1> USE DEF Follows
<1> DEFINE Has(n) == \E f \in [0..n -> D] : f[0] = c /\ \A i \in 1..n : f[i] = g[i][f[i - 1]]
           Bad == {n \in 0..N : ~ Has(n)}
<1> SUFFICES ASSUME Bad # {} PROVE FALSE
  <2>1. N \in 0..N
    OBVIOUS
  <2> QED
    BY <2>1
<1>1. PICK n \in Bad : \A k \in Bad : n <= k
  <2>1. Bad \in SUBSET Nat
    OBVIOUS
  <2> HIDE DEF Bad
  <2> QED
    BY <2>1, LeastOf
<1>2. n # 0
  <2> SUFFICES ASSUME n = 0 PROVE FALSE
    OBVIOUS
  <2> DEFINE f == [i \in 0..0 |-> c]
  <2>1. f \in [0..0 -> D] /\ f[0] = c /\ \A i \in 1..0 : f[i] = g[i][f[i - 1]]
    OBVIOUS
  <2>2. Has(0)
    BY <2>1
  <2> QED
    BY <1>1, <2>2
<1>3. n - 1 \in 0..N /\ n \in 1..N /\ ~ (n <= n - 1)
  BY <1>1, <1>2
<1>4. Has(n - 1)
  BY <1>1, <1>3
<1>5. PICK f \in [0..(n - 1) -> D] : f[0] = c /\ \A i \in 1..(n - 1) : f[i] = g[i][f[i - 1]]
  BY <1>4
<1> DEFINE h == [i \in 0..n |-> IF i = n THEN g[n][f[n - 1]] ELSE f[i]]
<1>6. f[n - 1] \in D /\ g[n] \in [D -> D]
  BY <1>3, <1>5
<1>7. h \in [0..n -> D]
  <2>1. g[n][f[n - 1]] \in D
    BY <1>6
  <2>2. \A i \in 0..n : i # n => i \in 0..(n - 1)
    BY <1>3
  <2> QED
    BY <1>5, <2>1, <2>2
<1>8. h[0] = c
  BY <1>3, <1>5
<1>9. \A i \in 1..n : h[i] = g[i][h[i - 1]]
  <2> SUFFICES ASSUME NEW i \in 1..n PROVE h[i] = g[i][h[i - 1]]
    OBVIOUS
  <2>1. i - 1 \in 0..n /\ i - 1 # n /\ i \in 0..n
    BY <1>3
  <2>2. h[i - 1] = f[i - 1]
    BY <2>1
  <2>3. CASE i = n
    BY <2>1, <2>2, <2>3
  <2>4. CASE i # n
    <3>1. i \in 1..(n - 1)
      BY <1>3, <2>4
    <3>2. h[i] = f[i]
      BY <2>1, <2>4
    <3> QED
      BY <1>5, <2>2, <3>1, <3>2
  <2> QED
    BY <2>3, <2>4
<1>10. Has(n)
  BY <1>7, <1>8, <1>9
<1> QED
  BY <1>1, <1>10
-----------------------------------------------------------------------------
(* Widths and powers of two *)

\* The widths are numbers up to the greatest one.
LEMMA WidthsLemma ==
    /\ Max(Ladder) \in Ladder /\ Min(Ladder) \in Ladder /\ Max(Ladder) \in Nat /\ Min(Ladder) \in Nat
    /\ Ladder \subseteq 2..Max(Ladder) /\ \A w \in Ladder : Min(Ladder) <= w
    /\ Widths \subseteq 1..Max(Ladder)
    /\ \A f \in Floats : f \in Nat /\ f > Max(Ladder) /\ f \notin Widths
<1>1. Ladder \in SUBSET Nat /\ Ladder # {} /\ IsFiniteSet(Ladder) /\ 0 \notin Ladder /\ 1 \notin Ladder
      /\ Floats \subseteq Nat /\ \A f \in Floats : f > Max(Ladder)
  BY LadderAssumption DEF Bool, Void
<1>2. Max(Ladder) \in Ladder /\ \A w \in Ladder : w <= Max(Ladder)
  BY <1>1, MaxOf
<1>3. Min(Ladder) \in Ladder /\ \A w \in Ladder : Min(Ladder) <= w
  BY <1>1, MinOf
<1>4. \A w \in Ladder : w \in 2..Max(Ladder)
  BY <1>1, <1>2
<1>5. \A w \in Widths : w \in 1..Max(Ladder)
  BY <1>2, <1>4 DEF Widths, Bool
<1>6. \A f \in Floats : f \in Nat /\ f > Max(Ladder) /\ f \notin Widths
  <2> SUFFICES ASSUME NEW f \in Floats PROVE f \in Nat /\ f > Max(Ladder) /\ f \notin Widths
    OBVIOUS
  <2>1. f \in Nat /\ f > Max(Ladder) /\ Max(Ladder) \in Nat
    BY <1>1, <1>2
  <2>2. f \notin 1..Max(Ladder)
    BY <2>1
  <2> QED
    BY <1>5, <2>1, <2>2
<1>7. Max(Ladder) \in Nat /\ Min(Ladder) \in Nat
  BY <1>1, <1>2, <1>3
<1>8. Ladder \subseteq 2..Max(Ladder) /\ Widths \subseteq 1..Max(Ladder)
  BY <1>4, <1>5
<1> QED
  BY <1>2, <1>3, <1>6, <1>7, <1>8

\* TwoTo doubles from one place to the next.
LEMMA TwoToLemma ==
    /\ TwoTo \in [0..Max(Ladder) -> Nat \ {0}]
    /\ TwoTo[0] = 1
    /\ \A n \in 1..Max(Ladder) : TwoTo[n] = 2 * TwoTo[n - 1]
<1> DEFINE N == Max(Ladder)
           D == Nat \ {0}
           double == [x \in D |-> 2 * x]
           g == [i \in 1..N |-> double]
<1>1. N \in Nat /\ 1 \in D
  BY WidthsLemma
<1>2. g \in [1..N -> [D -> D]]
  <2>1. double \in [D -> D]
    OBVIOUS
  <2> HIDE DEF double, N
  <2> QED
    BY <2>1
<1>3. PICK f \in [0..N -> D] : f[0] = 1 /\ \A i \in 1..N : f[i] = g[i][f[i - 1]]
  <2> HIDE DEF N, D, g
  <2>1. \E f \in [0..N -> D] : Follows(f, N, 1, g)
    BY <1>1, <1>2, RecursionOnInterval
  <2> QED
    BY <2>1 DEF Follows
<1> HIDE DEF N
<1>5. \A i \in 1..N : i - 1 \in 0..N /\ i # 0 /\ i \in 0..N
  BY <1>1
<1>6. \A i \in 1..N : g[i][f[i - 1]] = 2 * f[i - 1]
  <2> SUFFICES ASSUME NEW i \in 1..N PROVE g[i][f[i - 1]] = 2 * f[i - 1]
    OBVIOUS
  <2>1. f[i - 1] \in D
    BY <1>3, <1>5
  <2> QED
    BY <2>1
<1> HIDE DEF g, D
<1>7. f = [n \in 0..N |-> IF n = 0 THEN 1 ELSE 2 * f[n - 1]]
  <2>1. \A n \in 0..N : n # 0 => n \in 1..N
    BY <1>1
  <2> QED
    BY <1>3, <1>6, <2>1
<1>8. TwoTo = [n \in 0..N |-> IF n = 0 THEN 1 ELSE 2 * TwoTo[n - 1]]
  <2> DEFINE P(p) == p = [n \in 0..N |-> IF n = 0 THEN 1 ELSE 2 * p[n - 1]]
  <2>1. \E p : P(p)
    BY <1>7
  <2>2. P(CHOOSE p : P(p))
    BY <2>1, Zenon
  <2>3. TwoTo = CHOOSE p : P(p)
    BY DEF TwoTo, N
  <2> QED
    BY <2>2, <2>3
<1>9. 0 \in 0..N
  BY <1>1
<1>10. TwoTo[0] = 1
  BY <1>8, <1>9
<1>11. \A n \in 1..N : TwoTo[n] = 2 * TwoTo[n - 1]
  BY <1>5, <1>8
<1>12. \A n \in 0..N : TwoTo[n] \in D
  <2> DEFINE Bad == {n \in 0..N : TwoTo[n] \notin D}
  <2> SUFFICES ASSUME Bad # {} PROVE FALSE
    OBVIOUS
  <2>1. Bad \in SUBSET Nat
    OBVIOUS
  <2>2. PICK b \in Bad : \A k \in Bad : b <= k
    <3> HIDE DEF Bad
    <3> QED  BY <2>1, LeastOf
  <2>3. b # 0
    BY <1>1, <1>10, <2>2
  <2>4. b \in 1..N /\ b - 1 \in 0..N /\ ~ (b <= b - 1)
    BY <1>1, <2>2, <2>3
  <2>5. TwoTo[b - 1] \in D
    BY <2>2, <2>4
  <2>6. TwoTo[b] \in D
    BY <1>11, <2>4, <2>5 DEF D
  <2> QED
    BY <2>2, <2>6
<1>13. TwoTo \in [0..N -> D]
  BY <1>8, <1>12
<1> QED
  BY <1>10, <1>11, <1>13 DEF N, D

\* Powers grow, and multiply by adding exponents.
LEMMA PowersLemma ==
    /\ \A m, n \in 0..Max(Ladder) : m <= n => TwoTo[m] <= TwoTo[n]
    /\ \A m, n \in 0..Max(Ladder) : m + n <= Max(Ladder) => TwoTo[m] * TwoTo[n] = TwoTo[m + n]
<1> DEFINE N == Max(Ladder)
<1>1. N \in Nat /\ TwoTo[0] = 1 /\ (\A n \in 0..N : TwoTo[n] \in Nat \ {0})
      /\ \A n \in 1..N : TwoTo[n] = 2 * TwoTo[n - 1]
  BY WidthsLemma, TwoToLemma
<1> HIDE DEF N
<1>2. ASSUME NEW m \in 0..N PROVE \A n \in 0..N : m <= n => TwoTo[m] <= TwoTo[n]
  <2> DEFINE Bad == {n \in 0..N : m <= n /\ ~ (TwoTo[m] <= TwoTo[n])}
  <2> SUFFICES ASSUME Bad # {} PROVE FALSE
    OBVIOUS
  <2>1. Bad \in SUBSET Nat
    OBVIOUS
  <2>2. PICK b \in Bad : \A k \in Bad : b <= k
    <3> HIDE DEF Bad
    <3> QED  BY <2>1, LeastOf
  <2>3. b # m /\ b \in 0..N /\ m <= b
    BY <1>1, <2>2
  <2>4. b \in 1..N /\ b - 1 \in 0..N /\ m <= b - 1 /\ ~ (b <= b - 1)
    BY <1>1, <2>3
  <2>5. TwoTo[m] <= TwoTo[b - 1]
    BY <2>2, <2>4
  <2>6. TwoTo[b] = 2 * TwoTo[b - 1] /\ TwoTo[b - 1] \in Nat /\ TwoTo[m] \in Nat
    BY <1>1, <2>4
  <2>7. TwoTo[m] <= TwoTo[b]
    BY <2>5, <2>6
  <2> QED
    BY <2>2, <2>7
<1>3. ASSUME NEW m \in 0..N
      PROVE  \A n \in 0..N : m + n <= N => TwoTo[m] * TwoTo[n] = TwoTo[m + n]
  <2> DEFINE Bad == {n \in 0..N : m + n <= N /\ TwoTo[m] * TwoTo[n] # TwoTo[m + n]}
  <2> SUFFICES ASSUME Bad # {} PROVE FALSE
    OBVIOUS
  <2>1. Bad \in SUBSET Nat
    OBVIOUS
  <2>2. PICK b \in Bad : \A k \in Bad : b <= k
    <3> HIDE DEF Bad
    <3> QED  BY <2>1, LeastOf
  <2>3. b \in 0..N /\ m + b <= N /\ TwoTo[m] * TwoTo[b] # TwoTo[m + b]
    BY <2>2
  <2>4. b # 0
    <3> SUFFICES ASSUME b = 0 PROVE FALSE
      OBVIOUS
    <3>1. TwoTo[m] \in Nat /\ m + 0 = m
      BY <1>1
    <3> QED
      BY <1>1, <2>3, <3>1
  <2>5. b \in 1..N /\ b - 1 \in 0..N /\ m + (b - 1) <= N /\ ~ (b <= b - 1)
        /\ m + b \in 1..N /\ (m + b) - 1 = m + (b - 1)
    BY <1>1, <2>3, <2>4
  <2>6. TwoTo[m] * TwoTo[b - 1] = TwoTo[m + (b - 1)]
    BY <2>2, <2>5
  <2>7. TwoTo[b] = 2 * TwoTo[b - 1] /\ TwoTo[m + b] = 2 * TwoTo[m + (b - 1)]
    BY <1>1, <2>5
  <2>8. TwoTo[b - 1] \in Nat /\ TwoTo[m] \in Nat /\ TwoTo[m + (b - 1)] \in Nat
    <3>1. m + (b - 1) \in 0..N
      BY <2>5, <1>1
    <3> QED
      BY <1>1, <2>5, <3>1
  <2>9. \A x, y \in Nat : x * (2 * y) = 2 * (x * y)
    OBVIOUS
  <2>10. TwoTo[m] * TwoTo[b] = TwoTo[m + b]
    BY <2>6, <2>7, <2>8, <2>9
  <2> QED
    BY <2>3, <2>10
<1> QED
  BY <1>2, <1>3 DEF N

-----------------------------------------------------------------------------
(* Integers of a width *)

\* A remainder is below its divisor, and there is only one.
LEMMA RemainderLemma ==
    ASSUME NEW a \in Int, NEW b \in Nat, b > 0
    PROVE  /\ a % b \in 0..(b - 1) /\ a \div b \in Int
           /\ a \in 0..(b - 1) => a % b = a
           /\ a \in -b..-1 => a % b = a + b
           /\ a \in b..(2 * b - 1) => a % b = a - b
<1> DEFINE q == a \div b
           r == a % b
<1>1. q \in Int /\ r \in 0..(b - 1) /\ a = b * q + r
  OBVIOUS
<1> HIDE DEF q, r
<1>2. ASSUME NEW k \in Int, NEW e \in 0..(b - 1), a = b * k + e PROVE r = e
  <2>1. b * (q - k) = e - r
    BY <1>1, <1>2
  <2>2. CASE q - k >= 1
    <3>1. b * (q - k) >= b
      BY <1>1, <2>2
    <3> QED
      BY <1>1, <2>1, <3>1
  <2>3. CASE q - k <= -1
    <3>1. b * (q - k) <= -b
      BY <1>1, <2>3
    <3> QED
      BY <1>1, <2>1, <3>1
  <2>4. CASE q - k = 0
    BY <1>1, <2>1, <2>4
  <2> QED
    BY <1>1, <2>2, <2>3, <2>4
<1>3. a \in 0..(b - 1) => r = a
  <2>1. a = b * 0 + a
    OBVIOUS
  <2> QED
    BY <1>2, <2>1
<1>4. a \in -b..-1 => r = a + b
  <2> SUFFICES ASSUME a \in -b..-1 PROVE r = a + b
    OBVIOUS
  <2>1. a = b * (-1) + (a + b) /\ a + b \in 0..(b - 1) /\ -1 \in Int
    OBVIOUS
  <2> QED
    BY <1>2, <2>1
<1>5. a \in b..(2 * b - 1) => r = a - b
  <2> SUFFICES ASSUME a \in b..(2 * b - 1) PROVE r = a - b
    OBVIOUS
  <2>1. a = b * 1 + (a - b) /\ a - b \in 0..(b - 1)
    OBVIOUS
  <2> QED
    BY <1>2, <2>1
<1> QED
  BY <1>1, <1>3, <1>4, <1>5 DEF q, r

\* Half the integers of a width are negative.
LEMMA HalfLemma ==
    ASSUME NEW w \in 1..Max(Ladder)
    PROVE  /\ Half(w) \in Nat /\ Half(w) > 0
           /\ TwoTo[w] = 2 * Half(w)
           /\ \A u \in 1..Max(Ladder) : w <= u => Half(w) <= Half(u)
<1>1. Max(Ladder) \in Nat /\ w - 1 \in 0..Max(Ladder)
  BY WidthsLemma
<1>2. \A u \in 1..Max(Ladder) : u - 1 \in 0..Max(Ladder)
  BY <1>1
<1>3. TwoTo[w - 1] \in Nat /\ TwoTo[w - 1] > 0
  BY <1>1, TwoToLemma
<1>4. \A u \in 1..Max(Ladder) : w <= u => TwoTo[w - 1] <= TwoTo[u - 1]
  <2> SUFFICES ASSUME NEW u \in 1..Max(Ladder), w <= u PROVE TwoTo[w - 1] <= TwoTo[u - 1]
    OBVIOUS
  <2>1. w - 1 <= u - 1
    BY <1>1
  <2> QED
    BY <1>1, <1>2, <2>1, PowersLemma
<1> QED
  BY <1>3, <1>4, TwoToLemma DEF Half

\* Wrapping around gives an integer of the width, the same one if it was one.
LEMMA SignedLemma ==
    ASSUME NEW w \in 1..Max(Ladder), NEW v \in Int
    PROVE  /\ Signed(v, w) \in Int /\ Fits(Signed(v, w), w)
           /\ Fits(v, w) => Signed(v, w) = v
           /\ Fits(v - 2 * Half(w), w) => Signed(v, w) = v - 2 * Half(w)
<1> DEFINE h == Half(w)
           b == 2 * h
           x == v + h
           r == x % b
<1>1. h \in Nat /\ h > 0
  BY HalfLemma
<1> HIDE DEF h
<1>2. b \in Nat /\ b > 0 /\ x \in Int /\ x = v + h
  BY <1>1
<1> HIDE DEF b, x
<1>3. /\ r \in 0..(b - 1)
      /\ x \in 0..(b - 1) => r = x
      /\ x \in b..(2 * b - 1) => r = x - b
  BY <1>2, RemainderLemma
<1> HIDE DEF r
<1>4. Signed(v, w) = r - h /\ b = 2 * h
  BY DEF Signed, r, x, b, h
<1>5. \A y : Fits(y, w) <=> -h <= y /\ y < h
  BY DEF Fits, h
<1>6. r - h \in Int /\ -h <= r - h /\ r - h < h
  BY <1>1, <1>2, <1>3, <1>4
<1>7. -h <= v /\ v < h => r - h = v
  BY <1>1, <1>2, <1>3, <1>4
<1>8. -h <= v - b /\ v - b < h => r - h = v - b
  BY <1>1, <1>2, <1>3, <1>4
<1> QED
  BY <1>4, <1>5, <1>6, <1>7, <1>8 DEF h

\* The unsigned value of an integer of a width.
LEMMA UnsignedLemma ==
    ASSUME NEW w \in 1..Max(Ladder), NEW v \in Int
    PROVE  /\ Unsigned(v, w) \in Nat
           /\ Fits(v, w) /\ v >= 0 => Unsigned(v, w) = v
           /\ Fits(v, w) /\ v < 0 => Unsigned(v, w) = v + 2 * Half(w) /\ Unsigned(v, w) >= Half(w)
<1> DEFINE h == Half(w)
           b == 2 * h
           r == v % b
<1>1. h \in Nat /\ h > 0
  BY HalfLemma
<1> HIDE DEF h
<1>2. b \in Nat /\ b > 0
  BY <1>1
<1> HIDE DEF b
<1>3. /\ r \in 0..(b - 1)
      /\ v \in 0..(b - 1) => r = v
      /\ v \in -b..-1 => r = v + b
  BY <1>2, RemainderLemma
<1> HIDE DEF r
<1>4. Unsigned(v, w) = r /\ b = 2 * h
  BY DEF Unsigned, r, b, h
<1>5. Fits(v, w) <=> -h <= v /\ v < h
  BY DEF Fits, h
<1> QED
  BY <1>1, <1>2, <1>3, <1>4, <1>5 DEF h

\* An integer of a width is one of every wider one, and zero is one of each.
LEMMA FitsLemma ==
    ASSUME NEW w \in 1..Max(Ladder)
    PROVE  /\ Fits(0, w) /\ Fits(-1, w)
           /\ \A u \in 1..Max(Ladder), v \in Int : w <= u /\ Fits(v, w) => Fits(v, u)
           /\ \A v \in Int : Fits(v, w) => Fits(-v - 1, w)
<1>1. Half(w) \in Nat /\ Half(w) > 0
  BY HalfLemma
<1>2. ASSUME NEW u \in 1..Max(Ladder), NEW v \in Int, w <= u, Fits(v, w) PROVE Fits(v, u)
  <2>1. Half(w) <= Half(u) /\ Half(u) \in Nat
    BY <1>2, HalfLemma
  <2> QED
    BY <1>1, <1>2, <2>1 DEF Fits
<1>3. ASSUME NEW v \in Int, Fits(v, w) PROVE Fits(-v - 1, w)
  BY <1>1, <1>3 DEF Fits
<1> QED
  BY <1>1, <1>2, <1>3 DEF Fits

-----------------------------------------------------------------------------
(* Conversions, amounts and what operators compute *)

\* The fields of a node, and what makes it typed.
LEMMA TypedLemma ==
    ASSUME NEW n \in Typed
    PROVE  /\ n \in NodeRecords /\ n.kind \in {"constant", "instruction"} /\ n.type \in Widths \cup Floats
           /\ n.val \in Int /\ n.poison \in BOOLEAN /\ n.malformed \in BOOLEAN /\ n.constExpr \in BOOLEAN
           /\ n.predicted \in Int
           /\ n.type \in Nat /\ (IsInt(n) => n.type \in 1..Max(Ladder) /\ Fits(n.val, n.type))
           /\ (~ IsInt(n) => n.type \in Floats) /\ (n.predicted \in Widths => IsInt(n))
<1>1. n \in NodeRecords /\ (IsInt(n) => Fits(n.val, n.type)) /\ (n.predicted \in Widths => IsInt(n))
  BY DEF Typed, Proper
<1>2. n.type \in Widths \cup Floats
  BY <1>1 DEF NodeRecords
<1>3. \A t \in Widths : t \in 1..Max(Ladder) /\ t \in Nat
  BY WidthsLemma
<1>4. \A t \in Floats : t \in Nat
  BY WidthsLemma
<1>5. n.type \in Nat
  BY <1>2, <1>3, <1>4
<1> QED
  BY <1>1, <1>2, <1>3, <1>5 DEF NodeRecords, IsInt

\* A converted node has the type asked for, a widened integer its value.
LEMMA ConvertLemma ==
    ASSUME NEW n, Proper(n), NEW t \in Widths \cup Floats
    PROVE  LET c == Convert(n, t)
           IN  /\ Proper(c) /\ c.type = t /\ c.kind = n.kind /\ c.poison = n.poison
               /\ c.malformed = n.malformed /\ c.constExpr = n.constExpr /\ c.predicted = n.predicted
               /\ IsInt(n) /\ t \in Widths /\ n.type <= t => c.val = n.val
<1> DEFINE c == Convert(n, t)
           x == IF {t, n.type} \subseteq Widths
                THEN IF n.type > t THEN Signed(n.val, t) ELSE n.val
                ELSE 0
<1>1. n \in NodeRecords /\ n.val \in Int /\ n.type \in Widths \cup Floats
      /\ (IsInt(n) => n.type \in 1..Max(Ladder) /\ Fits(n.val, n.type)) /\ n.type \in Nat
  <2>1. n \in NodeRecords /\ (IsInt(n) => Fits(n.val, n.type))
    BY DEF Proper
  <2>2. n.val \in Int /\ n.type \in Widths \cup Floats
    BY <2>1 DEF NodeRecords
  <2>3. \A w \in Widths : w \in 1..Max(Ladder) /\ w \in Nat
    BY WidthsLemma
  <2>4. \A f \in Floats : f \in Nat
    BY WidthsLemma
  <2> QED
    BY <2>1, <2>2, <2>3, <2>4 DEF IsInt
<1>2. CASE n.type = t
  BY <1>1, <1>2 DEF Convert, Proper
<1>3. CASE n.type # t
  <2>1. c = [n EXCEPT !.type = t, !.val = x]
    BY <1>3 DEF Convert
  <2>2. x \in Int /\ (t \in Widths => Fits(x, t))
        /\ (n.type \in Widths /\ t \in Widths /\ n.type <= t => x = n.val)
    <3>1. CASE t \notin Widths
      BY <3>1
    <3>2. CASE t \in Widths /\ n.type \notin Widths
      <4>1. x = 0
        BY <3>2
      <4>2. t \in 1..Max(Ladder)
        BY <3>2, WidthsLemma
      <4>3. Fits(0, t)
        BY <4>2, FitsLemma
      <4> QED
        BY <3>2, <4>1, <4>3
    <3>3. CASE t \in Widths /\ n.type \in Widths
      <4>1. t \in 1..Max(Ladder) /\ t \in Nat /\ n.type \in 1..Max(Ladder) /\ Fits(n.val, n.type)
        BY <1>1, <3>3, WidthsLemma DEF IsInt
      <4>2. CASE n.type > t
        <5>1. x = Signed(n.val, t)
          BY <3>3, <4>2
        <5>2. x \in Int /\ Fits(x, t)
          BY <1>1, <4>1, <5>1, SignedLemma
        <5>3. ~ (n.type <= t)
          BY <1>1, <4>1, <4>2
        <5> QED
          BY <5>2, <5>3
      <4>3. CASE n.type < t
        <5>1. ~ (n.type > t) /\ n.type <= t
          BY <1>1, <4>1, <4>3
        <5>2. x = n.val
          BY <3>3, <4>3, <5>1
        <5>3. Fits(n.val, t)
          BY <1>1, <4>1, <5>1, FitsLemma
        <5> QED
          BY <1>1, <5>2, <5>3
      <4> QED
        BY <1>1, <1>3, <4>1, <4>2, <4>3
    <3> QED
      BY <3>1, <3>2, <3>3
  <2> HIDE DEF x
  <2>3. c \in NodeRecords /\ c.type = t /\ c.val = x
    BY <1>1, <2>1, <2>2 DEF NodeRecords
  <2>4. /\ c.kind = n.kind /\ c.poison = n.poison /\ c.malformed = n.malformed
        /\ c.constExpr = n.constExpr /\ c.predicted = n.predicted
    BY <1>1, <2>1 DEF NodeRecords
  <2> QED
    BY <2>2, <2>3, <2>4 DEF Proper, IsInt
<1> QED
  BY <1>2, <1>3

\* The type a shift is widened to is a width and holds the amount.
LEMMA WidenedLemma ==
    ASSUME NEW a \in Nat
    PROVE  /\ a >= Max(Ladder) => Widened(a) = Void
           /\ a >= Min(Ladder) /\ a < Max(Ladder) => Widened(a) \in Ladder /\ Widened(a) > a
           /\ a >= Min(Ladder) => Widened(a) \in Nat
<1>1. a >= Max(Ladder) => Widened(a) = Void
  BY DEF Widened
<1>2. ASSUME a >= Min(Ladder), a < Max(Ladder) PROVE Widened(a) \in Ladder /\ Widened(a) > a
  <2> DEFINE S == {w \in Ladder : w <= a}
  <2>1. Ladder \in SUBSET Nat /\ IsFiniteSet(Ladder) /\ Max(Ladder) \in Nat
    BY LadderAssumption, WidthsLemma
  <2>2. S \in SUBSET Nat /\ IsFiniteSet(S) /\ Min(Ladder) \in S
    BY <1>2, <2>1, WidthsLemma, FS_Subset
  <2> DEFINE m == Max(S)
  <2>3. m \in S /\ \A w \in S : w <= m
    <3> HIDE DEF S
    <3> QED  BY <2>2, MaxOf
  <2>4. m \in Ladder /\ m <= a /\ m \in Nat
    BY <2>1, <2>3
  <2>5. m # Max(Ladder)
    BY <1>2, <2>1, <2>4
  <2>6. 2 * m \in Ladder
    BY <2>4, <2>5, LadderAssumption
  <2>7. ~ (2 * m <= m)
    <3>1. m \in 2..Max(Ladder)
      BY <2>4, WidthsLemma
    <3> QED
      BY <2>1, <3>1
  <2>8. 2 * m \notin S
    BY <2>3, <2>7
  <2>9. 2 * m > a
    BY <2>4, <2>6, <2>8
  <2>10. Widened(a) = 2 * m
    <3>1. ~ (a >= Max(Ladder))
      BY <1>2, <2>1
    <3> QED
      BY <3>1 DEF Widened
  <2> QED
    BY <2>6, <2>9, <2>10
<1>3. Max(Ladder) \in Nat /\ Ladder \subseteq Nat
  BY WidthsLemma, LadderAssumption
<1>4. a >= Min(Ladder) => Widened(a) \in Nat
  <2>1. CASE a >= Max(Ladder)
    BY <1>1, <2>1 DEF Void
  <2>2. CASE a < Max(Ladder)
    BY <1>2, <1>3, <2>2
  <2> QED
    BY <1>3, <2>1, <2>2
<1> QED
  BY <1>1, <1>2, <1>4

\* An amount is read without the sign of its type, unless that is the greatest.
LEMMA AmountValue ==
    ASSUME NEW r \in Typed, IsInt(r)
    PROVE  Amount(r) = IF r.type = Max(Ladder) THEN r.val ELSE Unsigned(r.val, r.type)
<1> DEFINE m == Max(Ladder)
           u == Unsigned(r.val, r.type)
<1>1. /\ r.type \in 1..m /\ r.val \in Int /\ Fits(r.val, r.type) /\ m \in Nat /\ m \in 1..m
      /\ Amount(r) = Signed(u, m)
  BY TypedLemma, WidthsLemma DEF Amount
<1>2. /\ u \in Nat
      /\ r.val >= 0 => u = r.val
      /\ r.val < 0 => u = r.val + 2 * Half(r.type)
  BY <1>1, UnsignedLemma
<1>3. Half(m) \in Nat /\ Half(r.type) \in Nat
  BY <1>1, HalfLemma
<1> HIDE DEF u, m
<1>4. CASE r.type = m /\ r.val >= 0
  BY <1>1, <1>2, <1>4, SignedLemma DEF m
<1>5. CASE r.type = m /\ r.val < 0
  <2>1. u - 2 * Half(m) = r.val
    BY <1>1, <1>2, <1>3, <1>5
  <2>2. Fits(u - 2 * Half(m), m)
    BY <1>1, <1>5, <2>1
  <2>3. Signed(u, m) = u - 2 * Half(m)
    BY <1>1, <1>2, <2>2, SignedLemma DEF m
  <2> QED
    BY <1>1, <1>5, <2>1, <2>3 DEF m
<1>6. CASE r.type # m
  <2>1. u < 2 * Half(r.type)
    BY <1>1, <1>2, <1>3 DEF Fits
  <2>2. r.type + 1 \in 1..m /\ r.type + 1 <= m /\ (r.type + 1) - 1 = r.type
    BY <1>1, <1>6
  <2>3. Half(r.type + 1) <= Half(m)
    BY <1>1, <2>2, HalfLemma DEF m
  <2>4. Half(r.type + 1) = 2 * Half(r.type)
    <3>1. TwoTo[r.type] = 2 * Half(r.type)
      BY <1>1, HalfLemma DEF m
    <3> QED
      BY <2>2, <3>1 DEF Half
  <2>5. Fits(u, m)
    BY <1>2, <1>3, <2>1, <2>3, <2>4 DEF Fits
  <2>6. Signed(u, m) = u
    BY <1>1, <1>2, <2>5, SignedLemma DEF m
  <2> QED
    BY <1>1, <1>6, <2>6 DEF u, m
<1> QED
  BY <1>1, <1>4, <1>5, <1>6

\* An amount below the greatest width is the value of its node, but for a true boolean.
LEMMA AmountLemma ==
    ASSUME NEW r \in Typed, IsInt(r)
    PROVE  /\ Amount(r) \in Int
           /\ Amount(r) < Max(Ladder) /\ Amount(r) # 1 => r.val = Amount(r)
<1>1. r.type \in 1..Max(Ladder) /\ r.val \in Int /\ Fits(r.val, r.type) /\ Max(Ladder) \in Nat
  BY TypedLemma, WidthsLemma
<1>2. CASE r.type = Max(Ladder)
  BY <1>1, <1>2, AmountValue
<1>3. CASE r.type # Max(Ladder)
  <2>1. Amount(r) = Unsigned(r.val, r.type)
    BY <1>3, AmountValue
  <2>2. Unsigned(r.val, r.type) \in Nat
    BY <1>1, UnsignedLemma
  <2>3. ASSUME Amount(r) < Max(Ladder), Amount(r) # 1 PROVE r.val = Amount(r)
    <3>1. CASE r.val >= 0
      BY <1>1, <2>1, <3>1, UnsignedLemma
    <3>2. CASE r.val < 0 /\ r.type \in Ladder
      <4>1. Unsigned(r.val, r.type) >= Half(r.type)
        BY <1>1, <3>2, UnsignedLemma
      <4>2. Half(Min(Ladder)) >= Max(Ladder) /\ Min(Ladder) <= r.type /\ Min(Ladder) \in 1..Max(Ladder)
        <5>1. Min(Ladder) \in 2..Max(Ladder) /\ Min(Ladder) <= r.type
          BY <3>2, WidthsLemma
        <5>2. Half(Min(Ladder)) >= Max(Ladder)
          BY LadderAssumption
        <5> QED
          BY <1>1, <5>1, <5>2
      <4>3. Half(Min(Ladder)) <= Half(r.type) /\ Half(r.type) \in Nat /\ Half(Min(Ladder)) \in Nat
        BY <1>1, <4>2, HalfLemma
      <4> QED
        BY <1>1, <2>1, <2>2, <2>3, <4>1, <4>2, <4>3
    <3>3. CASE r.val < 0 /\ r.type = Bool
      <4>1. Half(r.type) = 1
        BY <3>3, TwoToLemma DEF Half, Bool
      <4>2. Unsigned(r.val, r.type) = r.val + 2 * Half(r.type) /\ -Half(r.type) <= r.val
        BY <1>1, <3>3, UnsignedLemma DEF Fits
      <4>3. r.val = -1
        BY <1>1, <3>3, <4>1, <4>2
      <4> QED
        BY <2>1, <2>3, <4>1, <4>2, <4>3
    <3> QED
      BY <1>1, <3>1, <3>2, <3>3 DEF IsInt, Widths
  <2> QED
    BY <2>1, <2>2, <2>3
<1> QED
  BY <1>2, <1>3

\* Operations on bits give an integer of the width.
LEMMA BitwiseLemma ==
    ASSUME NEW op \in {"&", "|", "^"}, NEW v \in Int, NEW u \in Int, NEW w \in 1..Max(Ladder)
    PROVE  Bitwise2(op, v, u, w) \in Int /\ Fits(Bitwise2(op, v, u, w), w)
<1> DEFINE Of(i) == CASE op = "&" -> Bit(v, i) * Bit(u, i)
                      [] op = "|" -> (Bit(v, i) + Bit(u, i) + 1) \div 2
                      [] op = "^" -> (Bit(v, i) + Bit(u, i)) % 2
           P(p) == p = [i \in 0..w |-> IF i = 0 THEN 0 ELSE p[i - 1] + TwoTo[i - 1] * Of(i - 1)]
           term == [i \in 1..w |-> TwoTo[i - 1] * Of(i - 1)]
           g == [i \in 1..w |-> [x \in Int |-> x + term[i]]]
<1>1. w \in Nat /\ \A i \in 1..w : i - 1 \in 0..Max(Ladder) /\ i \in 0..w /\ i # 0
  BY WidthsLemma
<1>2. ASSUME NEW i \in 0..Max(Ladder) PROVE Of(i) \in Int
  <2>1. TwoTo[i] \in Nat /\ TwoTo[i] > 0
    BY <1>2, TwoToLemma
  <2>2. \A x \in Int : x \div TwoTo[i] \in Int
    BY <2>1, RemainderLemma
  <2>3. \A x \in Int : Bit(x, i) \in Int
    BY <2>2 DEF Bit
  <2>4. Bit(v, i) \in Int /\ Bit(u, i) \in Int
    BY <2>3
  <2> QED
    BY <2>4
<1>3. \A i \in 1..w : term[i] \in Int /\ TwoTo[i - 1] \in Int
  <2> SUFFICES ASSUME NEW i \in 1..w PROVE term[i] \in Int /\ TwoTo[i - 1] \in Int
    OBVIOUS
  <2>1. Of(i - 1) \in Int
    BY <1>1, <1>2
  <2>2. TwoTo[i - 1] \in Int
    BY <1>1, TwoToLemma
  <2> HIDE DEF Of
  <2> QED
    BY <2>1, <2>2
<1> HIDE DEF Of
<1>4. \A i \in 1..w : term[i] = TwoTo[i - 1] * Of(i - 1)
  OBVIOUS
<1> HIDE DEF term
<1>5. g \in [1..w -> [Int -> Int]] /\ \A i \in 1..w : \A x \in Int : g[i][x] = x + term[i]
  BY <1>3
<1> HIDE DEF g
<1>6. PICK f \in [0..w -> Int] : Follows(f, w, 0, g)
  <2> DEFINE D == Int
             c == 0
  <2>1. c \in D /\ w \in Nat
    BY <1>1
  <2>3. g \in [1..w -> [D -> D]]
    BY <1>5, Zenon
  <2> HIDE DEF D, c
  <2>2. \E f \in [0..w -> D] : Follows(f, w, c, g)
    BY <2>1, <2>3, RecursionOnInterval
  <2> QED
    BY <2>2 DEF D, c, Follows
<1>7. P(f)
  <2>1. \A i \in 0..w : f[i] = IF i = 0 THEN 0 ELSE f[i - 1] + TwoTo[i - 1] * Of(i - 1)
    <3> SUFFICES ASSUME NEW i \in 0..w, i # 0 PROVE f[i] = f[i - 1] + TwoTo[i - 1] * Of(i - 1)
      BY <1>6 DEF Follows
    <3>1. i \in 1..w /\ i - 1 \in 0..w
      BY <1>1
    <3>2. f[i] = g[i][f[i - 1]] /\ f[i - 1] \in Int
      BY <1>6, <3>1 DEF Follows
    <3>3. g[i][f[i - 1]] = f[i - 1] + term[i]
      BY <1>5, <3>1, <3>2
    <3> QED
      BY <1>4, <3>1, <3>2, <3>3
  <2> QED
    BY <1>6, <2>1
<1> DEFINE s == CHOOSE p : P(p)
<1>8. P(s)
  BY <1>7, Zenon
<1>9. Bitwise2(op, v, u, w) = Signed(s[w], w)
  BY DEF Bitwise2, Of
<1> HIDE DEF s
<1>10. s[w] \in Int
  <2> DEFINE Bad == {i \in 0..w : s[i] \notin Int}
  <2>1. s[0] = 0
    BY <1>1, <1>8
  <2>2. \A i \in 1..w : s[i] = s[i - 1] + term[i]
    BY <1>1, <1>4, <1>8
  <2>3. Bad = {}
    <3> SUFFICES ASSUME Bad # {} PROVE FALSE
      OBVIOUS
    <3>1. Bad \in SUBSET Nat
      BY <1>1
    <3>2. PICK b \in Bad : \A k \in Bad : b <= k
      <4> HIDE DEF Bad
      <4> QED  BY <3>1, LeastOf
    <3>3. b # 0
      BY <2>1, <3>2
    <3>4. b \in 1..w /\ b - 1 \in 0..w /\ ~ (b <= b - 1)
      BY <1>1, <3>2, <3>3
    <3>5. s[b - 1] \in Int
      BY <3>2, <3>4
    <3>6. s[b] = s[b - 1] + term[b]
      BY <2>2, <3>4
    <3>7. term[b] \in Int
      BY <1>3, <3>4
    <3>8. s[b] \in Int
      BY <3>5, <3>6, <3>7
    <3> QED
      BY <3>2, <3>8
  <2>4. w \in 0..w
    BY <1>1
  <2> QED
    BY <2>3, <2>4
<1> QED
  BY <1>9, <1>10, SignedLemma

\* Division gives an integer.
LEMMA QuotientLemma ==
    ASSUME NEW v \in Int, NEW u \in Int, u # 0
    PROVE  Quotient(v, u) \in Int
<1>1. Abs(v) \in Int /\ Abs(u) \in Nat /\ Abs(u) > 0
  BY DEF Abs
<1> DEFINE q == Abs(v) \div Abs(u)
<1>2. q \in Int
  BY <1>1, RemainderLemma
<1>3. Quotient(v, u) = q \/ Quotient(v, u) = -q
  BY DEF Quotient
<1> HIDE DEF q
<1> QED
  BY <1>2, <1>3

\* An amount below the width is a number below it, as a signed integer too.
LEMMA ShiftRange ==
    ASSUME NEW w \in Widths, NEW u \in Int, Fits(u, w), Unsigned(u, w) < w
    PROVE  u \in 0..(w - 1)
<1>1. w \in 1..Max(Ladder) /\ w \in Nat /\ Max(Ladder) \in Nat
  BY WidthsLemma
<1>2. CASE u >= 0
  BY <1>1, <1>2, UnsignedLemma
<1>3. CASE u < 0 /\ w \in Ladder
  <2>1. Unsigned(u, w) >= Half(w) /\ Unsigned(u, w) \in Nat
    BY <1>1, <1>3, UnsignedLemma
  <2>2. Min(Ladder) \in 1..Max(Ladder) /\ Min(Ladder) <= w
    <3>1. Min(Ladder) \in 2..Max(Ladder) /\ Min(Ladder) <= w
      BY <1>3, WidthsLemma
    <3> QED
      BY <1>1, <3>1
  <2>3. Half(Min(Ladder)) >= Max(Ladder)
    BY LadderAssumption
  <2>4. Half(Min(Ladder)) <= Half(w) /\ Half(w) \in Nat /\ Half(Min(Ladder)) \in Nat
    BY <1>1, <2>2, HalfLemma
  <2> QED
    BY <1>1, <2>1, <2>3, <2>4
<1>4. CASE u < 0 /\ w = Bool
  <2>1. Unsigned(u, w) >= Half(w) /\ Unsigned(u, w) \in Nat
    BY <1>1, <1>4, UnsignedLemma
  <2>2. Half(w) = 1 /\ w = 1
    BY <1>4, TwoToLemma DEF Half, Bool
  <2> QED
    BY <2>1, <2>2
<1> QED
  BY <1>2, <1>3, <1>4 DEF Widths

\* The operators of BinaryOp.
Arithmetic == {"+", "-", "*", "/", "%", "&", "|", "^", "<<", ">>"}

\* An instruction on integers of a width computes one of that width.
LEMMA ComputeLemma ==
    ASSUME NEW op \in Arithmetic, NEW w \in Widths, NEW v \in Int, NEW u \in Int, Fits(u, w)
    PROVE  Compute(op, v, u, w) \in Int /\ Fits(Compute(op, v, u, w), w)
<1> DEFINE c == Compute(op, v, u, w)
<1>1. w \in 1..Max(Ladder) /\ w \in Nat /\ Max(Ladder) \in Nat
  BY WidthsLemma
<1>2. CASE Undefined(op, u, w)
  <2>1. c = 0
    BY <1>2 DEF Compute, Undefined, Shifts
  <2> QED
    BY <1>1, <2>1, FitsLemma
<1>3. CASE ~ Undefined(op, u, w) /\ op \in {"+", "-", "*"}
  <2>1. \E x \in Int : c = Signed(x, w)
    <3>1. v + u \in Int /\ v - u \in Int /\ v * u \in Int
      OBVIOUS
    <3>2. c = Signed(v + u, w) \/ c = Signed(v - u, w) \/ c = Signed(v * u, w)
      BY <1>3 DEF Compute
    <3> QED
      BY <3>1, <3>2
  <2> QED
    BY <1>1, <2>1, SignedLemma
<1>4. CASE ~ Undefined(op, u, w) /\ op \in {"&", "|", "^"}
  <2>1. c = Bitwise2(op, v, u, w)
    BY <1>4 DEF Compute
  <2> QED
    BY <1>1, <1>4, <2>1, BitwiseLemma
<1>5. CASE ~ Undefined(op, u, w) /\ op \in Shifts
  <2>1. u \in 0..(w - 1)
    <3>1. Unsigned(u, w) \in Nat
      BY <1>1, UnsignedLemma
    <3>2. Unsigned(u, w) < w
      BY <1>1, <1>5, <3>1 DEF Undefined
    <3> QED
      BY <3>2, ShiftRange
  <2>2. u \in 0..Max(Ladder) /\ w - u \in 0..Max(Ladder)
    BY <1>1, <2>1
  <2> DEFINE p == TwoTo[u]
             q == TwoTo[w - u]
             x == Unsigned(v, w)
  <2>3. p \in Nat /\ p > 0 /\ q \in Nat /\ q > 0 /\ x \in Nat
    <3>1. \A i \in 0..Max(Ladder) : TwoTo[i] \in Nat /\ TwoTo[i] > 0
      BY TwoToLemma
    <3>2. p \in Nat /\ p > 0 /\ q \in Nat /\ q > 0
      BY <2>2, <3>1
    <3>3. x \in Nat
      BY <1>1, UnsignedLemma
    <3> QED
      BY <3>2, <3>3
  <2>4. c = Signed((v % q) * p, w) \/ c = Signed(x \div p, w)
    BY <1>5 DEF Compute, Shifts
  <2> HIDE DEF p, q, x
  <2>5. v % q \in Int /\ x \div p \in Int
    BY <2>3, RemainderLemma
  <2>6. (v % q) * p \in Int
    BY <2>3, <2>5
  <2> QED
    BY <1>1, <2>4, <2>5, <2>6, SignedLemma
<1>6. CASE ~ Undefined(op, u, w) /\ op \in {"/", "%"}
  <2>1. u # 0
    BY <1>6 DEF Undefined
  <2> DEFINE q == Quotient(v, u)
  <2>2. q \in Int
    BY <2>1, QuotientLemma
  <2>3. c = Signed(q, w) \/ c = Signed(v - u * q, w)
    BY <1>6, <2>1 DEF Compute
  <2> HIDE DEF q
  <2>4. v - u * q \in Int
    BY <2>2
  <2> QED
    BY <1>1, <2>2, <2>3, <2>4, SignedLemma
<1>7. op \in {"+", "-", "*"} \/ op \in {"&", "|", "^"} \/ op \in Shifts \/ op \in {"/", "%"}
  BY DEF Arithmetic, Shifts
<1> QED
  BY <1>2, <1>3, <1>4, <1>5, <1>6, <1>7

\* The amount of a shift that is widened for it: a number at least the narrowest
\* width, below the widest, that is the value of its node.
LEMMA WideShiftLemma ==
    ASSUME NEW op, NEW l \in Typed, NEW r \in Typed, IsInt(l), IsInt(r),
           op \in Shifts, KnownAmount(r), l.type < Amount(r), ~ ShiftError(op, l, r)
    PROVE  /\ Amount(r) \in Nat /\ Amount(r) >= Min(Ladder) /\ Amount(r) < Max(Ladder)
           /\ Widened(Amount(r)) \in Ladder /\ Widened(Amount(r)) > Amount(r)
           /\ Widened(Amount(r)) # Void
           /\ r.val = Amount(r)
<1> DEFINE a == Amount(r)
<1>1. a \in Nat /\ Min(Ladder) \in Nat /\ Min(Ladder) >= 2 /\ Max(Ladder) \in Nat
  <2>1. Min(Ladder) \in 2..Max(Ladder) /\ l.type \in 1..Max(Ladder) /\ Max(Ladder) \in Nat
    BY TypedLemma, WidthsLemma DEF IsInt
  <2>2. a \in Int /\ l.type < a
    BY AmountLemma
  <2> QED
    BY <2>1, <2>2
<1>2. ~ (a < Min(Ladder)) /\ Widened(a) # Void
  BY DEF ShiftError
<1>3. a >= Min(Ladder) /\ a # 1
  BY <1>1, <1>2
<1>4. ~ (a >= Max(Ladder))
  BY <1>1, <1>2, WidenedLemma
<1>5. a < Max(Ladder)
  BY <1>1, <1>4
<1>6. Widened(a) \in Ladder /\ Widened(a) > a
  BY <1>1, <1>3, <1>5, WidenedLemma
<1>7. r.val = a
  BY <1>3, <1>5, AmountLemma
<1> QED
  BY <1>1, <1>2, <1>3, <1>5, <1>6, <1>7

\* The left operand of a shift, widened or not, is an integer of its type.
LEMMA WidenLeftLemma ==
    ASSUME NEW op, NEW l \in Typed, NEW r \in Typed, IsInt(l), IsInt(r)
    PROVE  LET n == WidenLeft(op, l, r)
           IN  /\ Proper(n) /\ n.type \in Widths /\ n.val = l.val
               /\ n.poison = l.poison /\ n.malformed = l.malformed
               /\ n.type = l.type \/ n.type = Widened(Amount(r))
               /\ op \in Shifts /\ KnownAmount(r) /\ l.type < Amount(r) /\ ~ ShiftError(op, l, r)
                    => n.type = Widened(Amount(r))
               /\ ~ (op \in Shifts /\ KnownAmount(r) /\ l.type < Amount(r)) => n.type = l.type
<1> DEFINE n == WidenLeft(op, l, r)
           a == Amount(r)
           wide == op \in Shifts /\ KnownAmount(r) /\ l.type < a
<1>1. /\ Proper(l) /\ l \in NodeRecords /\ l.type \in Widths /\ l.type \in Nat /\ l.val \in Int
      /\ l.type \in 1..Max(Ladder) /\ Fits(l.val, l.type)
  BY TypedLemma DEF Typed, IsInt
<1>2. CASE wide /\ ~ ShiftError(op, l, r)
  <2>1. /\ a \in Nat /\ a >= Min(Ladder) /\ Widened(a) \in Ladder /\ Widened(a) > a /\ Widened(a) # Void
    BY <1>2, WideShiftLemma
  <2>2. n = [l EXCEPT !.type = Widened(a), !.kind = "instruction"]
    BY <1>2, <2>1 DEF WidenLeft
  <2>3. Widened(a) \in Widths /\ Widened(a) \in 1..Max(Ladder) /\ l.type <= Widened(a)
    <3>1. Widened(a) \in Widths
      BY <2>1 DEF Widths
    <3>2. Widened(a) \in 1..Max(Ladder)
      BY <3>1, WidthsLemma
    <3> QED
      BY <1>1, <1>2, <2>1, <3>1, <3>2, WidthsLemma
  <2>4. Fits(l.val, Widened(a))
    BY <1>1, <2>3, FitsLemma
  <2>5. n \in NodeRecords /\ n.type = Widened(a) /\ n.val = l.val /\ n.poison = l.poison /\ n.malformed = l.malformed
    BY <1>1, <2>2, <2>3 DEF NodeRecords
  <2> QED
    BY <1>2, <2>3, <2>4, <2>5 DEF Proper
<1>3. CASE ~ wide
  <2>1. n = l
    BY <1>3 DEF WidenLeft
  <2> QED
    BY <1>1, <1>3, <2>1
<1>4. CASE wide /\ ShiftError(op, l, r)
  <2>1. a < Min(Ladder) \/ Widened(a) = Void
    BY <1>4 DEF ShiftError
  <2>2. a \in Int /\ Min(Ladder) \in Nat
    BY AmountLemma, WidthsLemma
  <2>3. ~ (a >= Min(Ladder)) \/ Widened(a) = Void
    BY <2>1, <2>2
  <2>4. n = l
    BY <2>3 DEF WidenLeft
  <2> QED
    BY <1>1, <1>4, <2>4
<1> QED
  BY <1>2, <1>3, <1>4

\* The type announced of a binary operator is a number.
LEMMA ResultTypeLemma ==
    ASSUME NEW op, NEW l \in Typed, NEW r \in Typed
    PROVE  /\ ResultType(op, l, r) \in Int
           /\ ResultType(op, l, r) \in Widths => IsInt(l) /\ IsInt(r)
<1> DEFINE t == ResultType(op, l, r)
<1>1. l.predicted \in Int /\ r.predicted \in Int
      /\ (l.predicted \in Widths => IsInt(l)) /\ (r.predicted \in Widths => IsInt(r))
  BY TypedLemma
<1>2. CASE ~ (l.predicted \in Widths /\ r.predicted \in Widths)
  <2>1. \/ t = r.predicted /\ r.predicted \notin Widths
        \/ t = l.predicted /\ l.predicted \notin Widths
    BY <1>2, Zenon DEF ResultType
  <2> QED
    BY <1>1, <1>2, <2>1
<1>3. CASE l.predicted \in Widths /\ r.predicted \in Widths
  <2>1. IsInt(l) /\ IsInt(r) /\ Amount(r) \in Int /\ Min(Ladder) \in Nat
    BY <1>1, <1>3, AmountLemma, WidthsLemma
  <2>2. \/ t = Void \/ t = l.predicted \/ t = r.predicted
        \/ ~ (Amount(r) < Min(Ladder)) /\ t = Widened(Amount(r))
    BY <1>3, Zenon DEF ResultType
  <2>3. Amount(r) >= Min(Ladder) => Widened(Amount(r)) \in Nat
    <3>1. Amount(r) >= Min(Ladder) => Amount(r) \in Nat
      BY <2>1
    <3> QED
      BY <3>1, WidenedLemma
  <2> QED
    BY <1>1, <2>1, <2>2, <2>3 DEF Void
<1> QED
  BY <1>2, <1>3

\* The wider of two types is one of them.
LEMMA WiderLemma ==
    ASSUME NEW l, NEW r, l.type \in Widths, r.type \in Widths
    PROVE  /\ Wider(l, r) \in Widths /\ (Wider(l, r) = l.type \/ Wider(l, r) = r.type)
           /\ l.type <= Wider(l, r) /\ r.type <= Wider(l, r)
<1>1. l.type \in Nat /\ r.type \in Nat
  <2>1. l.type \in 1..Max(Ladder) /\ r.type \in 1..Max(Ladder)
    BY WidthsLemma
  <2> QED
    BY <2>1
<1> QED
  BY <1>1 DEF Wider

\* An operator on integers gives an integer of its type; the type is the one that
\* was announced, but for two kinds of shifts.
LEMMA OnIntegersLemma ==
    ASSUME NEW op \in Arithmetic, NEW l0 \in Typed, NEW r0 \in Typed, IsInt(l0), IsInt(r0)
    PROVE  /\ OnIntegers(op, l0, r0) \in Typed
           /\ l0 \in Announced /\ r0 \in Announced /\ ~ ShiftError(op, l0, r0) /\ ~ AmountWider(op, l0, r0)
                => OnIntegers(op, l0, r0) \in Announced
<1> DEFINE l == WidenLeft(op, l0, r0)
           w == Wider(l, r0)
           lhs == Convert(l, w)
           rhs == Convert(r0, w)
           kind == IF IsConstant(lhs) /\ IsConstant(rhs) /\ op \in Folded THEN "constant" ELSE "instruction"
           val == Compute(op, lhs.val, rhs.val, w)
           poison == lhs.poison \/ rhs.poison \/ Undefined(op, rhs.val, w)
           malformed == lhs.malformed \/ rhs.malformed
           constExpr == l0.constExpr /\ r0.constExpr
           predicted == ResultType(op, l0, r0)
           n == [kind |-> kind, type |-> w, val |-> val, poison |-> poison, malformed |-> malformed,
                 constExpr |-> constExpr, predicted |-> predicted]
<1>1. OnIntegers(op, l0, r0) = n
  BY DEF OnIntegers
<1>2. Proper(l) /\ l.type \in Widths /\ Proper(r0) /\ r0.type \in Widths
  BY WidenLeftLemma DEF Typed, IsInt
<1> HIDE DEF l
<1>3. w \in Widths /\ (w = l.type \/ w = r0.type) /\ l.type <= w /\ r0.type <= w
  BY <1>2, WiderLemma
<1> HIDE DEF w
<1>4. Proper(lhs) /\ lhs.type = w /\ Proper(rhs) /\ rhs.type = w
  BY <1>2, <1>3, ConvertLemma
<1> HIDE DEF lhs, rhs
<1>5. lhs.val \in Int /\ rhs.val \in Int /\ Fits(rhs.val, w)
  BY <1>3, <1>4 DEF Proper, IsInt, NodeRecords
<1>6. val \in Int /\ Fits(val, w)
  BY <1>3, <1>5, ComputeLemma
<1> HIDE DEF val
<1>7. kind \in {"constant", "instruction"} /\ poison \in BOOLEAN /\ malformed \in BOOLEAN /\ constExpr \in BOOLEAN
  <2>1. lhs.poison \in BOOLEAN /\ rhs.poison \in BOOLEAN /\ lhs.malformed \in BOOLEAN /\ rhs.malformed \in BOOLEAN
    BY <1>4 DEF Proper, NodeRecords
  <2>2. l0.constExpr \in BOOLEAN /\ r0.constExpr \in BOOLEAN
    BY TypedLemma
  <2>3. kind \in {"constant", "instruction"}
    BY Zenon
  <2>4. poison \in BOOLEAN /\ malformed \in BOOLEAN /\ constExpr \in BOOLEAN
    BY <2>1, <2>2, Zenon
  <2> QED
    BY <2>3, <2>4
<1> HIDE DEF kind, poison, malformed, constExpr
<1>8. predicted \in Int
  BY ResultTypeLemma
<1>9. n \in NodeRecords /\ n.type = w /\ n.val = val /\ n.predicted = predicted
  BY <1>3, <1>6, <1>7, <1>8 DEF NodeRecords
<1>10. n \in Typed
  BY <1>3, <1>6, <1>9 DEF Typed, Proper, IsInt
<1>11. ASSUME l0 \in Announced, r0 \in Announced, ~ ShiftError(op, l0, r0), ~ AmountWider(op, l0, r0)
       PROVE  predicted = w
  <2> DEFINE a == Amount(r0)
             wide == op \in Shifts /\ KnownAmount(r0) /\ l0.type < a
  <2>1. l0.predicted = l0.type /\ r0.predicted = r0.type /\ l0.type \in Widths /\ r0.type \in Widths
    BY <1>11 DEF Announced, IsInt
  <2>2. w = IF l.type > r0.type THEN l.type ELSE r0.type
    BY DEF w, Wider
  <2>3. predicted = IF wide THEN IF a < Min(Ladder) THEN Void ELSE Widened(a)
                    ELSE IF l0.type > r0.type THEN l0.type ELSE r0.type
    BY <2>1 DEF ResultType
  <2>4. CASE wide
    <3>1. a \in Nat /\ a >= Min(Ladder) /\ Widened(a) \in Ladder
      BY <1>11, <2>4, WideShiftLemma
    <3>2. l.type = Widened(a)
      BY <1>11, <2>4, WidenLeftLemma DEF l
    <3>3. ~ (r0.type > Widened(a))
      BY <1>11, <2>4, <3>1 DEF AmountWider
    <3>4. Widened(a) \in Nat /\ r0.type \in Nat /\ Min(Ladder) \in Nat
      BY <3>1, TypedLemma, WidthsLemma, WidenedLemma
    <3>5. predicted = Widened(a)
      BY <2>3, <2>4, <3>1, <3>4
    <3>6. w = Widened(a)
      BY <2>2, <3>2, <3>3, <3>4
    <3> QED
      BY <3>5, <3>6
  <2>5. CASE ~ wide
    <3>1. l.type = l0.type
      BY <2>5, WidenLeftLemma DEF l
    <3> QED
      BY <2>2, <2>3, <2>5, <3>1
  <2> QED
    BY <2>4, <2>5
<1> QED
  BY <1>1, <1>9, <1>10, <1>11 DEF Announced

\* An operator with a floating-point operand gives a floating-point type, the one
\* that was announced.
LEMMA OnFloatsLemma ==
    ASSUME NEW op \in Arithmetic, NEW l \in Typed, NEW r \in Typed, ~ (IsInt(l) /\ IsInt(r))
    PROVE  /\ OnFloats(op, l, r) \in Typed
           /\ l \in Announced /\ r \in Announced => OnFloats(op, l, r) \in Announced
<1> DEFINE type == IF IsInt(l) THEN r.type ELSE l.type
           both == IsConstant(l) /\ IsConstant(r) /\ IsFloat(l) /\ IsFloat(r) /\ op \in Folded
           kind == IF both THEN "constant" ELSE "instruction"
           poison == l.poison \/ r.poison
           malformed == \/ l.malformed \/ r.malformed \/ both
                        \/ op \notin {"+", "-", "*", "/"}
                        \/ IsFloat(l) /\ IsFloat(r) /\ l.type # r.type
           constExpr == l.constExpr /\ r.constExpr
           predicted == ResultType(op, l, r)
           n == [kind |-> kind, type |-> type, val |-> 0, poison |-> poison, malformed |-> malformed,
                 constExpr |-> constExpr, predicted |-> predicted]
<1>1. OnFloats(op, l, r) = n
  BY DEF OnFloats
<1>2. type \in Floats /\ type \notin Widths
  <2>1. (~ IsInt(l) => l.type \in Floats) /\ (~ IsInt(r) => r.type \in Floats)
    BY TypedLemma
  <2>2. type \in Floats
    BY <2>1
  <2> QED
    BY <2>2, WidthsLemma
<1>3. kind \in {"constant", "instruction"} /\ poison \in BOOLEAN /\ malformed \in BOOLEAN /\ constExpr \in BOOLEAN
  <2>1. l.poison \in BOOLEAN /\ r.poison \in BOOLEAN /\ l.malformed \in BOOLEAN /\ r.malformed \in BOOLEAN
        /\ l.constExpr \in BOOLEAN /\ r.constExpr \in BOOLEAN
    BY TypedLemma
  <2> QED
    BY <2>1, Zenon
<1>4. predicted \in Int /\ predicted \notin Widths
  BY ResultTypeLemma
<1>5. l \in Announced /\ r \in Announced => predicted = type
  <2> SUFFICES ASSUME l \in Announced, r \in Announced PROVE predicted = type
    OBVIOUS
  <2>1. l.predicted = l.type /\ r.predicted = r.type
    BY DEF Announced
  <2> QED
    BY <2>1, Zenon DEF ResultType, IsInt
<1> HIDE DEF type, kind, poison, malformed, constExpr, predicted
<1>6. n \in NodeRecords /\ n.type = type /\ n.predicted = predicted
  BY <1>2, <1>3, <1>4 DEF NodeRecords
<1>7. n \in Typed
  BY <1>2, <1>4, <1>6 DEF Typed, Proper, IsInt
<1> QED
  BY <1>1, <1>5, <1>6, <1>7 DEF Announced

\* What is not an integer's is complemented, negated or cast to one of its type.
LEMMA UnaryLemma ==
    ASSUME NEW n \in Typed
    PROVE  /\ IsInt(n) => FlipOp(n) \in Typed
           /\ IsInt(n) /\ n \in Announced => FlipOp(n) \in Announced
           /\ \A t \in Widths \cup Floats : Cast(n, t) \in Announced
<1>1. Proper(n) /\ n \in NodeRecords /\ n.val \in Int /\ n.type \in Widths \cup Floats
      /\ (IsInt(n) => n.type \in 1..Max(Ladder) /\ Fits(n.val, n.type))
  BY TypedLemma DEF Typed
<1>2. ASSUME IsInt(n) PROVE FlipOp(n) \in Typed /\ (n \in Announced => FlipOp(n) \in Announced)
  <2> DEFINE x == IF IsConstant(n) THEN Signed(-n.val, n.type) ELSE -n.val - 1
  <2>1. FlipOp(n) = [n EXCEPT !.val = x]
    BY DEF FlipOp
  <2>2. n.type \in 1..Max(Ladder) /\ Fits(n.val, n.type) /\ -n.val \in Int /\ -n.val - 1 \in Int
    BY <1>1, <1>2
  <2>3. x \in Int /\ Fits(x, n.type)
    <3>1. Fits(-n.val - 1, n.type)
      BY <1>1, <2>2, FitsLemma
    <3>2. Signed(-n.val, n.type) \in Int /\ Fits(Signed(-n.val, n.type), n.type)
      BY <2>2, SignedLemma
    <3> QED
      BY <2>2, <3>1, <3>2
  <2> HIDE DEF x
  <2> DEFINE m == [n EXCEPT !.val = x]
  <2>4. m \in NodeRecords /\ m.type = n.type /\ m.predicted = n.predicted /\ m.val = x
    BY <1>1, <2>3 DEF NodeRecords
  <2>5. n.predicted = n.type => m.predicted = m.type
    BY <2>4
  <2>6. m \in Typed
    BY <1>2, <2>3, <2>4 DEF Typed, Proper, IsInt
  <2> QED
    BY <2>1, <2>5, <2>6 DEF Announced
<1>3. ASSUME NEW t \in Widths \cup Floats PROVE Cast(n, t) \in Announced
  <2> DEFINE c == Convert(n, t)
             m == [c EXCEPT !.constExpr = FALSE, !.predicted = t]
  <2>1. Proper(c) /\ c.type = t
    BY <1>1, ConvertLemma
  <2>2. Cast(n, t) = m
    BY DEF Cast
  <2> HIDE DEF c
  <2>3. c \in NodeRecords /\ (IsInt(c) => Fits(c.val, c.type))
    BY <2>1 DEF Proper
  <2>4. t \in Int
    BY WidthsLemma
  <2>5. m \in NodeRecords /\ m.type = t /\ m.predicted = t /\ m.val = c.val
    BY <2>1, <2>3, <2>4 DEF NodeRecords
  <2> HIDE DEF m
  <2>6. m \in Typed
    BY <2>1, <2>3, <2>5 DEF Typed, Proper, IsInt
  <2> QED
    BY <2>2, <2>5, <2>6 DEF Announced
<1> QED
  BY <1>2, <1>3

\* An operator on two values gives one of its type, of the type announced if theirs
\* are.
LEMMA BinaryLemma ==
    ASSUME NEW op \in Arithmetic, NEW l \in Typed, NEW r \in Typed
    PROVE  /\ BinaryOp(op, l, r) \in Typed
           /\ l \in Announced /\ r \in Announced
              /\ ~ (IsInt(l) /\ IsInt(r) /\ (ShiftError(op, l, r) \/ AmountWider(op, l, r)))
                => BinaryOp(op, l, r) \in Announced
<1>1. CASE IsInt(l) /\ IsInt(r)
  <2>1. BinaryOp(op, l, r) = OnIntegers(op, l, r)
    BY <1>1 DEF BinaryOp
  <2> QED
    BY <1>1, <2>1, OnIntegersLemma
<1>2. CASE ~ (IsInt(l) /\ IsInt(r))
  <2>1. BinaryOp(op, l, r) = OnFloats(op, l, r)
    BY <1>2 DEF BinaryOp
  <2> QED
    BY <1>2, <2>1, OnFloatsLemma
<1> QED
  BY <1>1, <1>2

\* A shift whose left operand was widened is the product with the power of two, if
\* that is an integer of the width.
LEMMA WideShiftExact ==
    ASSUME NEW l0 \in Typed, NEW r0 \in Typed, IsInt(l0), IsInt(r0),
           KnownAmount(r0), l0.type < Amount(r0), ~ ShiftError("<<", l0, r0)
    PROVE  LET n == OnIntegers("<<", l0, r0)
           IN  /\ ~ Undefined("<<", Amount(r0), n.type)
               /\ Fits(l0.val, n.type - Amount(r0)) => n.val = l0.val * TwoTo[Amount(r0)]
<1> DEFINE l == WidenLeft("<<", l0, r0)
           w == Wider(l, r0)
           lhs == Convert(l, w)
           rhs == Convert(r0, w)
           n == OnIntegers("<<", l0, r0)
           a == Amount(r0)
           v == l0.val
<1> USE DEF Shifts
<1>1. /\ a \in Nat /\ a >= Min(Ladder) /\ a < Max(Ladder)
      /\ Widened(a) \in Ladder /\ Widened(a) > a /\ r0.val = a
  BY WideShiftLemma
<1>2. /\ Proper(l) /\ l.type \in Widths /\ l.val = v /\ l.type = Widened(a)
      /\ Proper(r0) /\ r0.type \in Widths
  BY WidenLeftLemma DEF Typed, IsInt
<1>3. v \in Int /\ r0.val \in Int /\ Fits(r0.val, r0.type)
  BY TypedLemma
<1>4. n.type = w /\ n.val = Compute("<<", lhs.val, rhs.val, w)
  BY DEF OnIntegers
<1> HIDE DEF l, n, v
<1>5. w \in Widths /\ l.type <= w /\ r0.type <= w
  BY <1>2, WiderLemma
<1> HIDE DEF w
<1>6. lhs.val = v /\ rhs.val = a
  BY <1>1, <1>2, <1>5, ConvertLemma DEF IsInt
<1> HIDE DEF lhs, rhs, a
<1>7. w \in 1..Max(Ladder) /\ w \in Nat /\ Max(Ladder) \in Nat /\ Widened(a) \in Nat /\ r0.type \in 1..Max(Ladder)
  <2>1. w \in 1..Max(Ladder) /\ r0.type \in 1..Max(Ladder) /\ Max(Ladder) \in Nat
    BY <1>2, <1>5, WidthsLemma
  <2>2. Widened(a) \in 1..Max(Ladder)
    BY <1>2, WidthsLemma
  <2> QED
    BY <2>1, <2>2
<1>8. a < w /\ a > 0
  <2>1. Min(Ladder) \in 2..Max(Ladder)
    BY WidthsLemma
  <2> QED
    BY <1>1, <1>2, <1>5, <1>7, <2>1
<1>9. Unsigned(a, w) = a
  <2>1. Fits(a, w)
    BY <1>1, <1>3, <1>5, <1>7, FitsLemma
  <2> QED
    BY <1>1, <1>7, <2>1, UnsignedLemma
<1>10. ~ Undefined("<<", a, w)
  BY <1>1, <1>7, <1>8, <1>9 DEF Undefined
<1> DEFINE k == w - a
           q == TwoTo[a]
           h == Half(k)
           H == Half(w)
<1>11. k \in 1..Max(Ladder) /\ k - 1 \in 0..Max(Ladder) /\ a \in 0..Max(Ladder) /\ (k - 1) + a = w - 1
       /\ w - 1 \in 0..Max(Ladder)
  BY <1>1, <1>7, <1>8
<1>12. Compute("<<", v, a, w) = Signed((v % TwoTo[k]) * q, w)
  BY <1>10 DEF Compute
<1> HIDE DEF k
<1>13. /\ TwoTo[k] = 2 * h /\ h \in Nat /\ h > 0 /\ H \in Nat /\ H > 0
  BY <1>7, <1>11, HalfLemma
<1>14. q \in Nat /\ q > 0
  BY <1>11, TwoToLemma
<1>15. h * q = H
  <2>1. TwoTo[k - 1] * TwoTo[a] = TwoTo[(k - 1) + a]
    <3>1. (k - 1) + a <= Max(Ladder)
      BY <1>11
    <3> QED
      BY <1>11, <3>1, PowersLemma
  <2> QED
    BY <1>11, <2>1 DEF Half
<1> HIDE DEF q
<1>16. \A x : (Fits(x, w) <=> -H <= x /\ x < H) /\ (Fits(x, k) <=> -h <= x /\ x < h)
  BY DEF Fits
<1> HIDE DEF h, H
<1>17. ASSUME Fits(v, k) PROVE Signed((v % TwoTo[k]) * q, w) = v * q
  <2>1. -h <= v /\ v < h
    BY <1>16, <1>17
  <2> DEFINE b == 2 * h
             y == v % b
             x == y * q
  <2>2. b \in Nat /\ b > 0
    BY <1>13
  <2>3. b = 2 * h
    OBVIOUS
  <2> HIDE DEF b
  <2>4. y \in 0..(b - 1) /\ (v \in 0..(b - 1) => y = v) /\ (v \in -b..-1 => y = v + b)
    BY <1>3, <2>2, RemainderLemma
  <2>5. Signed((v % TwoTo[k]) * q, w) = Signed(x, w)
    BY <1>13, <2>3
  <2> HIDE DEF y
  <2>6. \A s, t \in Int : s <= t => s * q <= t * q
    BY <1>14
  <2>7. \A s, t \in Int : (s + t) * q = s * q + t * q
    BY <1>14
  <2>8. v * q \in Int /\ h * q \in Int /\ x \in Int
    BY <1>3, <1>13, <1>14, <2>4
  <2>9. v * q < H
    <3>1. v <= h - 1 /\ h - 1 \in Int /\ -1 \in Int
      <4>1. v \in Int /\ h \in Nat /\ v < h
        BY <1>3, <1>13, <2>1
      <4> QED
        BY <4>1
    <3>2. v * q <= (h - 1) * q
      BY <1>3, <2>6, <3>1
    <3>3. (h + (-1)) * q = h * q + (-1) * q /\ h + (-1) = h - 1
      BY <1>13, <2>7, <3>1
    <3>4. (-1) * q = -q
      BY <1>14
    <3> QED
      BY <1>13, <1>14, <1>15, <2>8, <3>2, <3>3, <3>4
  <2>10. -H <= v * q
    <3>1. (-h) * q <= v * q
      BY <1>3, <1>13, <2>1, <2>6
    <3>2. (-h) * q = -(h * q)
      BY <1>13, <1>14
    <3> QED
      BY <1>13, <1>15, <2>8, <3>1, <3>2
  <2>11. Fits(v * q, w)
    BY <1>16, <2>9, <2>10
  <2>12. CASE v >= 0
    <3>1. y = v
      BY <1>3, <1>13, <2>1, <2>3, <2>4, <2>12
    <3>2. x = v * q
      BY <3>1
    <3> QED
      BY <1>7, <2>5, <2>8, <2>11, <3>2, SignedLemma
  <2>13. CASE v < 0
    <3>1. y = v + b
      BY <1>3, <1>13, <2>1, <2>3, <2>4, <2>13
    <3>2. (v + b) * q = v * q + b * q
      BY <1>3, <2>2, <2>7
    <3>3. b * q = 2 * (h * q)
      BY <1>13, <1>14, <2>3
    <3>4. x = v * q + 2 * H
      BY <1>15, <3>1, <3>2, <3>3
    <3>5. x - 2 * Half(w) = v * q
      BY <1>13, <2>8, <3>4 DEF H
    <3>6. Signed(x, w) = x - 2 * Half(w)
      BY <1>7, <2>8, <2>11, <3>5, SignedLemma
    <3> QED
      BY <2>5, <3>5, <3>6
  <2> QED
    BY <1>3, <2>12, <2>13
<1>18. Fits(v, w - a) => n.val = v * TwoTo[a]
  BY <1>4, <1>6, <1>12, <1>17 DEF k, q
<1> QED
  BY <1>4, <1>10, <1>18 DEF n, a, v

\* A comparison of two integers is one of their values.
LEMMA CompareLemma ==
    ASSUME NEW op \in Comparisons, NEW l \in Typed, NEW r \in Typed, l.type \in Ladder, r.type \in Ladder
    PROVE  (CmpOp(op, l, r).val # 0) = (IF op = "==" THEN l.val = r.val ELSE l.val < r.val)
<1> DEFINE w == Wider(l, r)
<1>1. l.type \in Widths /\ r.type \in Widths /\ Proper(l) /\ Proper(r)
  BY DEF Widths, Typed
<1>2. w \in Widths /\ l.type <= w /\ r.type <= w
  BY <1>1, WiderLemma
<1> HIDE DEF w
<1>3. Convert(l, w).val = l.val /\ Convert(r, w).val = r.val
  BY <1>1, <1>2, ConvertLemma DEF IsInt
<1> DEFINE holds == IsInt(l) /\ IsInt(r) /\ IF op = "==" THEN l.val = r.val ELSE l.val < r.val
<1>4. CmpOp(op, l, r).val = IF holds THEN -1 ELSE 0
  BY <1>3 DEF CmpOp, Node, w
<1>5. holds <=> IF op = "==" THEN l.val = r.val ELSE l.val < r.val
  BY <1>1 DEF IsInt
<1>6. holds \in BOOLEAN
  OBVIOUS
<1> HIDE DEF holds
<1>7. (CmpOp(op, l, r).val # 0) <=> holds
  BY <1>4
<1> QED
  BY <1>5, <1>7

\* A value takes the place of its operands on the stack.
LEMMA ReplaceLemma ==
    ASSUME NEW X, operands \in Seq(X), NEW count \in 0..Len(operands), NEW n \in X, Replace(count, n)
    PROVE  operands' \in Seq(X)
<1>1. Len(operands) - count \in 0..Len(operands) /\ Len(operands) \in Nat
  OBVIOUS
<1> DEFINE s == SubSeq(operands, 1, Len(operands) - count)
<1>2. s \in Seq(X)
  BY <1>1
<1>3. operands' = Append(s, n)
  BY DEF Replace
<1> HIDE DEF s
<1> QED
  BY <1>2, <1>3

\* The operands of an operator.
LEMMA TopLemma ==
    ASSUME NEW X, operands \in Seq(X)
    PROVE  /\ operands # <<>> => Top \in X /\ Len(operands) \in Nat /\ Len(operands) >= 1
           /\ Len(operands) > 1 => Top \in X /\ Second \in X
<1>1. Len(operands) \in Nat /\ \A i \in 1..Len(operands) : operands[i] \in X
  OBVIOUS
<1>2. operands # <<>> => Len(operands) >= 1
  OBVIOUS
<1> QED
  BY <1>1, <1>2 DEF Top, Second

\* A leaf has a value of its type.
LEMMA LeafLemma ==
    ASSUME NEW kind \in {"constant", "instruction"}, NEW t \in Widths \cup Floats, NEW v \in Int,
           NEW c \in BOOLEAN, t \in Widths => Fits(v, t)
    PROVE  Node(kind, t, v, c) \in Announced
<1> DEFINE n == Node(kind, t, v, c)
<1>1. t \in Int
  BY WidthsLemma
<1>2. n = [kind |-> kind, type |-> t, val |-> v, poison |-> FALSE, malformed |-> FALSE,
           constExpr |-> c, predicted |-> t]
  BY DEF Node
<1>3. n \in NodeRecords /\ n.type = t /\ n.predicted = t /\ n.val = v
  BY <1>1, <1>2 DEF NodeRecords
<1> HIDE DEF n
<1>4. n \in Announced
  BY <1>3 DEF Announced, Typed, Proper, IsInt
<1> QED
  BY <1>4 DEF n

\* The properties follow from what is true of every operand and of the last operator.
LEMMA ValuesParts == ValuesIInv => ValuesInv
<1> SUFFICES ASSUME ValuesIInv PROVE ValuesInv
  OBVIOUS
<1>1. ASSUME NEW i \in DOMAIN operands
      PROVE  /\ operands[i].kind \in {"constant", "instruction"}
             /\ operands[i].type \in Widths \cup Floats
             /\ IsInt(operands[i]) => Fits(operands[i].val, operands[i].type)
  <2>1. operands[i] \in Typed
    BY <1>1 DEF ValuesIInv
  <2> QED
    BY <2>1, TypedLemma
<1>2. ASSUME shiftErrors = 0, ~ wideAmount, NEW i \in DOMAIN operands
      PROVE  operands[i].predicted = operands[i].type
  <2>1. operands[i] \in Announced
    BY <1>2 DEF ValuesIInv
  <2> QED
    BY <2>1 DEF Announced
<1>3. ValuesTypeOK
  BY <1>1 DEF ValuesTypeOK, ValuesIInv
<1>4. TypesPredicted
  BY <1>2 DEF TypesPredicted
<1> QED
  BY <1>3, <1>4 DEF ValuesInv, ValuesIInv

\* An expression starts without operands.
LEMMA ValuesStarts == ValuesInit => ValuesIInv
<1> SUFFICES ASSUME ValuesInit PROVE ValuesIInv
  OBVIOUS
<1>1. /\ operands = <<>> /\ nodes = 0 /\ shiftErrors = 0 /\ castFailed = FALSE /\ wideAmount = FALSE
      /\ lastOperator = NoOperator /\ MaxNodes \in Nat
  BY LeavesAssumption DEF ValuesInit
<1>2. operands \in Seq(Typed) /\ operands \in Seq(Announced)
  <2>1. \A X : <<>> \in Seq(X)
    OBVIOUS
  <2> QED
    BY <1>1, <2>1
<1>4. lastOperator.op = "none"
  BY <1>1 DEF NoOperator
<1>5. ComparisonsExact /\ WideShiftsExact
  BY <1>4 DEF ComparisonsExact, WideShiftsExact, Comparisons
<1>6. nodes \in 0..MaxNodes /\ shiftErrors \in Nat
  BY <1>1
<1>7. castFailed \in BOOLEAN /\ wideAmount \in BOOLEAN
  BY <1>1
<1> QED
  BY <1>2, <1>5, <1>6, <1>7 DEF ValuesIInv

\* What the invariant says of the state before a step.
LEMMA ValuesBefore ==
    ASSUME ValuesIInv
    PROVE  /\ operands \in Seq(Typed) /\ (shiftErrors = 0 /\ ~ wideAmount => operands \in Seq(Announced))
           /\ nodes \in 0..MaxNodes /\ shiftErrors \in Nat /\ castFailed \in BOOLEAN /\ wideAmount \in BOOLEAN
           /\ MaxNodes \in Nat /\ ComparisonsExact /\ WideShiftsExact
BY LeavesAssumption DEF ValuesIInv

\* A leaf is pushed.
LEMMA PushLeafKeeps == ValuesIInv /\ PushLeaf => ValuesIInv'
<1> SUFFICES ASSUME ValuesIInv, PushLeaf PROVE ValuesIInv'
  OBVIOUS
<1>1. /\ operands \in Seq(Typed) /\ (shiftErrors = 0 /\ ~ wideAmount => operands \in Seq(Announced))
      /\ nodes \in 0..MaxNodes /\ shiftErrors \in Nat /\ castFailed \in BOOLEAN /\ wideAmount \in BOOLEAN
      /\ MaxNodes \in Nat /\ ComparisonsExact /\ WideShiftsExact
  BY ValuesBefore
<1>2. /\ nodes < MaxNodes /\ nodes' = nodes + 1 /\ shiftErrors' = shiftErrors /\ castFailed' = castFailed
      /\ lastOperator' = lastOperator /\ wideAmount' = wideAmount
  BY DEF PushLeaf, Generating
<1>3. PICK n \in {Node("constant", LiteralWidth(i), Signed(i, LiteralWidth(i)), TRUE) : i \in Literals}
                \cup {Node("constant", Bool, b, TRUE) : b \in {-1, 0}}
                \cup {Node("constant", f, 0, TRUE) : f \in Floats}
                \cup {Node("instruction", v.width, v.val, v.global) : v \in VariableValues} :
          operands' = Append(operands, n)
  BY DEF PushLeaf
<1>4. n \in Announced
  <2>1. ASSUME NEW i \in Literals, n = Node("constant", LiteralWidth(i), Signed(i, LiteralWidth(i)), TRUE)
        PROVE  n \in Announced
    <3> DEFINE w == LiteralWidth(i)
               wide == {u \in Ladder : Fits(i, u)}
    <3>1. w \in Ladder
      <4>1. wide # {} => Min(wide) \in wide
        <5>1. wide \in SUBSET Nat
          BY LadderAssumption
        <5> HIDE DEF wide
        <5> QED
          BY <5>1, MinOf
      <4>2. w = IF wide = {} THEN Max(Ladder) ELSE Min(wide)
        BY DEF LiteralWidth
      <4> QED
        BY <4>1, <4>2, WidthsLemma
    <3> HIDE DEF w
    <3>2. w \in Widths /\ w \in 1..Max(Ladder)
      BY <3>1, WidthsLemma DEF Widths
    <3>3. i \in Int
      BY LeavesAssumption
    <3>4. Signed(i, w) \in Int /\ Fits(Signed(i, w), w)
      BY <3>2, <3>3, SignedLemma
    <3> QED
      BY <2>1, <3>2, <3>4, LeafLemma DEF w
  <2>2. ASSUME NEW b \in {-1, 0}, n = Node("constant", Bool, b, TRUE)
        PROVE  n \in Announced
    <3>1. Bool \in Widths /\ Bool \in 1..Max(Ladder)
      BY WidthsLemma DEF Widths
    <3>2. Fits(b, Bool) /\ b \in Int
      BY <3>1, FitsLemma
    <3> QED
      BY <2>2, <3>1, <3>2, LeafLemma
  <2>3. ASSUME NEW f \in Floats, n = Node("constant", f, 0, TRUE)
        PROVE  n \in Announced
    <3>1. f \notin Widths
      BY WidthsLemma
    <3>2. f \in Widths \cup Floats /\ (f \in Widths => Fits(0, f))
      BY <3>1
    <3>3. TRUE \in BOOLEAN /\ 0 \in Int /\ "constant" \in {"constant", "instruction"}
      OBVIOUS
    <3>4. Node("constant", f, 0, TRUE) \in Announced
      BY <3>2, <3>3, LeafLemma
    <3> QED
      BY <2>3, <3>4
  <2>4. ASSUME NEW v \in VariableValues, n = Node("instruction", v.width, v.val, v.global)
        PROVE  n \in Announced
    <3>1. v.width \in Widths \cup Floats /\ v.val \in Int /\ v.global \in BOOLEAN
          /\ (v.width \in Widths => Fits(v.val, v.width))
      BY LeavesAssumption
    <3> QED
      BY <2>4, <3>1, LeafLemma
  <2> QED
    BY <1>3, <2>1, <2>2, <2>3, <2>4
<1>5. n \in Typed
  BY <1>4 DEF Announced
<1>6. operands' \in Seq(Typed) /\ (shiftErrors' = 0 /\ ~ wideAmount' => operands' \in Seq(Announced))
  BY <1>1, <1>2, <1>3, <1>4, <1>5
<1>7. nodes' \in 0..MaxNodes
  BY <1>1, <1>2
<1>9. ComparisonsExact' /\ WideShiftsExact'
  BY <1>1, <1>2 DEF ComparisonsExact, WideShiftsExact
<1> QED
  BY <1>1, <1>2, <1>6, <1>7, <1>9 DEF ValuesIInv

\* A binary operator takes the place of its operands.
LEMMA GenerateBinaryKeeps == ValuesIInv /\ GenerateBinary => ValuesIInv'
<1> SUFFICES ASSUME ValuesIInv, GenerateBinary PROVE ValuesIInv'
  OBVIOUS
<1>1. /\ operands \in Seq(Typed) /\ (shiftErrors = 0 /\ ~ wideAmount => operands \in Seq(Announced))
      /\ nodes \in 0..MaxNodes /\ shiftErrors \in Nat /\ castFailed \in BOOLEAN /\ wideAmount \in BOOLEAN
      /\ MaxNodes \in Nat /\ ComparisonsExact /\ WideShiftsExact
  BY ValuesBefore
<1> DEFINE l == Second
           r == Top
           integers == IsInt(l) /\ IsInt(r)
<1>2. PICK op \in Operators \ (Comparisons \cup {"~"}) :
          /\ Replace(2, BinaryOp(op, l, r))
          /\ lastOperator' = [op |-> op, left |-> l, right |-> r, result |-> BinaryOp(op, l, r)]
          /\ shiftErrors' = shiftErrors + (IF integers /\ ShiftError(op, l, r) THEN 1 ELSE 0)
          /\ wideAmount' = (wideAmount \/ (integers /\ AmountWider(op, l, r)))
  BY DEF GenerateBinary, Did
<1> DEFINE n == BinaryOp(op, l, r)
           wrong == integers /\ ShiftError(op, l, r)
           wider == integers /\ AmountWider(op, l, r)
<1>3. Len(operands) > 1 /\ nodes < MaxNodes /\ nodes' = nodes + 1 /\ castFailed' = castFailed
  BY DEF GenerateBinary, Generating
<1>4. op \in Arithmetic /\ op \notin Comparisons
  BY OperatorsAssumption DEF Arithmetic, Comparisons
<1>5. l \in Typed /\ r \in Typed
      /\ (shiftErrors = 0 /\ ~ wideAmount => l \in Announced /\ r \in Announced)
  BY <1>1, <1>3, TopLemma
<1> HIDE DEF l, r
<1>6. n \in Typed /\ (l \in Announced /\ r \in Announced /\ ~ wrong /\ ~ wider => n \in Announced)
  BY <1>4, <1>5, BinaryLemma
<1>7. 2 \in 0..Len(operands)
  BY <1>1, <1>3
<1>8. /\ shiftErrors' \in Nat /\ wideAmount' \in BOOLEAN
      /\ shiftErrors' = 0 => shiftErrors = 0 /\ ~ wrong
      /\ ~ wideAmount' => ~ wideAmount /\ ~ wider
  <2>1. shiftErrors' = shiftErrors + (IF wrong THEN 1 ELSE 0) /\ wideAmount' = (wideAmount \/ wider)
    BY <1>2
  <2> HIDE DEF wrong, wider
  <2>2. shiftErrors' \in Nat /\ (shiftErrors' = 0 => shiftErrors = 0 /\ ~ wrong)
    BY <1>1, <2>1
  <2>3. wideAmount' \in BOOLEAN /\ (~ wideAmount' => ~ wideAmount /\ ~ wider)
    BY <1>1, <2>1, Zenon
  <2> QED
    BY <2>2, <2>3
<1>9. operands' \in Seq(Typed)
  BY <1>1, <1>2, <1>6, <1>7, ReplaceLemma
<1>10. ASSUME shiftErrors' = 0, ~ wideAmount' PROVE operands' \in Seq(Announced)
  <2>1. operands \in Seq(Announced) /\ n \in Announced
    BY <1>1, <1>5, <1>6, <1>8, <1>10
  <2> QED
    BY <1>2, <1>7, <2>1, ReplaceLemma
<1>11. nodes' \in 0..MaxNodes
  BY <1>1, <1>3
<1>12. /\ lastOperator'.op = op /\ lastOperator'.left = l /\ lastOperator'.right = r
       /\ lastOperator'.result = n
  BY <1>2
<1>13. ComparisonsExact'
  BY <1>4, <1>12 DEF ComparisonsExact
<1>14. WideShiftsExact'
  <2> SUFFICES ASSUME op = "<<", integers, KnownAmount(r), l.type < Amount(r), shiftErrors' = 0
               PROVE  /\ ~ Undefined("<<", Amount(r), n.type)
                      /\ Fits(l.val, n.type - Amount(r)) => n.val = l.val * TwoTo[Amount(r)]
    BY <1>12, Zenon DEF WideShiftsExact
  <2>1. ~ ShiftError("<<", l, r)
    BY <1>8
  <2>2. n = OnIntegers("<<", l, r)
    BY DEF BinaryOp
  <2> QED
    BY <1>5, <2>1, <2>2, WideShiftExact
<1> QED
  BY <1>1, <1>3, <1>8, <1>9, <1>10, <1>11, <1>13, <1>14 DEF ValuesIInv

\* A unary operator or a cast takes the place of its operand.
LEMMA UnaryKeeps ==
    ASSUME ValuesIInv, Generating, operands # <<>>, NEW op \in {"~", "cast"}, NEW n \in Typed,
           Top \in Announced => n \in Announced, Replace(1, n), Did(op, Top, Top, n),
           nodes' = nodes + 1, UNCHANGED <<shiftErrors, castFailed, wideAmount>>
    PROVE  ValuesIInv'
<1>1. /\ operands \in Seq(Typed) /\ (shiftErrors = 0 /\ ~ wideAmount => operands \in Seq(Announced))
      /\ nodes \in 0..MaxNodes /\ shiftErrors \in Nat /\ castFailed \in BOOLEAN /\ wideAmount \in BOOLEAN
      /\ MaxNodes \in Nat
  BY ValuesBefore
<1>2. shiftErrors' = shiftErrors /\ castFailed' = castFailed /\ wideAmount' = wideAmount /\ nodes < MaxNodes
  BY DEF Generating
<1>3. 1 \in 0..Len(operands)
  BY <1>1, TopLemma
<1>4. operands' \in Seq(Typed)
  BY <1>1, <1>3, ReplaceLemma
<1>5. ASSUME shiftErrors' = 0, ~ wideAmount' PROVE operands' \in Seq(Announced)
  <2>1. operands \in Seq(Announced)
    BY <1>1, <1>2, <1>5
  <2>2. n \in Announced
    BY <2>1, TopLemma
  <2> QED
    BY <1>3, <2>1, <2>2, ReplaceLemma
<1>6. nodes' \in 0..MaxNodes
  BY <1>1, <1>2
<1>7. lastOperator'.op = op /\ op \notin Comparisons /\ op # "<<"
  BY DEF Did, Comparisons
<1>8. ComparisonsExact' /\ WideShiftsExact'
  BY <1>7 DEF ComparisonsExact, WideShiftsExact
<1> QED
  BY <1>1, <1>2, <1>4, <1>5, <1>6, <1>8 DEF ValuesIInv

\* A complement takes the place of its operand.
LEMMA GenerateFlipKeeps == ValuesIInv /\ GenerateFlip => ValuesIInv'
<1> SUFFICES ASSUME ValuesIInv, GenerateFlip PROVE ValuesIInv'
  OBVIOUS
<1>1. /\ Generating /\ operands # <<>> /\ IsInt(Top) /\ Replace(1, FlipOp(Top))
      /\ Did("~", Top, Top, FlipOp(Top)) /\ nodes' = nodes + 1
      /\ UNCHANGED <<shiftErrors, castFailed, wideAmount>>
  BY DEF GenerateFlip
<1>2. Top \in Typed
  BY <1>1, ValuesBefore, TopLemma
<1>3. FlipOp(Top) \in Typed /\ (Top \in Announced => FlipOp(Top) \in Announced)
  BY <1>1, <1>2, UnaryLemma
<1> QED
  BY <1>1, <1>3, UnaryKeeps

\* A cast takes the place of its operand.
LEMMA GenerateCastKeeps == ValuesIInv /\ GenerateCast => ValuesIInv'
<1> SUFFICES ASSUME ValuesIInv, GenerateCast PROVE ValuesIInv'
  OBVIOUS
<1>1. PICK type \in Widths \cup Floats : Replace(1, Cast(Top, type)) /\ Did("cast", Top, Top, Cast(Top, type))
  BY DEF GenerateCast
<1>2. /\ Generating /\ operands # <<>> /\ nodes' = nodes + 1
      /\ UNCHANGED <<shiftErrors, castFailed, wideAmount>>
  BY DEF GenerateCast
<1>3. Top \in Typed
  BY <1>2, ValuesBefore, TopLemma
<1>4. Cast(Top, type) \in Announced
  BY <1>3, UnaryLemma
<1>5. Cast(Top, type) \in Typed
  BY <1>4 DEF Announced
<1> QED
  BY <1>1, <1>2, <1>4, <1>5, UnaryKeeps

\* A comparison ends the expression.
LEMMA GenerateCompareKeeps == ValuesIInv /\ GenerateCompare => ValuesIInv'
<1> SUFFICES ASSUME ValuesIInv, GenerateCompare PROVE ValuesIInv'
  OBVIOUS
<1>1. /\ operands \in Seq(Typed) /\ (shiftErrors = 0 /\ ~ wideAmount => operands \in Seq(Announced))
      /\ nodes \in 0..MaxNodes /\ shiftErrors \in Nat /\ castFailed \in BOOLEAN /\ wideAmount \in BOOLEAN
      /\ MaxNodes \in Nat /\ ComparisonsExact /\ WideShiftsExact
  BY ValuesBefore
<1>2. /\ Len(operands) = 2 /\ nodes < MaxNodes /\ nodes' = nodes + 1
      /\ shiftErrors' = shiftErrors /\ wideAmount' = wideAmount
  BY DEF GenerateCompare, Generating
<1>3. nodes' \in 0..MaxNodes
  BY <1>1, <1>2
<1>4. PICK op \in Operators \cap Comparisons :
          \/ castFailed' = TRUE /\ operands' = operands /\ lastOperator' = lastOperator
          \/ /\ operands' = <<>> /\ castFailed' = castFailed
             /\ Did(op, Second, Top, CmpOp(op, Second, Top))
  BY DEF GenerateCompare
<1>5. CASE castFailed' = TRUE /\ operands' = operands /\ lastOperator' = lastOperator
  <2>1. ComparisonsExact' /\ WideShiftsExact'
    BY <1>1, <1>2, <1>5 DEF ComparisonsExact, WideShiftsExact
  <2> QED
    BY <1>1, <1>2, <1>3, <1>5, <2>1 DEF ValuesIInv
<1>6. CASE /\ operands' = <<>> /\ castFailed' = castFailed
           /\ Did(op, Second, Top, CmpOp(op, Second, Top))
  <2> DEFINE l == Second
             r == Top
  <2>1. l \in Typed /\ r \in Typed
    BY <1>1, <1>2, TopLemma
  <2>2. /\ lastOperator'.op = op /\ lastOperator'.left = l /\ lastOperator'.right = r
        /\ lastOperator'.result = CmpOp(op, l, r)
    BY <1>6 DEF Did
  <2> HIDE DEF l, r
  <2>3. op \in Comparisons /\ op # "<<"
    BY DEF Comparisons
  <2>4. ComparisonsExact'
    BY <2>1, <2>2, <2>3, CompareLemma DEF ComparisonsExact
  <2>5. WideShiftsExact'
    BY <2>2, <2>3 DEF WideShiftsExact
  <2>6. operands' \in Seq(Typed) /\ operands' \in Seq(Announced)
    <3>1. \A X : <<>> \in Seq(X)
      OBVIOUS
    <3> QED
      BY <1>6, <3>1
  <2> QED
    BY <1>1, <1>2, <1>3, <1>6, <2>4, <2>5, <2>6 DEF ValuesIInv
<1> QED
  BY <1>4, <1>5, <1>6

\* Every value an expression is generated for is one of its type; but for shifts beyond
\* every type and shifts by an amount wider than the type they are widened to, the type
\* is the one getLLVMResultType() announces; comparisons of integers of any two widths
\* are those of their values, and a shift whose left operand is widened loses no bits
\* (BinaryOp.cpp, CmpOp.cpp, Coercion.cpp, FlipOp.cpp, Cast.cpp).
THEOREM ValuesTyped == ValuesSpec => []ValuesInv
<1>1. ValuesInit => ValuesIInv
  BY ValuesStarts
<1>2. ValuesIInv /\ [ValuesNext]_valuesVars => ValuesIInv'
  <2> SUFFICES ASSUME ValuesIInv, [ValuesNext]_valuesVars PROVE ValuesIInv'
    OBVIOUS
  <2>1. CASE UNCHANGED valuesVars
    BY <2>1 DEF valuesVars, ValuesIInv, ComparisonsExact, WideShiftsExact
  <2>2. CASE ValuesNext
    BY <2>2, PushLeafKeeps, GenerateBinaryKeeps, GenerateFlipKeeps, GenerateCastKeeps,
       GenerateCompareKeeps DEF ValuesNext
  <2> QED
    BY <2>1, <2>2
<1>3. ValuesIInv => ValuesInv
  BY ValuesParts
<1> QED
  BY <1>1, <1>2, <1>3, PTL DEF ValuesSpec
=============================================================================
