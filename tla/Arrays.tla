-------------------------------- MODULE Arrays --------------------------------
(***************************************************************************)
(* Arrays and matrices (src/src/Array.cpp, Matrix.cpp, ArrayElements.cpp,  *)
(* MatrixElements.cpp, LoadArray.cpp, UpdateArray.cpp, LoadMatrix.h,       *)
(* UpdateMatrix.h): the initializer is parsed with its repeat counts,      *)
(* laid out in a flat array of one integer type and accessed through an    *)
(* index computed in the integer type of its operands.                     *)
(*                                                                         *)
(* An integer type is given by half its range: 128 stands for int8, whose  *)
(* values are -128..127.  The array is local to a function, and the        *)
(* programs access positions that exist, with two indices in a matrix and  *)
(* one in an array.                                                        *)
(***************************************************************************)
EXTENDS Integers, Sequences, FiniteSets, FiniteSetsExt, SequencesExt

CONSTANTS
    Types,        \* half the range of each integer type of the language
    Nodes,        \* the elements of initializers: [kind, value, type]
    NewValues,    \* the values assigned to elements: nodes too
    Counts,       \* the repeat counts, the 3 of "1:3"
    Garbage,      \* what an element that is never initialized may hold
    MaxElements   \* bound on the elements of an array or a matrix

\* The absence of a type.
NULL == 0

Wider(s, t) == IF s > t THEN s ELSE t

\* getNodeForIntConst: the narrowest type that holds a literal.
LiteralType(i) ==
    LET wide == {h \in Types : -h <= i /\ i < h}
    IN  IF wide = {} THEN Max(Types) ELSE Min(wide)

NodeKinds == {"literal", "variable", "constant"}

ASSUME TypesAssumption == Types \subseteq Nat \ {NULL} /\ Types # {} /\ IsFiniteSet(Types)
ASSUME BoundAssumption == MaxElements \in Nat
ASSUME InputsAssumption ==
    /\ Nodes \cup NewValues \subseteq [kind : NodeKinds, value : Int, type : Types]
    /\ \A n \in Nodes \cup NewValues :
          /\ -n.type <= n.value /\ n.value < n.type
          /\ n.kind = "literal" => n.type = LiteralType(n.value)
    /\ Counts \subseteq Nat \ {0}
    /\ Garbage # {} /\ \A g \in Garbage : \A h \in Types : g \in (-h)..(h-1)

\* Whether every position fits the narrowest type an index may have.
PositionsFit == \A h \in Types : MaxElements < h

VARIABLES
    line,     \* the elements parsed since the last "{": [node, count]
    lines,    \* the lines of the matrix parsed so far: [array, count]
    sym,      \* the symbol: matrixLines, matrixCols, the type of the elements
    mem,      \* the elements in memory
    access,   \* history: the last access, [op, pos, value]
    stray,    \* history: an access fell outside the elements
    crashed   \* the compiler has dereferenced NULL

vars == <<line, lines, sym, mem, access, stray, crashed>>

NoSymbol == [lines |-> 0, cols |-> 0, type |-> NULL]
NoAccess == [op |-> "none", pos |-> <<0, 0>>, value |-> 0]

-----------------------------------------------------------------------------
(* Integers of the target *)

Wrap(v, type) == ((v + type) % (2 * type)) - type

\* Coercion::Convert between integer types: sign extension or truncation.
Convert(v, from, to) == IF from > to THEN Wrap(v, to) ELSE v

\* BinaryOp on integers: the narrower operand is converted to the other type.
BinaryOp(l, op, r) ==
    LET type == Wider(l.type, r.type)
        result == IF op = "*" THEN l.value * r.value ELSE l.value + r.value
    IN  [value |-> Wrap(result, type), type |-> type]

-----------------------------------------------------------------------------
(* Initializers *)

\* getLLVMResultType.  Load finds the type of a variable in its storage; a
\* constant of the program has none, its symbol holds the value itself.
ResultType(node) == IF node.kind = "constant" THEN NULL ELSE node.type

ArrayTypes(array) == {ResultType(array[i].node) : i \in DOMAIN array}
MatrixTypes(ls) == UNION {ArrayTypes(ls[i].array) : i \in DOMAIN ls}

Repeat(s, n) == FlattenSeq([i \in 1..n |-> s])

\* The values of an array in memory order.
ArrayValues(array) ==
    FlattenSeq([i \in DOMAIN array |-> Repeat(<<array[i].node.value>>, array[i].count)])

\* Mistaken: each line is written once, whatever its count.
MatrixValuesOnce(ls) == FlattenSeq([i \in DOMAIN ls |-> ArrayValues(ls[i].array)])

MatrixValues(ls) ==
    FlattenSeq([i \in DOMAIN ls |-> Repeat(ArrayValues(ls[i].array), ls[i].count)])

\* getArraySize, and getLineCount of a matrix.
Size(s) ==
    LET upTo[i \in 0..Len(s)] == IF i = 0 THEN 0 ELSE upTo[i - 1] + s[i].count
    IN  upTo[Len(s)]

\* getColumnCount: the longest line.
ColumnCount(ls) == Max({Size(ls[i].array) : i \in DOMAIN ls})

-----------------------------------------------------------------------------
Init ==
    /\ line = <<>>
    /\ lines = <<>>
    /\ sym = NoSymbol
    /\ mem = <<>>
    /\ access = NoAccess
    /\ stray = FALSE
    /\ crashed = FALSE

Parsing == sym = NoSymbol /\ ~ crashed

\* ArrayElements::append
AppendElement ==
    /\ Parsing
    /\ \E n \in Nodes, k \in Counts : line' = Append(line, [node |-> n, count |-> k])
    /\ Size(line') \in 1..MaxElements
    /\ UNCHANGED <<lines, sym, mem, access, stray, crashed>>

\* MatrixElements::append
AppendLine ==
    /\ Parsing
    /\ line # <<>>
    /\ \E k \in Counts : lines' = Append(lines, [array |-> line, count |-> k])
    /\ Size(lines') \in 1..MaxElements /\ ColumnCount(lines') \in 1..MaxElements
    /\ Size(lines') * ColumnCount(lines') <= MaxElements
    /\ line' = <<>>
    /\ UNCHANGED <<sym, mem, access, stray, crashed>>

\* Mistaken: only the listed values get memory.
DefineTight(types, values, ls, cols, size) ==
    IF NULL \in types
    THEN crashed' = TRUE /\ UNCHANGED <<line, lines, sym, mem>>
    ELSE /\ sym' = [lines |-> ls, cols |-> cols, type |-> Max(types)]
         /\ mem' = values
         /\ line' = <<>>
         /\ lines' = <<>>
         /\ UNCHANGED crashed

\* The declaration, once the elements have been typed and laid out in values;
\* what the type computation dereferences must not be NULL.
Define(types, values, ls, cols, size) ==
    IF NULL \in types
    THEN crashed' = TRUE /\ UNCHANGED <<line, lines, sym, mem>>
    ELSE /\ sym' = [lines |-> ls, cols |-> cols, type |-> Max(types)]
         /\ \E rest \in [(Len(values) + 1)..size -> Garbage] :
               mem' = [i \in 1..size |-> IF i <= Len(values) THEN values[i] ELSE rest[i]]
         /\ line' = <<>>
         /\ lines' = <<>>
         /\ UNCHANGED crashed

\* Array::generate
DeclareArray ==
    /\ Parsing
    /\ lines = <<>>
    /\ line # <<>>
    /\ Define(ArrayTypes(line), ArrayValues(line), 0, 0, Size(line))
    /\ UNCHANGED <<access, stray>>

\* Matrix::generate
DeclareMatrix ==
    /\ Parsing
    /\ lines # <<>>
    /\ line = <<>>
    /\ Define(MatrixTypes(lines), MatrixValues(lines), Size(lines), ColumnCount(lines),
              Size(lines) * ColumnCount(lines))
    /\ UNCHANGED <<access, stray>>

-----------------------------------------------------------------------------
(* Accesses *)

Height == IF sym.cols = 0 THEN 1 ELSE sym.lines
Width == IF sym.cols = 0 THEN Len(mem) ELSE sym.cols

\* The positions <<line, column>> that exist; those of an array are in line 0.
Positions == IF sym = NoSymbol THEN {} ELSE (0..(Height - 1)) \X (0..(Width - 1))

\* An expression of type t1 can have the value p[1], one of type t2 p[2].
Expressible(p, t1, t2) == p[1] < t1 /\ p[2] < t2

\* Mistaken: the lines are counted instead of the columns.
IndexByLines(p, t1, t2) ==
    LET row == [value |-> p[1], type |-> t1]
        column == [value |-> p[2], type |-> t2]
        mlines == [value |-> sym.lines, type |-> LiteralType(sym.lines)]
    IN  IF sym.cols = 0 THEN column.value
        ELSE BinaryOp(BinaryOp(row, "*", mlines), "+", column).value

\* getLoadIndex and getUpdateIndex, the indices being expressions of type t1
\* and t2.
Index(p, t1, t2) ==
    LET row == [value |-> p[1], type |-> t1]
        column == [value |-> p[2], type |-> t2]
        mcols == [value |-> sym.cols, type |-> LiteralType(sym.cols)]
    IN  IF sym.cols = 0 THEN column.value
        ELSE BinaryOp(BinaryOp(row, "*", mcols), "+", column).value

\* LoadArray::generate; outside the elements anything may be read.
LoadElement ==
    \E p \in Positions, t1, t2 \in Types :
        LET i == Index(p, t1, t2) + 1
        IN  /\ Expressible(p, t1, t2)
            /\ stray' = (stray \/ i \notin DOMAIN mem)
            /\ \E v \in (IF i \in DOMAIN mem THEN {mem[i]} ELSE Garbage) :
                  access' = [op |-> "load", pos |-> p, value |-> v]
            /\ UNCHANGED <<line, lines, sym, mem, crashed>>

\* Mistaken: the value is not converted to the type of the elements.
StoreUnconverted(i, n) == IF i \in DOMAIN mem THEN [mem EXCEPT ![i] = n.value] ELSE mem

\* The store of UpdateArray::generate.
Store(i, n) ==
    IF i \in DOMAIN mem THEN [mem EXCEPT ![i] = Convert(n.value, n.type, sym.type)] ELSE mem

\* UpdateArray::generate
UpdateElement ==
    \E p \in Positions, t1, t2 \in Types, n \in NewValues :
        LET i == Index(p, t1, t2) + 1
        IN  /\ Expressible(p, t1, t2)
            /\ stray' = (stray \/ i \notin DOMAIN mem)
            /\ mem' = Store(i, n)
            /\ access' = [op |-> "update", pos |-> p, value |-> n.value]
            /\ UNCHANGED <<line, lines, sym, crashed>>

Next ==
    \/ AppendElement \/ AppendLine
    \/ DeclareArray \/ DeclareMatrix
    \/ LoadElement \/ UpdateElement

Spec == Init /\ [][Next]_vars
-----------------------------------------------------------------------------
(* Properties *)

\* Type invariant: memory holds only values of the type of the elements.
TypeOK ==
    /\ line \in Seq([node : Nodes, count : Counts])
    /\ \A i \in DOMAIN lines : lines[i].array # <<>> /\ lines[i].count \in Counts
    /\ sym \in [lines : Nat, cols : Nat, type : Types \cup {NULL}]
    /\ \A i \in DOMAIN mem : -sym.type <= mem[i] /\ mem[i] < sym.type
    /\ access \in [op : {"none", "load", "update"}, pos : Nat \X Nat, value : Int]
    /\ stray \in BOOLEAN
    /\ crashed \in BOOLEAN

\* An access at a position that exists never leaves the elements, although the
\* index is computed in integer types that wrap around (LoadMatrix.h,
\* UpdateMatrix.h, BinaryOp.cpp).  It holds when PositionsFit does, and does not
\* otherwise: a matrix is then not "accessed latter accordingly" (Matrix.cpp:6).
NoStrayAccess == ~ stray

InitializerFits ==
    /\ line # <<>> => Size(line) \in 1..MaxElements
    /\ lines # <<>> => /\ Size(lines) \in 1..MaxElements
                       /\ ColumnCount(lines) \in 1..MaxElements
                       /\ Size(lines) * ColumnCount(lines) <= MaxElements

SymbolFits ==
    sym # NoSymbol =>
        /\ Len(mem) \in 1..MaxElements
        /\ DOMAIN mem = 1..Len(mem)
        /\ sym.cols # 0 => /\ sym.lines \in Nat \ {0}
                           /\ sym.cols \in Nat \ {0}
                           /\ sym.lines * sym.cols = Len(mem)

\* The inductive invariant behind NoStrayAccess: what is allocated for a matrix
\* is what its symbol says, lines times columns (Matrix.cpp:15, 75-76).
IInv == InitializerFits /\ SymbolFits /\ NoStrayAccess

\* Reference: the entry of s that stands at position i when each entry counts
\* as often as its count says.
EntryAt(s, i) ==
    s[CHOOSE j \in DOMAIN s : Size(SubSeq(s, 1, j - 1)) <= i /\ i < Size(SubSeq(s, 1, j))]

\* When a matrix is declared, each line of its initializer is where the index
\* computation looks for it, its values unchanged by the common type, as long
\* as the lines before it are as long as the longest; likewise the elements of
\* an array (the nested repeat loops of Matrix.cpp against getColumnCount).
LinesInPlace ==
    [][sym' # sym =>
        LET cols == sym'.cols
            LineAt(l) == EntryAt(lines, l).array
        IN  IF cols = 0
            THEN /\ Len(mem') = Size(line)
                 /\ \A c \in 0..(Len(mem') - 1) : mem'[c + 1] = EntryAt(line, c).node.value
            ELSE /\ Len(mem') = sym'.lines * cols
                 /\ \A l \in 0..(sym'.lines - 1) :
                       (\A k \in 0..(l - 1) : Size(LineAt(k)) = cols) =>
                           \A c \in 0..(Size(LineAt(l)) - 1) :
                               mem'[l * cols + c + 1] = EntryAt(LineAt(l), c).node.value]_vars

\* Refinement: an array is a grid of independent positions.  A load returns
\* what was last stored at its position, and a store changes no other one.
G == INSTANCE Grid WITH
        grid <- [p \in Positions |-> mem[p[1] * Width + p[2] + 1]],
        half <- sym.type
IsGrid == G!Spec

\* The sample test/vector-global.rob, which test/Makefile compiles, declares an
\* array with a constant among its elements; the compiler is to survive that.
NeverCrashes == ~ crashed
=============================================================================
