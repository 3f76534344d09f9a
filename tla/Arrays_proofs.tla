---------------------------- MODULE Arrays_proofs ----------------------------
(***************************************************************************)
(* Theorems about Arrays, for every set of integer types and every bound:  *)
(* what is declared has elements of the type it is declared with, laid out *)
(* where their positions are looked for; and when positions fit the        *)
(* narrowest type, the index of a position is exact, no access leaves the  *)
(* elements, and the whole implements a grid of cells.                     *)
(***************************************************************************)
EXTENDS Arrays, TLAPS, WellFoundedInduction, FiniteSetTheorems

-----------------------------------------------------------------------------
(* Arithmetic of the target *)

\* A value that fits a type is not changed by it.
LEMMA WrapFits ==
    ASSUME NEW v \in Nat, NEW t \in Nat, v < t
    PROVE  Wrap(v, t) = v
<1>1. (v + t) % (2 * t) = v + t
  OBVIOUS
<1> QED
  BY <1>1 DEF Wrap

\* A nonempty set of numbers has a least element.
LEMMA MinIsElement ==
    ASSUME NEW S \in SUBSET Nat, S # {}
    PROVE  Min(S) \in S /\ \A n \in S : Min(S) <= n
<1>1. PICK m \in S : \A n \in S : ~ (<<n, m>> \in OpToRel(<, Nat))
  BY NatLessThanWellFounded, WFMin
<1>2. \A n \in S : ~ (n < m)
  BY <1>1, Zenon DEF OpToRel
<1>3. \A n \in S : m <= n
  BY <1>2
<1> QED
  BY <1>3 DEF Min

LEMMA LeastOf ==
    ASSUME NEW S \in SUBSET Nat, S # {}
    PROVE  \E m \in S : \A k \in S : m <= k
BY MinIsElement

\* A finite nonempty set of numbers has a greatest element: a set that has none
\* stays so when an element is taken away, and there is none of least cardinality.
LEMMA MaxIsElement ==
    ASSUME NEW S \in SUBSET Nat, IsFiniteSet(S), S # {}
    PROVE  Max(S) \in S /\ \A n \in S : n <= Max(S)
<1> DEFINE Unbounded(c) == \E T \in SUBSET Nat : /\ IsFiniteSet(T) /\ T # {} /\ Cardinality(T) = c
                                               /\ \A m \in T : \E n \in T : m < n
           Bad == {c \in Nat : Unbounded(c)}
<1>1. Bad = {}
  <2> SUFFICES ASSUME Bad # {} PROVE FALSE
    OBVIOUS
  <2>0. Bad \in SUBSET Nat
    OBVIOUS
  <2>1. PICK b \in Bad : \A c \in Bad : b <= c
    <3> HIDE DEF Bad
    <3> QED  BY <2>0, MinIsElement
  <2>2. PICK T \in SUBSET Nat : /\ IsFiniteSet(T) /\ T # {} /\ Cardinality(T) = b
                                /\ \A m \in T : \E n \in T : m < n
    BY <2>1
  <2>3. PICK x \in T : TRUE
    BY <2>2
  <2>4. PICK y \in T : x < y
    BY <2>2
  <2> DEFINE R == T \ {x}
  <2>5. IsFiniteSet(R) /\ Cardinality(R) = Cardinality(T) - 1 /\ R # {} /\ R \in SUBSET Nat
    BY <2>2, <2>4, FS_RemoveElement
  <2>6. \A m \in R : \E n \in R : m < n
    <3> SUFFICES ASSUME NEW m \in R PROVE \E n \in R : m < n
      OBVIOUS
    <3>1. PICK n \in T : m < n
      BY <2>2
    <3>2. CASE n # x
      BY <3>1, <3>2
    <3>3. CASE n = x
      BY <2>4, <3>1, <3>3, <2>2
    <3> QED  BY <3>2, <3>3
  <2>7. Cardinality(R) \in Nat
    BY <2>5, FS_CardinalityType
  <2>8. Cardinality(R) \in Bad
    BY <2>5, <2>6, <2>7
  <2> HIDE DEF Bad
  <2> QED
    BY <2>0, <2>1, <2>2, <2>5, <2>7, <2>8
<1>2. Cardinality(S) \in Nat
  BY FS_CardinalityType
<1>3. ~ Unbounded(Cardinality(S))
  BY <1>1, <1>2
<1>4. PICK m \in S : \A n \in S : ~ (m < n)
  BY <1>3
<1>5. \A n \in S : m >= n
  BY <1>4
<1>6. Max(S) \in S /\ \A n \in S : Max(S) >= n
  BY <1>4, <1>5, Zenon DEF Max
<1> QED
  BY <1>6

\* The literal that stands for a small number has one of the types.
LEMMA SmallLiteral ==
    ASSUME PositionsFit, NEW n \in 0..MaxElements
    PROVE  LiteralType(n) \in Types
<1> DEFINE wide == {h \in Types : -h <= n /\ n < h}
<1>1. Types \in SUBSET Nat /\ Types # {}
  BY TypesAssumption
<1>2. wide = Types
  <2>1. ASSUME NEW h \in Types PROVE -h <= n /\ n < h
    BY <1>1, BoundAssumption DEF PositionsFit
  <2> QED
    BY <2>1
<1>3. Min(Types) \in Types
  BY <1>1, MinIsElement, Zenon
<1> QED
  BY <1>1, <1>2, <1>3 DEF LiteralType

\* What counts or locates elements fits every type.
LEMMA SmallFits ==
    ASSUME PositionsFit, NEW v \in 0..MaxElements, NEW t \in Types
    PROVE  v \in Nat /\ t \in Nat /\ v < t /\ Wrap(v, t) = v
<1>1. v \in Nat /\ t \in Nat /\ v < t
  BY TypesAssumption, BoundAssumption DEF PositionsFit
<1> QED
  BY <1>1, WrapFits

\* The arithmetic of indices is exact as long as its result is small.
LEMMA TimesExact ==
    ASSUME PositionsFit, NEW x \in Nat, NEW y \in Nat, NEW s \in Types, NEW t \in Types,
           x * y \in 0..MaxElements
    PROVE  BinaryOp([value |-> x, type |-> s], "*", [value |-> y, type |-> t])
           = [value |-> x * y, type |-> Wider(s, t)]
<1>1. Wider(s, t) \in Types
  BY DEF Wider
<1>2. Wrap(x * y, Wider(s, t)) = x * y
  BY <1>1, SmallFits
<1> QED
  BY <1>2, Zenon DEF BinaryOp

LEMMA PlusExact ==
    ASSUME PositionsFit, NEW x \in Nat, NEW y \in Nat, NEW s \in Types, NEW t \in Types,
           x + y \in 0..MaxElements
    PROVE  BinaryOp([value |-> x, type |-> s], "+", [value |-> y, type |-> t])
           = [value |-> x + y, type |-> Wider(s, t)]
<1>1. Wider(s, t) \in Types
  BY DEF Wider
<1>2. Wrap(x + y, Wider(s, t)) = x + y
  BY <1>1, SmallFits
<1>3. "+" # "*"
  OBVIOUS
<1> QED
  BY <1>2, <1>3, Zenon DEF BinaryOp

-----------------------------------------------------------------------------
(* The index of a position *)

\* In a matrix of few elements the index of a position is line * columns +
\* column, whatever the types of the two index expressions: none of the
\* intermediate results wraps around (LoadMatrix.h, UpdateMatrix.h).
LEMMA MatrixIndex ==
    ASSUME PositionsFit, NEW height \in Nat, NEW width \in Nat \ {0},
           height * width <= MaxElements,
           NEW l \in 0..(height - 1), NEW c \in 0..(width - 1)
    PROVE  /\ width \in 0..MaxElements
           /\ l * width \in 0..MaxElements
           /\ l * width + c \in 0..(height * width - 1)
           /\ l * width + c \in 0..MaxElements
<1>1. PICK k \in Nat : height = l + 1 + k
  <2>1. height - l - 1 \in Nat /\ height = l + 1 + (height - l - 1)
    OBVIOUS
  <2> QED
    BY <2>1
<1>2. height * width = l * width + width + k * width
  BY <1>1
<1>3. l * width \in Nat /\ k * width \in Nat /\ height * width \in Nat
  BY <1>1
<1>4. ASSUME NEW lw \in Nat, NEW kw \in Nat, NEW hw \in Nat, hw = lw + width + kw, hw <= MaxElements
      PROVE  width \in 0..MaxElements /\ lw \in 0..MaxElements
             /\ lw + c \in 0..(hw - 1) /\ lw + c \in 0..MaxElements
  BY <1>4, BoundAssumption
<1> QED
  BY <1>2, <1>3, <1>4

\* A function on 1..n has length n.
LEMMA LenIsDomain ==
    ASSUME NEW f, NEW n \in Nat, f = [i \in 1..n |-> f[i]]
    PROVE  Len(f) = n
<1> DEFINE S == {f[i] : i \in 1..n}
<1>1. f \in [1..n -> S]
  OBVIOUS
<1>2. f \in Seq(S)
  BY <1>1
<1> QED
  BY <1>1, <1>2

-----------------------------------------------------------------------------
(* The steps *)

\* The index of a position that exists lies within the elements.
LEMMA IndexWithin ==
    ASSUME PositionsFit, SymbolFits, NEW p \in Positions, NEW t1 \in Types, NEW t2 \in Types
    PROVE  /\ Index(p, t1, t2) + 1 \in DOMAIN mem
           /\ Index(p, t1, t2) = p[1] * Width + p[2]
<1>1. sym # NoSymbol
  BY DEF Positions
<1>2. /\ Len(mem) \in 1..MaxElements
      /\ DOMAIN mem = 1..Len(mem)
  BY <1>1 DEF SymbolFits
<1>3. CASE sym.cols = 0
  <2>1. p[2] \in 0..(Len(mem) - 1)
    BY <1>1, <1>3 DEF Positions, Width
  <2>2. Index(p, t1, t2) = p[2]
    BY <1>3 DEF Index
  <2>3. p[1] = 0 /\ Width \in Nat
    BY <1>1, <1>2, <1>3, BoundAssumption DEF Positions, Height, Width
  <2>4. p[1] * Width + p[2] = p[2]
    BY <1>2, <2>1, <2>3, BoundAssumption
  <2> QED
    BY <1>2, <2>1, <2>2, <2>4, BoundAssumption
<1>4. CASE sym.cols # 0
  <2> DEFINE h == sym.lines
             w == sym.cols
             row == [value |-> p[1], type |-> t1]
             column == [value |-> p[2], type |-> t2]
             mcols == [value |-> w, type |-> LiteralType(w)]
  <2>1. h \in Nat \ {0} /\ w \in Nat \ {0} /\ h * w = Len(mem)
    BY <1>1, <1>4 DEF SymbolFits
  <2>2. p[1] \in 0..(h - 1) /\ p[2] \in 0..(w - 1)
    BY <1>1, <1>4 DEF Positions, Height, Width
  <2>3. h * w <= MaxElements
    BY <1>2, <2>1, BoundAssumption
  <2>4. /\ w \in 0..MaxElements
        /\ p[1] * w \in 0..MaxElements
        /\ p[1] * w + p[2] \in 0..(Len(mem) - 1)
        /\ p[1] * w + p[2] \in 0..MaxElements
    BY <2>1, <2>2, <2>3, MatrixIndex
  <2>5. LiteralType(w) \in Types
    BY <2>4, SmallLiteral
  <2>6. p[1] \in Nat /\ p[2] \in Nat /\ w \in Nat
    BY <2>1, <2>2
  <2>7. BinaryOp(row, "*", mcols) = [value |-> p[1] * w, type |-> Wider(t1, LiteralType(w))]
    BY <2>4, <2>5, <2>6, TimesExact
  <2>8. Wider(t1, LiteralType(w)) \in Types /\ p[1] * w \in Nat
    BY <2>4, <2>5, BoundAssumption DEF Wider
  <2>9. BinaryOp(BinaryOp(row, "*", mcols), "+", column).value = p[1] * w + p[2]
    <3>1. ASSUME NEW a \in Nat, NEW t \in Types, a + p[2] \in 0..MaxElements
          PROVE  BinaryOp([value |-> a, type |-> t], "+", column)
                 = [value |-> a + p[2], type |-> Wider(t, t2)]
      BY <2>6, <3>1, PlusExact
    <3> DEFINE a == p[1] * w
    <3>2. a \in Nat /\ a + p[2] \in 0..MaxElements
      BY <2>4, <2>8
    <3> HIDE DEF a
    <3>3. BinaryOp([value |-> a, type |-> Wider(t1, LiteralType(w))], "+", column)
          = [value |-> a + p[2], type |-> Wider(Wider(t1, LiteralType(w)), t2)]
      BY <2>8, <3>1, <3>2
    <3> QED
      BY <2>7, <3>3 DEF a
  <2>10. Index(p, t1, t2) = p[1] * w + p[2] /\ Width = w
    BY <1>4, <2>9 DEF Index, Width
  <2> QED
    BY <1>2, <2>4, <2>10, BoundAssumption
<1> QED
  BY <1>3, <1>4

\* Both declarations allocate what they put into the symbol.
LEMMA DefineFits ==
    ASSUME InitializerFits, SymbolFits,
           NEW types, NEW values, NEW ls, NEW cols, NEW size \in 1..MaxElements,
           Define(types, values, ls, cols, size),
           cols # 0 => ls \in Nat \ {0} /\ cols \in Nat \ {0} /\ ls * cols = size
    PROVE  InitializerFits' /\ SymbolFits'
<1>1. CASE NULL \in types
  BY <1>1 DEF Define, InitializerFits, SymbolFits
<1>2. CASE NULL \notin types
  <2>1. /\ sym' = [lines |-> ls, cols |-> cols, type |-> Max(types)]
        /\ \E rest : mem' = [i \in 1..size |-> IF i <= Len(values) THEN values[i] ELSE rest[i]]
        /\ line' = <<>>
        /\ lines' = <<>>
    BY <1>2 DEF Define
  <2>2. PICK rest : mem' = [i \in 1..size |-> IF i <= Len(values) THEN values[i] ELSE rest[i]]
    BY <2>1
  <2>3. size \in Nat
    BY BoundAssumption
  <2>4. mem' = [i \in 1..size |-> mem'[i]] /\ DOMAIN mem' = 1..size
    BY <2>2, Zenon
  <2>5. Len(mem') = size
    BY <2>3, <2>4, LenIsDomain
  <2>6. SymbolFits'
    BY <2>1, <2>4, <2>5 DEF SymbolFits
  <2>7. InitializerFits'
    BY <2>1 DEF InitializerFits
  <2> QED
    BY <2>6, <2>7
<1> QED
  BY <1>1, <1>2

LEMMA InitIInv == Init => IInv
BY DEF Init, IInv, InitializerFits, SymbolFits, NoStrayAccess

\* What is allocated is what the symbol says, whatever the types of indices.
LEMMA NextFits ==
    ASSUME InitializerFits, SymbolFits, [Next]_vars
    PROVE  InitializerFits' /\ SymbolFits'
<1>1. CASE AppendElement
  BY <1>1 DEF AppendElement, Parsing, InitializerFits, SymbolFits
<1>2. CASE AppendLine
  BY <1>2 DEF AppendLine, Parsing, InitializerFits, SymbolFits
<1>3. CASE DeclareArray
  <2>1. Size(line) \in 1..MaxElements
    BY <1>3 DEF DeclareArray, InitializerFits
  <2>2. Define(ArrayTypes(line), ArrayValues(line), 0, 0, Size(line))
    BY <1>3 DEF DeclareArray
  <2> QED
    BY <2>1, <2>2, DefineFits
<1>4. CASE DeclareMatrix
  <2> DEFINE h == Size(lines)
             w == ColumnCount(lines)
  <2>1. h \in 1..MaxElements /\ w \in 1..MaxElements /\ h * w <= MaxElements
    BY <1>4 DEF DeclareMatrix, InitializerFits
  <2>2. Define(MatrixTypes(lines), MatrixValues(lines), h, w, h * w)
    BY <1>4 DEF DeclareMatrix
  <2> HIDE DEF h, w
  <2>3. h \in Nat \ {0} /\ w \in Nat \ {0}
    BY <2>1, BoundAssumption
  <2>4. h * w \in 1..MaxElements
    <3>1. h * w \in Nat \ {0}
      BY <2>3
    <3> QED
      BY <2>1, <3>1, BoundAssumption
  <2> QED
    BY <2>2, <2>3, <2>4, DefineFits
<1>5. CASE LoadElement
  BY <1>5 DEF LoadElement, InitializerFits, SymbolFits
<1>6. CASE UpdateElement
  <2>0. PICK p \in Positions, t1 \in Types, t2 \in Types, n \in NewValues :
           mem' = Store(Index(p, t1, t2) + 1, n) /\ UNCHANGED <<line, lines, sym>>
    BY <1>6 DEF UpdateElement
  <2> DEFINE i == Index(p, t1, t2) + 1
  <2>1. mem' = Store(i, n) /\ UNCHANGED <<line, lines, sym>>
    BY <2>0
  <2> HIDE DEF i
  <2>2. CASE i \notin DOMAIN mem
    BY <2>1, <2>2 DEF Store, InitializerFits, SymbolFits
  <2>3. CASE i \in DOMAIN mem /\ sym # NoSymbol
    <3>1. PICK v : mem' = [mem EXCEPT ![i] = v]
      BY <2>1, <2>3 DEF Store
    <3>2. Len(mem) \in Nat /\ DOMAIN mem = 1..Len(mem)
      BY <2>3, BoundAssumption DEF SymbolFits
    <3>3. mem' = [k \in 1..Len(mem) |-> mem'[k]] /\ DOMAIN mem' = 1..Len(mem)
      BY <3>1, <3>2
    <3>4. Len(mem') = Len(mem)
      BY <3>2, <3>3, LenIsDomain
    <3> QED
      BY <2>1, <3>3, <3>4 DEF InitializerFits, SymbolFits
  <2>4. sym # NoSymbol
    BY <1>6 DEF UpdateElement, Positions
  <2> QED
    BY <2>2, <2>3, <2>4
<1>7. CASE UNCHANGED vars
  BY <1>7 DEF vars, InitializerFits, SymbolFits
<1> QED
  BY <1>1, <1>2, <1>3, <1>4, <1>5, <1>6, <1>7 DEF Next

LEMMA NextIInv ==
    ASSUME PositionsFit, IInv, [Next]_vars
    PROVE  IInv'
<1>1. InitializerFits' /\ SymbolFits'
  BY NextFits DEF IInv
<1>2. CASE LoadElement \/ UpdateElement
  <2>1. PICK p \in Positions, t1 \in Types, t2 \in Types :
           stray' = (stray \/ Index(p, t1, t2) + 1 \notin DOMAIN mem)
    BY <1>2 DEF LoadElement, UpdateElement
  <2>2. Index(p, t1, t2) + 1 \in DOMAIN mem
    BY IndexWithin DEF IInv
  <2> QED
    BY <1>1, <2>1, <2>2 DEF IInv, NoStrayAccess
<1>3. CASE AppendElement \/ AppendLine \/ DeclareArray \/ DeclareMatrix \/ UNCHANGED vars
  BY <1>1, <1>3 DEF AppendElement, AppendLine, DeclareArray, DeclareMatrix, vars, IInv, NoStrayAccess
<1> QED
  BY <1>2, <1>3 DEF Next

\* The inductive invariant of arrays: a symbol describes what was allocated.
THEOREM ArraysInductive ==
    ASSUME PositionsFit
    PROVE  Spec => []IInv
<1>1. PositionsFit /\ IInv /\ [Next]_vars => IInv'
  BY NextIInv
<1> QED
  BY <1>1, InitIInv, PTL DEF Spec

\* When the positions fit the narrowest integer type, no access to a position
\* that exists leaves the elements, for arrays and matrices of every shape and
\* for index expressions of every type (LoadArray.cpp, UpdateArray.cpp).
THEOREM AccessesStayInside ==
    ASSUME PositionsFit
    PROVE  Spec => []NoStrayAccess
<1>1. IInv => NoStrayAccess
  BY DEF IInv
<1> QED
  BY <1>1, ArraysInductive, PTL

-----------------------------------------------------------------------------
(* The values in memory *)

\* FlattenSeq joins sequences from the left.  It is defined by recursion on the number of
\* sequences: that its recursive function exists is shown by the least number for which it
\* would not.
LEMMA FlattenJoins ==
    ASSUME NEW V, NEW s \in Seq(Seq(V)), Len(s) # 0
    PROVE  \E f : /\ f = [i \in 1..Len(s) |-> IF i = 1 THEN s[i] ELSE f[i - 1] \o s[i]]
                  /\ FlattenSeq(s) = f[Len(s)]
<1> DEFINE n == Len(s)
           Joins(g, k) == g = [i \in 1..k |-> IF i = 1 THEN s[i] ELSE g[i - 1] \o s[i]]
           Bad == {k \in 1..n : ~ \E g : Joins(g, k)}
<1>1. n \in Nat /\ \A i \in 1..n : s[i] \in Seq(V)
  OBVIOUS
<1>2. Bad = {}
  <2> SUFFICES ASSUME Bad # {} PROVE FALSE
    OBVIOUS
  <2>0. Bad \in SUBSET Nat
    <3>1. 1..n \subseteq Nat
      BY <1>1
    <3>2. Bad \subseteq 1..n
      BY Zenon
    <3> QED  BY <3>1, <3>2, Zenon
  <2>1. PICK m \in Bad : \A k \in Bad : m <= k
    <3> HIDE DEF Bad
    <3> QED  BY <2>0, MinIsElement
  <2>2. CASE m = 1
    <3> DEFINE h == [i \in 1..1 |-> s[1]]
    <3>1. Joins(h, 1)
      OBVIOUS
    <3> QED  BY <2>1, <2>2, <3>1
  <2>3. CASE m # 1
    <3>0. m \in 1..n
      BY <2>1
    <3>1. m - 1 \in 1..n /\ m - 1 \notin Bad /\ m \in 1..n
      <4>1. m - 1 \in 1..n /\ ~ (m <= m - 1)
        BY <1>1, <2>3, <3>0
      <4> HIDE DEF Bad
      <4> QED  BY <2>1, <3>0, <4>1
    <3>2. PICK g : Joins(g, m - 1)
      BY <3>1
    <3> DEFINE h == [i \in 1..m |-> IF i = m THEN g[m - 1] \o s[m] ELSE g[i]]
    <3>3. \A i \in 1..m : h[i] = IF i = 1 THEN s[i] ELSE h[i - 1] \o s[i]
      <4> TAKE i \in 1..m
      <4>1. CASE i = m
        <5>1. m \in 1..m /\ m - 1 \in 1..m /\ m - 1 # m
          BY <1>1, <3>0, <3>1
        <5>2. h[m] = g[m - 1] \o s[m]
          BY <5>1, Zenon
        <5>3. h[m - 1] = g[m - 1]
          BY <5>1, Zenon
        <5> QED  BY <2>3, <4>1, <5>2, <5>3
      <4>2. CASE i # m
        <5>1. i \in 1..(m - 1) /\ (i # 1 => i - 1 \in 1..m /\ i - 1 # m)
          BY <3>1, <4>2
        <5>2. g[i] = IF i = 1 THEN s[i] ELSE g[i - 1] \o s[i]
          BY <3>2, <5>1
        <5> QED  BY <4>2, <5>1, <5>2
      <4> QED  BY <4>1, <4>2
    <3>4. Joins(h, m)
      BY <3>3
    <3> QED  BY <2>1, <3>4
  <2> QED  BY <2>2, <2>3
<1> DEFINE f == CHOOSE g : Joins(g, n)
<1>3. n \in 1..n
  BY <1>1
<1>4. Joins(f, n)
  BY <1>2, <1>3
<1>5. FlattenSeq(s) = f[n]
  BY DEF FlattenSeq
<1> HIDE DEF f
<1> QED  BY <1>4, <1>5

\* Sequences of values are joined to a sequence of values.
LEMMA FlattenSeqType ==
    ASSUME NEW V, NEW s \in Seq(Seq(V))
    PROVE  FlattenSeq(s) \in Seq(V)
<1> DEFINE n == Len(s)
<1>1. n \in Nat /\ \A i \in 1..n : s[i] \in Seq(V)
  OBVIOUS
<1>3. CASE n = 0
  BY <1>1, <1>3 DEF FlattenSeq
<1>4. CASE n # 0
  <2>1. n \in 1..n
    BY <1>1, <1>4
  <2>2. PICK f : /\ f = [i \in 1..n |-> IF i = 1 THEN s[i] ELSE f[i - 1] \o s[i]]
                 /\ FlattenSeq(s) = f[n]
    BY <1>4, FlattenJoins
  <2>3. FlattenSeq(s) = f[n]
    BY <2>2
  <2> DEFINE Odd == {k \in 1..n : f[k] \notin Seq(V)}
  <2>4. ASSUME Odd # {} PROVE FALSE
    <3>0. Odd \in SUBSET Nat
      BY <1>1
    <3>1. PICK m \in Odd : \A k \in Odd : m <= k
      <4> HIDE DEF Odd
      <4> QED  BY <2>4, <3>0, MinIsElement
    <3>2. f[m] = IF m = 1 THEN s[m] ELSE f[m - 1] \o s[m]
      BY <2>2, <3>1
    <3>3. CASE m = 1
      BY <1>1, <3>1, <3>2, <3>3
    <3>4. CASE m # 1
      <4>1. m - 1 \in 1..n /\ m - 1 \notin Odd
        BY <1>1, <3>1, <3>4
      <4>2. f[m - 1] \in Seq(V) /\ s[m] \in Seq(V)
        BY <1>1, <3>1, <4>1
      <4>3. f[m] = f[m - 1] \o s[m]
        BY <3>2, <3>4
      <4>4. f[m] \in Seq(V)
        BY <4>2, <4>3
      <4> QED  BY <3>1, <4>4
    <3> QED  BY <3>3, <3>4
  <2> QED  BY <2>1, <2>3, <2>4
<1> QED  BY <1>3, <1>4

LEMMA RepeatType ==
    ASSUME NEW V, NEW s \in Seq(V), NEW n \in Nat
    PROVE  Repeat(s, n) \in Seq(V)
<1>1. [i \in 1..n |-> s] \in Seq(Seq(V))
  OBVIOUS
<1> QED
  BY <1>1, FlattenSeqType DEF Repeat

\* The elements of an initializer, and its lines.
Element == [node : Nodes, count : Counts]
Line == [array : Seq(Element), count : Counts]

LEMMA ElementParts ==
    ASSUME NEW array \in Seq(Element)
    PROVE  \A i \in DOMAIN array : array[i].node \in Nodes /\ array[i].count \in Counts
<1>1. \A i \in DOMAIN array : array[i] \in Element
  OBVIOUS
<1> QED
  BY <1>1 DEF Element

LEMMA LineParts ==
    ASSUME NEW ls \in Seq(Line)
    PROVE  \A i \in DOMAIN ls : ls[i].array \in Seq(Element) /\ ls[i].count \in Counts
<1>1. \A i \in DOMAIN ls : ls[i] \in Line
  OBVIOUS
<1> QED
  BY <1>1 DEF Line

\* The values of an integer type.
Fitting(type) == {v \in Int : -type <= v /\ v < type}

LEMMA ArrayValuesType ==
    ASSUME NEW V, NEW array \in Seq(Element), \A i \in DOMAIN array : array[i].node.value \in V
    PROVE  ArrayValues(array) \in Seq(V)
<1> DEFINE Run(i) == Repeat(<<array[i].node.value>>, array[i].count)
<1>1. DOMAIN array = 1..Len(array) /\ Len(array) \in Nat
  OBVIOUS
<1>2. ASSUME NEW i \in DOMAIN array PROVE Run(i) \in Seq(V)
  <2>1. <<array[i].node.value>> \in Seq(V)
    BY <1>2
  <2>2. array[i].count \in Nat
    BY <1>2, ElementParts, InputsAssumption
  <2> QED
    BY <2>1, <2>2, RepeatType
<1> HIDE DEF Run
<1>3. [i \in DOMAIN array |-> Run(i)] \in Seq(Seq(V))
  BY <1>1, <1>2
<1> QED
  BY <1>3, FlattenSeqType DEF ArrayValues, Run

LEMMA MatrixValuesType ==
    ASSUME NEW V, NEW ls \in Seq(Line),
           \A i \in DOMAIN ls : \A j \in DOMAIN ls[i].array : ls[i].array[j].node.value \in V
    PROVE  MatrixValues(ls) \in Seq(V)
<1> DEFINE Run(i) == Repeat(ArrayValues(ls[i].array), ls[i].count)
<1>1. DOMAIN ls = 1..Len(ls) /\ Len(ls) \in Nat
  OBVIOUS
<1>2. ASSUME NEW i \in DOMAIN ls PROVE Run(i) \in Seq(V)
  <2>1. ls[i].array \in Seq(Element) /\ ls[i].count \in Counts
    BY <1>2, LineParts
  <2>2. ArrayValues(ls[i].array) \in Seq(V)
    BY <2>1, ArrayValuesType
  <2>3. ls[i].count \in Nat
    BY <2>1, InputsAssumption
  <2> QED
    BY <2>2, <2>3, RepeatType
<1> HIDE DEF Run
<1>3. [i \in DOMAIN ls |-> Run(i)] \in Seq(Seq(V))
  BY <1>1, <1>2
<1> QED
  BY <1>3, FlattenSeqType DEF MatrixValues, Run

\* A node that has a type holds a value of it.
LEMMA NodeFits ==
    ASSUME NEW n \in Nodes \cup NewValues
    PROVE  /\ n.type \in Types /\ n.value \in Fitting(n.type)
           /\ ResultType(n) \in {NULL, n.type} /\ n.type \in Nat \ {0}
<1>1. n.type \in Types /\ n.value \in Int /\ -n.type <= n.value /\ n.value < n.type
  BY InputsAssumption
<1> QED
  BY <1>1, TypesAssumption DEF Fitting, ResultType, NULL

\* The type of the elements is the widest, so each value fits it.
LEMMA WidestType ==
    ASSUME NEW types \in SUBSET Types, types # {}
    PROVE  /\ Max(types) \in Types /\ Max(types) \in Nat \ {0}
           /\ \A t \in types : Fitting(t) \subseteq Fitting(Max(types))
<1>1. types \in SUBSET Nat /\ IsFiniteSet(types)
  BY TypesAssumption, FS_Subset
<1>2. Max(types) \in types /\ \A t \in types : t <= Max(types)
  BY <1>1, MaxIsElement, Zenon
<1>3. Max(types) \in Nat \ {0}
  BY <1>2, TypesAssumption DEF NULL
<1>4. \A t \in types : t \in Nat /\ t <= Max(types)
  BY <1>1, <1>2
<1> QED
  BY <1>2, <1>3, <1>4 DEF Fitting

LEMMA ArrayTypesFit ==
    ASSUME NEW array \in Seq(Element), array # <<>>
    PROVE  /\ ArrayTypes(array) \subseteq Types \cup {NULL} /\ ArrayTypes(array) # {}
           /\ \A i \in DOMAIN array :
                 NULL \notin ArrayTypes(array) =>
                    array[i].node.value \in Fitting(ResultType(array[i].node))
<1>1. \A i \in DOMAIN array : array[i].node \in Nodes
  BY ElementParts
<1>2. 1 \in DOMAIN array
  OBVIOUS
<1>3. \A i \in DOMAIN array : ResultType(array[i].node) \in ArrayTypes(array)
  BY DEF ArrayTypes
<1>4. \A i \in DOMAIN array : /\ ResultType(array[i].node) \in {NULL, array[i].node.type}
                              /\ array[i].node.type \in Types
                              /\ array[i].node.value \in Fitting(array[i].node.type)
  BY <1>1, NodeFits
<1>5. ArrayTypes(array) \subseteq Types \cup {NULL}
  BY <1>4 DEF ArrayTypes
<1> QED
  BY <1>2, <1>3, <1>4, <1>5

LEMMA ArrayLaidOut ==
    ASSUME NEW array \in Seq(Element), array # <<>>, NULL \notin ArrayTypes(array)
    PROVE  ArrayValues(array) \in Seq(Fitting(Max(ArrayTypes(array))))
<1>1. ArrayTypes(array) \in SUBSET Types /\ ArrayTypes(array) # {}
  BY ArrayTypesFit
<1>2. ASSUME NEW i \in DOMAIN array
      PROVE  array[i].node.value \in Fitting(Max(ArrayTypes(array)))
  <2>1. ResultType(array[i].node) \in ArrayTypes(array)
    BY DEF ArrayTypes
  <2>2. Fitting(ResultType(array[i].node)) \subseteq Fitting(Max(ArrayTypes(array)))
    BY <1>1, <2>1, WidestType
  <2> QED
    BY <2>2, ArrayTypesFit
<1> QED
  BY <1>2, ArrayValuesType

LEMMA MatrixLaidOut ==
    ASSUME NEW ls \in Seq(Line), ls # <<>>, \A i \in DOMAIN ls : ls[i].array # <<>>
    PROVE  /\ MatrixTypes(ls) \subseteq Types \cup {NULL} /\ MatrixTypes(ls) # {}
           /\ NULL \notin MatrixTypes(ls) => MatrixValues(ls) \in Seq(Fitting(Max(MatrixTypes(ls))))
<1>1. \A i \in DOMAIN ls : ls[i].array \in Seq(Element)
  BY LineParts
<1>2. \A i \in DOMAIN ls : ArrayTypes(ls[i].array) \subseteq MatrixTypes(ls)
  BY DEF MatrixTypes
<1>3. \A i \in DOMAIN ls : /\ ArrayTypes(ls[i].array) \subseteq Types \cup {NULL}
                           /\ ArrayTypes(ls[i].array) # {}
  BY <1>1, ArrayTypesFit
<1>4. 1 \in DOMAIN ls
  OBVIOUS
<1>5. MatrixTypes(ls) \subseteq Types \cup {NULL} /\ MatrixTypes(ls) # {}
  <2>1. MatrixTypes(ls) \subseteq Types \cup {NULL}
    BY <1>3 DEF MatrixTypes
  <2>2. MatrixTypes(ls) # {}
    BY <1>2, <1>3, <1>4
  <2> QED
    BY <2>1, <2>2
<1>6. ASSUME NULL \notin MatrixTypes(ls), NEW i \in DOMAIN ls, NEW j \in DOMAIN ls[i].array
      PROVE  ls[i].array[j].node.value \in Fitting(Max(MatrixTypes(ls)))
  <2> DEFINE array == ls[i].array
  <2>1. array \in Seq(Element) /\ array # <<>> /\ NULL \notin ArrayTypes(array)
    BY <1>1, <1>2, <1>6
  <2>2. array[j].node.value \in Fitting(ResultType(array[j].node))
    BY <2>1, ArrayTypesFit
  <2>3. ResultType(array[j].node) \in MatrixTypes(ls)
    BY <1>2 DEF ArrayTypes
  <2>4. MatrixTypes(ls) \in SUBSET Types
    BY <1>5, <1>6
  <2>5. Fitting(ResultType(array[j].node)) \subseteq Fitting(Max(MatrixTypes(ls)))
    BY <1>5, <2>3, <2>4, WidestType
  <2> QED
    BY <2>2, <2>5
<1>7. NULL \notin MatrixTypes(ls) => MatrixValues(ls) \in Seq(Fitting(Max(MatrixTypes(ls))))
  <2> SUFFICES ASSUME NULL \notin MatrixTypes(ls)
               PROVE  MatrixValues(ls) \in Seq(Fitting(Max(MatrixTypes(ls))))
    OBVIOUS
  <2> QED
    BY <1>6, MatrixValuesType
<1> QED
  BY <1>5, <1>7

-----------------------------------------------------------------------------
(* Types *)

MemoryHolds == \A i \in DOMAIN mem : mem[i] \in Fitting(sym.type)

TInv == TypeOK /\ MemoryHolds /\ lines \in Seq(Line) /\ InitializerFits /\ SymbolFits

\* The elements there are have a type.
LEMMA HasType ==
    ASSUME TInv, NEW i \in DOMAIN mem
    PROVE  mem[i] \in Int /\ sym.type \in Nat \ {0} /\ sym.type \in Types
<1>1. sym.type \in Types \cup {NULL}
  BY DEF TInv, TypeOK
<1>2. mem[i] \in Int /\ -sym.type <= mem[i] /\ mem[i] < sym.type
  BY DEF TInv, MemoryHolds, Fitting
<1>3. sym.type # NULL
  BY <1>2 DEF NULL
<1> QED
  BY <1>1, <1>2, <1>3, TypesAssumption DEF NULL

LEMMA GarbageInt == \A g \in Garbage : g \in Int
<1>1. PICK h \in Types : h \in Nat
  BY TypesAssumption
<1> QED
  BY <1>1, InputsAssumption

\* A declaration fills memory with values of its type, those it lists and what
\* was there before.
LEMMA DefineTyped ==
    ASSUME TInv, NEW types \in SUBSET (Types \cup {NULL}), types # {},
           NEW values, NULL \notin types => values \in Seq(Fitting(Max(types))),
           NEW ls \in Nat, NEW cols \in Nat, NEW size \in Nat,
           Define(types, values, ls, cols, size), UNCHANGED <<access, stray>>
    PROVE  TypeOK' /\ MemoryHolds' /\ lines' \in Seq(Line)
<1>1. CASE NULL \in types
  BY <1>1 DEF Define, TInv, TypeOK, MemoryHolds
<1>2. CASE NULL \notin types
  <2>1. /\ sym' = [lines |-> ls, cols |-> cols, type |-> Max(types)]
        /\ \E rest \in [(Len(values) + 1)..size -> Garbage] :
               mem' = [i \in 1..size |-> IF i <= Len(values) THEN values[i] ELSE rest[i]]
        /\ line' = <<>> /\ lines' = <<>> /\ crashed' = crashed
    BY <1>2 DEF Define
  <2>2. PICK rest \in [(Len(values) + 1)..size -> Garbage] :
           mem' = [i \in 1..size |-> IF i <= Len(values) THEN values[i] ELSE rest[i]]
    BY <2>1
  <2>3. values \in Seq(Fitting(Max(types))) /\ types \in SUBSET Types
    BY <1>2
  <2>4. Max(types) \in Types /\ Max(types) \in Nat
    BY <2>3, WidestType
  <2>5. \A g \in Garbage : g \in Fitting(Max(types))
    BY <2>4, InputsAssumption DEF Fitting
  <2> HIDE DEF Fitting
  <2>6. ASSUME NEW i \in 1..size PROVE mem'[i] \in Fitting(Max(types))
    <3>1. CASE i <= Len(values)
      BY <2>2, <2>3, <3>1
    <3>2. CASE ~ (i <= Len(values))
      <4>1. i \in (Len(values) + 1)..size
        BY <2>3, <3>2
      <4> QED
        BY <2>2, <2>5, <3>2, <4>1
    <3> QED
      BY <3>1, <3>2
  <2>7. DOMAIN mem' = 1..size
    BY <2>2
  <2>8. /\ \A i \in DOMAIN mem' : -sym'.type <= mem'[i] /\ mem'[i] < sym'.type
        /\ MemoryHolds'
    BY <2>1, <2>6, <2>7 DEF Fitting, MemoryHolds
  <2>9. sym' \in [lines : Nat, cols : Nat, type : Types \cup {NULL}]
    BY <2>1, <2>4
  <2> QED
    BY <2>1, <2>8, <2>9 DEF TInv, TypeOK
<1> QED
  BY <1>1, <1>2

\* What is read is what memory holds, or garbage: an integer.
LEMMA PositionsTyped ==
    ASSUME TInv, NEW p \in Positions
    PROVE  p \in Nat \X Nat /\ sym # NoSymbol
<1>1. sym # NoSymbol /\ p \in (0..(Height - 1)) \X (0..(Width - 1))
  BY DEF Positions
<1>2. Height \in Nat /\ Width \in Nat
  BY <1>1, BoundAssumption DEF TInv, TypeOK, SymbolFits, Height, Width
<1> QED
  BY <1>1, <1>2

\* A value stored is converted to the type of the elements.
LEMMA ConvertFits ==
    ASSUME NEW v \in Int, NEW from \in Nat \ {0}, NEW to \in Nat \ {0}, v \in Fitting(from)
    PROVE  /\ Convert(v, from, to) \in Fitting(to)
           /\ v \in Fitting(to) => Convert(v, from, to) = v
<1>1. CASE from > to
  <2> DEFINE m == (v + to) % (2 * to)
  <2>1. m \in 0..(2 * to - 1)
    OBVIOUS
  <2>2. Convert(v, from, to) = m - to
    BY <1>1 DEF Convert, Wrap
  <2>3. v \in Fitting(to) => m = v + to
    BY DEF Fitting
  <2> HIDE DEF m
  <2> QED
    BY <2>1, <2>2, <2>3 DEF Fitting
<1>2. CASE ~ (from > to)
  BY <1>2 DEF Convert, Fitting
<1> QED
  BY <1>1, <1>2

LEMMA InitTyped == Init => TInv
<1> SUFFICES ASSUME Init PROVE TInv
  OBVIOUS
<1>1. line = <<>> /\ lines = <<>> /\ mem = <<>> /\ stray = FALSE /\ crashed = FALSE
  BY DEF Init
<1>2. line \in Seq([node : Nodes, count : Counts]) /\ lines \in Seq(Line)
  BY <1>1
<1>3. DOMAIN lines = {} /\ DOMAIN mem = {}
  BY <1>1
<1>4. /\ sym \in [lines : Nat, cols : Nat, type : Types \cup {NULL}]
      /\ access \in [op : {"none", "load", "update"}, pos : Nat \X Nat, value : Int]
  BY DEF Init, NoSymbol, NoAccess
<1>5. TypeOK /\ MemoryHolds
  BY <1>1, <1>2, <1>3, <1>4 DEF TypeOK, MemoryHolds
<1> QED
  BY <1>2, <1>5, InitIInv DEF TInv, IInv

LEMMA NextTyped == TInv /\ [Next]_vars => TInv'
<1> SUFFICES ASSUME TInv, [Next]_vars PROVE TInv'
  OBVIOUS
<1>1. InitializerFits' /\ SymbolFits'
  BY NextFits DEF TInv
<1>2. SUFFICES TypeOK' /\ MemoryHolds' /\ lines' \in Seq(Line)
  BY <1>1 DEF TInv
<1>3. TypeOK /\ MemoryHolds /\ lines \in Seq(Line) /\ line \in Seq(Element)
  BY DEF TInv, TypeOK, Element
<1>4. CASE AppendElement
  <2>1. PICK n \in Nodes, k \in Counts : line' = Append(line, [node |-> n, count |-> k])
    BY <1>4 DEF AppendElement
  <2>2. [node |-> n, count |-> k] \in Element
    BY DEF Element
  <2>3. line' \in Seq(Element)
    BY <1>3, <2>1, <2>2
  <2>4. UNCHANGED <<lines, sym, mem, access, stray, crashed>>
    BY <1>4 DEF AppendElement
  <2> QED
    BY <1>3, <2>3, <2>4 DEF TypeOK, Element, MemoryHolds
<1>5. CASE AppendLine
  <2>1. PICK k \in Counts : lines' = Append(lines, [array |-> line, count |-> k])
    BY <1>5 DEF AppendLine
  <2>2. /\ UNCHANGED <<sym, mem, access, stray, crashed>>
        /\ line # <<>> /\ line' = <<>>
    BY <1>5 DEF AppendLine
  <2>3. [array |-> line, count |-> k] \in Line
    BY <1>3 DEF Line
  <2>4. lines' \in Seq(Line)
    BY <1>3, <2>1, <2>3
  <2>5. \A i \in DOMAIN lines' : lines'[i].array # <<>> /\ lines'[i].count \in Counts
    <3> TAKE i \in DOMAIN lines'
    <3>1. CASE i \in DOMAIN lines
      BY <1>3, <2>1, <3>1 DEF TypeOK
    <3>2. CASE i \notin DOMAIN lines
      <4>1. lines'[i] = [array |-> line, count |-> k]
        BY <1>3, <2>1, <3>2
      <4> QED
        BY <2>2, <4>1
    <3> QED
      BY <3>1, <3>2
  <2> QED
    BY <1>3, <2>2, <2>4, <2>5 DEF TypeOK, MemoryHolds
<1>6. CASE DeclareArray
  <2>1. /\ Define(ArrayTypes(line), ArrayValues(line), 0, 0, Size(line))
        /\ line # <<>> /\ UNCHANGED <<access, stray>>
    BY <1>6 DEF DeclareArray
  <2>2. Size(line) \in Nat
    BY <2>1, BoundAssumption DEF TInv, InitializerFits
  <2>3. ArrayTypes(line) \in SUBSET (Types \cup {NULL}) /\ ArrayTypes(line) # {}
    BY <1>3, <2>1, ArrayTypesFit
  <2>4. NULL \notin ArrayTypes(line)
           => ArrayValues(line) \in Seq(Fitting(Max(ArrayTypes(line))))
    BY <1>3, <2>1, ArrayLaidOut
  <2> QED
    BY <2>1, <2>2, <2>3, <2>4, DefineTyped
<1>7. CASE DeclareMatrix
  <2>1. /\ Define(MatrixTypes(lines), MatrixValues(lines), Size(lines), ColumnCount(lines),
                  Size(lines) * ColumnCount(lines))
        /\ lines # <<>> /\ UNCHANGED <<access, stray>>
    BY <1>7 DEF DeclareMatrix
  <2>2. Size(lines) \in Nat /\ ColumnCount(lines) \in Nat
    BY <2>1, BoundAssumption DEF TInv, InitializerFits
  <2>3. Size(lines) * ColumnCount(lines) \in Nat
    BY <2>2
  <2>4. \A i \in DOMAIN lines : lines[i].array # <<>>
    BY <1>3 DEF TypeOK
  <2>5. /\ MatrixTypes(lines) \in SUBSET (Types \cup {NULL}) /\ MatrixTypes(lines) # {}
        /\ NULL \notin MatrixTypes(lines)
              => MatrixValues(lines) \in Seq(Fitting(Max(MatrixTypes(lines))))
    BY <1>3, <2>1, <2>4, MatrixLaidOut
  <2> QED
    BY <2>1, <2>2, <2>3, <2>5, DefineTyped
<1>8. CASE LoadElement
  <2>1. PICK p \in Positions, t1 \in Types, t2 \in Types :
           LET i == Index(p, t1, t2) + 1
           IN  /\ stray' = (stray \/ i \notin DOMAIN mem)
               /\ \E v \in (IF i \in DOMAIN mem THEN {mem[i]} ELSE Garbage) :
                     access' = [op |-> "load", pos |-> p, value |-> v]
               /\ UNCHANGED <<line, lines, sym, mem, crashed>>
    BY <1>8 DEF LoadElement
  <2> DEFINE i == Index(p, t1, t2) + 1
  <2>2. PICK v \in (IF i \in DOMAIN mem THEN {mem[i]} ELSE Garbage) :
           access' = [op |-> "load", pos |-> p, value |-> v]
    BY <2>1
  <2>3. UNCHANGED <<line, lines, sym, mem, crashed>> /\ stray' \in BOOLEAN
    BY <1>3, <2>1 DEF TypeOK
  <2> HIDE DEF i
  <2>4. v \in Int
    <3>1. CASE i \in DOMAIN mem
      BY <2>2, <3>1, HasType
    <3>2. CASE i \notin DOMAIN mem
      BY <2>2, <3>2, GarbageInt
    <3> QED
      BY <3>1, <3>2
  <2>5. access' \in [op : {"none", "load", "update"}, pos : Nat \X Nat, value : Int]
    BY <2>2, <2>4, PositionsTyped
  <2> QED
    BY <1>3, <2>3, <2>5 DEF TypeOK, MemoryHolds
<1>9. CASE UpdateElement
  <2>1. PICK p \in Positions, t1 \in Types, t2 \in Types, n \in NewValues :
           LET i == Index(p, t1, t2) + 1
           IN  /\ stray' = (stray \/ i \notin DOMAIN mem)
               /\ mem' = Store(i, n)
               /\ access' = [op |-> "update", pos |-> p, value |-> n.value]
               /\ UNCHANGED <<line, lines, sym, crashed>>
    BY <1>9 DEF UpdateElement
  <2> DEFINE i == Index(p, t1, t2) + 1
  <2>2. /\ mem' = Store(i, n) /\ access' = [op |-> "update", pos |-> p, value |-> n.value]
        /\ UNCHANGED <<line, lines, sym, crashed>> /\ stray' \in BOOLEAN
    BY <1>3, <2>1 DEF TypeOK
  <2> HIDE DEF i
  <2>3. n.value \in Int /\ n.type \in Nat \ {0} /\ n.value \in Fitting(n.type)
    BY NodeFits DEF Fitting
  <2>4. \A k \in DOMAIN mem' : mem'[k] \in Fitting(sym.type)
    <3>1. CASE i \notin DOMAIN mem
      BY <1>3, <2>2, <3>1 DEF Store, MemoryHolds
    <3>2. CASE i \in DOMAIN mem
      <4>1. sym.type \in Nat \ {0}
        BY <3>2, HasType
      <4>2. Convert(n.value, n.type, sym.type) \in Fitting(sym.type)
        BY <2>3, <4>1, ConvertFits
      <4>3. mem' = [mem EXCEPT ![i] = Convert(n.value, n.type, sym.type)]
        BY <2>2, <3>2 DEF Store
      <4>4. DOMAIN mem' = DOMAIN mem
        BY <4>3
      <4> QED
        BY <1>3, <4>2, <4>3, <4>4 DEF MemoryHolds
    <3> QED
      BY <3>1, <3>2
  <2>5. access' \in [op : {"none", "load", "update"}, pos : Nat \X Nat, value : Int]
    BY <2>2, <2>3, PositionsTyped
  <2> QED
    BY <1>3, <2>2, <2>4, <2>5 DEF TypeOK, MemoryHolds, Fitting
<1>10. CASE UNCHANGED vars
  BY <1>3, <1>10 DEF vars, TypeOK, MemoryHolds
<1> QED
  BY <1>4, <1>5, <1>6, <1>7, <1>8, <1>9, <1>10 DEF Next

\* Memory holds only values of the type of the elements, for every initializer, with
\* whatever repeat counts, and every store of a wider value (Array.cpp, Matrix.cpp,
\* UpdateArray.cpp); positions need not fit the types of indices for that.
THEOREM ArraysTyped == Spec => []TypeOK
<1>1. TInv => TypeOK
  BY DEF TInv
<1> QED
  BY <1>1, InitTyped, NextTyped, PTL DEF Spec

-----------------------------------------------------------------------------
(* Where the values of an initializer are laid out *)

\* p adds up the lengths a: what precedes the i-th part ends at p[i - 1].
Adds(p, a, n) == p \in [0..n -> Nat] /\ p[0] = 0 /\ \A i \in 1..n : p[i] = p[i - 1] + a[i]

\* There is such a p.
LEMMA SumsExist ==
    ASSUME NEW n \in Nat, NEW a \in [1..n -> Nat]
    PROVE  \E p : Adds(p, a, n)
<1> DEFINE Summed(k) == \E p : Adds(p, a, k)
           Bad == {k \in 0..n : ~ Summed(k)}
<1> SUFFICES ASSUME Bad # {} PROVE FALSE
  <2>1. n \in 0..n
    OBVIOUS
  <2> QED  BY <2>1
<1>1. PICK m \in Bad : \A k \in Bad : m <= k
  <2>1. Bad \in SUBSET Nat
    OBVIOUS
  <2> HIDE DEF Bad
  <2> QED  BY <2>1, LeastOf
<1>2. CASE m = 0
  <2>1. Adds([i \in 0..0 |-> 0], a, 0)
    BY DEF Adds
  <2>2. Summed(0)
    BY <2>1, Zenon
  <2> QED  BY <1>1, <1>2, <2>2
<1>3. CASE m # 0
  <2>1. m \in 1..n /\ m - 1 \in 0..n /\ ~ (m <= m - 1)
    BY <1>1, <1>3
  <2>2. Summed(m - 1)
    BY <1>1, <2>1
  <2>3. PICK p : Adds(p, a, m - 1)
    BY <2>2
  <2> DEFINE q == [i \in 0..m |-> IF i = m THEN p[m - 1] + a[m] ELSE p[i]]
  <2>4. p \in [0..(m - 1) -> Nat] /\ p[0] = 0 /\ \A i \in 1..(m - 1) : p[i] = p[i - 1] + a[i]
    BY <2>3 DEF Adds
  <2>5. a[m] \in Nat /\ p[m - 1] \in Nat
    BY <2>1, <2>4
  <2>6. q \in [0..m -> Nat]
    <3>1. \A i \in 0..m : i # m => i \in 0..(m - 1)
      BY <2>1
    <3> QED  BY <2>4, <2>5, <3>1
  <2>7. q[0] = 0
    BY <2>1, <2>4
  <2>8. \A i \in 1..m : q[i] = q[i - 1] + a[i]
    BY <2>1, <2>4
  <2>9. Adds(q, a, m)
    BY <2>6, <2>7, <2>8 DEF Adds
  <2>10. Summed(m)
    BY <2>9, Zenon
  <2> QED  BY <1>1, <2>10
<1> QED  BY <1>2, <1>3

\* Sums grow.
LEMMA SumsGrow ==
    ASSUME NEW n \in Nat, NEW a \in [1..n -> Nat], NEW p, Adds(p, a, n),
           NEW i \in 0..n, NEW j \in 0..n, i <= j
    PROVE  p[i] <= p[j]
<1> DEFINE Bad == {k \in 0..n : i <= k /\ ~ (p[i] <= p[k])}
<1>0. p \in [0..n -> Nat] /\ \A k \in 1..n : p[k] = p[k - 1] + a[k]
  BY DEF Adds
<1> SUFFICES ASSUME Bad # {} PROVE FALSE
  OBVIOUS
<1>1. PICK m \in Bad : \A k \in Bad : m <= k
  <2>1. Bad \in SUBSET Nat
    OBVIOUS
  <2> HIDE DEF Bad
  <2> QED  BY <2>1, LeastOf
<1>2. m \in 0..n /\ i <= m /\ ~ (p[i] <= p[m])
  BY <1>1
<1>3. m # i /\ p[i] \in Nat
  BY <1>0, <1>2
<1>4. m \in 1..n /\ m - 1 \in 0..n /\ i <= m - 1
  BY <1>2, <1>3
<1>5. p[i] <= p[m - 1]
  <2>1. m - 1 \notin Bad
    <3>1. ~ (m <= m - 1)
      BY <1>4
    <3> HIDE DEF Bad
    <3> QED  BY <1>1, <3>1
  <2> QED  BY <1>4, <2>1
<1>6. p[m] = p[m - 1] + a[m] /\ a[m] \in Nat /\ p[m - 1] \in Nat
  BY <1>0, <1>4
<1> QED  BY <1>2, <1>3, <1>5, <1>6

\* The sums below the last are split at every number below it.
LEMMA SumsCover ==
    ASSUME NEW n \in Nat, NEW a \in [1..n -> Nat], NEW p, Adds(p, a, n),
           NEW i \in Nat, i < p[n]
    PROVE  \E j \in 1..n : p[j - 1] <= i /\ i < p[j]
<1> DEFINE Above == {k \in 0..n : i < p[k]}
<1>0. p \in [0..n -> Nat] /\ p[0] = 0
  BY DEF Adds
<1>1. n \in Above
  OBVIOUS
<1>2. PICK j \in Above : \A k \in Above : j <= k
  <2>1. Above \in SUBSET Nat
    OBVIOUS
  <2> HIDE DEF Above
  <2> QED  BY <1>1, <2>1, LeastOf
<1>3. j \in 0..n /\ i < p[j]
  BY <1>2
<1>4. j # 0
  BY <1>0, <1>3
<1>5. j \in 1..n /\ j - 1 \in 0..n /\ ~ (j <= j - 1)
  BY <1>3, <1>4
<1>6. j - 1 \notin Above
  <2> HIDE DEF Above
  <2> QED  BY <1>2, <1>5
<1>7. ~ (i < p[j - 1]) /\ p[j - 1] \in Nat
  BY <1>0, <1>5, <1>6
<1> QED  BY <1>3, <1>5, <1>7

CountsOf(s) == [i \in DOMAIN s |-> s[i].count]

\* Size is the last of the sums of the counts.
LEMMA SizeSums ==
    ASSUME NEW S, NEW s \in Seq(S), NEW p, Adds(p, CountsOf(s), Len(s))
    PROVE  Size(s) = p[Len(s)]
<1> DEFINE n == Len(s)
           P(g) == g = [i \in 0..n |-> IF i = 0 THEN 0 ELSE g[i - 1] + s[i].count]
           f == CHOOSE g : P(g)
<1>1. n \in Nat /\ DOMAIN s = 1..n
  OBVIOUS
<1>2. p \in [0..n -> Nat] /\ p[0] = 0 /\ \A i \in 1..n : p[i] = p[i - 1] + s[i].count
  BY <1>1 DEF Adds, CountsOf
<1>3. Size(s) = f[n]
  BY DEF Size
<1> HIDE DEF n
<1>4. P(p)
  BY <1>1, <1>2
<1>5. P(f)
  BY <1>4
<1> HIDE DEF f
<1> DEFINE Bad == {k \in 0..n : f[k] # p[k]}
<1>6. Bad = {}
  <2> SUFFICES ASSUME Bad # {} PROVE FALSE
    OBVIOUS
  <2>1. PICK m \in Bad : \A k \in Bad : m <= k
    <3>1. Bad \in SUBSET Nat
      OBVIOUS
    <3> HIDE DEF Bad
    <3> QED  BY <3>1, LeastOf
  <2>2. m \in 0..n /\ f[m] # p[m]
    BY <2>1
  <2>3. m # 0
    BY <1>2, <1>5, <2>2
  <2>4. m \in 1..n /\ m - 1 \in 0..n /\ ~ (m <= m - 1)
    BY <1>1, <2>2, <2>3
  <2>5. f[m - 1] = p[m - 1]
    <3>1. m - 1 \notin Bad
      <4> HIDE DEF Bad
      <4> QED  BY <2>1, <2>4
    <3> QED  BY <2>4, <3>1
  <2>6. f[m] = f[m - 1] + s[m].count
    BY <1>5, <2>2, <2>3
  <2> QED  BY <1>2, <2>2, <2>4, <2>5, <2>6
<1>7. n \in 0..n
  BY <1>1
<1> QED  BY <1>3, <1>6, <1>7 DEF n

\* And those of what comes first are the others.
LEMMA SizeOfFirst ==
    ASSUME NEW S, NEW s \in Seq(S), NEW p, Adds(p, CountsOf(s), Len(s)), NEW j \in 0..Len(s)
    PROVE  Size(SubSeq(s, 1, j)) = p[j]
<1> DEFINE t == SubSeq(s, 1, j)
           q == [i \in 0..j |-> p[i]]
<1>2. Len(s) \in Nat /\ DOMAIN s = 1..Len(s) /\ j \in Nat
  OBVIOUS
<1>1. p \in [0..Len(s) -> Nat] /\ p[0] = 0 /\ \A i \in 1..Len(s) : p[i] = p[i - 1] + s[i].count
  BY <1>2 DEF Adds, CountsOf
<1>3. t \in Seq(S) /\ Len(t) = j /\ \A i \in 1..j : t[i] = s[i]
  OBVIOUS
<1>4. Adds(q, CountsOf(t), j)
  <2>1. DOMAIN t = 1..j
    BY <1>3
  <2>2. \A i \in 0..j : i \in 0..Len(s)
    BY <1>2
  <2>3. q \in [0..j -> Nat] /\ q[0] = 0
    BY <1>1, <1>2, <2>2
  <2>4. ASSUME NEW i \in 1..j PROVE q[i] = q[i - 1] + t[i].count
    <3>1. i \in 1..Len(s) /\ i \in 0..j /\ i - 1 \in 0..j
      BY <1>2
    <3> QED  BY <1>1, <1>3, <3>1
  <2> HIDE DEF t, q
  <2> QED  BY <2>1, <2>3, <2>4 DEF Adds, CountsOf
<1>5. Size(t) = q[j]
  <2> HIDE DEF t, q
  <2> QED  BY <1>3, <1>4, SizeSums
<1> QED  BY <1>2, <1>5

\* An entry is found where the sums of the counts say.
LEMMA EntryIs ==
    ASSUME NEW S, NEW s \in Seq(S), \A i \in DOMAIN s : s[i].count \in Nat,
           NEW p, Adds(p, CountsOf(s), Len(s)),
           NEW j \in 1..Len(s), NEW i \in Nat, p[j - 1] <= i, i < p[j]
    PROVE  EntryAt(s, i) = s[j]
<1> DEFINE Here(k) == Size(SubSeq(s, 1, k - 1)) <= i /\ i < Size(SubSeq(s, 1, k))
<1>1. Len(s) \in Nat /\ DOMAIN s = 1..Len(s) /\ CountsOf(s) \in [1..Len(s) -> Nat]
  BY DEF CountsOf
<1>2. p \in [0..Len(s) -> Nat]
  BY DEF Adds
<1>3. \A k \in 1..Len(s) : Here(k) <=> (p[k - 1] <= i /\ i < p[k])
  <2> SUFFICES ASSUME NEW k \in 1..Len(s) PROVE Here(k) <=> (p[k - 1] <= i /\ i < p[k])
    OBVIOUS
  <2>1. k \in 0..Len(s) /\ k - 1 \in 0..Len(s)
    BY <1>1
  <2>2. Size(SubSeq(s, 1, k)) = p[k] /\ Size(SubSeq(s, 1, k - 1)) = p[k - 1]
    BY <2>1, SizeOfFirst
  <2> QED  BY <2>2
<1>4. ASSUME NEW k \in 1..Len(s), p[k - 1] <= i, i < p[k] PROVE k = j
  <2>0. k \in 0..Len(s) /\ k - 1 \in 0..Len(s) /\ j \in 0..Len(s) /\ j - 1 \in 0..Len(s)
    BY <1>1
  <2>1. p[k] \in Nat /\ p[k - 1] \in Nat /\ p[j] \in Nat /\ p[j - 1] \in Nat
    BY <1>2, <2>0
  <2>2. CASE k <= j - 1
    <3>1. p[k] <= p[j - 1]
      BY <1>1, <2>0, <2>2, SumsGrow
    <3> QED  BY <1>4, <2>1, <3>1
  <2>3. CASE j <= k - 1
    <3>1. p[j] <= p[k - 1]
      BY <1>1, <2>0, <2>3, SumsGrow
    <3> QED  BY <1>4, <2>1, <3>1
  <2> QED  BY <1>1, <2>2, <2>3
<1> HIDE DEF Here
<1>5. (CHOOSE k \in DOMAIN s : Here(k)) = j
  BY <1>1, <1>3, <1>4
<1> QED  BY <1>5 DEF EntryAt, Here

\* What stands where in two sequences joined.
LEMMA JoinPlaces ==
    ASSUME NEW V, NEW s \in Seq(V), NEW t \in Seq(V)
    PROVE  /\ s \o t \in Seq(V) /\ Len(s) \in Nat /\ Len(t) \in Nat
           /\ Len(s \o t) = Len(s) + Len(t)
           /\ \A i \in 1..Len(s) : (s \o t)[i] = s[i]
           /\ \A c \in 1..Len(t) : (s \o t)[Len(s) + c] = t[c]
OBVIOUS

\* FlattenSeq has each sequence behind the lengths of those before it.
LEMMA FlattenPlaces ==
    ASSUME NEW V, NEW s \in Seq(Seq(V)), NEW p, Adds(p, [i \in 1..Len(s) |-> Len(s[i])], Len(s))
    PROVE  /\ Len(FlattenSeq(s)) = p[Len(s)]
           /\ \A j \in 1..Len(s) : \A c \in 1..Len(s[j]) :
                 /\ p[j - 1] + c \in 1..Len(FlattenSeq(s))
                 /\ FlattenSeq(s)[p[j - 1] + c] = s[j][c]
<1> DEFINE n == Len(s)
           Joined(g) == g = [i \in 1..n |-> IF i = 1 THEN s[i] ELSE g[i - 1] \o s[i]]
<1>1. n \in Nat /\ \A i \in 1..n : s[i] \in Seq(V) /\ Len(s[i]) \in Nat
  OBVIOUS
<1>2. p \in [0..n -> Nat] /\ p[0] = 0 /\ \A i \in 1..n : p[i] = p[i - 1] + Len(s[i])
  BY DEF Adds
<1>3. CASE n = 0
  <2>1. FlattenSeq(s) = <<>>
    BY <1>3 DEF FlattenSeq
  <2> QED  BY <1>2, <1>3, <2>1
<1>4. CASE n # 0
  <2>1. PICK f : Joined(f) /\ FlattenSeq(s) = f[n]
    BY <1>4, FlattenJoins
  <2> HIDE DEF n
  <2> DEFINE Right(k) ==
               /\ f[k] \in Seq(V) /\ Len(f[k]) = p[k]
               /\ \A j \in 1..k : \A c \in 1..Len(s[j]) :
                     p[j - 1] + c \in 1..p[k] /\ f[k][p[j - 1] + c] = s[j][c]
             Bad == {k \in 1..n : ~ Right(k)}
  <2>2. Bad = {}
    <3> SUFFICES ASSUME Bad # {} PROVE FALSE
      OBVIOUS
    <3>1. PICK m \in Bad : \A k \in Bad : m <= k
      <4>1. Bad \in SUBSET Nat
        <5>1. 1..n \subseteq Nat
          BY <1>1
        <5>2. Bad \subseteq 1..n
          BY Zenon
        <5> QED  BY <5>1, <5>2, Zenon
      <4> HIDE DEF Bad
      <4> QED  BY <4>1, LeastOf
    <3>2. m \in 1..n /\ ~ Right(m)
      BY <3>1
    <3>3. f[m] = IF m = 1 THEN s[m] ELSE f[m - 1] \o s[m]
      BY <2>1, <3>2
    <3>4. p[m] = p[m - 1] + Len(s[m]) /\ m - 1 \in 0..n /\ p[m - 1] \in Nat
      BY <1>1, <1>2, <3>2
    <3>5. CASE m = 1
      <4>1. f[m] = s[1] /\ p[0] = 0 /\ p[1] = Len(s[1])
        BY <1>2, <3>2, <3>3, <3>4, <3>5
      <4>2. \A j \in 1..1 : j = 1 /\ j - 1 = 0
        OBVIOUS
      <4>3. Right(1)
        BY <1>1, <3>2, <3>5, <4>1, <4>2
      <4> QED  BY <3>2, <3>5, <4>3
    <3>6. CASE m # 1
      <4>1. m - 1 \in 1..n /\ ~ (m <= m - 1)
        BY <1>1, <3>2, <3>6
      <4>2. Right(m - 1)
        <5>1. m - 1 \notin Bad
          <6> HIDE DEF Bad
          <6> QED  BY <3>1, <4>1
        <5> QED  BY <4>1, <5>1
      <4> DEFINE u == f[m - 1]
                 w == s[m]
      <4>3. u \in Seq(V) /\ Len(u) = p[m - 1] /\ w \in Seq(V) /\ f[m] = u \o w
        BY <1>1, <3>2, <3>3, <3>6, <4>2
      <4> HIDE DEF u, w
      <4>0. /\ u \o w \in Seq(V) /\ Len(u) \in Nat /\ Len(w) \in Nat
            /\ Len(u \o w) = Len(u) + Len(w)
            /\ \A i \in 1..Len(u) : (u \o w)[i] = u[i]
            /\ \A c \in 1..Len(w) : (u \o w)[Len(u) + c] = w[c]
        <5>1. u \in Seq(V) /\ w \in Seq(V)
          BY <4>3
        <5>2. /\ u \o w \in Seq(V) /\ Len(u) \in Nat /\ Len(w) \in Nat
              /\ Len(u \o w) = Len(u) + Len(w)
              /\ \A i \in 1..Len(u) : (u \o w)[i] = u[i]
          BY <5>1, JoinPlaces, Zenon
        <5>3. \A c \in 1..Len(w) : (u \o w)[Len(u) + c] = w[c]
          BY <5>1, SMT
        <5> QED  BY <5>2, <5>3
      <4>4. f[m] \in Seq(V) /\ Len(f[m]) = p[m]
        BY <3>4, <4>0, <4>3 DEF w
      <4>5. ASSUME NEW j \in 1..m, NEW c \in 1..Len(s[j])
            PROVE  p[j - 1] + c \in 1..p[m] /\ f[m][p[j - 1] + c] = s[j][c]
        <5>1. CASE j = m
          <6>1. c \in 1..Len(w)
            BY <5>1 DEF w
          <6>2. (u \o w)[Len(u) + c] = w[c]
            BY <4>0, <6>1, Zenon
          <6>3. Len(u) + c \in 1..(Len(u) + Len(w))
            <7>1. Len(u) \in Nat /\ Len(w) \in Nat
              BY <4>0
            <7> QED  BY <6>1, <7>1
          <6> QED  BY <3>4, <4>3, <5>1, <6>2, <6>3 DEF w
        <5>2. CASE j # m
          <6>1. j \in 1..(m - 1)
            BY <3>2, <5>2
          <6>2. p[j - 1] + c \in 1..Len(u) /\ u[p[j - 1] + c] = s[j][c]
            BY <4>2, <4>3, <6>1 DEF u
          <6>3. (u \o w)[p[j - 1] + c] = u[p[j - 1] + c]
            BY <4>0, <6>2, Zenon
          <6>4. p[j - 1] + c \in 1..p[m]
            <7>1. Len(u) \in Nat /\ Len(w) \in Nat /\ p[m] = Len(u) + Len(w)
              BY <3>4, <4>0, <4>3 DEF w
            <7> QED  BY <6>2, <7>1
          <6> QED  BY <4>3, <6>2, <6>3, <6>4
        <5> QED  BY <5>1, <5>2
      <4>6. Right(m)
        BY <4>4, <4>5
      <4> QED  BY <3>2, <4>6
    <3> QED  BY <3>5, <3>6
  <2>3. n \in 1..n
    BY <1>1, <1>4
  <2>4. Right(n)
    BY <2>2, <2>3
  <2> QED  BY <2>1, <2>4 DEF n
<1> QED  BY <1>3, <1>4

\* Multiples, in steps.
LEMMA Multiples ==
    ASSUME NEW k \in Nat, NEW n \in Nat
    PROVE  k * n \in Nat /\ (k + 1) * n = k * n + n /\ 0 * n = 0 /\ 1 * n = n
OBVIOUS

\* Repeat has a copy behind each copy.
LEMMA RepeatPlaces ==
    ASSUME NEW V, NEW s \in Seq(V), NEW n \in Nat
    PROVE  /\ Len(Repeat(s, n)) = n * Len(s)
           /\ \A k \in 0..(n - 1), c \in 1..Len(s) :
                 /\ k * Len(s) + c \in 1..(n * Len(s))
                 /\ Repeat(s, n)[k * Len(s) + c] = s[c]
<1> DEFINE r == [i \in 1..n |-> s]
           p == [i \in 0..n |-> i * Len(s)]
<1>1. r \in Seq(Seq(V)) /\ Len(r) = n /\ \A i \in 1..n : r[i] = s
  OBVIOUS
<1>2. Len(s) \in Nat
  OBVIOUS
<1>3. Adds(p, [i \in 1..Len(r) |-> Len(r[i])], Len(r))
  <2>1. p \in [0..n -> Nat] /\ p[0] = 0
    BY <1>2, Multiples
  <2>2. ASSUME NEW i \in 1..n PROVE p[i] = p[i - 1] + Len(r[i])
    <3>1. i - 1 \in Nat /\ i - 1 \in 0..n /\ i \in 0..n /\ (i - 1) + 1 = i
      OBVIOUS
    <3>2. ((i - 1) + 1) * Len(s) = (i - 1) * Len(s) + Len(s)
      BY <1>2, <3>1, Multiples
    <3>3. p[i] = i * Len(s) /\ p[i - 1] = (i - 1) * Len(s)
      BY <3>1
    <3> QED  BY <1>1, <3>1, <3>2, <3>3
  <2> HIDE DEF r, p
  <2> QED  BY <1>1, <2>1, <2>2 DEF Adds
<1>4. p[n] = n * Len(s) /\ \A j \in 1..n : p[j - 1] = (j - 1) * Len(s)
  OBVIOUS
<1> HIDE DEF r, p
<1> DEFINE f == FlattenSeq(r)
<1>5. /\ Len(f) = p[n]
      /\ \A j \in 1..n : \A c \in 1..Len(r[j]) : p[j - 1] + c \in 1..Len(f) /\ f[p[j - 1] + c] = r[j][c]
  <2>1. r \in Seq(Seq(V))
    BY <1>1
  <2>2. /\ Len(FlattenSeq(r)) = p[Len(r)]
        /\ \A j \in 1..Len(r) : \A c \in 1..Len(r[j]) :
              /\ p[j - 1] + c \in 1..Len(FlattenSeq(r))
              /\ FlattenSeq(r)[p[j - 1] + c] = r[j][c]
    BY <1>3, <2>1, FlattenPlaces, Zenon
  <2> QED  BY <1>1, <2>2, Zenon
<1>6. f = Repeat(s, n)
  BY DEF Repeat, r
<1> HIDE DEF f
<1>7. ASSUME NEW k \in 0..(n - 1), NEW c \in 1..Len(s)
      PROVE  k * Len(s) + c \in 1..(n * Len(s)) /\ f[k * Len(s) + c] = s[c]
  <2>1. k + 1 \in 1..n /\ (k + 1) - 1 = k
    OBVIOUS
  <2>2. r[k + 1] = s /\ p[(k + 1) - 1] = k * Len(s)
    BY <1>1, <1>4, <2>1
  <2>3. \A d \in 1..Len(r[k + 1]) :
           p[(k + 1) - 1] + d \in 1..Len(f) /\ f[p[(k + 1) - 1] + d] = r[k + 1][d]
    BY <1>5, <2>1
  <2> QED  BY <1>4, <1>5, <2>2, <2>3
<1> QED  BY <1>4, <1>5, <1>6, <1>7

\* There are sums of the counts, and Size is the last.
LEMMA CountsAdd ==
    ASSUME NEW S, NEW s \in Seq(S), \A i \in DOMAIN s : s[i].count \in Nat
    PROVE  \E p \in [0..Len(s) -> Nat] : Adds(p, CountsOf(s), Len(s)) /\ Size(s) = p[Len(s)]
<1>1. Len(s) \in Nat /\ CountsOf(s) \in [1..Len(s) -> Nat]
  BY DEF CountsOf
<1>2. PICK p : Adds(p, CountsOf(s), Len(s))
  BY <1>1, SumsExist
<1>3. Size(s) = p[Len(s)]
  BY <1>2, SizeSums
<1>4. p \in [0..Len(s) -> Nat]
  BY <1>2 DEF Adds
<1> QED  BY <1>2, <1>3, <1>4

\* In memory an element stands where counting the entries finds it.
LEMMA ArrayPlaces ==
    ASSUME NEW array \in Seq(Element)
    PROVE  /\ Size(array) \in Nat /\ Len(ArrayValues(array)) = Size(array)
           /\ \A c \in 0..(Size(array) - 1) :
                 ArrayValues(array)[c + 1] = EntryAt(array, c).node.value
<1> DEFINE n == Len(array)
           Value(i) == array[i].node.value
           r == [i \in DOMAIN array |-> Repeat(<<Value(i)>>, array[i].count)]
           V == {Value(i) : i \in 1..n}
<1>1. n \in Nat /\ DOMAIN array = 1..n
  OBVIOUS
<1>2. \A i \in 1..n : array[i].count \in Nat
  BY <1>1, ElementParts, InputsAssumption
<1>3. PICK p \in [0..n -> Nat] : Adds(p, CountsOf(array), n) /\ Size(array) = p[n]
  <2>1. \A i \in DOMAIN array : array[i].count \in Nat
    BY <1>1, <1>2
  <2> QED  BY <2>1, CountsAdd
<1>4. ASSUME NEW i \in 1..n
      PROVE  /\ r[i] \in Seq(V) /\ Len(r[i]) = array[i].count
             /\ \A d \in 1..array[i].count : r[i][d] = Value(i)
  <2> DEFINE s == <<Value(i)>>
             k == array[i].count
  <2>1. s \in Seq(V) /\ Len(s) = 1 /\ s[1] = Value(i) /\ k \in Nat
    BY <1>2
  <2>2. r[i] = Repeat(s, k)
    BY <1>1
  <2> HIDE DEF s, k, r, V
  <2>3. Repeat(s, k) \in Seq(V)
    BY <2>1, RepeatType
  <2>4. /\ Len(Repeat(s, k)) = k * 1
        /\ \A j \in 0..(k - 1), c \in 1..1 : Repeat(s, k)[j * 1 + c] = s[c]
    <3>1. \A j \in 0..(k - 1), c \in 1..Len(s) : Repeat(s, k)[j * Len(s) + c] = s[c]
      BY <2>1, RepeatPlaces, Zenon
    <3>2. Len(Repeat(s, k)) = k * Len(s)
      BY <2>1, RepeatPlaces, Zenon
    <3> QED  BY <2>1, <3>1, <3>2, Zenon
  <2>5. ASSUME NEW d \in 1..k PROVE Repeat(s, k)[d] = Value(i)
    <3>1. d - 1 \in 0..(k - 1) /\ (d - 1) * 1 + 1 = d /\ 1 \in 1..1
      BY <2>1
    <3>2. Repeat(s, k)[(d - 1) * 1 + 1] = s[1]
      BY <2>4, <3>1
    <3> QED  BY <2>1, <3>1, <3>2
  <2> QED  BY <2>1, <2>2, <2>3, <2>4, <2>5 DEF k
<1>5. DOMAIN r = 1..n
  BY <1>1
<1>6. ArrayValues(array) = FlattenSeq(r)
  BY DEF ArrayValues
<1>7. r = [i \in 1..n |-> r[i]]
  BY <1>5
<1> HIDE DEF r, V, n, Value
<1>8. r \in Seq(Seq(V)) /\ Len(r) = n
  BY <1>1, <1>4, <1>7
<1>9. Adds(p, [i \in 1..Len(r) |-> Len(r[i])], Len(r))
  BY <1>1, <1>3, <1>4, <1>8 DEF Adds, CountsOf
<1>10. /\ Len(FlattenSeq(r)) = p[n]
       /\ \A j \in 1..n : \A c \in 1..Len(r[j]) : FlattenSeq(r)[p[j - 1] + c] = r[j][c]
  BY <1>8, <1>9, FlattenPlaces
<1>11. n \in 0..n /\ p[n] \in Nat
  BY <1>1
<1>12. ASSUME NEW c \in 0..(Size(array) - 1)
       PROVE  FlattenSeq(r)[c + 1] = EntryAt(array, c).node.value
  <2>1. CountsOf(array) \in [1..n -> Nat] /\ c \in Nat /\ c < p[n]
    BY <1>1, <1>2, <1>3, <1>11 DEF CountsOf
  <2>2. PICK j \in 1..n : p[j - 1] <= c /\ c < p[j]
    BY <1>1, <1>3, <2>1, SumsCover
  <2>3. EntryAt(array, c) = array[j]
    BY <1>1, <1>2, <1>3, <2>1, <2>2, EntryIs DEF n
  <2>4. p[j] = p[j - 1] + array[j].count /\ p[j - 1] \in Nat /\ array[j].count \in Nat
    BY <1>1, <1>2, <1>3 DEF Adds, CountsOf
  <2> DEFINE d == c + 1 - p[j - 1]
  <2>5. d \in 1..array[j].count /\ p[j - 1] + d = c + 1
    BY <2>1, <2>2, <2>4
  <2> HIDE DEF d
  <2>6. FlattenSeq(r)[p[j - 1] + d] = r[j][d]
    BY <1>4, <1>10, <2>5
  <2>7. r[j][d] = Value(j)
    BY <1>4, <2>5
  <2> QED  BY <2>3, <2>5, <2>6, <2>7 DEF Value
<1> QED  BY <1>3, <1>6, <1>10, <1>11, <1>12

WidthsOf(ls) == [i \in DOMAIN ls |-> ls[i].count * Size(ls[i].array)]

LEMMA LineValues ==
    ASSUME NEW ls \in Seq(Line), NEW i \in DOMAIN ls
    PROVE  /\ ls[i].array \in Seq(Element) /\ ls[i].count \in Nat \ {0}
           /\ ArrayValues(ls[i].array) \in Seq(Int)
           /\ Size(ls[i].array) \in Nat /\ Len(ArrayValues(ls[i].array)) = Size(ls[i].array)
<1> DEFINE array == ls[i].array
<1>1. array \in Seq(Element) /\ ls[i].count \in Nat \ {0}
  BY LineParts, InputsAssumption
<1> HIDE DEF array
<1>2. \A j \in DOMAIN array : array[j].node.value \in Int
  <2> SUFFICES ASSUME NEW j \in DOMAIN array PROVE array[j].node.value \in Int
    OBVIOUS
  <2>1. array[j].node \in Nodes
    BY <1>1, ElementParts
  <2> QED  BY <2>1, NodeFits DEF Fitting
<1>3. ArrayValues(array) \in Seq(Int)
  BY <1>1, <1>2, ArrayValuesType
<1>4. Size(array) \in Nat /\ Len(ArrayValues(array)) = Size(array)
  BY <1>1, ArrayPlaces
<1> QED  BY <1>1, <1>3, <1>4 DEF array

\* The copies of a line stand one behind the other, behind those of the lines before it.
LEMMA LinePlaces ==
    ASSUME NEW ls \in Seq(Line), NEW q, Adds(q, WidthsOf(ls), Len(ls)),
           NEW j \in 1..Len(ls), NEW k \in 0..(ls[j].count - 1), NEW c \in 1..Size(ls[j].array)
    PROVE  /\ q[j - 1] + (k * Size(ls[j].array) + c) \in 1..Len(MatrixValues(ls))
           /\ MatrixValues(ls)[q[j - 1] + (k * Size(ls[j].array) + c)] = ArrayValues(ls[j].array)[c]
<1> DEFINE n == Len(ls)
           Values(i) == ArrayValues(ls[i].array)
           r == [i \in DOMAIN ls |-> Repeat(Values(i), ls[i].count)]
<1>1. n \in Nat /\ DOMAIN ls = 1..n
  OBVIOUS
<1>2. \A i \in 1..n : /\ Values(i) \in Seq(Int) /\ Len(Values(i)) = Size(ls[i].array)
                      /\ ls[i].count \in Nat /\ Size(ls[i].array) \in Nat
  BY <1>1, LineValues
<1>3. MatrixValues(ls) = FlattenSeq(r) /\ DOMAIN r = 1..n
  BY <1>1 DEF MatrixValues
<1>4. \A i \in 1..n : r[i] = Repeat(Values(i), ls[i].count)
  BY <1>1
<1> HIDE DEF Values, r
<1>5. \A i \in 1..n : r[i] \in Seq(Int) /\ Len(r[i]) = ls[i].count * Size(ls[i].array)
  <2> SUFFICES ASSUME NEW i \in 1..n
               PROVE  r[i] \in Seq(Int) /\ Len(r[i]) = ls[i].count * Size(ls[i].array)
    OBVIOUS
  <2>1. Values(i) \in Seq(Int) /\ Len(Values(i)) = Size(ls[i].array) /\ ls[i].count \in Nat
    BY <1>2
  <2>2. Repeat(Values(i), ls[i].count) \in Seq(Int)
    BY <2>1, RepeatType
  <2>3. Len(Repeat(Values(i), ls[i].count)) = ls[i].count * Len(Values(i))
    BY <2>1, RepeatPlaces, Zenon
  <2> QED  BY <1>4, <2>1, <2>2, <2>3, Zenon
<1>6. r \in Seq(Seq(Int)) /\ Len(r) = n
  <2>1. r = [i \in 1..n |-> r[i]]
    BY <1>3, <1>4 DEF r
  <2>2. n \in Nat /\ \A i \in 1..n : r[i] \in Seq(Int)
    BY <1>1, <1>5
  <2> HIDE DEF n
  <2> QED  BY <2>1, <2>2
<1>7. Adds(q, [i \in 1..Len(r) |-> Len(r[i])], Len(r))
  <2>1. q \in [0..n -> Nat] /\ q[0] = 0
        /\ \A i \in 1..n : q[i] = q[i - 1] + ls[i].count * Size(ls[i].array)
    BY <1>1 DEF Adds, WidthsOf
  <2> HIDE DEF n
  <2>2. \A i \in 1..n : q[i] = q[i - 1] + Len(r[i])
    BY <1>5, <2>1
  <2> QED  BY <1>6, <2>1, <2>2 DEF Adds
<1> DEFINE W == Size(ls[j].array)
<1>8. k * W + c \in 1..Len(r[j]) /\ r[j][k * W + c] = Values(j)[c]
  <2>1. /\ Values(j) \in Seq(Int) /\ Len(Values(j)) = W /\ ls[j].count \in Nat /\ c \in 1..Len(Values(j))
        /\ r[j] = Repeat(Values(j), ls[j].count)
    BY <1>2, <1>4
  <2>2. /\ k * Len(Values(j)) + c \in 1..(ls[j].count * Len(Values(j)))
        /\ Repeat(Values(j), ls[j].count)[k * Len(Values(j)) + c] = Values(j)[c]
    BY <2>1, RepeatPlaces, Zenon
  <2>3. Len(r[j]) = ls[j].count * W
    BY <1>5
  <2> QED  BY <2>1, <2>2, <2>3, Zenon
<1> HIDE DEF W
<1>9. \A i \in 1..Len(r) : \A d \in 1..Len(r[i]) :
         q[i - 1] + d \in 1..Len(FlattenSeq(r)) /\ FlattenSeq(r)[q[i - 1] + d] = r[i][d]
  BY <1>6, <1>7, FlattenPlaces, Zenon
<1>10. /\ q[j - 1] + (k * W + c) \in 1..Len(FlattenSeq(r))
       /\ FlattenSeq(r)[q[j - 1] + (k * W + c)] = r[j][k * W + c]
  BY <1>6, <1>8, <1>9, Zenon
<1> QED  BY <1>3, <1>8, <1>10, Zenon DEF W, Values

\* Products of sums.
LEMMA Distributes ==
    ASSUME NEW a \in Nat, NEW b \in Nat, NEW w \in Nat
    PROVE  (a + b) * w = a * w + b * w /\ a * w \in Nat /\ b * w \in Nat
OBVIOUS

\* Lines that are as long as the longest end where their number times it says.
LEMMA FullLines ==
    ASSUME NEW ls \in Seq(Line), NEW p, Adds(p, CountsOf(ls), Len(ls)),
           NEW q, Adds(q, WidthsOf(ls), Len(ls)), NEW w \in Nat,
           NEW m \in 0..Len(ls), \A i \in 1..m : Size(ls[i].array) = w
    PROVE  q[m] = p[m] * w
<1> DEFINE n == Len(ls)
           Bad == {i \in 0..m : q[i] # p[i] * w}
<1>1. n \in Nat /\ DOMAIN ls = 1..n /\ m \in 0..n
  OBVIOUS
<1>2. /\ p \in [0..n -> Nat] /\ p[0] = 0 /\ \A i \in 1..n : p[i] = p[i - 1] + ls[i].count
      /\ q \in [0..n -> Nat] /\ q[0] = 0
      /\ \A i \in 1..n : q[i] = q[i - 1] + ls[i].count * Size(ls[i].array)
  BY <1>1 DEF Adds, CountsOf, WidthsOf
<1> HIDE DEF n
<1> SUFFICES ASSUME Bad # {} PROVE FALSE
  <2>1. m \in 0..m
    BY <1>1
  <2> QED  BY <2>1
<1>3. PICK b \in Bad : \A i \in Bad : b <= i
  <2>1. Bad \in SUBSET Nat
    OBVIOUS
  <2> HIDE DEF Bad
  <2> QED  BY <2>1, LeastOf
<1>4. b \in 0..m /\ q[b] # p[b] * w
  BY <1>3
<1>5. b # 0
  <2>1. 0 * w = 0
    OBVIOUS
  <2> QED  BY <1>2, <1>4, <2>1
<1>6. b \in 1..m /\ b \in 1..n /\ b - 1 \in 0..m /\ b - 1 \in 0..n /\ ~ (b <= b - 1)
  BY <1>1, <1>4, <1>5
<1>7. q[b - 1] = p[b - 1] * w
  <2>1. b - 1 \notin Bad
    <3> HIDE DEF Bad
    <3> QED  BY <1>3, <1>6
  <2> QED  BY <1>6, <2>1
<1>8. /\ p[b - 1] \in Nat /\ ls[b].count \in Nat /\ Size(ls[b].array) = w
      /\ p[b] = p[b - 1] + ls[b].count /\ q[b] = q[b - 1] + ls[b].count * w
  <2>1. ls[b].count \in Nat
    BY <1>1, <1>6, LineValues
  <2> QED  BY <1>2, <1>6, <2>1
<1>9. (p[b - 1] + ls[b].count) * w = p[b - 1] * w + ls[b].count * w
  BY <1>8, Distributes
<1> QED  BY <1>4, <1>7, <1>8, <1>9

\* Behind lines of full length, the values of a line stand where the index computation
\* looks for them.
LEMMA MatrixPlaces ==
    ASSUME NEW ls \in Seq(Line), NEW w \in Nat, NEW l \in 0..(Size(ls) - 1),
           \A k \in 0..(l - 1) : Size(EntryAt(ls, k).array) = w,
           NEW c \in 0..(Size(EntryAt(ls, l).array) - 1)
    PROVE  /\ EntryAt(ls, l) \in {ls[i] : i \in DOMAIN ls}
           /\ l * w + c + 1 \in 1..Len(MatrixValues(ls))
           /\ MatrixValues(ls)[l * w + c + 1] = EntryAt(EntryAt(ls, l).array, c).node.value
<1> DEFINE n == Len(ls)
<1>1. n \in Nat /\ DOMAIN ls = 1..n
  OBVIOUS
<1>2. \A i \in 1..n : /\ ls[i].array \in Seq(Element) /\ ls[i].count \in Nat \ {0}
                      /\ Size(ls[i].array) \in Nat
  BY <1>1, LineValues
<1>3. \A i \in DOMAIN ls : ls[i].count \in Nat
  BY <1>1, <1>2
<1>4. PICK p \in [0..n -> Nat] : Adds(p, CountsOf(ls), n) /\ Size(ls) = p[n]
  BY <1>3, CountsAdd
<1>5. WidthsOf(ls) \in [1..n -> Nat] /\ CountsOf(ls) \in [1..n -> Nat]
  <2>1. \A i \in 1..n : ls[i].count * Size(ls[i].array) \in Nat
    <3> SUFFICES ASSUME NEW i \in 1..n PROVE ls[i].count * Size(ls[i].array) \in Nat
      OBVIOUS
    <3>1. ls[i].count \in Nat /\ Size(ls[i].array) \in Nat
      BY <1>2
    <3> QED  BY <3>1
  <2> QED  BY <1>1, <1>3, <2>1 DEF WidthsOf, CountsOf
<1>6. PICK q : Adds(q, WidthsOf(ls), n)
  BY <1>1, <1>5, SumsExist
<1>7. n \in 0..n /\ p[n] \in Nat /\ l \in Nat /\ l < p[n]
  BY <1>1, <1>4
<1>8. PICK j \in 1..n : p[j - 1] <= l /\ l < p[j]
  BY <1>1, <1>4, <1>5, <1>7, SumsCover
<1>9. EntryAt(ls, l) = ls[j]
  BY <1>3, <1>4, <1>7, <1>8, EntryIs
<1>10. /\ p[j] = p[j - 1] + ls[j].count /\ p[j - 1] \in Nat /\ p[j] \in Nat
       /\ j - 1 \in 0..n
  BY <1>1, <1>4, <1>8 DEF Adds, CountsOf
<1>11. ASSUME NEW i \in 1..n, i < j \/ (i = j /\ p[j - 1] < l) PROVE Size(ls[i].array) = w
  <2>0. i - 1 \in 0..n /\ i \in 0..n /\ ls[i].count \in Nat \ {0}
    BY <1>1, <1>2
  <2>1. p[i] = p[i - 1] + ls[i].count /\ p[i - 1] \in Nat /\ p[i] \in Nat
    BY <1>1, <1>4, <2>0 DEF Adds, CountsOf
  <2>2. p[i - 1] <= p[i - 1] /\ p[i - 1] < p[i]
    BY <2>0, <2>1
  <2>3. p[i - 1] < l
    <3>1. CASE i < j
      <4>1. i \in 0..n /\ i <= j - 1
        BY <1>1, <3>1
      <4>2. p[i] <= p[j - 1]
        BY <1>1, <1>4, <1>5, <1>10, <4>1, SumsGrow
      <4> QED  BY <1>7, <1>8, <1>10, <2>1, <2>2, <4>2
    <3>2. CASE i = j /\ p[j - 1] < l
      BY <3>2
    <3> QED  BY <1>11, <3>1, <3>2
  <2>4. EntryAt(ls, p[i - 1]) = ls[i]
    BY <1>3, <1>4, <2>1, <2>2, EntryIs
  <2>5. p[i - 1] \in 0..(l - 1)
    BY <1>7, <2>1, <2>3
  <2> QED  BY <2>4, <2>5
<1> DEFINE W == Size(ls[j].array)
           d == l - p[j - 1]
           a == p[j - 1]
<1>12. q[j - 1] = a * w
  <2>1. \A i \in 1..(j - 1) : Size(ls[i].array) = w
    <3> SUFFICES ASSUME NEW i \in 1..(j - 1) PROVE Size(ls[i].array) = w
      OBVIOUS
    <3>1. i \in 1..n /\ i < j
      BY <1>1
    <3> QED  BY <1>11, <3>1
  <2>2. Adds(p, CountsOf(ls), Len(ls)) /\ Adds(q, WidthsOf(ls), Len(ls)) /\ j - 1 \in 0..Len(ls)
    BY <1>4, <1>6, <1>10
  <2> DEFINE m == j - 1
  <2>3. (\A i \in 1..m : Size(ls[i].array) = w) /\ m \in 0..Len(ls)
    BY <2>1, <2>2
  <2> HIDE DEF m
  <2>4. q[m] = p[m] * w
    BY <2>2, <2>3, FullLines
  <2> QED  BY <2>4 DEF m
<1>13. d \in 0..(ls[j].count - 1) /\ a \in Nat /\ d \in Nat /\ W \in Nat /\ c + 1 \in 1..W /\ c \in Int
  <2>1. ls[j].count \in Nat \ {0} /\ W \in Nat /\ c \in 0..(W - 1)
    BY <1>2, <1>9
  <2> QED  BY <1>7, <1>8, <1>10, <2>1
<1>14. l * w = a * w + d * w
  <2>1. a + d = l
    BY <1>7, <1>10
  <2> HIDE DEF a, d
  <2> QED  BY <1>13, <2>1, Distributes
<1>15. d * w = d * W
  <2>1. CASE d = 0
    <3>1. 0 * w = 0 /\ 0 * W = 0
      <4> HIDE DEF W
      <4> QED  BY <1>13
    <3> QED  BY <2>1, <3>1
  <2>2. CASE d # 0
    <3>1. p[j - 1] < l
      BY <1>7, <1>8, <1>10, <2>2
    <3>2. W = w
      BY <1>11, <3>1
    <3> QED  BY <3>2
  <2> QED  BY <2>1, <2>2
<1>16. l * w + c + 1 = q[j - 1] + (d * W + (c + 1))
  <2>1. d * w \in Nat /\ a * w \in Nat
    <3> HIDE DEF a, d
    <3> QED  BY <1>13, Distributes
  <2> HIDE DEF a, d, W
  <2> DEFINE aw == a * w
             dw == d * w
             lw == l * w
             dW == d * W
  <2>2. lw = aw + dw /\ dw = dW /\ dw \in Nat /\ aw \in Nat /\ q[j - 1] = aw /\ c \in Int
    BY <1>12, <1>13, <1>14, <1>15, <2>1
  <2> HIDE DEF aw, dw, lw, dW
  <2>3. lw + c + 1 = q[j - 1] + (dW + (c + 1))
    BY <2>2
  <2> QED  BY <2>3 DEF lw, dW
<1>17. /\ q[j - 1] + (d * W + (c + 1)) \in 1..Len(MatrixValues(ls))
       /\ MatrixValues(ls)[q[j - 1] + (d * W + (c + 1))] = ArrayValues(ls[j].array)[c + 1]
  <2> HIDE DEF d
  <2> QED  BY <1>6, <1>13, LinePlaces, Zenon DEF W, n
<1>18. ArrayValues(ls[j].array)[c + 1] = EntryAt(ls[j].array, c).node.value
  BY <1>2, <1>9, ArrayPlaces
<1>19. EntryAt(ls, l) \in {ls[i] : i \in DOMAIN ls}
  BY <1>1, <1>9
<1> QED  BY <1>9, <1>16, <1>17, <1>18, <1>19

\* A declaration lays out the values it is given.
LEMMA DefinePlaces ==
    ASSUME NEW types, NEW values, NEW ls, NEW cols, NEW size \in Nat,
           Define(types, values, ls, cols, size), sym' # sym
    PROVE  /\ sym'.lines = ls /\ sym'.cols = cols /\ Len(mem') = size
           /\ \A i \in 1..size : i <= Len(values) => mem'[i] = values[i]
<1>1. NULL \notin types
  BY DEF Define
<1>2. sym' = [lines |-> ls, cols |-> cols, type |-> Max(types)]
  BY <1>1 DEF Define
<1>3. PICK rest : mem' = [i \in 1..size |-> IF i <= Len(values) THEN values[i] ELSE rest[i]]
  BY <1>1 DEF Define
<1>4. mem' = [i \in 1..size |-> mem'[i]]
  BY <1>3, Zenon
<1>5. Len(mem') = size
  BY <1>4, LenIsDomain
<1> QED  BY <1>2, <1>3, <1>5

\* What LinesInPlace says of a step that declares.
ArrayInPlace ==
    /\ Len(mem') = Size(line)
    /\ \A c \in 0..(Len(mem') - 1) : mem'[c + 1] = EntryAt(line, c).node.value
MatrixInPlace ==
    LET cols == sym'.cols
        LineAt(l) == EntryAt(lines, l).array
    IN  /\ Len(mem') = sym'.lines * cols
        /\ \A l \in 0..(sym'.lines - 1) :
              (\A k \in 0..(l - 1) : Size(LineAt(k)) = cols) =>
                  \A c \in 0..(Size(LineAt(l)) - 1) :
                      mem'[l * cols + c + 1] = EntryAt(LineAt(l), c).node.value

LEMMA ArrayDeclared ==
    ASSUME TInv, DeclareArray, sym' # sym
    PROVE  sym'.cols = 0 /\ ArrayInPlace
<1>1. line \in Seq(Element) /\ Size(line) \in Nat
  BY BoundAssumption DEF TInv, TypeOK, Element, InitializerFits, DeclareArray
<1>2. Define(ArrayTypes(line), ArrayValues(line), 0, 0, Size(line))
  BY DEF DeclareArray
<1>3. /\ sym'.cols = 0 /\ Len(mem') = Size(line)
      /\ \A i \in 1..Size(line) : i <= Len(ArrayValues(line)) => mem'[i] = ArrayValues(line)[i]
  BY <1>1, <1>2, DefinePlaces
<1>4. /\ Len(ArrayValues(line)) = Size(line)
      /\ \A c \in 0..(Size(line) - 1) : ArrayValues(line)[c + 1] = EntryAt(line, c).node.value
  BY <1>1, ArrayPlaces
<1>5. ASSUME NEW c \in 0..(Len(mem') - 1) PROVE mem'[c + 1] = EntryAt(line, c).node.value
  <2>1. c \in 0..(Size(line) - 1) /\ c + 1 \in 1..Size(line) /\ c + 1 <= Size(line)
    BY <1>1, <1>3
  <2> QED  BY <1>3, <1>4, <2>1
<1> QED  BY <1>3, <1>5 DEF ArrayInPlace

\* No line is longer than the count of columns.
LEMMA ColumnsCover ==
    ASSUME NEW ls \in Seq(Line), NEW i \in DOMAIN ls
    PROVE  Size(ls[i].array) <= ColumnCount(ls)
<1> DEFINE Sizes == {Size(ls[k].array) : k \in DOMAIN ls}
<1>1. Sizes \in SUBSET Nat /\ Sizes # {}
  BY LineValues
<1>2. IsFiniteSet(Sizes)
  <2> DEFINE f == [k \in DOMAIN ls |-> Size(ls[k].array)]
  <2>1. Len(ls) \in Nat /\ DOMAIN ls = 1..Len(ls)
    OBVIOUS
  <2>2. IsFiniteSet(DOMAIN ls)
    BY <2>1, FS_Interval
  <2>3. f \in Surjection(DOMAIN ls, Sizes)
    BY DEF Surjection
  <2> QED  BY <2>2, <2>3, FS_Surjection
<1>3. Size(ls[i].array) \in Sizes
  OBVIOUS
<1>4. ColumnCount(ls) = Max(Sizes)
  BY DEF ColumnCount
<1> HIDE DEF Sizes
<1> QED  BY <1>1, <1>2, <1>3, <1>4, MaxIsElement

LEMMA MatrixDeclared ==
    ASSUME TInv, DeclareMatrix, sym' # sym
    PROVE  sym'.cols # 0 /\ MatrixInPlace
<1> DEFINE h == Size(lines)
           w == ColumnCount(lines)
<1>1. lines \in Seq(Line) /\ h \in Nat \ {0} /\ w \in Nat \ {0}
  BY BoundAssumption DEF TInv, InitializerFits, DeclareMatrix
<1>2. Define(MatrixTypes(lines), MatrixValues(lines), h, w, h * w)
  BY DEF DeclareMatrix
<1> DEFINE LineAt(l) == EntryAt(lines, l).array
<1>3. ASSUME NEW l \in 0..(h - 1), \A k \in 0..(l - 1) : Size(LineAt(k)) = w,
             NEW c \in 0..(Size(LineAt(l)) - 1)
      PROVE  /\ l * w + c + 1 \in 1..Len(MatrixValues(lines))
             /\ MatrixValues(lines)[l * w + c + 1] = EntryAt(LineAt(l), c).node.value
             /\ c \in 0..(w - 1)
  <2>1. w \in Nat /\ EntryAt(lines, l) \in {lines[i] : i \in DOMAIN lines}
        /\ l * w + c + 1 \in 1..Len(MatrixValues(lines))
        /\ MatrixValues(lines)[l * w + c + 1] = EntryAt(LineAt(l), c).node.value
    <3>1. w \in Nat
      BY <1>1
    <3> HIDE DEF w
    <3> QED  BY <1>1, <1>3, <3>1, MatrixPlaces
  <2>2. PICK i \in DOMAIN lines : EntryAt(lines, l) = lines[i]
    BY <2>1
  <2>3. Size(LineAt(l)) \in Nat /\ Size(LineAt(l)) <= w
    BY <1>1, <2>2, LineValues, ColumnsCover
  <2> HIDE DEF w, LineAt
  <2>4. c \in 0..(w - 1)
    BY <2>1, <2>3
  <2> QED  BY <2>1, <2>4 DEF LineAt
<1> HIDE DEF h, w
<1>4. h * w \in Nat
  BY <1>1
<1>5. /\ sym'.lines = h /\ sym'.cols = w /\ Len(mem') = h * w
      /\ \A i \in 1..(h * w) : i <= Len(MatrixValues(lines)) => mem'[i] = MatrixValues(lines)[i]
  BY <1>2, <1>4, DefinePlaces
<1>6. ASSUME NEW l \in 0..(h - 1), \A k \in 0..(l - 1) : Size(LineAt(k)) = w,
             NEW c \in 0..(Size(LineAt(l)) - 1)
      PROVE  mem'[l * w + c + 1] = EntryAt(LineAt(l), c).node.value
  <2>1. /\ l * w + c + 1 \in 1..Len(MatrixValues(lines)) /\ c \in 0..(w - 1)
        /\ MatrixValues(lines)[l * w + c + 1] = EntryAt(LineAt(l), c).node.value
    BY <1>3, <1>6
  <2>2. l * w + c + 1 \in 1..(h * w)
    <3>1. (l + 1) * w <= h * w /\ (l + 1) * w = l * w + w
      <4>1. l \in Nat /\ h - (l + 1) \in Nat /\ w \in Nat /\ h = (l + 1) + (h - (l + 1))
        BY <1>1
      <4>2. (l + 1) * w = l * w + w
        BY <4>1, Multiples
      <4> DEFINE e == h - (l + 1)
                 f == l + 1
      <4>3. f \in Nat /\ e \in Nat /\ h = f + e
        BY <4>1
      <4> HIDE DEF e, f
      <4>4. h * w = f * w + e * w /\ f * w \in Nat /\ e * w \in Nat
        BY <4>1, <4>3, Distributes
      <4>5. f * w <= h * w
        BY <4>4
      <4> QED  BY <4>2, <4>5 DEF f
    <3> DEFINE lw == l * w
               hw == h * w
    <3>2. lw \in Nat /\ hw \in Nat /\ lw + w <= hw
      <4>1. lw \in Nat
        BY <1>1
      <4> QED  BY <1>4, <3>1, <4>1
    <3> HIDE DEF lw, hw
    <3>3. lw + c + 1 \in 1..hw
      BY <1>1, <2>1, <3>2
    <3> QED  BY <3>3 DEF lw, hw
  <2> DEFINE i == l * w + c + 1
  <2>3. i \in 1..(h * w) /\ i \in 1..Len(MatrixValues(lines))
    BY <2>1, <2>2
  <2>4. i <= Len(MatrixValues(lines))
    <3> HIDE DEF i
    <3> QED  BY <2>3
  <2>5. mem'[i] = MatrixValues(lines)[i]
    <3> HIDE DEF i
    <3> QED  BY <1>5, <2>3, <2>4
  <2> QED  BY <2>1, <2>5
<1>7. sym'.cols # 0
  BY <1>1, <1>5
<1>8. MatrixInPlace
  <2>1. \A l \in 0..(h - 1) :
           (\A k \in 0..(l - 1) : Size(LineAt(k)) = w) =>
               \A c \in 0..(Size(LineAt(l)) - 1) :
                   mem'[l * w + c + 1] = EntryAt(LineAt(l), c).node.value
    BY <1>6
  <2> QED  BY <1>5, <2>1, Zenon DEF MatrixInPlace
<1> QED  BY <1>7, <1>8

\* When an array or a matrix is declared, whatever its initializer, repeat counts and
\* types, its entries are where the index computation looks for them: all elements of an
\* array, and each line of a matrix behind lines of full length (Array.cpp, Matrix.cpp,
\* ArrayElements.cpp, MatrixElements.cpp).
THEOREM LinesLaidOut == Spec => LinesInPlace
<1> DEFINE InPlace == IF sym'.cols = 0 THEN ArrayInPlace ELSE MatrixInPlace
<1>1. TInv /\ [Next]_vars => [sym' # sym => InPlace]_vars
  <2> SUFFICES ASSUME TInv, Next, sym' # sym PROVE InPlace
    OBVIOUS
  <2>1. CASE DeclareArray
    BY <2>1, ArrayDeclared
  <2>2. CASE DeclareMatrix
    BY <2>2, MatrixDeclared
  <2>3. CASE AppendElement \/ AppendLine \/ LoadElement \/ UpdateElement
    BY <2>3 DEF AppendElement, AppendLine, LoadElement, UpdateElement
  <2> QED  BY <2>1, <2>2, <2>3 DEF Next
<1>2. Spec => []TInv
  BY InitTyped, NextTyped, PTL DEF Spec
<1> QED  BY <1>1, <1>2, PTL DEF Spec, LinesInPlace, ArrayInPlace, MatrixInPlace

-----------------------------------------------------------------------------
(* The refinement: an array is a grid *)

Offset(p) == p[1] * Width + p[2] + 1
GridOf == [p \in Positions |-> mem[Offset(p)]]

\* Two positions have two offsets.
LEMMA RowsApart ==
    ASSUME NEW w \in Nat, NEW l \in Nat, NEW m \in Nat, l < m, NEW c \in 0..(w - 1), NEW d \in Nat
    PROVE  l * w + c # m * w + d
<1>1. PICK k \in Nat : m = l + 1 + k
  <2>1. m - l - 1 \in Nat /\ m = l + 1 + (m - l - 1)
    OBVIOUS
  <2> QED
    BY <2>1
<1>2. m * w = l * w + w + k * w
  BY <1>1
<1>3. l * w \in Nat /\ k * w \in Nat
  BY <1>1
<1>4. ASSUME NEW lw \in Nat, NEW kw \in Nat, NEW mw, mw = lw + w + kw
      PROVE  lw + c # mw + d
  BY <1>4
<1> QED
  BY <1>2, <1>3, <1>4

LEMMA OffsetsApart ==
    ASSUME TInv, NEW p \in Positions, NEW q \in Positions, p # q
    PROVE  Offset(p) # Offset(q)
<1>1. /\ p \in (0..(Height - 1)) \X (0..(Width - 1))
      /\ q \in (0..(Height - 1)) \X (0..(Width - 1))
      /\ sym # NoSymbol
  BY DEF Positions
<1>2. Height \in Nat /\ Width \in Nat
  BY <1>1, BoundAssumption DEF TInv, TypeOK, SymbolFits, Height, Width
<1>3. /\ p[1] \in Nat /\ q[1] \in Nat /\ p[2] \in 0..(Width - 1) /\ q[2] \in 0..(Width - 1)
      /\ p[2] \in Nat /\ q[2] \in Nat /\ p = <<p[1], p[2]>> /\ q = <<q[1], q[2]>>
  BY <1>1, <1>2
<1>4. p[1] * Width \in Nat /\ q[1] * Width \in Nat
  BY <1>2, <1>3
<1>5. p[1] * Width + p[2] # q[1] * Width + q[2]
  <2>1. CASE p[1] = q[1]
    <3>1. p[2] # q[2]
      BY <1>3, <2>1, Zenon
    <3> DEFINE x == p[1] * Width
    <3> HIDE DEF x
    <3>2. x \in Nat => x + p[2] # x + q[2]
      BY <1>3, <3>1
    <3> QED
      BY <1>4, <2>1, <3>2 DEF x
  <2>2. CASE p[1] < q[1]
    BY <1>2, <1>3, <2>2, RowsApart
  <2>3. CASE q[1] < p[1]
    BY <1>2, <1>3, <2>3, RowsApart
  <2>4. p[1] = q[1] \/ p[1] < q[1] \/ q[1] < p[1]
    BY <1>3
  <2> QED
    BY <2>1, <2>2, <2>3, <2>4
<1>6. ASSUME NEW x \in Nat, NEW y \in Nat, x + p[2] # y + q[2]
      PROVE  x + p[2] + 1 # y + q[2] + 1
  BY <1>3, <1>6
<1> QED
  BY <1>4, <1>5, <1>6 DEF Offset

\* The offset of a position is the index that LoadArray and UpdateArray compute.
LEMMA OffsetOfIndex ==
    ASSUME PositionsFit, TInv, NEW p \in Positions, NEW t1 \in Types, NEW t2 \in Types
    PROVE  Index(p, t1, t2) + 1 = Offset(p) /\ Offset(p) \in DOMAIN mem
<1>1. SymbolFits
  BY DEF TInv
<1> QED
  BY <1>1, IndexWithin DEF Offset

\* What is at a position is in memory, and an integer of the type.
Within == \A p \in Positions : Offset(p) \in DOMAIN mem /\ mem[Offset(p)] \in Fitting(sym.type)

LEMMA OffsetWithin ==
    ASSUME PositionsFit, TInv
    PROVE  Within
<1>1. PICK t \in Types : TRUE
  BY TypesAssumption
<1>2. \A p \in Positions : Offset(p) \in DOMAIN mem
  BY <1>1, OffsetOfIndex
<1> QED
  BY <1>2 DEF TInv, MemoryHolds, Within

\* A declaration puts integers at the positions there are from then on.
LEMMA DeclareRefines ==
    ASSUME TInv', Within', sym = NoSymbol, sym' # NoSymbol, UNCHANGED access
    PROVE  G!Declare
<1>1. DOMAIN GridOf = {}
  BY DEF GridOf, Positions
<1>2. \A p \in Positions' : mem'[Offset(p)'] \in Int
  BY DEF Within, Fitting
<1>3. Positions' # {}
  <2>1. SymbolFits'
    BY DEF TInv
  <2>2. Height' \in Nat \ {0} /\ Width' \in Nat \ {0}
    BY <2>1, BoundAssumption DEF SymbolFits, Height, Width
  <2>3. <<0, 0>> \in Positions'
    BY <2>2 DEF Positions
  <2> QED
    BY <2>3
<1> QED
  BY <1>1, <1>2, <1>3 DEF G!Declare, GridOf, Offset

\* A load returns what is at its position.
LEMMA LoadRefines ==
    ASSUME PositionsFit, TInv, LoadElement
    PROVE  G!Load
<1>1. PICK p \in Positions, t1 \in Types, t2 \in Types :
         /\ \E v \in (IF Index(p, t1, t2) + 1 \in DOMAIN mem THEN {mem[Index(p, t1, t2) + 1]} ELSE Garbage) :
               access' = [op |-> "load", pos |-> p, value |-> v]
         /\ UNCHANGED <<sym, mem>>
  BY DEF LoadElement
<1>2. Index(p, t1, t2) + 1 = Offset(p) /\ Offset(p) \in DOMAIN mem
  BY OffsetOfIndex
<1>3. access' = [op |-> "load", pos |-> p, value |-> mem[Offset(p)]]
  BY <1>1, <1>2
<1>4. GridOf' = GridOf /\ sym'.type = sym.type
  BY <1>1 DEF GridOf, Offset, Positions, Height, Width
<1>5. p \in DOMAIN GridOf /\ GridOf[p] = mem[Offset(p)]
  BY DEF GridOf
<1> QED
  BY <1>3, <1>4, <1>5 DEF G!Load, GridOf, Offset

\* A store puts what fits at its position, and nothing anywhere else.
LEMMA UpdateRefines ==
    ASSUME PositionsFit, TInv, Within, UpdateElement
    PROVE  G!Update
<1>1. PICK p \in Positions, t1 \in Types, t2 \in Types, n \in NewValues :
         /\ mem' = Store(Index(p, t1, t2) + 1, n)
         /\ access' = [op |-> "update", pos |-> p, value |-> n.value]
         /\ UNCHANGED sym
  BY DEF UpdateElement
<1>2. Index(p, t1, t2) + 1 = Offset(p) /\ Offset(p) \in DOMAIN mem
  BY OffsetOfIndex
<1> DEFINE v == Convert(n.value, n.type, sym.type)
<1>3. mem' = [mem EXCEPT ![Offset(p)] = v]
  BY <1>1, <1>2 DEF Store
<1>4. v \in Fitting(sym.type) /\ (n.value \in Fitting(sym.type) => v = n.value)
  <2>1. sym.type \in Nat \ {0}
    BY <1>2, HasType
  <2>2. n.value \in Int /\ n.type \in Nat \ {0} /\ n.value \in Fitting(n.type)
    BY NodeFits DEF Fitting
  <2> QED
    BY <2>1, <2>2, ConvertFits
<1> HIDE DEF v
<1>5. Len(mem') = Len(mem) /\ DOMAIN mem' = DOMAIN mem
  <2>1. Len(mem) \in Nat /\ DOMAIN mem = 1..Len(mem)
    BY BoundAssumption DEF TInv, SymbolFits, Positions
  <2>2. mem' = [k \in 1..Len(mem) |-> mem'[k]] /\ DOMAIN mem' = 1..Len(mem)
    BY <1>3, <2>1
  <2> QED
    BY <2>1, <2>2, LenIsDomain
<1>6. Positions' = Positions /\ \A q \in Positions : Offset(q)' = Offset(q)
  BY <1>1, <1>5 DEF Positions, Height, Width, Offset
<1>7. GridOf' = [q \in Positions |-> mem'[Offset(q)]]
  BY <1>6 DEF GridOf
<1>8. DOMAIN GridOf = Positions /\ DOMAIN GridOf' = Positions
  BY <1>7 DEF GridOf
<1>9. GridOf'[p] = v
  BY <1>2, <1>3, <1>7
<1>10. \A q \in Positions \ {p} : GridOf'[q] = GridOf[q]
  <2> TAKE q \in Positions \ {p}
  <2>1. Offset(q) # Offset(p)
    BY OffsetsApart
  <2>2. Offset(q) \in DOMAIN mem
    BY DEF Within
  <2>3. mem'[Offset(q)] = mem[Offset(q)]
    BY <1>3, <2>1, <2>2
  <2> QED
    BY <1>7, <2>3 DEF GridOf
<1>11. /\ access' = [op |-> "update", pos |-> p, value |-> access'.value]
       /\ access'.value = n.value
  BY <1>1
<1>12. n.value \in Int
  BY NodeFits DEF Fitting
<1> QED
  BY <1>1, <1>4, <1>8, <1>9, <1>10, <1>11, <1>12
  DEF G!Update, G!Fits, GridOf, Offset, Fitting

\* Every step of an array is one of the grid, or changes nothing there.
LEMMA StepRefines ==
    ASSUME PositionsFit, TInv, Within, TInv', Within', [Next]_vars
    PROVE  [G!Next]_(G!vars)
<1>1. CASE UNCHANGED <<sym, mem, access>>
  BY <1>1 DEF G!vars, Positions, Height, Width
<1>2. CASE AppendElement \/ AppendLine
  BY <1>1, <1>2 DEF AppendElement, AppendLine
<1>3. CASE DeclareArray \/ DeclareMatrix
  <2>1. sym = NoSymbol /\ UNCHANGED access
    BY <1>3 DEF DeclareArray, DeclareMatrix, Parsing
  <2>2. CASE sym' # NoSymbol
    BY <2>1, <2>2, DeclareRefines DEF G!Next
  <2>3. CASE sym' = NoSymbol
    <3>1. Positions = {} /\ Positions' = {}
      BY <2>1, <2>3 DEF Positions
    <3> QED
      BY <2>1, <2>3, <3>1 DEF G!vars
  <2> QED
    BY <2>2, <2>3
<1>4. CASE LoadElement
  BY <1>4, LoadRefines DEF G!Next
<1>5. CASE UpdateElement
  BY <1>5, UpdateRefines DEF G!Next
<1>6. CASE UNCHANGED vars
  BY <1>1, <1>6 DEF vars
<1> QED
  BY <1>2, <1>3, <1>4, <1>5, <1>6 DEF Next

\* An array or a matrix keeps at each position the value put there last, and nothing
\* else changes it: for every shape, type and index type, when positions fit the
\* narrowest type (LoadArray.cpp, UpdateArray.cpp, LoadMatrix.h, UpdateMatrix.h).
THEOREM ArraysAreGrids ==
    ASSUME PositionsFit
    PROVE  Spec => IsGrid
<1>1. Init => G!Init
  <2> SUFFICES ASSUME Init PROVE G!Init
    OBVIOUS
  <2>1. Positions = {} /\ sym.type = 0 /\ access = G!NoAccess
    BY DEF Init, Positions, NoSymbol, NoAccess, G!NoAccess, NULL
  <2> QED
    BY <2>1 DEF G!Init
<1>2. TInv => Within
  BY OffsetWithin
<1>3. TInv /\ Within /\ TInv' /\ Within' /\ [Next]_vars => [G!Next]_(G!vars)
  BY StepRefines
<1> QED
  BY <1>1, <1>2, <1>3, InitTyped, NextTyped, PTL DEF Spec, IsGrid, G!Spec

=============================================================================
