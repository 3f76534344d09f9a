-------------------------------- MODULE Values --------------------------------
(***************************************************************************)
(* The values of expressions (src/src/BinaryOp.cpp, Coercion.cpp,          *)
(* CmpOp.cpp, FlipOp.cpp, Cast.cpp, the integer literals of Language.y):   *)
(* generate() of a node works on the values its children returned, so an   *)
(* expression is evaluated here in postfix order on a stack of nodes.      *)
(*                                                                         *)
(* An integer type is its width in bits.  The widths of the language are   *)
(* 8, 16, 32 and 64, each twice the one before; Ladder may be a shorter    *)
(* one.  Of floating-point values only the type is kept.                   *)
(***************************************************************************)
EXTENDS Integers, Sequences, FiniteSets, FiniteSetsExt

CONSTANTS
    Ladder,        \* the widths of the integer types, booleans excluded
    Literals,      \* the integer literals of the program
    VariableValues,\* the values of variables: [width, val, global]
    Floats,        \* floating-point types, numbered above the widths
    Operators,     \* the operators used
    MaxNodes       \* bound on the nodes of an expression

Bool == 1
Void == 0
Widths == Ladder \cup {Bool}
Shifts == {"<<", ">>"}
Comparisons == {"==", "<"}

VARIABLES
    operands,      \* the nodes whose parents are still to come
    nodes,         \* number of nodes generated
    shiftErrors,   \* errors counted
    castFailed,    \* a failed cast has been dereferenced
    lastOperator,  \* history: the last operator with its operands and its result
    wideAmount     \* history: the type of an amount was wider than its shift

valuesVars == <<operands, nodes, shiftErrors, castFailed, lastOperator, wideAmount>>

\* A node: the type of its value (a width, or a floating-point type) and the
\* integer it has, whether that is an llvm::Constant, whether it is undefined,
\* whether LLVM has no such instruction, what isConstExpr() and
\* getLLVMResultType() say.
Node(kind, type, val, constExpr) ==
    [kind |-> kind, type |-> type, val |-> val, poison |-> FALSE, malformed |-> FALSE,
     constExpr |-> constExpr, predicted |-> type]
IsConstant(n) == n.kind = "constant"
IsInt(n) == n.type \in Widths
IsFloat(n) == n.type \in Floats

-----------------------------------------------------------------------------
(* Integers of a width *)

TwoTo == LET power[n \in 0..Max(Ladder)] == IF n = 0 THEN 1 ELSE 2 * power[n - 1] IN power
Half(w) == TwoTo[w - 1]
Signed(v, w) == ((v + Half(w)) % (2 * Half(w))) - Half(w)
Unsigned(v, w) == v % (2 * Half(w))
Fits(v, w) == -Half(w) <= v /\ v < Half(w)
Bit(v, i) == (v \div TwoTo[i]) % 2
Bitwise2(op, v, u, w) ==
    LET Of(i) == CASE op = "&" -> Bit(v, i) * Bit(u, i)
                   [] op = "|" -> (Bit(v, i) + Bit(u, i) + 1) \div 2
                   [] op = "^" -> (Bit(v, i) + Bit(u, i)) % 2
        sum[i \in 0..w] == IF i = 0 THEN 0 ELSE sum[i - 1] + TwoTo[i - 1] * Of(i - 1)
    IN  Signed(sum[w], w)
\* Division of LLVM rounds towards zero.
Abs(v) == IF v < 0 THEN -v ELSE v
Quotient(v, u) == IF (v < 0) = (u < 0) THEN Abs(v) \div Abs(u) ELSE -(Abs(v) \div Abs(u))

\* getNodeForIntConst: the narrowest type that holds the literal.
LiteralWidth(i) ==
    LET wide == {w \in Ladder : Fits(i, w)} IN IF wide = {} THEN Max(Ladder) ELSE Min(wide)

ASSUME LadderAssumption ==
    /\ Ladder # {} /\ IsFiniteSet(Ladder) /\ Ladder \subseteq Nat \ {Bool, Void}
    /\ \A w \in Ladder : w = Max(Ladder) \/ 2 * w \in Ladder
    /\ Half(Min(Ladder)) >= Max(Ladder)   \* a negative amount of a narrower type exceeds every width
    /\ Floats \subseteq Nat /\ \A f \in Floats : f > Max(Ladder)
ASSUME LeavesAssumption ==
    /\ Literals \subseteq Int /\ MaxNodes \in Nat
    /\ \A v \in VariableValues :
          /\ v.width \in Widths \cup Floats /\ v.val \in Int /\ v.global \in BOOLEAN
          /\ v.width \in Widths => Fits(v.val, v.width)
ASSUME OperatorsAssumption ==
    Operators \subseteq {"+", "-", "*", "/", "%", "&", "|", "^", "<<", ">>", "~", "==", "<"}

-----------------------------------------------------------------------------
(* Coercion::Convert *)

\* A constant stays one.  A float that becomes an integer can be any integer
\* here, 0 stands for it.
Convert(n, type) ==
    IF n.type = type THEN n
    ELSE [n EXCEPT !.type = type,
                   !.val = IF {type, n.type} \subseteq Widths
                           THEN IF n.type > type THEN Signed(n.val, type) ELSE n.val
                           ELSE 0]

\* Integers are compared and combined in the wider of their types.
Wider(l, r) == IF l.type > r.type THEN l.type ELSE r.type

-----------------------------------------------------------------------------
(* BinaryOp *)

\* The amount of a shift, when the compiler knows it: getZExtValue(), kept in an
\* integer with a sign and of the greatest width.  A negative amount of that width
\* is below every width, and one of a smaller type above.
KnownAmount(r) == r.constExpr /\ IsConstant(r)
Amount(r) == Signed(Unsigned(r.val, r.type), Max(Ladder))

\* The type a shift by a known amount is widened to: from the first width that
\* does not exceed the amount; there is none beyond the widest.
Widened(amount) == IF amount >= Max(Ladder) THEN Void
                   ELSE 2 * Max({w \in Ladder : w <= amount})

\* Mistaken: the left operand is widened to the width below.
WidenLeftShort(op, l, r) ==
    IF op \in Shifts /\ KnownAmount(r) /\ l.type < Amount(r) /\ Amount(r) >= Min(Ladder)
       /\ Widened(Amount(r)) # Void
    THEN [l EXCEPT !.type = Widened(Amount(r)) \div 2, !.kind = "instruction"]
    ELSE l

\* The left operand of a shift is sign-extended to hold the shifted bits; the
\* extension is an instruction even if the operand is a constant.
WidenLeft(op, l, r) ==
    IF op \in Shifts /\ KnownAmount(r) /\ l.type < Amount(r) /\ Amount(r) >= Min(Ladder)
       /\ Widened(Amount(r)) # Void
    THEN [l EXCEPT !.type = Widened(Amount(r)), !.kind = "instruction"]
    ELSE l

\* The shift exceeds every type (an amount below the narrowest type that exceeds
\* a boolean counts too): the error is counted and the shift generated.
ShiftError(op, l, r) ==
    /\ op \in Shifts /\ KnownAmount(r) /\ l.type < Amount(r)
    /\ Amount(r) < Min(Ladder) \/ Widened(Amount(r)) = Void

Folded == {"+", "-", "*", "&", "|", "^", "<<", ">>"}

\* What an instruction on integers of width w computes, 0 where it is undefined.
Undefined(op, u, w) == \/ op \in Shifts /\ Unsigned(u, w) >= w
                       \/ op \in {"/", "%"} /\ u = 0
Compute(op, v, u, w) ==
    CASE Undefined(op, u, w) -> 0
      [] op = "+" -> Signed(v + u, w)
      [] op = "-" -> Signed(v - u, w)
      [] op = "*" -> Signed(v * u, w)
      [] op \in {"&", "|", "^"} -> Bitwise2(op, v, u, w)
      [] op = "<<" /\ ~ Undefined(op, u, w) -> Signed((v % TwoTo[w - u]) * TwoTo[u], w)
      [] op = ">>" /\ ~ Undefined(op, u, w) -> Signed(Unsigned(v, w) \div TwoTo[u], w)
      [] op = "/" /\ u # 0 -> Signed(Quotient(v, u), w)
      [] op = "%" /\ u # 0 -> Signed(v - u * Quotient(v, u), w)

\* The amount's type is wider still than the type its shift is widened to: generate()
\* combines the two in it, the type that is announced is the widened one.
AmountWider(op, l, r) ==
    /\ op \in Shifts /\ KnownAmount(r) /\ l.type < Amount(r)
    /\ Amount(r) >= Min(Ladder) /\ r.type > Widened(Amount(r))

\* BinaryOp::getLLVMResultType, which repeats the rules of generate().
ResultType(op, l, r) ==
    IF l.predicted \in Widths /\ r.predicted \in Widths
    THEN IF op \in Shifts /\ KnownAmount(r) /\ l.predicted < Amount(r)
         THEN IF Amount(r) < Min(Ladder) THEN Void ELSE Widened(Amount(r))
         ELSE IF l.predicted > r.predicted THEN l.predicted ELSE r.predicted
    ELSE IF l.predicted \in Widths THEN r.predicted ELSE l.predicted

\* BinaryOp::generate on integers.
OnIntegers(op, l0, r0) ==
    LET l == WidenLeft(op, l0, r0)
        w == Wider(l, r0)
        lhs == Convert(l, w)
        rhs == Convert(r0, w)
        folded == IsConstant(lhs) /\ IsConstant(rhs) /\ op \in Folded
    IN  [kind |-> IF folded THEN "constant" ELSE "instruction", type |-> w,
         val |-> Compute(op, lhs.val, rhs.val, w),
         poison |-> lhs.poison \/ rhs.poison \/ Undefined(op, rhs.val, w),
         malformed |-> lhs.malformed \/ rhs.malformed,
         constExpr |-> l0.constExpr /\ r0.constExpr, predicted |-> ResultType(op, l0, r0)]

\* BinaryOp::generate with a floating-point operand: an integer is converted by
\* an instruction, two floating-point types are left as they are, and constants
\* are folded by the operations on integers.
OnFloats(op, l, r) ==
    LET type == IF IsInt(l) THEN r.type ELSE l.type
        both == IsConstant(l) /\ IsConstant(r) /\ IsFloat(l) /\ IsFloat(r) /\ op \in Folded
    IN  [kind |-> IF both THEN "constant" ELSE "instruction", type |-> type, val |-> 0,
         poison |-> l.poison \/ r.poison,
         malformed |-> \/ l.malformed \/ r.malformed \/ both
                       \/ op \notin {"+", "-", "*", "/"}
                       \/ IsFloat(l) /\ IsFloat(r) /\ l.type # r.type,
         constExpr |-> l.constExpr /\ r.constExpr, predicted |-> ResultType(op, l, r)]

BinaryOp(op, l, r) == IF IsInt(l) /\ IsInt(r) THEN OnIntegers(op, l, r) ELSE OnFloats(op, l, r)

-----------------------------------------------------------------------------
(* FlipOp, Cast and CmpOp *)

\* FlipOp::generate: a constant is negated, another value is complemented.
FlipOp(n) ==
    [n EXCEPT !.val = IF IsConstant(n) THEN Signed(-n.val, n.type) ELSE -n.val - 1]

\* Cast::generate; isConstExpr() is that of Node.
Cast(n, type) == [Convert(n, type) EXCEPT !.constExpr = FALSE, !.predicted = type]

\* CmpOp::generate.  A boolean is one bit, its value true is -1 as a signed one.
CmpOp(op, l, r) ==
    LET w == Wider(l, r)
        v == Convert(l, w).val
        u == Convert(r, w).val
        holds == IsInt(l) /\ IsInt(r) /\ IF op = "==" THEN v = u ELSE v < u
    IN  [Node("instruction", Bool, IF holds THEN -1 ELSE 0, FALSE) EXCEPT
             !.poison = l.poison \/ r.poison, !.predicted = Void]

-----------------------------------------------------------------------------
NoOperator == [op |-> "none", left |-> Node("constant", Bool, 0, TRUE),
               right |-> Node("constant", Bool, 0, TRUE), result |-> Node("constant", Bool, 0, TRUE)]

ValuesInit ==
    /\ operands = <<>>
    /\ nodes = 0
    /\ shiftErrors = 0
    /\ castFailed = FALSE
    /\ lastOperator = NoOperator
    /\ wideAmount = FALSE

Generating == ~ castFailed /\ nodes < MaxNodes
Top == operands[Len(operands)]
Second == operands[Len(operands) - 1]
Replace(count, n) == operands' = Append(SubSeq(operands, 1, Len(operands) - count), n)
Did(op, l, r, n) == lastOperator' = [op |-> op, left |-> l, right |-> r, result |-> n]

\* A leaf: a literal, a boolean or floating-point constant, a variable.
PushLeaf ==
    /\ Generating
    /\ \E n \in {Node("constant", LiteralWidth(i), Signed(i, LiteralWidth(i)), TRUE) : i \in Literals}
                \cup {Node("constant", Bool, b, TRUE) : b \in {-1, 0}}
                \cup {Node("constant", f, 0, TRUE) : f \in Floats}
                \cup {Node("instruction", v.width, v.val, v.global) : v \in VariableValues} :
          operands' = Append(operands, n)
    /\ nodes' = nodes + 1
    /\ UNCHANGED <<shiftErrors, castFailed, lastOperator, wideAmount>>

GenerateBinary ==
    /\ Generating
    /\ Len(operands) > 1
    /\ \E op \in Operators \ (Comparisons \cup {"~"}) :
          LET n == BinaryOp(op, Second, Top)
              integers == IsInt(Second) /\ IsInt(Top)
              wrong == integers /\ ShiftError(op, Second, Top)
          IN  /\ Replace(2, n)
              /\ Did(op, Second, Top, n)
              /\ shiftErrors' = shiftErrors + (IF wrong THEN 1 ELSE 0)
              /\ wideAmount' = (wideAmount \/ (integers /\ AmountWider(op, Second, Top)))
    /\ nodes' = nodes + 1
    /\ UNCHANGED castFailed

\* The operand is an integer: LLVM complements no other.
GenerateFlip ==
    /\ Generating
    /\ "~" \in Operators
    /\ operands # <<>>
    /\ IsInt(Top)
    /\ Replace(1, FlipOp(Top))
    /\ Did("~", Top, Top, FlipOp(Top))
    /\ nodes' = nodes + 1
    /\ UNCHANGED <<shiftErrors, castFailed, wideAmount>>

GenerateCast ==
    /\ Generating
    /\ operands # <<>>
    /\ \E type \in Widths \cup Floats :
          /\ Replace(1, Cast(Top, type))
          /\ Did("cast", Top, Top, Cast(Top, type))
    /\ nodes' = nodes + 1
    /\ UNCHANGED <<shiftErrors, castFailed, wideAmount>>

\* The condition of a statement, the last node of its expression.  For two
\* floating-point operands the cast of their types to integer types fails.
GenerateCompare ==
    /\ Generating
    /\ Len(operands) = 2
    /\ \E op \in Operators \cap Comparisons :
          IF IsFloat(Second) /\ IsFloat(Top)
          THEN /\ castFailed' = TRUE
               /\ UNCHANGED <<operands, lastOperator>>
          ELSE LET n == CmpOp(op, Second, Top)
               IN  /\ operands' = <<>>
                   /\ Did(op, Second, Top, n)
                   /\ UNCHANGED castFailed
    /\ nodes' = nodes + 1
    /\ UNCHANGED <<shiftErrors, wideAmount>>

ValuesNext == PushLeaf \/ GenerateBinary \/ GenerateFlip \/ GenerateCast \/ GenerateCompare

ValuesSpec == ValuesInit /\ [][ValuesNext]_valuesVars
-----------------------------------------------------------------------------
(* Properties *)

\* Type invariant: a value is one of its type, undefined ones apart.
ValuesTypeOK ==
    /\ \A i \in DOMAIN operands :
          LET n == operands[i]
          IN  /\ n.kind \in {"constant", "instruction"}
              /\ n.type \in Widths \cup Floats
              /\ IsInt(n) => Fits(n.val, n.type)
    /\ nodes \in 0..MaxNodes
    /\ shiftErrors \in Nat
    /\ castFailed \in BOOLEAN /\ wideAmount \in BOOLEAN

\* The type announced by getLLVMResultType() is that of the value generate()
\* returns: the elements of arrays are allocated by the one and stored by the
\* other (ArrayElements.cpp:20, BinaryOp.cpp:107, BinaryOp.cpp:21).  Not so for a
\* shift by an amount whose type is wider than that the shift is widened to.
TypesPredicted ==
    shiftErrors = 0 /\ ~ wideAmount =>
        \A i \in DOMAIN operands : operands[i].predicted = operands[i].type

\* A comparison of integers, booleans apart, of any two widths says what is true
\* of their values (CmpOp.cpp:40-44 widens the narrower one).
ComparisonsExact ==
    LET l == lastOperator.left
        r == lastOperator.right
    IN  lastOperator.op \in Comparisons /\ l.type \in Ladder /\ r.type \in Ladder =>
            (lastOperator.result.val # 0) = (IF lastOperator.op = "==" THEN l.val = r.val ELSE l.val < r.val)

\* A product with a power of two, when it fits the widened type, is what the
\* shift by a known amount beyond its left operand computes: the widening leaves
\* room for the bits (BinaryOp.cpp:44-65).
WideShiftsExact ==
    LET l == lastOperator.left
        r == lastOperator.right
    IN  lastOperator.op = "<<" /\ IsInt(l) /\ IsInt(r) /\ KnownAmount(r) /\ l.type < Amount(r)
        /\ shiftErrors = 0 =>
            LET w == lastOperator.result.type
            IN  /\ ~ Undefined("<<", Amount(r), w)
                /\ Fits(l.val, w - Amount(r)) =>
                       lastOperator.result.val = l.val * TwoTo[Amount(r)]

\* The type invariant, and expressions that have the type announced for them and
\* the value of the source (BinaryOp.cpp, CmpOp.cpp, Coercion.cpp).
ValuesInv == ValuesTypeOK /\ TypesPredicted /\ ComparisonsExact /\ WideShiftsExact

=============================================================================
