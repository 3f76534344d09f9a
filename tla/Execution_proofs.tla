--------------------------- MODULE Execution_proofs ---------------------------
(***************************************************************************)
(* Theorems about Execution, for programs of every size: a function that   *)
(* runs never leaves its instructions, and it runs the statements of the   *)
(* source in the order of structured control flow, that is, Execution      *)
(* implements Structured.                                                  *)
(*                                                                         *)
(* The second needs an invariant of code generation (FlowInv): the calls   *)
(* under way nest as the statements of the source that are still open, and *)
(* each block follows the source from the position at which it starts.     *)
(* The position is chosen when the block is created; what the block says   *)
(* of the source must then survive everything that is read later.  Skip,   *)
(* a minimum, is replaced by a relation that does (Passed, Reaches).       *)
(* After that, an instruction of a sealed block is a step of the source.   *)
(***************************************************************************)
EXTENDS ControlFlow_proofs, Execution, FiniteSetTheorems, NaturalsInduction,
        WellFoundedInduction

-----------------------------------------------------------------------------
(* Functions that run. *)

\* A run is in a well-formed function of the finished program, at an instruction.
Runs ==
    /\ cond \in BOOLEAN
    /\ pc # Idle =>
        /\ frames = <<>>
        /\ pc[1] \in Blocks /\ owner[pc[1]] \notin misuse
        /\ pc[2] \in 1..Len(code[pc[1]])

\* In a finished program every block of a well-formed function has one terminator,
\* its last instruction.
LEMMA BlocksSealed ==
    ASSUME Inv, frames = <<>>, NEW b \in Blocks, owner[b] \notin misuse
    PROVE  Sealed(code[b]) /\ Len(code[b]) \in Nat \ {0}
<1>1. Calls = {}
  BY DEF Calls
<1>2. Sealed(code[b])
  BY <1>1 DEF Inv, IInv, UnsealedAwaited
<1>3. code[b] \in Seq(InstrType)
  BY ElementOfSeq DEF Inv, TypeOK, Blocks
<1> QED
  BY <1>2, <1>3 DEF Sealed, Terminated

\* A successor is a block of the same function, so it has a first instruction.
LEMMA SuccessorStarts ==
    ASSUME Inv, PlacedInv, frames = <<>>, NEW b \in Blocks, owner[b] \notin misuse,
           NEW i \in 1..Len(code[b]), NEW j \in 1..Len(code[b][i].to)
    PROVE  LET t == code[b][i].to[j]
           IN  t \in Blocks /\ owner[t] \notin misuse /\ 1 \in 1..Len(code[t])
<1> DEFINE t == code[b][i].to[j]
<1>1. Len(owner) = Len(code) /\ Blocks = 1..Len(owner)
  BY DEF Inv, TypeOK, Blocks
<1>2. Targets(code[b][i], owner, owner[b])
  BY <1>1 DEF PlacedInv, Stage, Placed
<1>3. t \in Blocks /\ owner[t] = owner[b]
  BY <1>1, <1>2 DEF Targets
<1>4. Len(code[t]) \in Nat \ {0}
  BY <1>3, BlocksSealed
<1> QED
  BY <1>3, <1>4

\* A run stays in its function.
LEMMA RunsStep == Inv /\ PlacedInv /\ Runs /\ [ENext]_evars => Runs'
<1> SUFFICES ASSUME Inv, PlacedInv, Runs, [ENext]_evars  PROVE Runs'
  OBVIOUS
<1> USE DEF vars
<1>1. CASE Compile
  BY <1>1 DEF Compile, Runs
<1>2. CASE Enter
  <2>1. PICK f \in Blocks \ misuse : owner[f] = f /\ pc' = <<f, 1>>
    BY <1>2 DEF Enter
  <2>2. /\ frames = <<>> /\ frames' = frames /\ code' = code /\ owner' = owner
        /\ misuse' = misuse /\ cond' = cond
    BY <1>2 DEF Enter
  <2>3. Len(code[f]) \in Nat \ {0}
    BY <2>1, <2>2, BlocksSealed
  <2> QED
    BY <2>1, <2>2, <2>3 DEF Runs, Blocks
<1>3. CASE Execute
  <2>1. /\ pc # Idle /\ frames' = frames /\ code' = code /\ owner' = owner
        /\ misuse' = misuse
    BY <1>3 DEF Execute
  <2>2. /\ frames = <<>> /\ pc[1] \in Blocks /\ owner[pc[1]] \notin misuse
        /\ pc[2] \in 1..Len(code[pc[1]]) /\ cond \in BOOLEAN
    BY <2>1 DEF Runs
  <2> DEFINE b == pc[1]
             i == pc[2]
  <2>3. Sealed(code[b]) /\ Len(code[b]) \in Nat \ {0}
    BY <2>2, BlocksSealed
  <2>4. Len(Here.to) = Arity(Here.op)
    BY <2>2 DEF PlacedInv, Stage, Placed, Targets, Blocks, Here
  <2>5. \A j \in 1..Len(Here.to) :
           LET t == Here.to[j]
           IN  t \in Blocks /\ owner[t] \notin misuse /\ 1 \in 1..Len(code[t])
    BY <2>2, SuccessorStarts DEF Here
  <2>6. CASE ~ IsTerm(Here) /\ pc' = <<pc[1], pc[2] + 1>> /\ UNCHANGED cond
    <3>1. i # Len(code[b])
      BY <2>3, <2>6 DEF Sealed, Terminated, Here
    <3>2. i + 1 \in 1..Len(code[b])
      BY <2>2, <2>3, <3>1
    <3> QED
      BY <2>1, <2>2, <2>6, <3>2 DEF Runs, Blocks
  <2>7. CASE Here.op = "br" /\ pc' = <<Here.to[1], 1>> /\ UNCHANGED cond
    <3>1. 1 \in 1..Len(Here.to)
      BY <2>4, <2>7 DEF Arity
    <3> QED
      BY <2>1, <2>2, <2>5, <2>7, <3>1 DEF Runs, Blocks
  <2>8. CASE /\ Here.op = "cbr" /\ cond' \in BOOLEAN
             /\ pc' = <<IF cond' THEN Here.to[1] ELSE Here.to[2], 1>>
    <3>1. 1 \in 1..Len(Here.to) /\ 2 \in 1..Len(Here.to)
      BY <2>4, <2>8 DEF Arity
    <3>2. PICK j \in 1..Len(Here.to) : pc' = <<Here.to[j], 1>>
      BY <2>8, <3>1
    <3> QED
      BY <2>1, <2>2, <2>5, <2>8, <3>2 DEF Runs, Blocks
  <2>9. CASE pc' = Idle /\ cond' = FALSE
    BY <2>9 DEF Runs
  <2> QED
    BY <1>3, <2>6, <2>7, <2>8, <2>9 DEF Execute
<1>4. CASE UNCHANGED evars
  BY <1>4 DEF evars, Runs, Blocks
<1> QED
  BY <1>1, <1>2, <1>3, <1>4 DEF ENext

\* A function that runs never gets past the end of a basic block nor to a block
\* that is not there: each of its steps is an instruction of the function, for
\* every program and every outcome of its conditions (FunctionDecl.cpp, If.cpp,
\* While.cpp, Loop.cpp).
THEOREM RunsStayInside == ESpec => []ExecTypeOK
<1>1. EInit => Inv /\ PlacedInv /\ Runs
  <2>1. EInit => Init /\ Runs
    BY DEF EInit, Runs
  <2> QED
    BY <2>1, InitInv, InitPlaced
<1>2. (Inv /\ PlacedInv /\ Runs) /\ [ENext]_evars => (Inv /\ PlacedInv /\ Runs)'
  <2>1. [ENext]_evars => [Next]_vars
    BY DEF ENext, Compile, Enter, Execute, evars, vars
  <2> QED
    BY <2>1, NextInv, NextPlaced, RunsStep
<1>3. Runs => ExecTypeOK
  BY DEF Runs, ExecTypeOK
<1> QED
  BY <1>1, <1>2, <1>3, PTL DEF ESpec

-----------------------------------------------------------------------------
(* Lemmas about Source: what reading one more token changes. *)

\* What a token adds to the depth.
Turn(t) == IF t \in S!Openers THEN 1 ELSE IF t = "end" THEN -1 ELSE 0

\* The tokens of one kind in a program, up to a position.
Upto(s, T, i) == {j \in 1..i : s[j] \in T}

\* One position more, one token more to count, or none.
LEMMA CountStep ==
    ASSUME NEW s, NEW T, NEW i \in Nat
    PROVE  /\ Cardinality(Upto(s, T, i)) \in Nat
           /\ Cardinality(Upto(s, T, i + 1))
                = Cardinality(Upto(s, T, i)) + (IF s[i + 1] \in T THEN 1 ELSE 0)
<1>1. IsFiniteSet(Upto(s, T, i))
  <2>1. IsFiniteSet(1..i) /\ Upto(s, T, i) \in SUBSET (1..i)
    BY FS_Interval DEF Upto
  <2> QED
    BY <2>1, FS_Subset
<1>2. i + 1 \notin Upto(s, T, i)
  BY DEF Upto
<1>3. Upto(s, T, i + 1)
        = IF s[i + 1] \in T THEN Upto(s, T, i) \cup {i + 1} ELSE Upto(s, T, i)
  BY DEF Upto
<1>4. Cardinality(Upto(s, T, i)) \in Nat
  BY <1>1, FS_CardinalityType
<1>5. Cardinality(Upto(s, T, i) \cup {i + 1}) = Cardinality(Upto(s, T, i)) + 1
  BY <1>1, <1>2, FS_AddElement
<1> QED
  BY <1>3, <1>4, <1>5

\* Structured counts with its own copy of the operator.
LEMMA SameCardinality == ASSUME NEW X PROVE S!Cardinality(X) = Cardinality(X)
BY DEF S!Cardinality, Cardinality

\* The depth is a difference of two counts, of which one position changes little.
LEMMA DepthCounts ==
    ASSUME NEW s, NEW i
    PROVE  S!Depth(s, i) = Cardinality(Upto(s, S!Openers, i)) - Cardinality(Upto(s, {"end"}, i))
<1>1. Upto(s, {"end"}, i) = {j \in 1..i : s[j] = "end"}
  BY DEF Upto
<1>2. Upto(s, S!Openers, i) = {j \in 1..i : s[j] \in S!Openers}
  BY DEF Upto
<1>3. S!Depth(s, i) = S!Cardinality(Upto(s, S!Openers, i)) - S!Cardinality(Upto(s, {"end"}, i))
  BY <1>1, <1>2 DEF S!Depth
<1> QED
  BY <1>3, SameCardinality

\* The depth changes by what a token adds.
LEMMA DepthStep ==
    ASSUME NEW s, NEW i \in Nat
    PROVE  /\ S!Depth(s, i) \in Int
           /\ S!Depth(s, i + 1) = S!Depth(s, i) + Turn(s[i + 1])
<1>3. /\ Cardinality(Upto(s, S!Openers, i)) \in Nat
      /\ Cardinality(Upto(s, S!Openers, i + 1))
            = Cardinality(Upto(s, S!Openers, i)) + (IF s[i + 1] \in S!Openers THEN 1 ELSE 0)
  BY CountStep
<1>4. /\ Cardinality(Upto(s, {"end"}, i)) \in Nat
      /\ Cardinality(Upto(s, {"end"}, i + 1))
            = Cardinality(Upto(s, {"end"}, i)) + (IF s[i + 1] \in {"end"} THEN 1 ELSE 0)
  BY CountStep
<1>5. "end" \notin S!Openers
  BY DEF S!Openers
<1> QED
  BY <1>3, <1>4, <1>5, DepthCounts DEF Turn

\* A depth is a number.
LEMMA DepthInt == ASSUME NEW s, NEW i \in Nat PROVE S!Depth(s, i) \in Int
BY DepthStep

\* A program that is read on, and what was read of it.
Longer(s, r) ==
    /\ s \in Seq(Tokens) /\ r \in Seq(Tokens)
    /\ Len(r) = Len(s) + 1
    /\ \A i \in 1..Len(s) : r[i] = s[i]

\* The token read last leaves the depth before it alone.
LEMMA DepthKept ==
    ASSUME NEW s, NEW r, Longer(s, r), NEW i \in 0..Len(s)
    PROVE  S!Depth(r, i) = S!Depth(s, i)
<1>1. \A j \in 1..i : r[j] = s[j]
  BY DEF Longer
<1>2. /\ {j \in 1..i : r[j] \in S!Openers} = {j \in 1..i : s[j] \in S!Openers}
      /\ {j \in 1..i : r[j] = "end"} = {j \in 1..i : s[j] = "end"}
  BY <1>1
<1> QED
  BY <1>2 DEF S!Depth

\* A nonempty set of numbers has a least one.
LEMMA LeastNat ==
    ASSUME NEW A \in SUBSET Nat, A # {}
    PROVE  /\ S!Min(A) \in A
           /\ \A x \in A : S!Min(A) <= x
<1>1. PICK b \in A : \A c \in A : ~ (<<c, b>> \in OpToRel(<, Nat))
  BY NatLessThanWellFounded, WFMin
<1>2. \A c \in A : ~ (c < b)
  BY <1>1, Zenon DEF OpToRel
<1>3. \A c \in A : b <= c
  BY <1>2
<1> QED
  BY <1>1, <1>3 DEF S!Min

\* The least number of a set is the only one below all others.
LEMMA LeastIs ==
    ASSUME NEW A \in SUBSET Nat, NEW b \in A, \A x \in A : b <= x
    PROVE  S!Min(A) = b
<1>1. S!Min(A) \in A /\ \A x \in A : S!Min(A) <= x
  BY LeastNat
<1>2. S!Min(A) <= b /\ b <= S!Min(A) /\ S!Min(A) \in Nat /\ b \in Nat
  BY <1>1
<1> QED
  BY <1>2

\* Likewise the greatest.
LEMMA GreatestIs ==
    ASSUME NEW A \in SUBSET Nat, NEW b \in A, \A x \in A : x <= b
    PROVE  S!Max(A) = b
<1>1. \A x \in A : b >= x
  OBVIOUS
<1>2. S!Max(A) \in A /\ \A x \in A : S!Max(A) >= x
  BY <1>1 DEF S!Max
<1>3. S!Max(A) >= b /\ b >= S!Max(A) /\ S!Max(A) \in Nat /\ b \in Nat
  BY <1>1, <1>2
<1> QED
  BY <1>3

\* A statement that is closed stays so, at the same end.
LEMMA ClosedKept ==
    ASSUME NEW s, NEW r, Longer(s, r), NEW i \in 1..Len(s), S!Closed(s, i)
    PROVE  /\ S!EndOf(s, i) \in (i + 1)..Len(s)
           /\ S!Closed(r, i) /\ S!EndOf(r, i) = S!EndOf(s, i)
           /\ S!ElsesOf(r, i) = S!ElsesOf(s, i)
<1> DEFINE A == S!Closings(s, i)
           B == S!Closings(r, i)
           e == S!EndOf(s, i)
           n == Len(s)
<1>1. n \in Nat /\ Len(r) = n + 1 /\ i \in 1..n /\ i \in Nat
  BY DEF Longer
<1>2. \A j \in 0..n : S!Depth(r, j) = S!Depth(s, j)
  BY DepthKept
<1>3. \A j \in 1..n : r[j] = s[j]
  BY DEF Longer
<1>4. A \in SUBSET Nat /\ A \in SUBSET ((i + 1)..n) /\ A # {}
  BY <1>1 DEF S!Closings, S!Closed
<1>5. e \in A /\ \A x \in A : e <= x
  BY <1>4, LeastNat DEF S!EndOf
<1>6. \A j \in (i + 1)..n : j \in A <=> j \in B
  <2> TAKE j \in (i + 1)..n
  <2>1. j \in 1..n /\ j \in 0..n /\ i \in 0..n /\ j \in (i + 1)..Len(r)
    BY <1>1
  <2>2. r[j] = s[j] /\ S!Depth(r, j) = S!Depth(s, j) /\ S!Depth(r, i) = S!Depth(s, i)
    BY <1>2, <1>3, <2>1
  <2> QED
    BY <2>1, <2>2 DEF S!Closings
<1>7. B \in SUBSET Nat /\ B \in SUBSET ((i + 1)..(n + 1))
  BY <1>1 DEF S!Closings
<1> HIDE DEF A, B, e, n
<1>8. e \in B /\ \A x \in B : e <= x
  BY <1>1, <1>4, <1>5, <1>6, <1>7
<1>9. S!Min(B) = e
  BY <1>7, <1>8, LeastIs
<1>10. S!Closed(r, i) /\ S!EndOf(r, i) = e
  BY <1>8, <1>9 DEF S!Closed, S!EndOf, B
<1>11. S!ElsesOf(r, i) = S!ElsesOf(s, i)
  <2>1. \A j \in (i + 1)..e : j \in 1..n /\ j \in 0..n /\ i \in 0..n
    BY <1>1, <1>4, <1>5
  <2>2. \A j \in (i + 1)..e :
           r[j] = s[j] /\ S!Depth(r, j) = S!Depth(s, j) /\ S!Depth(r, i) = S!Depth(s, i)
    BY <1>2, <1>3, <2>1
  <2>3. S!EndOf(r, i) = e /\ S!EndOf(s, i) = e
    BY <1>10 DEF e
  <2> QED
    BY <2>2, <2>3 DEF S!ElsesOf
<1> QED
  BY <1>4, <1>5, <1>10, <1>11 DEF e, n

\* The opener of a position depends on what is before it.
LEMMA OpenerKept ==
    ASSUME NEW s, NEW r, Longer(s, r), NEW p \in 1..Len(s)
    PROVE  S!OpenerOf(r, p) = S!OpenerOf(s, p)
<1> DEFINE A(x) == {i \in 1..(p - 1) : x[i] \in S!Openers
                                     /\ S!Depth(x, i) = IF x[p] = "end" THEN S!Depth(x, p) + 1
                                                                         ELSE S!Depth(x, p)}
<1>1. \A j \in 1..p : r[j] = s[j] /\ S!Depth(r, j) = S!Depth(s, j)
  <2>1. Len(s) \in Nat
    BY DEF Longer
  <2>2. \A j \in 1..p : j \in 0..Len(s) /\ j \in 1..Len(s)
    BY <2>1
  <2> QED
    BY <2>2, DepthKept DEF Longer
<1>2. r[p] = s[p] /\ S!Depth(r, p) = S!Depth(s, p)
  BY <1>1
<1>3. \A j \in 1..(p - 1) : r[j] = s[j] /\ S!Depth(r, j) = S!Depth(s, j)
  BY <1>1
<1>4. A(r) = A(s)
  BY <1>2, <1>3
<1>5. S!OpenerOf(r, p) = S!Max(A(r)) /\ S!OpenerOf(s, p) = S!Max(A(s))
  BY DEF S!OpenerOf
<1> QED
  BY <1>4, <1>5

-----------------------------------------------------------------------------
(* Where control goes in a source: the relation S!Step, without Skip. *)

\* Everything from e up to q is in functions declared there.
Passed(s, e, q) ==
    /\ e <= q
    /\ \A k \in e..(q - 1) : s[k] = "func" => S!Closed(s, k) /\ S!EndOf(s, k) < q
    /\ \A j \in e..(q - 1) : \E k \in e..j : s[k] = "func" /\ j <= S!EndOf(s, k)

\* Control that gets to e runs the statement at q.
Reaches(s, e, q) == q \in 1..Len(s) /\ s[q] # "func" /\ Passed(s, e, q)

\* Control gets from the statement at p, whose condition is c, to e.
Lands(s, p, c, e) ==
    /\ p \in 1..Len(s)
    /\ \/ s[p] \in {"func", "stmt", "decl", "loop"} /\ e = p + 1
       \/ s[p] \in {"if", "while"} /\ c /\ e = p + 1
       \/ /\ s[p] = "if" /\ ~c /\ S!Closed(s, p)
          /\ e = IF S!ElsesOf(s, p) = {} THEN S!EndOf(s, p) ELSE S!Min(S!ElsesOf(s, p)) + 1
       \/ s[p] = "while" /\ ~c /\ S!Closed(s, p) /\ e = S!EndOf(s, p) + 1
       \/ /\ s[p] = "else" /\ S!OpenerOf(s, p) \in 1..(p - 1) /\ S!Closed(s, S!OpenerOf(s, p))
          /\ e = S!EndOf(s, S!OpenerOf(s, p)) + 1
       \/ /\ s[p] = "end" /\ S!OpenerOf(s, p) \in 1..(p - 1)
          /\ LET o == S!OpenerOf(s, p)
             IN \/ s[o] = "if" /\ e = p + 1
                \/ s[o] = "while" /\ e = o
                \/ s[o] = "loop" /\ e = o + 1

\* The statement at p ends the function.
Leaves(s, p) ==
    /\ p \in 1..Len(s)
    /\ \/ s[p] = "return"
       \/ /\ s[p] = "end" /\ S!OpenerOf(s, p) \in 1..(p - 1)
          /\ s[S!OpenerOf(s, p)] = "func"

\* The end of a closed statement.
LEMMA EndIs ==
    ASSUME NEW s \in Seq(Tokens), NEW i \in 1..Len(s), S!Closed(s, i)
    PROVE  S!EndOf(s, i) \in (i + 1)..Len(s) /\ s[S!EndOf(s, i)] = "end"
<1>1. S!Closings(s, i) \in SUBSET Nat /\ S!Closings(s, i) # {}
  BY DEF S!Closings, S!Closed
<1>2. S!EndOf(s, i) \in S!Closings(s, i)
  BY <1>1, LeastNat DEF S!EndOf
<1> QED
  BY <1>2 DEF S!Closings

\* Skip passes over the functions up to the first statement that is in none.
LEMMA SkipReaches ==
    ASSUME NEW s \in Seq(Tokens), NEW e \in Nat \ {0}, NEW q, Reaches(s, e, q)
    PROVE  S!Skip(s, e) = q
<1> DEFINE A == {j \in e..Len(s) : \A k \in e..j : s[k] = "func" => S!EndOf(s, k) < j}
<1>1. q \in 1..Len(s) /\ s[q] # "func" /\ e <= q /\ Len(s) \in Nat
  BY DEF Reaches, Passed
<1>2. q \in A
  <2>1. ASSUME NEW k \in e..q, s[k] = "func" PROVE S!EndOf(s, k) < q
    <3>1. k \in e..(q - 1)
      BY <1>1, <2>1
    <3> QED
      BY <2>1, <3>1 DEF Reaches, Passed
  <2> QED
    BY <1>1, <2>1
<1>3. ASSUME NEW j \in A PROVE q <= j
  <2> SUFFICES ASSUME j < q PROVE FALSE
    BY <1>1
  <2>1. j \in e..(q - 1) /\ \A k \in e..j : s[k] = "func" => S!EndOf(s, k) < j
    BY <1>1
  <2>2. PICK k \in e..j : s[k] = "func" /\ j <= S!EndOf(s, k)
    BY <2>1 DEF Reaches, Passed
  <2>3. k \in e..(q - 1) /\ k \in 1..Len(s)
    BY <1>1, <2>1
  <2>4. S!Closed(s, k)
    BY <2>2, <2>3 DEF Reaches, Passed
  <2>5. S!EndOf(s, k) \in Int
    BY <2>3, <2>4, EndIs
  <2> QED
    BY <2>1, <2>2, <2>5
<1>4. A \in SUBSET Nat
  OBVIOUS
<1>5. S!Skip(s, e) = S!Min(A)
  BY DEF S!Skip
<1> HIDE DEF A
<1> QED
  BY <1>2, <1>3, <1>4, <1>5, LeastIs

\* A statement that is no function is not passed over.
LEMMA ReachesSelf ==
    ASSUME NEW s, NEW e \in Nat, NEW q, Reaches(s, e, q), s[e] # "func"
    PROVE  q = e
<1>1. q \in Nat /\ e <= q
  BY DEF Reaches, Passed
<1> SUFFICES ASSUME e < q PROVE FALSE
  BY <1>1
<1>2. e \in e..(q - 1)
  BY <1>1
<1>3. PICK k \in e..e : s[k] = "func"
  BY <1>2 DEF Reaches, Passed
<1> QED
  BY <1>3

\* A step of the source goes to what control reaches from where it lands.
LEMMA LandsStep ==
    ASSUME NEW s \in Seq(Tokens), NEW p, NEW c \in BOOLEAN, NEW e, NEW q,
           Lands(s, p, c, e), Reaches(s, e, q)
    PROVE  p \in 1..Len(s) /\ S!Step(s, p, c) = q
<1>1. p \in 1..Len(s) /\ Len(s) \in Nat
  BY DEF Lands
<1> DEFINE o == S!OpenerOf(s, p)
<1>2. CASE s[p] \in {"func", "stmt", "decl", "loop"} /\ e = p + 1
  <2>1. S!Step(s, p, c) = S!Skip(s, p + 1)
    BY <1>2 DEF S!Step
  <2> QED
    BY <1>1, <1>2, <2>1, SkipReaches
<1>3. CASE s[p] \in {"if", "while"} /\ c /\ e = p + 1
  <2>1. S!Step(s, p, c) = S!Skip(s, p + 1)
    BY <1>3 DEF S!Step
  <2>2. e = p + 1 /\ e \in Nat \ {0}
    BY <1>1, <1>3
  <2> QED
    BY <1>1, <2>1, <2>2, SkipReaches
<1>4. CASE /\ s[p] = "if" /\ ~c /\ S!Closed(s, p)
           /\ e = IF S!ElsesOf(s, p) = {} THEN S!EndOf(s, p) ELSE S!Min(S!ElsesOf(s, p)) + 1
  <2>1. S!EndOf(s, p) \in Nat \ {0} /\ s[S!EndOf(s, p)] = "end"
    BY <1>1, <1>4, EndIs
  <2>2. CASE S!ElsesOf(s, p) = {}
    <3>1. S!Step(s, p, c) = S!EndOf(s, p)
      BY <1>4, <2>2 DEF S!Step
    <3> QED
      BY <1>1, <1>4, <2>1, <2>2, <3>1, ReachesSelf
  <2>3. CASE S!ElsesOf(s, p) # {}
    <3>1. S!Step(s, p, c) = S!Skip(s, S!Min(S!ElsesOf(s, p)) + 1)
      BY <1>4, <2>3 DEF S!Step
    <3>2. S!ElsesOf(s, p) \in SUBSET Nat
      BY <1>1 DEF S!ElsesOf
    <3>3. S!Min(S!ElsesOf(s, p)) \in Nat
      BY <2>3, <3>2, LeastNat
    <3>4. e = S!Min(S!ElsesOf(s, p)) + 1 /\ e \in Nat \ {0}
      BY <1>4, <2>3, <3>3
    <3> QED
      BY <1>1, <3>1, <3>4, SkipReaches
  <2> QED
    BY <2>2, <2>3
<1>5. CASE s[p] = "while" /\ ~c /\ S!Closed(s, p) /\ e = S!EndOf(s, p) + 1
  <2>1. S!EndOf(s, p) \in Nat
    BY <1>1, <1>5, EndIs
  <2>2. S!Step(s, p, c) = S!Skip(s, S!EndOf(s, p) + 1)
    BY <1>5 DEF S!Step
  <2> QED
    BY <1>1, <1>5, <2>1, <2>2, SkipReaches
<1>6. CASE s[p] = "else" /\ o \in 1..(p - 1) /\ S!Closed(s, o) /\ e = S!EndOf(s, o) + 1
  <2>1. S!EndOf(s, o) \in Nat
    <3>1. o \in 1..Len(s)
      BY <1>1, <1>6
    <3> HIDE DEF o
    <3> QED
      BY <3>1, <1>6, EndIs
  <2>2. S!Step(s, p, c) = S!Skip(s, S!EndOf(s, o) + 1)
    BY <1>6 DEF S!Step
  <2> HIDE DEF o
  <2> QED
    BY <1>1, <1>6, <2>1, <2>2, SkipReaches
<1>7. CASE s[p] = "end" /\ o \in 1..(p - 1) /\ s[o] = "if" /\ e = p + 1
  <2>1. S!Step(s, p, c) = S!Skip(s, p + 1)
    BY <1>7 DEF S!Step
  <2> QED
    BY <1>1, <1>7, <2>1, SkipReaches
<1>8. CASE s[p] = "end" /\ o \in 1..(p - 1) /\ s[o] = "while" /\ e = o
  <2>1. S!Step(s, p, c) = o
    BY <1>8 DEF S!Step
  <2> HIDE DEF o
  <2> QED
    BY <1>1, <1>8, <2>1, ReachesSelf
<1>9. CASE s[p] = "end" /\ o \in 1..(p - 1) /\ s[o] = "loop" /\ e = o + 1
  <2>1. S!Step(s, p, c) = S!Skip(s, o + 1)
    BY <1>9 DEF S!Step
  <2> HIDE DEF o
  <2> QED
    BY <1>1, <1>9, <2>1, SkipReaches
<1> HIDE DEF o
<1> QED
  BY <1>1, <1>2, <1>3, <1>4, <1>5, <1>6, <1>7, <1>8, <1>9 DEF Lands, o

\* A step of the source from a statement that ends the function ends it.
LEMMA LeavesStep ==
    ASSUME NEW s \in Seq(Tokens), NEW p, NEW c \in BOOLEAN, Leaves(s, p)
    PROVE  p \in 1..Len(s) /\ S!Step(s, p, c) = 0
BY DEF Leaves, S!Step

-----------------------------------------------------------------------------
(* What has been read settles where control goes. *)

\* Functions that have been passed over are passed over in the longer source.
LEMMA PassedKept ==
    ASSUME NEW s, NEW r, Longer(s, r), NEW e \in Nat \ {0}, NEW q \in 1..(Len(s) + 1),
           Passed(s, e, q)
    PROVE  Passed(r, e, q)
<1>1. Len(s) \in Nat /\ e <= q
  BY DEF Longer, Passed
<1>2. \A k \in e..(q - 1) : k \in 1..Len(s) /\ r[k] = s[k]
  BY <1>1 DEF Longer
<1>3. ASSUME NEW k \in e..(q - 1), r[k] = "func"
      PROVE  S!Closed(r, k) /\ S!EndOf(r, k) = S!EndOf(s, k) /\ S!EndOf(r, k) < q
  <2>1. s[k] = "func" /\ k \in 1..Len(s)
    BY <1>2, <1>3
  <2>2. S!Closed(s, k) /\ S!EndOf(s, k) < q
    BY <2>1 DEF Passed
  <2> QED
    BY <2>1, <2>2, ClosedKept
<1>4. ASSUME NEW j \in e..(q - 1)
      PROVE  \E k \in e..j : r[k] = "func" /\ j <= S!EndOf(r, k)
  <2>1. PICK k \in e..j : s[k] = "func" /\ j <= S!EndOf(s, k)
    BY DEF Passed
  <2>2. k \in e..(q - 1)
    BY <2>1
  <2> QED
    BY <1>2, <1>3, <2>1, <2>2
<1> QED
  BY <1>1, <1>3, <1>4 DEF Passed

\* What control gets to, it gets to in the longer source.
LEMMA ReachesKept ==
    ASSUME NEW s, NEW r, Longer(s, r), NEW e \in Nat \ {0}, NEW q, Reaches(s, e, q)
    PROVE  Reaches(r, e, q)
<1>1. q \in 1..Len(s) /\ Len(s) \in Nat /\ Passed(s, e, q) /\ s[q] # "func"
  BY DEF Reaches, Longer
<1>2. q \in 1..Len(r) /\ r[q] = s[q] /\ q \in 1..(Len(s) + 1)
  BY <1>1 DEF Longer
<1> QED
  BY <1>1, <1>2, PassedKept DEF Reaches

\* Where a statement sends control does not change as more is read: the
\* statements it depends on are closed.
LEMMA LandsKept ==
    ASSUME NEW s, NEW r, Longer(s, r), NEW p, NEW c, NEW e, Lands(s, p, c, e)
    PROVE  Lands(r, p, c, e)
<1> DEFINE o == S!OpenerOf(s, p)
<1>1. p \in 1..Len(s) /\ Len(s) \in Nat /\ p \in 1..Len(r) /\ r[p] = s[p]
  BY DEF Lands, Longer
<1>2. S!OpenerOf(r, p) = o
  BY <1>1, OpenerKept
<1>3. \A k \in 1..Len(s) : r[k] = s[k]
  BY DEF Longer
<1>4. \A k \in 1..Len(s) : S!Closed(s, k) =>
         /\ S!Closed(r, k) /\ S!EndOf(r, k) = S!EndOf(s, k)
         /\ S!ElsesOf(r, k) = S!ElsesOf(s, k) /\ S!EndOf(s, k) \in 1..Len(s)
  BY <1>1, ClosedKept
<1>5. CASE s[p] \in {"func", "stmt", "decl", "loop"} /\ e = p + 1
  BY <1>1, <1>5 DEF Lands
<1>6. CASE s[p] \in {"if", "while"} /\ c /\ e = p + 1
  BY <1>1, <1>6 DEF Lands
<1>7. CASE /\ s[p] = "if" /\ ~c /\ S!Closed(s, p)
           /\ e = IF S!ElsesOf(s, p) = {} THEN S!EndOf(s, p) ELSE S!Min(S!ElsesOf(s, p)) + 1
  BY <1>1, <1>4, <1>7 DEF Lands
<1>8. CASE s[p] = "while" /\ ~c /\ S!Closed(s, p) /\ e = S!EndOf(s, p) + 1
  BY <1>1, <1>4, <1>8 DEF Lands
<1>9. CASE s[p] = "else" /\ o \in 1..(p - 1) /\ S!Closed(s, o) /\ e = S!EndOf(s, o) + 1
  <2>1. o \in 1..Len(s)
    BY <1>1, <1>9
  <2>2. S!Closed(r, o) /\ S!EndOf(r, o) = S!EndOf(s, o)
    BY <1>4, <1>9, <2>1
  <2> QED
    BY <1>1, <1>2, <1>9, <2>2 DEF Lands
<1>10. CASE /\ s[p] = "end" /\ o \in 1..(p - 1)
            /\ \/ s[o] = "if" /\ e = p + 1
               \/ s[o] = "while" /\ e = o
               \/ s[o] = "loop" /\ e = o + 1
  <2>1. o \in 1..Len(s)
    BY <1>1, <1>10
  <2>2. r[o] = s[o]
    BY <1>3, <2>1
  <2> QED
    BY <1>1, <1>2, <1>10, <2>2 DEF Lands
<1> HIDE DEF o
<1> QED
  BY <1>5, <1>6, <1>7, <1>8, <1>9, <1>10 DEF Lands, o

\* A statement that ends the function goes on to.
LEMMA LeavesKept ==
    ASSUME NEW s, NEW r, Longer(s, r), NEW p, Leaves(s, p)
    PROVE  Leaves(r, p)
<1> DEFINE o == S!OpenerOf(s, p)
<1>1. p \in 1..Len(s) /\ Len(s) \in Nat /\ p \in 1..Len(r) /\ r[p] = s[p]
  BY DEF Leaves, Longer
<1>2. S!OpenerOf(r, p) = o
  BY <1>1, OpenerKept
<1>3. o \in 1..(p - 1) => r[o] = s[o]
  BY <1>1 DEF Longer
<1> QED
  BY <1>1, <1>2, <1>3 DEF Leaves

\* A function that is closed with the last token is passed over.
LEMMA PassedOver ==
    ASSUME NEW r \in Seq(Tokens), NEW e \in Nat \ {0}, NEW p \in 1..Len(r),
           Passed(r, e, p), r[p] = "func", S!Closed(r, p), S!EndOf(r, p) = Len(r),
           \A k \in p..Len(r) : r[k] = "func" => S!Closed(r, k)
    PROVE  Passed(r, e, Len(r) + 1)
<1> DEFINE n == Len(r)
<1>1. n \in Nat /\ p \in 1..n
  OBVIOUS
<1>2. Passed(r, e, p) /\ e <= p
  BY DEF Passed
<1>3. ASSUME NEW k \in e..n, r[k] = "func"
      PROVE  S!Closed(r, k) /\ S!EndOf(r, k) < n + 1
  <2>1. CASE k < p
    <3>1. k \in e..(p - 1)
      BY <1>1, <2>1
    <3>2. S!Closed(r, k) /\ S!EndOf(r, k) < p
      BY <1>2, <1>3, <3>1 DEF Passed
    <3>3. S!EndOf(r, k) \in Int
      <4>1. k \in 1..n
        BY <1>1
      <4> QED
        BY <1>1, <3>2, <4>1, EndIs
    <3> QED
      BY <1>1, <3>2, <3>3
  <2>2. CASE k >= p
    <3>1. k \in p..n /\ k \in 1..n
      BY <1>1, <2>2
    <3>2. S!Closed(r, k)
      BY <1>3, <3>1
    <3>3. S!EndOf(r, k) \in (k + 1)..n
      BY <1>1, <3>1, <3>2, EndIs
    <3> QED
      BY <1>1, <3>2, <3>3
  <2> QED
    BY <1>1, <2>1, <2>2
<1>4. ASSUME NEW j \in e..n
      PROVE  \E k \in e..j : r[k] = "func" /\ j <= S!EndOf(r, k)
  <2>1. CASE j < p
    <3>1. j \in e..(p - 1)
      BY <1>1, <2>1
    <3> QED
      BY <1>2, <3>1 DEF Passed
  <2>2. CASE j >= p
    <3>1. p \in e..j /\ r[p] = "func" /\ j <= S!EndOf(r, p)
      BY <1>1, <1>2, <2>2
    <3> QED
      BY <3>1
  <2> QED
    BY <1>1, <2>1, <2>2
<1>5. e <= n + 1 /\ (n + 1) - 1 = n
  BY <1>1, <1>2
<1> HIDE DEF n
<1>6. Passed(r, e, n + 1)
  BY <1>3, <1>4, <1>5 DEF Passed
<1> QED
  BY <1>6 DEF n

-----------------------------------------------------------------------------
(* How the calls under way nest in the source read so far. *)

\* The token that opens a body.
TokenOf(kind) == IF kind = "then" THEN "if" ELSE kind

\* The body of call k is open: nothing behind its token is less deep.
Open(s, fs, k) ==
    LET f == fs[k]
    IN  /\ f.tok \in 1..Len(s) /\ s[f.tok] = TokenOf(f.kind)
        /\ \A m \in 1..(k - 1) : fs[m].tok \in 1..(f.tok - 1)
        /\ k > 1 => S!Depth(s, f.tok)
                      = S!Depth(s, fs[k - 1].tok) + (IF f.kind = "else" THEN 0 ELSE 1)
        /\ \A j \in f.tok..Len(s) :
             /\ S!Depth(s, j) >= S!Depth(s, f.tok)
             /\ f.kind = "then" /\ s[j] = "else" /\ S!Depth(s, j) = S!Depth(s, f.tok) =>
                  k < Len(fs) /\ fs[k + 1].kind = "else" /\ fs[k + 1].tok = j

\* The statements that are not closed are those of the calls.
Nested(s, fs) ==
    /\ fs # <<>> => S!Depth(s, Len(s)) = S!Depth(s, fs[Len(fs)].tok)
    /\ \A k \in 1..Len(fs) : Open(s, fs, k)
    /\ \A i \in 1..Len(s) :
         s[i] \in S!Openers => S!Closed(s, i) \/ \E k \in 1..Len(fs) : fs[k].tok = i

SameCall(fs, gs, k) == gs[k].kind = fs[k].kind /\ gs[k].tok = fs[k].tok

\* What a token that is read does to the depth.
LEMMA DepthLast ==
    ASSUME NEW s, NEW r, Longer(s, r)
    PROVE  /\ Len(s) \in Nat /\ Len(r) = Len(s) + 1
           /\ S!Depth(r, Len(r)) = S!Depth(s, Len(s)) + Turn(r[Len(r)])
           /\ \A i \in 0..Len(s) : S!Depth(s, i) \in Int /\ S!Depth(r, i) = S!Depth(s, i)
<1>1. Len(s) \in Nat /\ Len(r) = Len(s) + 1
  BY DEF Longer
<1>2. S!Depth(r, Len(s) + 1) = S!Depth(r, Len(s)) + Turn(r[Len(s) + 1])
  BY <1>1, DepthStep
<1>3. \A i \in 0..Len(s) : S!Depth(s, i) \in Int /\ S!Depth(r, i) = S!Depth(s, i)
  BY <1>1, DepthInt, DepthKept
<1>4. Len(s) \in 0..Len(s)
  BY <1>1
<1> QED
  BY <1>1, <1>2, <1>3, <1>4

\* A call stays open while nothing less deep is read.
LEMMA OpenKept ==
    ASSUME NEW s, NEW r, Longer(s, r), NEW fs \in Seq(FrameType), NEW gs \in Seq(FrameType),
           NEW k \in 1..Len(fs), k <= Len(gs), Open(s, fs, k),
           \A m \in 1..k : SameCall(fs, gs, m),
           S!Depth(r, Len(r)) >= S!Depth(s, fs[k].tok),
           k < Len(fs) /\ fs[k + 1].kind = "else" => k < Len(gs) /\ SameCall(fs, gs, k + 1),
           fs[k].kind = "then" /\ r[Len(r)] = "else" /\ S!Depth(r, Len(r)) = S!Depth(s, fs[k].tok)
              => k < Len(gs) /\ gs[k + 1].kind = "else" /\ gs[k + 1].tok = Len(r)
    PROVE  Open(r, gs, k)
<1> DEFINE p == fs[k].tok
           n == Len(s)
<1>1. gs[k].kind = fs[k].kind /\ gs[k].tok = p
  BY DEF SameCall
<1>2. p \in 1..n /\ s[p] = TokenOf(fs[k].kind)
  BY DEF Open
<1>3. n \in Nat /\ Len(r) = n + 1 /\ \A i \in 0..n : S!Depth(r, i) = S!Depth(s, i)
  BY DepthLast
<1>4. \A i \in 1..n : r[i] = s[i] /\ S!Depth(r, i) = S!Depth(s, i)
  BY <1>3 DEF Longer
<1>5. p \in 1..Len(r) /\ r[p] = TokenOf(fs[k].kind) /\ S!Depth(r, p) = S!Depth(s, p)
  BY <1>2, <1>3, <1>4
<1>6. \A m \in 1..(k - 1) : gs[m].tok \in 1..(p - 1)
  <2>1. \A m \in 1..(k - 1) : m \in 1..k
    OBVIOUS
  <2>2. \A m \in 1..(k - 1) : fs[m].tok \in 1..(p - 1)
    BY DEF Open
  <2> QED
    BY <2>1, <2>2 DEF SameCall
<1>7. ASSUME k > 1
      PROVE  S!Depth(r, p) = S!Depth(r, gs[k - 1].tok) + (IF fs[k].kind = "else" THEN 0 ELSE 1)
  <2>1. k - 1 \in 1..k /\ k - 1 \in 1..(k - 1)
    BY <1>7
  <2>2. gs[k - 1].tok = fs[k - 1].tok
    BY <2>1 DEF SameCall
  <2>3. S!Depth(s, p) = S!Depth(s, fs[k - 1].tok) + (IF fs[k].kind = "else" THEN 0 ELSE 1)
    BY <1>7 DEF Open
  <2> QED
    <3>1. fs[k - 1].tok \in 1..(p - 1)
      BY <2>1 DEF Open
    <3>2. fs[k - 1].tok \in 1..n
      BY <1>2, <1>3, <3>1
    <3> QED
      BY <1>4, <1>5, <2>2, <2>3, <3>2
<1>8. ASSUME NEW j \in p..Len(r)
      PROVE  /\ S!Depth(r, j) >= S!Depth(r, p)
             /\ fs[k].kind = "then" /\ r[j] = "else" /\ S!Depth(r, j) = S!Depth(r, p) =>
                  k < Len(gs) /\ gs[k + 1].kind = "else" /\ gs[k + 1].tok = j
  <2>1. CASE j = Len(r)
    BY <1>5, <2>1
  <2>2. CASE j # Len(r)
    <3>1. j \in p..n /\ j \in 1..n
      BY <1>2, <1>3, <2>2
    <3>2. r[j] = s[j] /\ S!Depth(r, j) = S!Depth(s, j)
      BY <1>4, <3>1
    <3>3. /\ S!Depth(s, j) >= S!Depth(s, p)
          /\ fs[k].kind = "then" /\ s[j] = "else" /\ S!Depth(s, j) = S!Depth(s, p) =>
               k < Len(fs) /\ fs[k + 1].kind = "else" /\ fs[k + 1].tok = j
      BY <3>1 DEF Open
    <3> QED
      BY <1>5, <3>2, <3>3 DEF SameCall
  <2> QED
    BY <2>1, <2>2
<1> HIDE DEF p, n
<1> QED
  BY <1>1, <1>5, <1>6, <1>7, <1>8 DEF Open

\* The statements that were closed still are, and one that is not is a call's.
LEMMA OpenersKept ==
    ASSUME NEW s, NEW r, Longer(s, r), NEW fs, NEW i \in 1..Len(s), Nested(s, fs),
           r[i] \in S!Openers
    PROVE  S!Closed(r, i) \/ \E k \in 1..Len(fs) : fs[k].tok = i
<1>1. s[i] \in S!Openers
  BY DEF Longer
<1>2. S!Closed(s, i) \/ \E k \in 1..Len(fs) : fs[k].tok = i
  BY <1>1 DEF Nested
<1> QED
  BY <1>2, ClosedKept

\* The innermost call is the deepest.
LEMMA InnermostDeepest ==
    ASSUME NEW s \in Seq(Tokens), NEW fs \in Seq(FrameType), Nested(s, fs),
           NEW k \in 1..Len(fs)
    PROVE  /\ fs[k].tok \in 1..Len(s)
           /\ S!Depth(s, fs[k].tok) \in Int
           /\ S!Depth(s, Len(s)) >= S!Depth(s, fs[k].tok)
<1>1. Open(s, fs, k) /\ Len(s) \in Nat
  BY DEF Nested
<1>2. fs[k].tok \in 1..Len(s)
  BY <1>1 DEF Open
<1>3. Len(s) \in fs[k].tok..Len(s) /\ fs[k].tok \in Nat
  BY <1>1, <1>2
<1> QED
  BY <1>1, <1>2, <1>3, DepthInt DEF Open

\* A statement without a body leaves the calls as they are.
LEMMA NestedSimple ==
    ASSUME NEW s, NEW r, Longer(s, r), NEW fs \in Seq(FrameType),
           NEW gs \in Seq(FrameType), fs # <<>>, Nested(s, fs), Len(gs) = Len(fs),
           \A k \in 1..Len(fs) : SameCall(fs, gs, k),
           r[Len(r)] \in {"stmt", "decl", "return"}
    PROVE  Nested(r, gs)
<1> DEFINE n == Len(s)
           N == Len(fs)
<1>0. N \in Nat /\ Len(gs) \in Nat
  OBVIOUS
<1>1. /\ n \in Nat /\ Len(r) = n + 1 /\ s \in Seq(Tokens)
      /\ S!Depth(r, Len(r)) = S!Depth(s, n) + Turn(r[Len(r)])
      /\ \A i \in 0..n : S!Depth(s, i) \in Int /\ S!Depth(r, i) = S!Depth(s, i)
  BY DepthLast DEF Longer
<1>2. Turn(r[Len(r)]) = 0
  BY DEF Turn, S!Openers
<1>3. n \in 0..n /\ S!Depth(r, Len(r)) = S!Depth(s, n)
  BY <1>1, <1>2
<1>4. ASSUME NEW k \in 1..Len(fs) PROVE Open(r, gs, k)
  <2>1. S!Depth(r, Len(r)) >= S!Depth(s, fs[k].tok)
    BY <1>1, <1>3, InnermostDeepest
  <2>2. Open(s, fs, k)
    BY DEF Nested
  <2>3. k <= Len(gs) /\ \A m \in 1..k : SameCall(fs, gs, m)
    BY <1>0
  <2>4. k < Len(fs) /\ fs[k + 1].kind = "else" => k < Len(gs) /\ SameCall(fs, gs, k + 1)
    BY <1>0
  <2>5. fs[k].kind = "then" /\ r[Len(r)] = "else" /\ S!Depth(r, Len(r)) = S!Depth(s, fs[k].tok)
           => k < Len(gs) /\ gs[k + 1].kind = "else" /\ gs[k + 1].tok = Len(r)
    OBVIOUS
  <2> QED
    BY <2>1, <2>2, <2>3, <2>4, <2>5, OpenKept, Zenon
<1>5. S!Depth(r, Len(r)) = S!Depth(r, gs[N].tok)
  <2>1. N \in 1..N /\ gs[N].tok = fs[N].tok
    BY DEF SameCall
  <2>2. fs[N].tok \in 1..n
    BY <1>1, <2>1, InnermostDeepest
  <2> QED
    BY <1>1, <1>3, <2>1, <2>2 DEF Nested
<1>6. ASSUME NEW i \in 1..Len(r), r[i] \in S!Openers
      PROVE  S!Closed(r, i) \/ \E k \in 1..Len(gs) : gs[k].tok = i
  <2>1. i # Len(r)
    BY <1>6 DEF S!Openers
  <2>2. i \in 1..n
    BY <1>1, <2>1
  <2>3. S!Closed(r, i) \/ \E k \in 1..N : fs[k].tok = i
    BY <1>6, <2>2, OpenersKept
  <2> QED
    BY <2>3 DEF SameCall
<1> QED
  BY <1>4, <1>5, <1>6 DEF Nested

\* A compound statement begins a call.
LEMMA NestedPush ==
    ASSUME NEW s, NEW r, Longer(s, r), NEW fs \in Seq(FrameType),
           NEW gs \in Seq(FrameType), Nested(s, fs),
           Len(gs) = Len(fs) + 1,
           \A k \in 1..Len(fs) : SameCall(fs, gs, k),
           gs[Len(gs)].tok = Len(r), gs[Len(gs)].kind # "else",
           TokenOf(gs[Len(gs)].kind) = r[Len(r)], r[Len(r)] \in S!Openers
    PROVE  Nested(r, gs)
<1> DEFINE n == Len(s)
           N == Len(fs)
<1>0. N \in Nat /\ Len(gs) \in Nat
  OBVIOUS
<1>1. /\ n \in Nat /\ Len(r) = n + 1 /\ s \in Seq(Tokens)
      /\ S!Depth(r, Len(r)) = S!Depth(s, n) + Turn(r[Len(r)])
      /\ \A i \in 0..n : S!Depth(s, i) \in Int /\ S!Depth(r, i) = S!Depth(s, i)
  BY DepthLast DEF Longer
<1>2. Turn(r[Len(r)]) = 1 /\ r[Len(r)] # "else"
  BY DEF Turn, S!Openers
<1>3. n \in 0..n /\ S!Depth(r, Len(r)) = S!Depth(s, n) + 1
  BY <1>1, <1>2
<1>4. ASSUME NEW k \in 1..Len(fs) PROVE Open(r, gs, k)
  <2>1. S!Depth(r, Len(r)) >= S!Depth(s, fs[k].tok)
    <3>1. S!Depth(s, fs[k].tok) \in Int /\ S!Depth(s, n) >= S!Depth(s, fs[k].tok)
      BY <1>1, InnermostDeepest
    <3>2. S!Depth(s, n) \in Int
      BY <1>1, <1>3
    <3> QED
      BY <1>3, <3>1, <3>2
  <2>2. Open(s, fs, k)
    BY DEF Nested
  <2>3. k <= Len(gs) /\ \A m \in 1..k : SameCall(fs, gs, m)
    BY <1>0
  <2>4. k < Len(fs) /\ fs[k + 1].kind = "else" => k < Len(gs) /\ SameCall(fs, gs, k + 1)
    BY <1>0
  <2>5. fs[k].kind = "then" /\ r[Len(r)] = "else" /\ S!Depth(r, Len(r)) = S!Depth(s, fs[k].tok)
           => k < Len(gs) /\ gs[k + 1].kind = "else" /\ gs[k + 1].tok = Len(r)
    BY <1>2
  <2> QED
    BY <2>1, <2>2, <2>3, <2>4, <2>5, OpenKept, Zenon
<1>5. Open(r, gs, N + 1)
  <2> DEFINE f == gs[N + 1]
  <2>1. f.tok = n + 1 /\ f.kind # "else" /\ r[n + 1] = TokenOf(f.kind)
    BY <1>1
  <2>2. \A m \in 1..N : gs[m].tok \in 1..n
    BY <1>1, InnermostDeepest DEF SameCall
  <2>3. N > 0 => S!Depth(r, n + 1) = S!Depth(r, gs[N].tok) + 1
    <3> SUFFICES ASSUME N > 0 PROVE S!Depth(r, n + 1) = S!Depth(r, gs[N].tok) + 1
      OBVIOUS
    <3>1. N \in 1..N /\ gs[N].tok = fs[N].tok /\ fs # <<>>
      BY DEF SameCall
    <3>2. fs[N].tok \in 1..n
      BY <2>2, <3>1
    <3>3. S!Depth(s, n) = S!Depth(s, fs[N].tok)
      BY <3>1 DEF Nested
    <3> QED
      BY <1>1, <1>3, <3>1, <3>2, <3>3
  <2>4. \A j \in f.tok..Len(r) : j = f.tok /\ r[j] # "else" /\ S!Depth(r, j) \in Int
    <3> SUFFICES ASSUME NEW j \in f.tok..Len(r)
                 PROVE  j = f.tok /\ r[j] # "else" /\ S!Depth(r, j) \in Int
      OBVIOUS
    <3>1. j = n + 1 /\ j \in Nat /\ j = Len(r)
      BY <1>1, <2>1
    <3> QED
      BY <1>2, <2>1, <3>1, DepthInt
  <2>5. f.tok \in 1..Len(r) /\ \A m \in 1..((N + 1) - 1) : gs[m].tok \in 1..(f.tok - 1)
    BY <1>1, <2>1, <2>2
  <2>6. N + 1 > 1 => S!Depth(r, f.tok)
                      = S!Depth(r, gs[(N + 1) - 1].tok) + (IF f.kind = "else" THEN 0 ELSE 1)
    BY <2>1, <2>3
  <2>7. \A j \in f.tok..Len(r) : S!Depth(r, j) >= S!Depth(r, f.tok)
    BY <2>4
  <2> QED
    <3> HIDE DEF f, N, n
    <3>1. /\ f.tok \in 1..Len(r) /\ r[f.tok] = TokenOf(f.kind)
          /\ \A j \in f.tok..Len(r) : S!Depth(r, j) >= S!Depth(r, f.tok) /\ r[j] # "else"
      BY <2>1, <2>4, <2>5, <2>7
    <3> QED
      BY <2>5, <2>6, <3>1 DEF Open, f
<1>6. \A k \in 1..Len(gs) : k \in 1..N \/ k = N + 1
  OBVIOUS
<1>7. ASSUME NEW i \in 1..Len(r), r[i] \in S!Openers
      PROVE  S!Closed(r, i) \/ \E k \in 1..Len(gs) : gs[k].tok = i
  <2>1. CASE i = Len(r)
    BY <2>1
  <2>2. CASE i # Len(r)
    <3>1. i \in 1..n
      BY <1>1, <2>2
    <3>2. S!Closed(r, i) \/ \E k \in 1..N : fs[k].tok = i
      BY <1>7, <3>1, OpenersKept
    <3> QED
      BY <3>2 DEF SameCall
  <2> QED
    BY <2>1, <2>2
<1> QED
  BY <1>1, <1>4, <1>5, <1>6, <1>7 DEF Nested

\* A statement opened inside a body is deeper than the body.
LEMMA OpenerInside ==
    ASSUME NEW s \in Seq(Tokens), NEW fs, NEW k, Open(s, fs, k),
           NEW i \in (fs[k].tok + 1)..Len(s), s[i] \in S!Openers
    PROVE  S!Depth(s, i) > S!Depth(s, fs[k].tok)
<1>1. fs[k].tok \in 1..Len(s) /\ Len(s) \in Nat
  BY DEF Open
<1>2. i - 1 \in fs[k].tok..Len(s) /\ i - 1 \in Nat /\ (i - 1) + 1 = i /\ fs[k].tok \in Nat
  BY <1>1
<1>3. S!Depth(s, i - 1) >= S!Depth(s, fs[k].tok)
  BY <1>2 DEF Open
<1>4. S!Depth(s, i) = S!Depth(s, i - 1) + 1 /\ S!Depth(s, i - 1) \in Int
  <2>1. S!Depth(s, (i - 1) + 1) = S!Depth(s, i - 1) + Turn(s[(i - 1) + 1])
    BY <1>2, DepthStep
  <2>2. Turn(s[i]) = 1
    BY DEF Turn
  <2> QED
    BY <1>2, <2>1, <2>2, DepthInt
<1>5. S!Depth(s, fs[k].tok) \in Int
  BY <1>2, DepthInt
<1> QED
  BY <1>3, <1>4, <1>5

\* The calls further out are less deep, but for the then branch an else belongs to.
LEMMA OuterShallower ==
    ASSUME NEW s \in Seq(Tokens), NEW fs \in Seq(FrameType), Nested(s, fs),
           NEW m \in 1..Len(fs), fs[m].kind \in Kinds \ {"else"}, NEW k \in 1..(m - 1)
    PROVE  S!Depth(s, fs[m].tok) > S!Depth(s, fs[k].tok)
<1>1. Open(s, fs, m) /\ Open(s, fs, k)
  BY DEF Nested
<1>2. fs[k].tok \in 1..(fs[m].tok - 1) /\ fs[m].tok \in 1..Len(s)
  BY <1>1 DEF Open
<1>3. s[fs[m].tok] \in S!Openers
  <2>1. s[fs[m].tok] = TokenOf(fs[m].kind)
    BY <1>1 DEF Open
  <2> QED
    BY <2>1 DEF TokenOf, Kinds, S!Openers
<1>4. fs[m].tok \in (fs[k].tok + 1)..Len(s)
  BY <1>2
<1> QED
  BY <1>1, <1>3, <1>4, OpenerInside

\* The else branch joins its then branch.
LEMMA NestedElse ==
    ASSUME NEW s, NEW r, Longer(s, r), NEW fs \in Seq(FrameType),
           NEW gs \in Seq(FrameType), fs # <<>>, Nested(s, fs), Len(gs) = Len(fs) + 1,
           \A k \in 1..Len(fs) : SameCall(fs, gs, k),
           fs[Len(fs)].kind = "then",
           gs[Len(gs)].tok = Len(r), gs[Len(gs)].kind = "else", r[Len(r)] = "else"
    PROVE  Nested(r, gs)
<1> DEFINE n == Len(s)
           N == Len(fs)
<1>0. N \in Nat \ {0} /\ Len(gs) \in Nat /\ N \in 1..N
  OBVIOUS
<1>1. /\ n \in Nat /\ Len(r) = n + 1 /\ s \in Seq(Tokens)
      /\ S!Depth(r, Len(r)) = S!Depth(s, n) + Turn(r[Len(r)])
      /\ \A i \in 0..n : S!Depth(s, i) \in Int /\ S!Depth(r, i) = S!Depth(s, i)
  BY DepthLast DEF Longer
<1>2. Turn(r[Len(r)]) = 0
  BY DEF Turn, S!Openers
<1>3. n \in 0..n /\ S!Depth(r, Len(r)) = S!Depth(s, n) /\ S!Depth(s, n) \in Int
  BY <1>1, <1>2
<1>4. fs[N].tok \in 1..n /\ S!Depth(s, n) = S!Depth(s, fs[N].tok)
  BY <1>0, <1>1, InnermostDeepest DEF Nested
<1>5. ASSUME NEW k \in 1..Len(fs) PROVE Open(r, gs, k)
  <2>1. S!Depth(r, Len(r)) >= S!Depth(s, fs[k].tok)
    BY <1>1, <1>3, InnermostDeepest
  <2>2. Open(s, fs, k)
    BY DEF Nested
  <2>3. k <= Len(gs) /\ \A m \in 1..k : SameCall(fs, gs, m)
    BY <1>0
  <2>4. k < Len(fs) /\ fs[k + 1].kind = "else" => k < Len(gs) /\ SameCall(fs, gs, k + 1)
    BY <1>0
  <2>5. fs[k].kind = "then" /\ r[Len(r)] = "else" /\ S!Depth(r, Len(r)) = S!Depth(s, fs[k].tok)
           => k < Len(gs) /\ gs[k + 1].kind = "else" /\ gs[k + 1].tok = Len(r)
    <3>1. CASE k = N
      BY <1>0, <3>1
    <3>2. CASE k # N
      <4>1. k \in 1..(N - 1)
        BY <1>0, <3>2
      <4>2. S!Depth(s, fs[N].tok) > S!Depth(s, fs[k].tok)
        <5>1. fs[N].kind \in Kinds \ {"else"}
          BY DEF Kinds
        <5> HIDE DEF n
        <5> QED
          BY <1>0, <1>1, <4>1, <5>1, OuterShallower
      <4>3. S!Depth(s, fs[k].tok) \in Int
        BY <1>1, InnermostDeepest
      <4> QED
        BY <1>3, <1>4, <4>2, <4>3
    <3> QED
      BY <3>1, <3>2
  <2> QED
    BY <2>1, <2>2, <2>3, <2>4, <2>5, OpenKept, Zenon
<1>6. Open(r, gs, N + 1)
  <2> DEFINE f == gs[N + 1]
  <2>1. f.tok = n + 1 /\ f.kind = "else" /\ r[n + 1] = TokenOf(f.kind)
    BY <1>1 DEF TokenOf
  <2>2. \A m \in 1..N : gs[m].tok \in 1..n
    BY <1>1, InnermostDeepest DEF SameCall
  <2>3. S!Depth(r, n + 1) = S!Depth(r, gs[N].tok)
    <3>1. gs[N].tok = fs[N].tok
      BY <1>0 DEF SameCall
    <3> QED
      BY <1>1, <1>3, <1>4, <3>1
  <2>4. \A j \in f.tok..Len(r) : j = f.tok /\ S!Depth(r, j) \in Int
    <3> SUFFICES ASSUME NEW j \in f.tok..Len(r)
                 PROVE  j = f.tok /\ S!Depth(r, j) \in Int
      OBVIOUS
    <3>1. j = n + 1 /\ j \in Nat /\ j = Len(r)
      BY <1>1, <2>1
    <3> QED
      BY <2>1, <3>1, DepthInt
  <2>5. f.tok \in 1..Len(r) /\ \A m \in 1..((N + 1) - 1) : gs[m].tok \in 1..(f.tok - 1)
    BY <1>0, <1>1, <2>1, <2>2
  <2>6. S!Depth(r, f.tok)
          = S!Depth(r, gs[(N + 1) - 1].tok) + (IF f.kind = "else" THEN 0 ELSE 1)
    <3>1. (N + 1) - 1 = N /\ S!Depth(r, f.tok) \in Int
      BY <1>0, <1>1, <2>1, DepthInt
    <3> QED
      BY <2>1, <2>3, <3>1
  <2>7. \A j \in f.tok..Len(r) : S!Depth(r, j) >= S!Depth(r, f.tok)
    BY <2>4
  <2> HIDE DEF f, N, n
  <2>8. f.tok \in 1..Len(r) /\ r[f.tok] = TokenOf(f.kind) /\ f.kind # "then"
    BY <2>1, <2>5
  <2> QED
    BY <2>5, <2>6, <2>7, <2>8 DEF Open, f
<1>7. \A k \in 1..Len(gs) : k \in 1..N \/ k = N + 1
  OBVIOUS
<1>8. ASSUME NEW i \in 1..Len(r), r[i] \in S!Openers
      PROVE  S!Closed(r, i) \/ \E k \in 1..Len(gs) : gs[k].tok = i
  <2>1. i # Len(r)
    BY <1>8 DEF S!Openers
  <2>2. i \in 1..n
    BY <1>1, <2>1
  <2>3. S!Closed(r, i) \/ \E k \in 1..N : fs[k].tok = i
    BY <1>8, <2>2, OpenersKept
  <2> QED
    BY <2>3 DEF SameCall
<1> QED
  BY <1>1, <1>5, <1>6, <1>7, <1>8 DEF Nested

\* The call that "end" closes: the innermost, or the then branch under its else.
Closes(fs, m) ==
    /\ m \in 1..Len(fs) /\ fs[m].kind \in Kinds \ {"else"}
    /\ \/ m = Len(fs)
       \/ m = Len(fs) - 1 /\ fs[m].kind = "then" /\ fs[Len(fs)].kind = "else"

\* The source of the call that is closed is as deep as the innermost.
LEMMA ClosesDepth ==
    ASSUME NEW s \in Seq(Tokens), NEW fs \in Seq(FrameType), Nested(s, fs),
           NEW m, Closes(fs, m)
    PROVE  /\ Open(s, fs, m) /\ fs[m].tok \in 1..Len(s)
           /\ s[fs[m].tok] = TokenOf(fs[m].kind) /\ s[fs[m].tok] \in S!Openers
           /\ S!Depth(s, Len(s)) = S!Depth(s, fs[m].tok)
           /\ S!Depth(s, Len(s)) \in Int
<1>1. m \in 1..Len(fs) /\ Len(fs) \in Nat /\ fs # <<>> /\ Len(s) \in Nat
  BY DEF Closes
<1>2. Open(s, fs, m) /\ Open(s, fs, Len(fs))
  BY <1>1 DEF Nested
<1>3. fs[m].tok \in 1..Len(s) /\ s[fs[m].tok] = TokenOf(fs[m].kind)
  BY <1>2 DEF Open
<1>4. S!Depth(s, Len(s)) = S!Depth(s, fs[Len(fs)].tok)
  BY <1>1 DEF Nested
<1>5. S!Depth(s, fs[m].tok) \in Int
  BY <1>3, DepthInt
<1>6. S!Depth(s, Len(s)) = S!Depth(s, fs[m].tok)
  <2>1. CASE m = Len(fs)
    BY <1>4, <2>1
  <2>2. CASE m = Len(fs) - 1 /\ fs[Len(fs)].kind = "else"
    <3>1. S!Depth(s, fs[Len(fs)].tok) = S!Depth(s, fs[Len(fs) - 1].tok) + 0
      BY <1>1, <1>2, <2>2 DEF Open
    <3> QED
      BY <1>4, <1>5, <2>2, <3>1
  <2> QED
    BY <2>1, <2>2 DEF Closes
<1>7. s[fs[m].tok] \in S!Openers
  BY <1>3 DEF Closes, TokenOf, Kinds, S!Openers
<1> QED
  BY <1>2, <1>3, <1>5, <1>6, <1>7

\* The "end" that is read belongs to the statement of call m.
Shuts(r, fs, m) ==
    LET p == fs[m].tok
    IN  /\ p \in 1..(Len(r) - 1) /\ r[p] = TokenOf(fs[m].kind)
        /\ S!Closed(r, p) /\ S!EndOf(r, p) = Len(r) /\ S!OpenerOf(r, Len(r)) = p
        /\ fs[m].kind = "then" =>
              S!ElsesOf(r, p) = IF m = Len(fs) THEN {} ELSE {fs[Len(fs)].tok}

\* An "end" closes the compound statement of the innermost call, or that of the
\* condition around it if that call is an else branch, and its else is the one read.
LEMMA EndCloses ==
    ASSUME NEW s, NEW r, Longer(s, r), r[Len(r)] = "end", NEW fs \in Seq(FrameType),
           Nested(s, fs), NEW m, Closes(fs, m)
    PROVE  Shuts(r, fs, m)
<1> DEFINE n == Len(s)
           p == fs[m].tok
           D == S!Depth(s, n)
<1>1. /\ n \in Nat /\ Len(r) = n + 1 /\ s \in Seq(Tokens)
      /\ S!Depth(r, Len(r)) = S!Depth(s, n) + Turn(r[Len(r)])
      /\ \A i \in 0..n : S!Depth(s, i) \in Int /\ S!Depth(r, i) = S!Depth(s, i)
  BY DepthLast DEF Longer
<1>2. Turn(r[Len(r)]) = -1
  BY DEF Turn, S!Openers
<1>3. /\ Open(s, fs, m) /\ p \in 1..n /\ s[p] \in S!Openers
      /\ S!Depth(s, p) = D /\ D \in Int
  BY <1>1, ClosesDepth
<1>4. S!Depth(r, n + 1) = D - 1
  BY <1>1, <1>2, <1>3
<1>5. \A j \in 1..n : r[j] = s[j] /\ S!Depth(r, j) = S!Depth(s, j) /\ S!Depth(s, j) \in Int
  BY <1>1 DEF Longer
<1>6. ASSUME NEW j \in p..n PROVE S!Depth(r, j) >= D
  <2>1. j \in 1..n
    BY <1>3
  <2>2. S!Depth(s, j) >= S!Depth(s, p)
    BY <1>3 DEF Open
  <2> QED
    BY <1>3, <1>5, <2>1, <2>2
<1>7. S!Depth(r, p) = D /\ r[p] = s[p]
  BY <1>3, <1>5
<1>8. S!Closings(r, p) = {n + 1}
  <2>1. n + 1 \in S!Closings(r, p)
    BY <1>1, <1>3, <1>4, <1>7 DEF S!Closings
  <2>2. ASSUME NEW j \in S!Closings(r, p) PROVE j = n + 1
    <3>1. j \in (p + 1)..(n + 1) /\ S!Depth(r, j) = D - 1
      BY <1>1, <1>7 DEF S!Closings
    <3>2. j \in p..n => FALSE
      BY <1>3, <1>5, <1>6, <3>1
    <3> QED
      BY <1>1, <1>3, <3>1, <3>2
  <2> QED
    BY <2>1, <2>2
<1>9. S!Closed(r, p) /\ S!EndOf(r, p) = n + 1
  <2>1. {n + 1} \in SUBSET Nat /\ n + 1 \in {n + 1} /\ \A x \in {n + 1} : n + 1 <= x
    BY <1>1
  <2>2. S!Min({n + 1}) = n + 1
    BY <2>1, LeastIs
  <2> QED
    BY <1>8, <2>2 DEF S!Closed, S!EndOf
<1>10. S!OpenerOf(r, n + 1) = p
  <2> DEFINE A == {i \in 1..((n + 1) - 1) : r[i] \in S!Openers /\ S!Depth(r, i) = D}
  <2>1. S!Depth(r, n + 1) + 1 = D /\ r[n + 1] = "end"
    BY <1>1, <1>3, <1>4
  <2>2. S!OpenerOf(r, n + 1) = S!Max(A)
    BY <2>1 DEF S!OpenerOf
  <2>3. p \in A
    BY <1>1, <1>3, <1>7
  <2>4. ASSUME NEW i \in A PROVE i <= p
    <3> SUFFICES ASSUME i > p PROVE FALSE
      BY <1>3
    <3>1. i \in (p + 1)..n /\ i \in 1..n
      BY <1>1, <1>3
    <3>2. s[i] \in S!Openers /\ S!Depth(s, i) = D
      BY <1>5, <3>1
    <3>3. S!Depth(s, i) > S!Depth(s, p)
      BY <1>1, <1>3, <3>1, <3>2, OpenerInside
    <3> QED
      BY <1>3, <3>2, <3>3
  <2>5. A \in SUBSET Nat
    OBVIOUS
  <2> HIDE DEF A
  <2> QED
    BY <2>2, <2>3, <2>4, <2>5, GreatestIs
<1>11. ASSUME fs[m].kind = "then"
       PROVE  S!ElsesOf(r, p) = IF m = Len(fs) THEN {} ELSE {fs[Len(fs)].tok}
  <2>1. S!ElsesOf(r, p) = {j \in (p + 1)..(n + 1) : r[j] = "else" /\ S!Depth(r, j) = D}
    BY <1>7, <1>9 DEF S!ElsesOf
  <2>2. ASSUME NEW j \in S!ElsesOf(r, p)
        PROVE  m < Len(fs) /\ fs[m + 1].tok = j
    <3>1. j \in (p + 1)..(n + 1) /\ r[j] = "else" /\ S!Depth(r, j) = D
      BY <2>1
    <3>2. j # n + 1
      BY <1>1, <3>1
    <3>3. j \in p..n /\ j \in 1..n
      BY <1>1, <1>3, <3>1, <3>2
    <3>4. s[j] = "else" /\ S!Depth(s, j) = S!Depth(s, p)
      BY <1>3, <1>5, <3>1, <3>3
    <3> HIDE DEF n, D
    <3> QED
      BY <1>3, <1>11, <3>3, <3>4 DEF Open, n
  <2>3. CASE m = Len(fs)
    BY <2>2, <2>3
  <2>4. CASE m = Len(fs) - 1 /\ fs[Len(fs)].kind = "else"
    <3> DEFINE e == fs[Len(fs)].tok
    <3>1. m + 1 = Len(fs) /\ Len(fs) \in 1..Len(fs) /\ Len(fs) > 1 /\ m # Len(fs)
      BY <2>4 DEF Closes
    <3>2. Open(s, fs, Len(fs))
      BY <3>1 DEF Nested
    <3>3. /\ e \in 1..n /\ s[e] = "else" /\ p \in 1..(e - 1)
          /\ S!Depth(s, e) = S!Depth(s, p) + 0
      <4>1. m \in 1..(Len(fs) - 1) /\ Len(fs) - 1 = m
        BY <2>4, <3>1 DEF Closes
      <4> QED
        BY <2>4, <3>1, <3>2, <4>1 DEF Open, TokenOf
    <3>4. e \in (p + 1)..(n + 1) /\ r[e] = "else" /\ S!Depth(r, e) = D
      BY <1>1, <1>3, <1>5, <3>3
    <3> HIDE DEF e, n, D, p
    <3> QED
      BY <2>1, <2>2, <3>1, <3>4 DEF e
  <2> QED
    BY <2>3, <2>4 DEF Closes
<1>12. p \in 1..(Len(r) - 1) /\ r[p] = TokenOf(fs[m].kind)
  BY <1>1, ClosesDepth DEF Longer
<1> QED
  BY <1>1, <1>9, <1>10, <1>11, <1>12 DEF Shuts

\* Closing a call leaves those around it open.
LEMMA NestedPop ==
    ASSUME NEW s, NEW r, Longer(s, r), r[Len(r)] = "end", NEW fs \in Seq(FrameType),
           NEW gs \in Seq(FrameType), Nested(s, fs), NEW m, Closes(fs, m),
           Len(gs) = m - 1, \A k \in 1..(m - 1) : SameCall(fs, gs, k)
    PROVE  Nested(r, gs)
<1> DEFINE n == Len(s)
<1>0. m \in 1..Len(fs) /\ Len(fs) \in Nat /\ fs[m].kind # "else"
  BY DEF Closes
<1>1. /\ n \in Nat /\ Len(r) = n + 1 /\ s \in Seq(Tokens)
      /\ S!Depth(r, Len(r)) = S!Depth(s, n) + Turn(r[Len(r)])
      /\ \A i \in 0..n : S!Depth(s, i) \in Int /\ S!Depth(r, i) = S!Depth(s, i)
  BY DepthLast DEF Longer
<1>2. Turn(r[Len(r)]) = -1
  BY DEF Turn, S!Openers
<1>3. /\ Open(s, fs, m) /\ S!Depth(s, n) = S!Depth(s, fs[m].tok) /\ S!Depth(s, n) \in Int
      /\ fs[m].tok \in 1..n
  BY <1>1, ClosesDepth
<1>4. S!Closed(r, fs[m].tok)
  BY EndCloses DEF Shuts
<1>5. ASSUME m > 1
      PROVE  /\ S!Depth(r, Len(r)) = S!Depth(s, fs[m - 1].tok)
             /\ fs[m - 1].tok \in 1..n /\ S!Depth(s, fs[m - 1].tok) \in Int
  <2>1. m - 1 \in 1..(m - 1) /\ m - 1 \in 1..Len(fs)
    BY <1>0, <1>5
  <2>2. S!Depth(s, fs[m].tok) = S!Depth(s, fs[m - 1].tok) + 1
    BY <1>0, <1>3, <1>5 DEF Open
  <2>3. fs[m - 1].tok \in 1..n /\ S!Depth(s, fs[m - 1].tok) \in Int
    BY <1>1, <2>1, InnermostDeepest
  <2> QED
    BY <1>1, <1>2, <1>3, <2>2, <2>3
<1>6. ASSUME NEW k \in 1..(m - 1) PROVE Open(r, gs, k)
  <2>1. k \in 1..Len(fs) /\ m > 1 /\ k <= Len(gs)
    BY <1>0
  <2>2. Open(s, fs, k) /\ Open(s, fs, m - 1)
    BY <1>0, <2>1 DEF Nested
  <2>3. S!Depth(s, fs[m - 1].tok) >= S!Depth(s, fs[k].tok)
    <3>1. CASE k = m - 1
      BY <1>5, <2>1, <3>1
    <3>2. CASE k # m - 1
      <4>1. k \in 1..((m - 1) - 1)
        BY <1>0, <3>2
      <4>2. fs[k].tok \in 1..(fs[m - 1].tok - 1)
        BY <2>2, <4>1 DEF Open
      <4>3. fs[m - 1].tok \in fs[k].tok..n
        BY <1>5, <2>1, <4>2
      <4> QED
        BY <2>2, <4>3 DEF Open
    <3> QED
      BY <3>1, <3>2
  <2>4. S!Depth(r, Len(r)) >= S!Depth(s, fs[k].tok)
    BY <1>5, <2>1, <2>3
  <2>5. \A j \in 1..k : SameCall(fs, gs, j)
    BY <1>0
  <2>6. k < Len(fs) /\ fs[k + 1].kind = "else" => k < Len(gs) /\ SameCall(fs, gs, k + 1)
    <3>1. k + 1 # m => k < Len(gs) /\ k + 1 \in 1..(m - 1)
      BY <1>0
    <3> QED
      BY <1>0, <3>1
  <2>7. fs[k].kind = "then" /\ r[Len(r)] = "else" /\ S!Depth(r, Len(r)) = S!Depth(s, fs[k].tok)
           => k < Len(gs) /\ gs[k + 1].kind = "else" /\ gs[k + 1].tok = Len(r)
    OBVIOUS
  <2> QED
    BY <2>1, <2>2, <2>4, <2>5, <2>6, <2>7, OpenKept, Zenon
<1>7. ASSUME gs # <<>> PROVE S!Depth(r, Len(r)) = S!Depth(r, gs[Len(gs)].tok)
  <2>1. Len(gs) = m - 1 /\ m > 1 /\ m - 1 \in 1..(m - 1)
    BY <1>0, <1>7
  <2>2. gs[Len(gs)].tok = fs[m - 1].tok
    BY <2>1 DEF SameCall
  <2> QED
    BY <1>1, <1>5, <2>1, <2>2
<1>8. ASSUME NEW i \in 1..Len(r), r[i] \in S!Openers
      PROVE  S!Closed(r, i) \/ \E k \in 1..Len(gs) : gs[k].tok = i
  <2>1. i # Len(r)
    BY <1>8 DEF S!Openers
  <2>2. i \in 1..n
    BY <1>1, <2>1
  <2>3. CASE \E k \in 1..Len(fs) : fs[k].tok = i
    <3>1. PICK k \in 1..Len(fs) : fs[k].tok = i
      BY <2>3
    <3>2. CASE k < m
      <4>1. k \in 1..(m - 1) /\ k \in 1..Len(gs)
        BY <1>0, <3>2
      <4>2. gs[k].tok = i
        BY <3>1, <4>1 DEF SameCall
      <4> QED
        BY <4>1, <4>2
    <3>3. CASE k = m
      BY <1>4, <3>1, <3>3
    <3>4. CASE k > m
      <4>1. k = Len(fs) /\ fs[k].kind = "else"
        BY <1>0, <3>4 DEF Closes
      <4>2. s[i] = "else"
        BY <3>1, <4>1 DEF Nested, Open, TokenOf
      <4>3. r[i] = "else"
        BY <2>2, <4>2 DEF Longer
      <4> QED
        BY <1>8, <4>3 DEF S!Openers
    <3> QED
      BY <1>0, <3>2, <3>3, <3>4
  <2>4. CASE S!Closed(r, i)
    BY <2>4
  <2> QED
    BY <1>8, <2>2, <2>3, <2>4, OpenersKept
<1> QED
  BY <1>6, <1>7, <1>8 DEF Nested

\* The else of the innermost call belongs to the then branch under it.
LEMMA ElseOpens ==
    ASSUME NEW s \in Seq(Tokens), NEW fs \in Seq(FrameType), Nested(s, fs), Len(fs) > 1,
           fs[Len(fs)].kind = "else", fs[Len(fs) - 1].kind = "then"
    PROVE  LET e == fs[Len(fs)].tok
               p == fs[Len(fs) - 1].tok
           IN  /\ e \in 1..Len(s) /\ p \in 1..(e - 1) /\ s[e] = "else" /\ s[p] = "if"
               /\ S!OpenerOf(s, e) = p
<1> DEFINE N == Len(fs)
           e == fs[N].tok
           p == fs[N - 1].tok
<1>1. N \in Nat /\ N \in 1..N /\ N - 1 \in 1..(N - 1) /\ N - 1 \in 1..N /\ Len(s) \in Nat
  OBVIOUS
<1>2. Open(s, fs, N) /\ Open(s, fs, N - 1)
  BY <1>1 DEF Nested
<1>3. e \in 1..Len(s) /\ s[e] = "else" /\ p \in 1..(e - 1)
  BY <1>1, <1>2 DEF Open, TokenOf
<1>4. s[p] = "if"
  BY <1>2 DEF Open, TokenOf
<1>5. S!Depth(s, p) \in Int
  BY <1>3, DepthInt
<1>6. S!Depth(s, e) = S!Depth(s, p)
  <2>1. S!Depth(s, e) = S!Depth(s, fs[N - 1].tok) + 0
    BY <1>1, <1>2 DEF Open
  <2> QED
    BY <1>5, <2>1
<1> DEFINE A == {i \in 1..(e - 1) : s[i] \in S!Openers /\ S!Depth(s, i) = S!Depth(s, e)}
<1>7. S!OpenerOf(s, e) = S!Max(A)
  BY <1>3 DEF S!OpenerOf
<1>8. p \in A
  BY <1>3, <1>4, <1>6 DEF S!Openers
<1>9. ASSUME NEW i \in A PROVE i <= p
  <2> SUFFICES ASSUME i > p PROVE FALSE
    BY <1>3
  <2>1. i \in (fs[N - 1].tok + 1)..Len(s) /\ s[i] \in S!Openers /\ S!Depth(s, i) = S!Depth(s, p)
    BY <1>1, <1>3, <1>6
  <2> HIDE DEF N, A
  <2>2. S!Depth(s, i) > S!Depth(s, fs[N - 1].tok)
    BY <1>2, <2>1, OpenerInside
  <2> QED
    BY <1>5, <2>1, <2>2
<1>10. A \in SUBSET Nat
  OBVIOUS
<1> HIDE DEF A
<1>11. S!OpenerOf(s, e) = p
  BY <1>7, <1>8, <1>9, <1>10, GreatestIs
<1> QED
  BY <1>3, <1>4, <1>11

-----------------------------------------------------------------------------
(* How the generated blocks follow the source.  st[b] is the position from  *)
(* which control gets to the statements of block b; it is chosen when the   *)
(* block is created.                                                        *)

Simples == {"func", "stmt", "decl"}

\* Control that has run the statement at p goes on within the block to q.
Follows(s, p, q) ==
    p = q \/ (p \in 1..Len(s) /\ s[p] \in Simples /\ Reaches(s, p + 1, q))

\* An instruction of the statement at p suits the end of a block that starts at e.
Ready(s, c, e, p) ==
    IF c = <<>> THEN Reaches(s, e, p) ELSE Follows(s, c[Len(c)].at, p)

\* The statements from the end of the block up to q are functions.
Arrives(s, c, e, q) ==
    IF c = <<>> THEN Passed(s, e, q)
    ELSE LET p == c[Len(c)].at
         IN  /\ p \in 1..Len(s)
             /\ \/ p = q /\ s[q] # "func"
                \/ s[p] \in Simples /\ Passed(s, p + 1, q)

\* A block begins with what control gets to, or, if it is the body of a function with
\* parameters, with the declaration.
Heads(s, c, e) ==
    c # <<>> => \/ Reaches(s, e, c[1].at)
                \/ c[1].at \in 1..Len(s) /\ s[c[1].at] = "func" /\ c[1].at + 1 = e

\* A branch from the statement at p, with the condition v, to a block.
Enters(s, c, e, p, v) == Lands(s, p, v, e) /\ (c # <<>> => Reaches(s, e, c[1].at))
Leads(s, c, e, p, v) == (c # <<>> /\ c[1].at = p) \/ Enters(s, c, e, p, v)

\* The successors of an instruction are those of its statement.
Linked(s, cs, st, x) ==
    /\ \A j \in 1..Len(x.to) : x.to[j] \in 1..Len(cs)
    /\ x.op = "br" =>
         \A v \in BOOLEAN : Leads(s, cs[x.to[1]], st[x.to[1]], x.at, v)
    /\ x.op = "cbr" =>
         /\ s[x.at] \in {"if", "while"}
         /\ Enters(s, cs[x.to[1]], st[x.to[1]], x.at, TRUE)
         /\ Enters(s, cs[x.to[2]], st[x.to[2]], x.at, FALSE)
    /\ x.op = "ret" => Leaves(s, x.at)

\* "entry" belongs to a declaration, whose end its terminator knows.
Declares(s, x) == x.at \in 1..Len(s) /\ s[x.at] = "func" /\ S!Closed(s, x.at)

BlockFlows(s, cs, o, st, b) ==
    LET c == cs[b]
    IN  /\ \A i \in 1..Len(c) : Linked(s, cs, st, c[i])
        /\ o[b] = b => \A i \in 1..Len(c) : IsTerm(c[i]) => Declares(s, c[i])
        /\ o[b] # b => /\ Heads(s, c, st[b])
                       /\ \A i \in 1..Len(c) : c[i].at \in 1..Len(s)
                       /\ \A i \in 1..(Len(c) - 1) : Follows(s, c[i].at, c[i + 1].at)

\* The blocks of the functions that are not in M.
Flows(s, cs, o, st, M) ==
    /\ Stage(cs, o) /\ st \in Seq(Nat \ {0}) /\ Len(st) = Len(o)
    /\ \A b \in 1..Len(cs) : o[b] \notin M => BlockFlows(s, cs, o, st, b)

\* An instruction x fits block b.
Fits(s, cs, o, st, b, x) ==
    /\ Linked(s, cs, st, x)
    /\ o[b] = b /\ IsTerm(x) => Declares(s, x)
    /\ o[b] # b => x.at \in 1..Len(s) /\ Ready(s, cs[b], st[b], x.at)

\* The first instruction of a block stays the first.
LEMMA AppendFirst ==
    ASSUME NEW c \in Seq(InstrType), NEW x \in InstrType
    PROVE  /\ Append(c, x) \in Seq(InstrType) /\ Append(c, x) # <<>>
           /\ c # <<>> => Append(c, x)[1] = c[1]
           /\ c = <<>> => Append(c, x)[1] = x
<1>1. /\ Len(c) \in Nat /\ Len(Append(c, x)) = Len(c) + 1
      /\ Append(c, x)[Len(c) + 1] = x /\ \A i \in 1..Len(c) : Append(c, x)[i] = c[i]
      /\ c = <<>> <=> Len(c) = 0
      /\ Append(c, x) \in Seq(InstrType)
  OBVIOUS
<1>2. c # <<>> => 1 \in 1..Len(c)
  BY <1>1
<1>3. Len(Append(c, x)) # 0 /\ Append(c, x) # <<>>
  BY <1>1
<1> QED
  BY <1>1, <1>2, <1>3

\* An instruction more in a block only matters to the branches to an empty block.
LEMMA LinkedEmit ==
    ASSUME NEW s, NEW o, NEW st, NEW cs \in Seq(Seq(InstrType)), NEW b \in 1..Len(cs),
           NEW x \in InstrType, NEW fn, NEW y, Targets(y, o, fn),
           o[b] = fn /\ b # fn /\ cs[b] = <<>> => Reaches(s, st[b], x.at),
           Linked(s, cs, st, y)
    PROVE  Linked(s, Emit(cs, b, x), st, y)
<1> DEFINE d == Emit(cs, b, x)
<1>1. /\ Len(d) = Len(cs) /\ Len(cs) \in Nat /\ cs[b] \in Seq(InstrType)
      /\ \A a \in 1..Len(cs) : a # b => d[a] = cs[a]
  BY EmitLemma, ElementOfSeq
<1>2. d[b] = Append(cs[b], x)
  BY DEF Emit
<1>3. /\ d[b] # <<>>
      /\ cs[b] # <<>> => d[b][1] = cs[b][1]
      /\ cs[b] = <<>> => d[b][1] = x
  BY <1>1, <1>2, AppendFirst
<1> HIDE DEF d
<1>4. ASSUME NEW j \in 1..Len(y.to), NEW p, NEW v
      PROVE  LET t == y.to[j]
             IN  /\ Enters(s, cs[t], st[t], p, v) => Enters(s, d[t], st[t], p, v)
                 /\ Leads(s, cs[t], st[t], p, v) => Leads(s, d[t], st[t], p, v)
  <2> DEFINE t == y.to[j]
  <2>1. t \in 1..Len(cs) /\ o[t] = fn /\ t # fn
    BY DEF Linked, Targets
  <2> HIDE DEF t
  <2>2. CASE t # b
    BY <1>1, <2>1, <2>2 DEF t
  <2>3. CASE t = b /\ cs[b] # <<>>
    BY <1>3, <2>3 DEF Enters, Leads, t
  <2>4. CASE t = b /\ cs[b] = <<>>
    <3>1. Reaches(s, st[b], x.at)
      BY <2>1, <2>4
    <3> QED
      BY <1>3, <2>4, <3>1 DEF Enters, Leads, t
  <2> QED
    BY <2>2, <2>3, <2>4
<1>5. Len(y.to) = Arity(y.op)
  BY DEF Targets
<1>6. ASSUME y.op = "br"
      PROVE  \A v \in BOOLEAN : Leads(s, d[y.to[1]], st[y.to[1]], y.at, v)
  <2>1. 1 \in 1..Len(y.to)
    BY <1>5, <1>6 DEF Arity
  <2> QED
    BY <1>4, <1>6, <2>1 DEF Linked
<1>7. ASSUME y.op = "cbr"
      PROVE  /\ s[y.at] \in {"if", "while"}
             /\ Enters(s, d[y.to[1]], st[y.to[1]], y.at, TRUE)
             /\ Enters(s, d[y.to[2]], st[y.to[2]], y.at, FALSE)
  <2>1. 1 \in 1..Len(y.to) /\ 2 \in 1..Len(y.to)
    BY <1>5, <1>7 DEF Arity
  <2> QED
    BY <1>4, <1>7, <2>1 DEF Linked
<1>8. Linked(s, d, st, y)
  BY <1>1, <1>6, <1>7 DEF Linked
<1> QED
  BY <1>8 DEF d

\* The other blocks are the same.
Elsewhere(cs, b, d) == Len(d) = Len(cs) /\ \A a \in 1..Len(cs) : a # b => d[a] = cs[a]

\* An instruction that fits keeps the blocks following the source.
LEMMA EmitFlows ==
    ASSUME NEW s, NEW o \in Seq(Nat), NEW st, NEW M, NEW cs, Flows(s, cs, o, st, M),
           NEW b \in 1..Len(cs), NEW x \in InstrType, Targets(x, o, o[b]),
           x.op = "alloca" => o[b] = b /\ Clean(cs[b]),
           o[b] \notin M => Fits(s, cs, o, st, b, x)
    PROVE  Flows(s, Emit(cs, b, x), o, st, M) /\ Elsewhere(cs, b, Emit(cs, b, x))
<1> DEFINE d == Emit(cs, b, x)
           c == cs[b]
<1>1. Stage(cs, o) /\ cs \in Seq(Seq(InstrType)) /\ Len(cs) \in Nat
  BY DEF Flows, Stage
<1>2. /\ Stage(d, o) /\ Len(d) = Len(cs) /\ c \in Seq(InstrType)
      /\ \A a \in 1..Len(cs) : a # b => d[a] = cs[a]
  BY <1>1, EmitLemma, EmitStage, ElementOfSeq
<1>3. d[b] = Append(c, x)
  BY <1>1 DEF Emit
<1>4. ASSUME NEW a \in 1..Len(cs), o[a] \notin M, NEW y, Targets(y, o, o[a]), Linked(s, cs, st, y)
      PROVE  Linked(s, d, st, y)
  <2>1. o[b] = o[a] /\ b # o[a] /\ cs[b] = <<>> => Reaches(s, st[b], x.at)
    BY <1>4 DEF Fits, Ready
  <2> QED
    BY <1>1, <1>4, <2>1, LinkedEmit
<1> HIDE DEF d
<1>5. ASSUME NEW a \in 1..Len(cs), o[a] \notin M
      PROVE  BlockFlows(s, d, o, st, a)
  <2>1. BlockFlows(s, cs, o, st, a) /\ Placed(cs[a], a, o)
    BY <1>1, <1>5 DEF Flows, Stage
  <2>2. ASSUME NEW i \in 1..Len(cs[a]) PROVE Linked(s, d, st, cs[a][i])
    BY <1>4, <1>5, <2>1 DEF BlockFlows, Placed
  <2>3. CASE a # b
    <3>1. d[a] = cs[a]
      BY <1>2, <2>3
    <3> QED
      BY <2>1, <2>2, <3>1 DEF BlockFlows
  <2>4. CASE a = b
    <3>1. Fits(s, cs, o, st, b, x)
      BY <1>5, <2>4
    <3>2. Linked(s, d, st, x)
      BY <1>4, <1>5, <2>4, <3>1 DEF Fits
    <3> DEFINE e == d[b]
    <3>3. /\ Len(c) \in Nat /\ Len(e) = Len(c) + 1 /\ e[Len(c) + 1] = x
          /\ \A i \in 1..Len(c) : e[i] = c[i]
          /\ c = <<>> <=> Len(c) = 0
          /\ e # <<>>
      BY <1>2, <1>3
    <3>4. \A i \in 1..Len(e) : i \in 1..Len(c) \/ i = Len(c) + 1
      BY <3>3
    <3> HIDE DEF e, c
    <3>5. \A i \in 1..Len(e) : Linked(s, d, st, e[i])
      BY <2>2, <2>4, <3>2, <3>3, <3>4 DEF c
    <3>6. ASSUME o[b] = b PROVE \A i \in 1..Len(e) : IsTerm(e[i]) => Declares(s, e[i])
      <4>1. \A i \in 1..Len(c) : IsTerm(c[i]) => Declares(s, c[i])
        BY <2>1, <2>4, <3>6 DEF BlockFlows, c
      <4>2. IsTerm(x) => Declares(s, x)
        BY <3>1, <3>6 DEF Fits
      <4> QED
        BY <3>3, <3>4, <4>1, <4>2
    <3>7. ASSUME o[b] # b
          PROVE  /\ Heads(s, e, st[b])
                 /\ \A i \in 1..Len(e) : e[i].at \in 1..Len(s)
                 /\ \A i \in 1..(Len(e) - 1) : Follows(s, e[i].at, e[i + 1].at)
      <4>1. /\ Heads(s, c, st[b])
            /\ \A i \in 1..Len(c) : c[i].at \in 1..Len(s)
            /\ \A i \in 1..(Len(c) - 1) : Follows(s, c[i].at, c[i + 1].at)
        BY <2>1, <2>4, <3>7 DEF BlockFlows, c
      <4>2. x.at \in 1..Len(s) /\ Ready(s, c, st[b], x.at)
        BY <3>1, <3>7 DEF Fits, c
      <4>3. Heads(s, e, st[b])
        <5>1. CASE c = <<>>
          <6>1. e[1] = x
            BY <3>3, <5>1
          <6> QED
            BY <4>2, <5>1, <6>1 DEF Heads, Ready
        <5>2. CASE c # <<>>
          <6>1. e[1] = c[1]
            BY <3>3, <5>2
          <6> QED
            BY <4>1, <5>2, <6>1 DEF Heads
        <5> QED
          BY <5>1, <5>2
      <4>4. ASSUME NEW i \in 1..(Len(e) - 1) PROVE Follows(s, e[i].at, e[i + 1].at)
        <5>1. CASE i = Len(c)
          <6>1. c # <<>> /\ i \in 1..Len(c)
            BY <3>3, <5>1
          <6> QED
            BY <3>3, <4>2, <5>1, <6>1 DEF Ready
        <5>2. CASE i # Len(c)
          <6>1. i \in 1..(Len(c) - 1) /\ i \in 1..Len(c) /\ i + 1 \in 1..Len(c)
            BY <3>3, <5>2
          <6> QED
            BY <3>3, <4>1, <6>1
        <5> QED
          BY <5>1, <5>2
      <4> QED
        BY <3>3, <3>4, <4>1, <4>2, <4>3, <4>4
    <3> QED
      BY <2>4, <3>5, <3>6, <3>7 DEF BlockFlows, e
  <2> QED
    BY <2>3, <2>4
<1>6. Flows(s, d, o, st, M)
  BY <1>2, <1>5 DEF Flows
<1> QED
  BY <1>2, <1>6 DEF d, Elsewhere

\* Only a block without a terminator takes the guarded branch.
LEMMA BranchFlows ==
    ASSUME NEW s, NEW o \in Seq(Nat), NEW st, NEW M, NEW cs, Flows(s, cs, o, st, M),
           NEW b \in 1..Len(cs), NEW x \in InstrType, IsTerm(x), Targets(x, o, o[b]),
           o[b] \notin M /\ ~ Terminated(cs[b]) => Fits(s, cs, o, st, b, x)
    PROVE  /\ Flows(s, EmitUnlessTerminated(cs, b, x), o, st, M)
           /\ Elsewhere(cs, b, EmitUnlessTerminated(cs, b, x))
<1>1. x.op # "alloca"
  BY DEF IsTerm, Terminators
<1>2. CASE Terminated(cs[b])
  BY <1>2 DEF EmitUnlessTerminated, Elsewhere
<1>3. CASE ~ Terminated(cs[b])
  <2>1. Flows(s, Emit(cs, b, x), o, st, M) /\ Elsewhere(cs, b, Emit(cs, b, x))
    BY <1>1, <1>3, EmitFlows
  <2> QED
    BY <1>3, <2>1 DEF EmitUnlessTerminated
<1> QED
  BY <1>2, <1>3

\* Block c comes after those of before.
Adds(cs, c, d) ==
    /\ Len(d) = Len(cs) + 1 /\ d[Len(cs) + 1] = c
    /\ \A a \in 1..Len(cs) : d[a] = cs[a]

\* A block that is created with no instruction, or one that falls through.
LEMMA NewBlockFlows ==
    ASSUME NEW s, NEW o \in Seq(Nat), NEW st, NEW M, NEW cs, Flows(s, cs, o, st, M),
           NEW c \in Seq(InstrType), Stage(Append(cs, c), o), Len(c) <= 1,
           \A i \in 1..Len(c) : c[i].to = <<>> /\ ~ IsTerm(c[i]) /\ c[i].at \in 1..Len(s),
           LET b == Len(cs) + 1 IN o[b] \notin M /\ o[b] # b => Heads(s, c, st[b])
    PROVE  Flows(s, Append(cs, c), o, st, M) /\ Adds(cs, c, Append(cs, c))
<1> DEFINE d == Append(cs, c)
           n == Len(cs)
<1>1. Stage(cs, o) /\ cs \in Seq(Seq(InstrType)) /\ n \in Nat
  BY DEF Flows, Stage
<1>2. Len(d) = n + 1 /\ d[n + 1] = c /\ \A a \in 1..n : d[a] = cs[a]
  BY <1>1
<1> HIDE DEF d, n
<1>3. ASSUME NEW y, NEW fn, Targets(y, o, fn), Linked(s, cs, st, y)
      PROVE  Linked(s, d, st, y)
  <2>1. Len(y.to) = Arity(y.op) /\ \A j \in 1..Len(y.to) : y.to[j] \in 1..n
    BY <1>3 DEF Targets, Linked, n
  <2>2. \A j \in 1..Len(y.to) : d[y.to[j]] = cs[y.to[j]] /\ y.to[j] \in 1..Len(d)
    BY <1>1, <1>2, <2>1
  <2>3. y.op = "br" => 1 \in 1..Len(y.to)
    BY <2>1 DEF Arity
  <2>4. y.op = "cbr" => 1 \in 1..Len(y.to) /\ 2 \in 1..Len(y.to)
    BY <2>1 DEF Arity
  <2> QED
    BY <1>3, <2>2, <2>3, <2>4 DEF Linked
<1>4. ASSUME NEW b \in 1..(n + 1), o[b] \notin M
      PROVE  BlockFlows(s, d, o, st, b)
  <2>1. CASE b \in 1..n
    <3>1. BlockFlows(s, cs, o, st, b) /\ Placed(cs[b], b, o) /\ d[b] = cs[b]
      BY <1>1, <1>2, <1>4, <2>1 DEF Flows, Stage, n
    <3>2. \A i \in 1..Len(cs[b]) : Linked(s, d, st, cs[b][i])
      BY <1>3, <3>1 DEF BlockFlows, Placed
    <3> QED
      BY <3>1, <3>2 DEF BlockFlows
  <2>2. CASE b = n + 1
    <3>1. d[b] = c
      BY <1>2, <2>2
    <3>2. \A i \in 1..Len(c) : Linked(s, d, st, c[i])
      <4> TAKE i \in 1..Len(c)
      <4>1. 1..Len(c[i].to) = {} /\ c[i].op # "ret" /\ c[i].op # "br" /\ c[i].op # "cbr"
        BY DEF IsTerm, Terminators
      <4> QED
        BY <4>1 DEF Linked
    <3>3. o[b] # b => Heads(s, c, st[b])
      BY <1>4, <2>2 DEF n
    <3>4. 1..(Len(c) - 1) = {}
      OBVIOUS
    <3> QED
      BY <3>1, <3>2, <3>3, <3>4 DEF BlockFlows
  <2> QED
    BY <1>1, <2>1, <2>2
<1>5. Flows(s, d, o, st, M)
  BY <1>2, <1>4 DEF Flows, d
<1> QED
  BY <1>2, <1>5 DEF d, n, Adds

-----------------------------------------------------------------------------
(* What has been read settles how the blocks follow the source. *)

\* Statements that follow each other in a block follow in the longer source.
LEMMA FollowsKept ==
    ASSUME NEW s, NEW r, Longer(s, r), NEW p, NEW q, Follows(s, p, q)
    PROVE  Follows(r, p, q)
<1>1. CASE p = q
  BY <1>1 DEF Follows
<1>2. CASE p \in 1..Len(s) /\ s[p] \in Simples /\ Reaches(s, p + 1, q)
  <2>1. Len(s) \in Nat /\ Len(r) = Len(s) + 1 /\ r[p] = s[p]
    BY <1>2 DEF Longer
  <2>2. p + 1 \in Nat \ {0} /\ p \in 1..Len(r)
    BY <1>2, <2>1
  <2>3. Reaches(r, p + 1, q)
    BY <1>2, <2>2, ReachesKept
  <2> QED
    BY <1>2, <2>1, <2>2, <2>3 DEF Follows
<1> QED
  BY <1>1, <1>2 DEF Follows

\* A block that has come to a position has come to it in the longer source.
LEMMA ArrivesKept ==
    ASSUME NEW s, NEW r, Longer(s, r), NEW c, NEW e \in Nat \ {0}, NEW q \in 1..(Len(s) + 1),
           Arrives(s, c, e, q)
    PROVE  Arrives(r, c, e, q)
<1>1. CASE c = <<>>
  BY <1>1, PassedKept DEF Arrives
<1>2. CASE c # <<>>
  <2> DEFINE p == c[Len(c)].at
  <2>1. CASE p = q /\ p \in 1..Len(s) /\ s[q] # "func"
    <3>1. p \in 1..Len(r) /\ r[q] = s[q]
      BY <2>1 DEF Longer
    <3> QED
      BY <1>2, <2>1, <3>1 DEF Arrives
  <2>2. CASE p \in 1..Len(s) /\ s[p] \in Simples /\ Passed(s, p + 1, q)
    <3>1. Len(s) \in Nat /\ Len(r) = Len(s) + 1 /\ r[p] = s[p]
      BY <2>2 DEF Longer
    <3>2. p + 1 \in Nat \ {0} /\ p \in 1..Len(r)
      BY <2>2, <3>1
    <3> HIDE DEF p
    <3>3. Passed(r, p + 1, q)
      BY <2>2, <3>2, PassedKept
    <3> QED
      BY <1>2, <2>2, <3>1, <3>2, <3>3 DEF Arrives, p
  <2> HIDE DEF p
  <2> QED
    BY <1>2, <2>1, <2>2 DEF Arrives, p
<1> QED
  BY <1>1, <1>2

\* What control arrives at is what it does next, unless it is a declaration.
LEMMA ArrivesReady ==
    ASSUME NEW s, NEW c, NEW e, NEW q \in 1..Len(s), s[q] # "func", Arrives(s, c, e, q)
    PROVE  Ready(s, c, e, q)
BY DEF Arrives, Ready, Follows, Reaches

\* What a block begins with does not change as more is read.
LEMMA HeadsKept ==
    ASSUME NEW s, NEW r, Longer(s, r), NEW c, NEW e \in Nat \ {0}, Heads(s, c, e)
    PROVE  Heads(r, c, e)
<1>1. CASE c = <<>>
  BY <1>1 DEF Heads
<1>2. CASE c # <<>> /\ Reaches(s, e, c[1].at)
  BY <1>2, ReachesKept DEF Heads
<1>3. CASE c # <<>> /\ c[1].at \in 1..Len(s) /\ s[c[1].at] = "func" /\ c[1].at + 1 = e
  <2>1. c[1].at \in 1..Len(r) /\ r[c[1].at] = s[c[1].at]
    BY <1>3 DEF Longer
  <2> QED
    BY <1>3, <2>1 DEF Heads
<1> QED
  BY <1>1, <1>2, <1>3 DEF Heads

\* A branch that is one of its statement is so in the longer source.
LEMMA EntersKept ==
    ASSUME NEW s, NEW r, Longer(s, r), NEW c, NEW e \in Nat \ {0}, NEW p, NEW v
    PROVE  /\ Enters(s, c, e, p, v) => Enters(r, c, e, p, v)
           /\ Leads(s, c, e, p, v) => Leads(r, c, e, p, v)
<1>1. Enters(s, c, e, p, v) => Enters(r, c, e, p, v)
  <2> SUFFICES ASSUME Enters(s, c, e, p, v) PROVE Enters(r, c, e, p, v)
    OBVIOUS
  <2>1. Lands(r, p, v, e)
    BY LandsKept DEF Enters
  <2>2. c # <<>> => Reaches(r, e, c[1].at)
    BY ReachesKept DEF Enters
  <2> QED
    BY <2>1, <2>2 DEF Enters
<1> QED
  BY <1>1 DEF Leads

\* A function that is closed stays closed.
LEMMA DeclaresKept ==
    ASSUME NEW s, NEW r, Longer(s, r), NEW x, Declares(s, x)
    PROVE  Declares(r, x)
<1>1. x.at \in 1..Len(s) /\ s[x.at] = "func" /\ S!Closed(s, x.at)
  BY DEF Declares
<1>2. x.at \in 1..Len(r) /\ r[x.at] = s[x.at] /\ S!Closed(r, x.at)
  BY <1>1, ClosedKept DEF Longer
<1> QED
  BY <1>1, <1>2 DEF Declares

\* Another token and more blocks change nothing for the blocks there are.
LEMMA GrowFlows ==
    ASSUME Inv, NEW start, Flows(src, code, owner, start, misuse),
           NEW r, Longer(src, r), NEW o \in Seq(Nat), Len(owner) <= Len(o),
           \A b \in 1..Len(owner) : o[b] = owner[b],
           NEW st \in Seq(Nat \ {0}), Len(st) = Len(o),
           \A b \in 1..Len(owner) : st[b] = start[b],
           NEW M, misuse \subseteq M
    PROVE  Flows(r, code, o, st, M)
<1>1. /\ PlacedInv /\ Len(owner) = Len(code) /\ Len(code) \in Nat
      /\ Len(src) \in Nat /\ Len(r) = Len(src) + 1 /\ \A i \in 1..Len(src) : r[i] = src[i]
      /\ start \in Seq(Nat \ {0}) /\ Len(start) = Len(owner)
  BY DEF Flows, PlacedInv, Inv, TypeOK, Longer
<1>2. Stage(code, o)
  BY <1>1, GrowStage
<1>3. \A t \in 1..Len(code) : start[t] \in Nat \ {0} /\ st[t] = start[t] /\ o[t] = owner[t]
  BY <1>1, ElementOfSeq
<1>4. ASSUME NEW y, NEW fn, Targets(y, owner, fn), Linked(src, code, start, y)
      PROVE  Linked(r, code, st, y)
  <2>1. Len(y.to) = Arity(y.op) /\ \A j \in 1..Len(y.to) : y.to[j] \in 1..Len(code)
    BY <1>4 DEF Targets, Linked
  <2>2. ASSUME NEW j \in 1..Len(y.to), NEW p, NEW v
        PROVE  LET t == y.to[j]
               IN  /\ Enters(src, code[t], start[t], p, v) => Enters(r, code[t], st[t], p, v)
                   /\ Leads(src, code[t], start[t], p, v) => Leads(r, code[t], st[t], p, v)
    <3> DEFINE t == y.to[j]
    <3>1. start[t] \in Nat \ {0} /\ st[t] = start[t]
      BY <1>3, <2>1
    <3> HIDE DEF t
    <3>2. /\ Enters(src, code[t], start[t], p, v) => Enters(r, code[t], start[t], p, v)
          /\ Leads(src, code[t], start[t], p, v) => Leads(r, code[t], start[t], p, v)
      BY <3>1, EntersKept
    <3> QED
      BY <3>1, <3>2 DEF t
  <2>3. ASSUME y.op = "br"
        PROVE  \A v \in BOOLEAN : Leads(r, code[y.to[1]], st[y.to[1]], y.at, v)
    <3>1. 1 \in 1..Len(y.to)
      BY <2>1, <2>3 DEF Arity
    <3> QED
      BY <1>4, <2>2, <2>3, <3>1 DEF Linked
  <2>4. ASSUME y.op = "cbr"
        PROVE  /\ r[y.at] \in {"if", "while"}
               /\ Enters(r, code[y.to[1]], st[y.to[1]], y.at, TRUE)
               /\ Enters(r, code[y.to[2]], st[y.to[2]], y.at, FALSE)
    <3>1. 1 \in 1..Len(y.to) /\ 2 \in 1..Len(y.to)
      BY <2>1, <2>4 DEF Arity
    <3>2. y.at \in 1..Len(src) /\ src[y.at] \in {"if", "while"}
      BY <1>4, <2>4 DEF Linked, Enters, Lands
    <3> QED
      BY <1>1, <1>4, <2>2, <2>4, <3>1, <3>2 DEF Linked
  <2>5. y.op = "ret" => Leaves(r, y.at)
    BY <1>4, LeavesKept DEF Linked
  <2> QED
    BY <2>1, <2>3, <2>4, <2>5 DEF Linked
<1>5. ASSUME NEW b \in 1..Len(code), o[b] \notin M
      PROVE  BlockFlows(r, code, o, st, b)
  <2>1. o[b] = owner[b] /\ st[b] = start[b] /\ start[b] \in Nat \ {0}
    BY <1>3
  <2>2. BlockFlows(src, code, owner, start, b) /\ Placed(code[b], b, owner)
    BY <1>5, <2>1 DEF Flows, Stage
  <2>3. \A i \in 1..Len(code[b]) : Linked(r, code, st, code[b][i])
    BY <1>4, <2>2 DEF BlockFlows, Placed
  <2>4. o[b] = b => \A i \in 1..Len(code[b]) : IsTerm(code[b][i]) => Declares(r, code[b][i])
    BY <2>1, <2>2, DeclaresKept DEF BlockFlows
  <2>5. ASSUME o[b] # b
        PROVE  /\ Heads(r, code[b], st[b])
               /\ \A i \in 1..Len(code[b]) : code[b][i].at \in 1..Len(r)
               /\ \A i \in 1..(Len(code[b]) - 1) : Follows(r, code[b][i].at, code[b][i + 1].at)
    <3>1. /\ Heads(src, code[b], start[b])
          /\ \A i \in 1..Len(code[b]) : code[b][i].at \in 1..Len(src)
          /\ \A i \in 1..(Len(code[b]) - 1) : Follows(src, code[b][i].at, code[b][i + 1].at)
      BY <2>1, <2>2, <2>5 DEF BlockFlows
    <3>2. Heads(r, code[b], st[b])
      BY <2>1, <3>1, HeadsKept
    <3>3. \A i \in 1..Len(code[b]) : code[b][i].at \in 1..Len(r)
      <4>1. \A k \in 1..Len(src) : k \in 1..Len(r)
        BY <1>1
      <4> QED
        BY <3>1, <4>1
    <3>4. \A i \in 1..(Len(code[b]) - 1) : Follows(r, code[b][i].at, code[b][i + 1].at)
      BY <3>1, FollowsKept
    <3> QED
      BY <3>2, <3>3, <3>4
  <2> QED
    BY <2>3, <2>4, <2>5 DEF BlockFlows
<1> QED
  BY <1>2, <1>5 DEF Flows

-----------------------------------------------------------------------------
(* The calls under way. *)

\* The position that the body of call k has come to.
NextOf(k) == IF k = Len(frames) THEN Len(src) + 1 ELSE frames[k + 1].tok

\* The first block of a body runs what follows its token; the condition of a while
\* is evaluated at the token itself.
Started(cs, st, f) ==
    /\ st[f.first] = f.tok + 1
    /\ f.kind = "while" => /\ st[f.cond] = f.tok
                           /\ cs[f.cond] = <<Instr("inst", <<>>, f.tok)>>

\* A body that has not returned goes on at q.
CallFlows(s, cs, st, f, q) ==
    /\ ~ Terminated(cs[f.block]) => Arrives(s, cs[f.block], st[f.block], q)
    /\ Started(cs, st, f)

FlowsFrom(start) ==
    /\ Flows(src, code, owner, start, misuse)
    /\ \A k \in Calls :
         frames[k].fn \notin misuse => CallFlows(src, code, start, frames[k], NextOf(k))

\* The inductive invariant: the blocks generated so far follow the source.
FlowInv == Nested(src, frames) /\ \E start : FlowsFrom(start)

\* What is read is the next token of the source.
LEMMA ReadLonger ==
    ASSUME Inv, NEW token \in Tokens, Read(token)
    PROVE  /\ Longer(src, src') /\ Len(src) \in Nat /\ Len(src') = Len(src) + 1
           /\ src'[Len(src')] = token /\ src'[Len(src) + 1] = token
<1>1. src \in Seq(Tokens) /\ Len(src) \in Nat
  BY DEF Inv, TypeOK
<1>2. src' = Append(src, token)
  BY DEF Read
<1> QED
  BY <1>1, <1>2 DEF Longer

\* The position a body has come to is in the source or next to it.
LEMMA NextOfLemma ==
    ASSUME Inv, Nested(src, frames), NEW k \in Calls
    PROVE  NextOf(k) \in 1..(Len(src) + 1)
<1>1. Len(src) \in Nat /\ Len(frames) \in Nat
  BY DEF Inv, TypeOK
<1>2. CASE k = Len(frames)
  BY <1>1, <1>2 DEF NextOf
<1>3. CASE k # Len(frames)
  <2>1. k + 1 \in 1..Len(frames)
    BY <1>1, <1>3 DEF Calls
  <2>2. frames[k + 1].tok \in 1..Len(src)
    BY <2>1 DEF Nested, Open
  <2> QED
    BY <1>1, <1>3, <2>2 DEF NextOf
<1> QED
  BY <1>2, <1>3

\* What a step finds, seen from the source and the owners it ends with.
Grounds(st) ==
    /\ Flows(src', code, owner', st, misuse')
    /\ \A k \in Calls : frames[k].fn \notin misuse' =>
                            CallFlows(src', code, st, frames[k], NextOf(k))

\* The elements of a concatenation, of which ConcatProperties speaks.
LEMMA ConcatLemma ==
    ASSUME NEW X, NEW a \in Seq(X), NEW e \in Seq(X)
    PROVE  /\ (a \o e) \in Seq(X) /\ Len(a \o e) = Len(a) + Len(e)
           /\ \A b \in 1..Len(a) : (a \o e)[b] = a[b]
           /\ \A i \in 1..Len(e) : (a \o e)[Len(a) + i] = e[i]
BY ConcatProperties

\* A step reads a token and adds the blocks that start at e.
LEMMA GroundLemma ==
    ASSUME Inv, FlowInv, Longer(src, src'), misuse \subseteq misuse',
           NEW e \in Seq(Nat \ {0}), owner' \in Seq(Nat), Len(owner') = Len(owner) + Len(e),
           \A b \in 1..Len(owner) : owner'[b] = owner[b]
    PROVE  \E st \in Seq(Nat \ {0}) :
               Grounds(st) /\ \A i \in 1..Len(e) : st[Len(code) + i] = e[i]
<1>1. PICK start : FlowsFrom(start)
  BY DEF FlowInv
<1>2. /\ Flows(src, code, owner, start, misuse) /\ Len(owner) = Len(code) /\ Len(code) \in Nat
      /\ start \in Seq(Nat \ {0}) /\ Len(start) = Len(code) /\ Nested(src, frames)
      /\ Len(e) \in Nat
  BY <1>1 DEF FlowsFrom, Flows, Inv, TypeOK, FlowInv
<1> DEFINE st == start \o e
<1>3. /\ st \in Seq(Nat \ {0}) /\ Len(st) = Len(start) + Len(e)
      /\ \A b \in 1..Len(start) : st[b] = start[b]
      /\ \A i \in 1..Len(e) : st[Len(start) + i] = e[i]
  <2> DEFINE X == Nat \ {0}
  <2>1. start \in Seq(X) /\ e \in Seq(X)
    BY <1>2
  <2> HIDE DEF X
  <2>2. /\ st \in Seq(X) /\ Len(st) = Len(start) + Len(e)
        /\ \A b \in 1..Len(start) : st[b] = start[b]
        /\ \A i \in 1..Len(e) : st[Len(start) + i] = e[i]
    BY <2>1, ConcatLemma
  <2> QED
    BY <2>2 DEF X
<1> HIDE DEF st
<1>4. /\ Len(st) = Len(owner') /\ Len(owner) <= Len(owner')
      /\ \A b \in 1..Len(owner) : st[b] = start[b]
      /\ \A i \in 1..Len(e) : st[Len(code) + i] = e[i]
  BY <1>2, <1>3
<1>5. Flows(src', code, owner', st, misuse')
  BY <1>2, <1>3, <1>4, GrowFlows
<1>6. ASSUME NEW k \in Calls, frames[k].fn \notin misuse'
      PROVE  CallFlows(src', code, st, frames[k], NextOf(k))
  <2> DEFINE f == frames[k]
             q == NextOf(k)
  <2>1. CallFlows(src, code, start, f, q) /\ q \in 1..(Len(src) + 1)
    BY <1>1, <1>2, <1>6, NextOfLemma DEF FlowsFrom
  <2>2. FramesLinked!(k)
    BY DEF Inv, IInv, FramesLinked
  <2>3. \A b \in Blocks : st[b] = start[b] /\ start[b] \in Nat \ {0}
    BY <1>2, <1>4, ElementOfSeq DEF Blocks
  <2>4. /\ f.block \in Blocks /\ f.first \in Blocks
        /\ f.kind = "while" => f.cond \in Blocks
    BY <2>2
  <2>5. /\ st[f.block] = start[f.block] /\ start[f.block] \in Nat \ {0}
        /\ st[f.first] = start[f.first]
        /\ f.kind = "while" => st[f.cond] = start[f.cond]
    BY <2>3, <2>4
  <2> HIDE DEF f, q
  <2>6. Arrives(src, code[f.block], start[f.block], q)
           => Arrives(src', code[f.block], start[f.block], q)
    BY <2>1, <2>5, ArrivesKept
  <2>7. CallFlows(src', code, st, f, q)
    BY <2>1, <2>5, <2>6 DEF CallFlows, Started
  <2> QED
    BY <2>7 DEF f, q
<1>7. Grounds(st)
  BY <1>5, <1>6 DEF Grounds
<1> QED
  BY <1>3, <1>4, <1>7

\* Call k does not go on in block b, nor waits for its condition there.
Apart(k, b) == frames[k].block # b /\ (frames[k].kind = "while" => frames[k].cond # b)

\* No call goes on in the entry block of a function, none in the block of another
\* call, and the calls of two functions have no block in common.
LEMMA ApartLemma ==
    ASSUME Inv, NEW j \in Calls, NEW k \in Calls
    PROVE  /\ Apart(k, frames[j].fn)
           /\ j # k => Apart(k, frames[j].block)
           /\ j # k /\ frames[j].kind = "while" => Apart(k, frames[j].cond)
           /\ frames[j].fn # frames[k].fn => \A b \in Blocks : owner[b] = frames[j].fn => Apart(k, b)
<1>1. FramesLinked!(j) /\ FramesLinked!(k)
  BY DEF Inv, IInv, FramesLinked
<1>2. frames[j].fn # frames[k].fn => \A b \in Blocks : owner[b] = frames[j].fn => Apart(k, b)
  BY <1>1 DEF Apart
<1>3. Apart(k, frames[j].fn)
  BY <1>1, <1>2 DEF Apart
<1>4. j # k => Awaits(frames[j]) \cap Awaits(frames[k]) = {}
  BY DEF Inv, IInv, AwaitedOnce
<1> QED
  BY <1>2, <1>3, <1>4 DEF Apart, Awaits

\* The call is the same, but for the history and for where it goes on.
SameStart(f, g) ==
    g.kind = f.kind /\ g.tok = f.tok /\ g.fn = f.fn /\ g.first = f.first /\ g.cond = f.cond

\* A step that touches other blocks keeps a call.
LEMMA StartedKept ==
    ASSUME Inv, NEW st, NEW k \in Calls, NEW g, SameStart(frames[k], g),
           NEW T, \A b \in Blocks : b \notin T => code'[b] = code[b],
           frames[k].kind = "while" => frames[k].cond \notin T,
           Started(code, st, frames[k])
    PROVE  Started(code', st, g)
<1>1. FramesLinked!(k)
  BY DEF Inv, IInv, FramesLinked
<1> QED
  BY <1>1 DEF Started, SameStart

\* A call keeps following the source when a step touches none of its blocks.
LEMMA CallKept ==
    ASSUME Inv, NEW st, NEW k \in Calls, NEW q, CallFlows(src', code, st, frames[k], q),
           NEW g, SameStart(frames[k], g), g.block = frames[k].block,
           NEW T, \A b \in Blocks : b \notin T => code'[b] = code[b], \A b \in T : Apart(k, b)
    PROVE  CallFlows(src', code', st, g, q)
<1>1. FramesLinked!(k)
  BY DEF Inv, IInv, FramesLinked
<1>2. frames[k].block \in Blocks /\ frames[k].block \notin T
  BY <1>1 DEF Apart
<1>3. frames[k].kind = "while" => frames[k].cond \notin T
  BY DEF Apart
<1>4. Started(code', st, g)
  BY <1>3, StartedKept DEF CallFlows
<1> QED
  BY <1>2, <1>4 DEF CallFlows

\* The calls around the innermost one are those of before when a step touches
\* only blocks of that one.
LEMMA OutersKept ==
    ASSUME Inv, NEW st, Grounds(st), NEW k \in Calls, k # Len(frames),
           SameStart(frames[k], frames'[k]), frames'[k].block = frames[k].block,
           NextOf(k)' = NextOf(k),
           NEW T, \A b \in Blocks : b \notin T => code'[b] = code[b], \A b \in T : Apart(k, b),
           frames'[k].fn \notin misuse'
    PROVE  CallFlows(src', code', st, frames'[k], NextOf(k)')
<1>1. CallFlows(src', code, st, frames[k], NextOf(k))
  BY DEF Grounds, SameStart
<1>2. CallFlows(src', code', st, frames'[k], NextOf(k))
  BY <1>1, CallKept
<1> QED
  BY <1>2

\* The blocks of the innermost call are not those that others go on in.
LEMMA TopApart ==
    ASSUME Inv, InBody, NEW k \in Calls
    PROVE  /\ Apart(k, top.fn)
           /\ k # Len(frames) => Apart(k, top.block)
           /\ k # Len(frames) /\ top.kind = "while" => Apart(k, top.cond)
BY ApartLemma, TopLemma

\* The body that reads the token has come to it.
LEMMA TopArrives ==
    ASSUME Inv, InBody, NEW st, Grounds(st), top.fn \notin misuse', misuse \subseteq misuse',
           ~ Terminated(code[top.block])
    PROVE  Arrives(src', code[top.block], st[top.block], Len(src) + 1)
<1>1. Len(frames) \in Calls /\ top = frames[Len(frames)]
  BY TopLemma
<1> QED
  BY <1>1 DEF Grounds, CallFlows, NextOf

\* A statement of a body that may not follow a return finds no terminator.
LEMMA TopOpen ==
    ASSUME Inv, InBody, top.fn \notin misuse', misuse \subseteq misuse',
           top.returned => top.fn \in misuse'
    PROVE  ~ Terminated(code[top.block])
<1>1. Len(frames) \in Calls /\ top = frames[Len(frames)] /\ top.fn \notin misuse /\ ~ top.returned
  BY TopLemma
<1>2. Clean(code[top.block])
  BY <1>1, BlockLemma
<1>3. code[top.block] \in Seq(InstrType)
  BY TopLemma, ElementOfSeq DEF Inv, TypeOK, Blocks
<1> QED
  BY <1>2, <1>3, CleanOrSealed

\* What a block is after an emit.
LEMMA EmittedAt ==
    ASSUME NEW cs \in Seq(Seq(InstrType)), NEW b \in 1..Len(cs), NEW x \in InstrType
    PROVE  LET c == Emit(cs, b, x)[b]
           IN  /\ c # <<>> /\ c[Len(c)] = x /\ (Terminated(c) <=> IsTerm(x))
               /\ cs[b] = <<>> => c[1] = x
               /\ cs[b] # <<>> => c[1] = cs[b][1]
<1> DEFINE c == Emit(cs, b, x)[b]
<1>1. cs[b] \in Seq(InstrType)
  BY ElementOfSeq
<1>2. c = Append(cs[b], x)
  BY DEF Emit
<1>3. /\ c # <<>> /\ (cs[b] = <<>> => c[1] = x) /\ (cs[b] # <<>> => c[1] = cs[b][1])
  BY <1>1, <1>2, AppendFirst
<1>4. c[Len(c)] = x
  BY <1>1, <1>2
<1> HIDE DEF c
<1>5. Terminated(c) <=> IsTerm(x)
  BY <1>3, <1>4 DEF Terminated
<1> QED
  BY <1>3, <1>4, <1>5 DEF c

\* Nothing is between a position and itself.
LEMMA PassedSelf == ASSUME NEW s, NEW e \in Nat PROVE Passed(s, e, e)
<1>1. e..(e - 1) = {}
  OBVIOUS
<1> QED
  BY <1>1 DEF Passed

\* An instruction that is no branch fits where control has come to it.
LEMMA PlainFits ==
    ASSUME NEW s, NEW cs, NEW o, NEW st, NEW b, NEW op \in {"inst", "alloca"}, NEW p,
           o[b] # b => p \in 1..Len(s) /\ Ready(s, cs[b], st[b], p)
    PROVE  Fits(s, cs, o, st, b, Instr(op, <<>>, p))
<1> DEFINE x == Instr(op, <<>>, p)
<1>1. x.op = op /\ x.at = p /\ x.to = <<>>
  BY DEF Instr
<1> HIDE DEF x
<1>2. ~ IsTerm(x) /\ x.op # "br" /\ x.op # "cbr" /\ x.op # "ret" /\ 1..Len(x.to) = {}
  BY <1>1 DEF IsTerm, Terminators
<1>3. Linked(s, cs, st, x)
  BY <1>2 DEF Linked
<1>4. Fits(s, cs, o, st, b, x)
  BY <1>1, <1>2, <1>3 DEF Fits
<1> QED
  BY <1>4 DEF x

-----------------------------------------------------------------------------
(* Each action keeps the blocks following the source. *)

\* What the innermost body runs at the token just read.
LEMMA InstFlows ==
    ASSUME Inv, PlacedInv, InBody, NEW st, Grounds(st), misuse \subseteq misuse',
           top.returned => top.fn \in misuse', owner' \in Seq(Nat),
           \A b \in Blocks : owner'[b] = owner[b],
           NEW cs, Flows(src', cs, owner', st, misuse'), Len(cs) = Len(code),
           cs[top.block] = code[top.block],
           Len(src) + 1 \in 1..Len(src'), src'[Len(src) + 1] # "func"
    PROVE  LET x == Instr("inst", <<>>, Len(src) + 1)
               d == Emit(cs, top.block, x)
           IN  /\ Flows(src', d, owner', st, misuse') /\ Elsewhere(cs, top.block, d)
               /\ d[top.block] # <<>> /\ ~ Terminated(d[top.block])
               /\ d[top.block][Len(d[top.block])] = x
<1> DEFINE x == Instr("inst", <<>>, Len(src) + 1)
           d == Emit(cs, top.block, x)
<1>1. /\ top.block \in 1..Len(cs) /\ owner'[top.block] = top.fn /\ top.fn # top.block
      /\ Len(src) + 1 \in Nat /\ cs \in Seq(Seq(InstrType))
  BY BodyLemma DEF Flows, Stage
<1>2. x \in InstrType /\ ~ IsTerm(x) /\ x.op # "alloca" /\ Targets(x, owner', owner'[top.block])
  BY <1>1, InstrLemma, TargetsLemma DEF Instr, Terminators
<1>3. ASSUME owner'[top.block] \notin misuse'
      PROVE  Fits(src', cs, owner', st, top.block, x)
  <2>1. ~ Terminated(code[top.block])
    BY <1>1, <1>3, TopOpen
  <2>2. Arrives(src', cs[top.block], st[top.block], Len(src) + 1)
    BY <1>1, <1>3, <2>1, TopArrives
  <2>3. Ready(src', cs[top.block], st[top.block], Len(src) + 1)
    BY <2>2, ArrivesReady
  <2> QED
    BY <2>3, PlainFits
<1> HIDE DEF x
<1>4. Flows(src', d, owner', st, misuse') /\ Elsewhere(cs, top.block, d)
  BY <1>1, <1>2, <1>3, EmitFlows
<1>5. d[top.block] # <<>> /\ ~ Terminated(d[top.block]) /\ d[top.block][Len(d[top.block])] = x
  BY <1>1, <1>2, EmittedAt
<1> QED
  BY <1>4, <1>5 DEF x

\* A simple statement has run once its instructions have.
LEMMA SimpleArrives ==
    ASSUME NEW s, NEW c, NEW e, NEW p \in 1..Len(s), s[p] \in Simples, c # <<>>,
           c[Len(c)].at = p
    PROVE  Arrives(s, c, e, p + 1)
<1>1. Passed(s, p + 1, p + 1)
  BY PassedSelf
<1> QED
  BY <1>1 DEF Arrives

\* A statement without control flow goes to the block its body has come to.
LEMMA StatementFlows == ASSUME Inv, PlacedInv, FlowInv, Statement PROVE FlowInv'
<1> DEFINE n == Len(src)
           inst == Instr("inst", <<>>, n + 1)
           alloca == Instr("alloca", <<>>, n + 1)
           declared == Emit(code, top.fn, alloca)
           N == Len(frames)
<1>1. /\ InBody /\ owner' = owner /\ frames' = frames /\ NoteStatement
  BY DEF Statement
<1>2. PICK token \in {"stmt", "decl"} :
        Read(token) /\ \/ code' = Emit(code, top.block, inst)
                       \/ code' = Emit(declared, top.block, inst)
  BY DEF Statement
<1>3. /\ Longer(src, src') /\ n \in Nat /\ Len(src') = n + 1 /\ src'[Len(src')] = token
      /\ src'[n + 1] = token
  BY <1>2, ReadLonger DEF Tokens
<1>4. misuse \subseteq misuse' /\ (top.returned => top.fn \in misuse')
  BY <1>1, NoteLemma
<1>5. /\ Len(code) \in Nat /\ Blocks = 1..Len(code) /\ owner \in Seq(Nat)
      /\ top.fn \in Blocks /\ top.block \in Blocks /\ top.fn # top.block
      /\ owner[top.fn] = top.fn /\ owner[top.block] = top.fn /\ Clean(code[top.fn])
      /\ N \in Calls /\ top = frames[N] /\ frames \in Seq(FrameType)
  BY <1>1, BodyLemma, TopLemma DEF Inv, TypeOK
<1>6. PICK st \in Seq(Nat \ {0}) : Grounds(st)
  <2>1. <<>> \in Seq(Nat \ {0}) /\ Len(<<>>) = 0
    OBVIOUS
  <2>2. owner' \in Seq(Nat) /\ Len(owner') = Len(owner) + Len(<<>>)
    BY <1>1, <1>5
  <2> HIDE DEF n
  <2> QED
    BY <1>1, <1>3, <1>4, <2>1, <2>2, GroundLemma
<1>7. Flows(src', code, owner', st, misuse')
  BY <1>6 DEF Grounds
<1>8. Flows(src', declared, owner', st, misuse') /\ Elsewhere(code, top.fn, declared)
  <2>1. alloca \in InstrType /\ Targets(alloca, owner', owner'[top.fn])
    BY <1>3, InstrLemma, TargetsLemma
  <2>2. Fits(src', code, owner', st, top.fn, alloca)
    BY <1>1, <1>5, PlainFits
  <2> HIDE DEF alloca
  <2> QED
    BY <1>1, <1>5, <1>7, <2>1, <2>2, EmitFlows
<1> HIDE DEF declared
<1>9. /\ Flows(src', code', owner', st, misuse')
      /\ \A b \in Blocks : b \notin {top.fn, top.block} => code'[b] = code[b]
      /\ code'[top.block] # <<>> /\ code'[top.block][Len(code'[top.block])].at = n + 1
  <2>1. ASSUME NEW cs, Flows(src', cs, owner', st, misuse'),
               cs = code \/ Elsewhere(code, top.fn, cs),
               code' = Emit(cs, top.block, inst)
        PROVE  /\ Flows(src', code', owner', st, misuse')
               /\ \A b \in Blocks : b \notin {top.fn, top.block} => code'[b] = code[b]
               /\ code'[top.block] # <<>> /\ code'[top.block][Len(code'[top.block])].at = n + 1
    <3>1. Len(cs) = Len(code) /\ \A b \in Blocks : b # top.fn => cs[b] = code[b]
      BY <1>5, <2>1 DEF Elsewhere
    <3>2. n + 1 \in 1..Len(src') /\ src'[n + 1] # "func"
      BY <1>3
    <3>3. cs[top.block] = code[top.block]
      BY <1>5, <3>1
    <3>4. /\ Flows(src', code', owner', st, misuse') /\ Elsewhere(cs, top.block, code')
          /\ code'[top.block] # <<>>
          /\ code'[top.block][Len(code'[top.block])] = inst
      BY <1>1, <1>4, <1>5, <1>6, <2>1, <3>1, <3>2, <3>3, InstFlows
    <3>5. inst.at = n + 1
      BY DEF Instr
    <3> HIDE DEF inst, n
    <3> QED
      BY <1>5, <3>1, <3>4, <3>5 DEF Elsewhere
  <2> QED
    BY <1>2, <1>7, <1>8, <2>1
<1>10. Nested(src', frames')
  <2>1. \A k \in 1..Len(frames) : SameCall(frames, frames', k)
    BY <1>1 DEF SameCall
  <2> QED
    BY <1>1, <1>2, <1>3, <1>5, <2>1, NestedSimple DEF FlowInv, InBody
<1>11. ASSUME NEW k \in Calls, frames[k].fn \notin misuse'
       PROVE  CallFlows(src', code', st, frames[k], NextOf(k)')
  <2>1. CASE k = N
    <3>1. NextOf(k)' = n + 2
      BY <1>1, <1>3, <2>1 DEF NextOf
    <3>2. Started(code, st, top)
      BY <1>5, <1>6, <1>11, <2>1 DEF Grounds, CallFlows
    <3>3. top.kind = "while" => top.cond \notin {top.fn, top.block}
      <4>1. FramesLinked!(N)
        BY <1>5 DEF Inv, IInv, FramesLinked
      <4> QED
        BY <1>5, <4>1
    <3>4. Started(code', st, top)
      BY <1>5, <1>9, <3>2, <3>3, StartedKept DEF SameStart
    <3>5. Arrives(src', code'[top.block], st[top.block], n + 2)
      <4>1. src'[n + 1] \in Simples /\ n + 1 \in 1..Len(src') /\ (n + 1) + 1 = n + 2
        BY <1>2, <1>3 DEF Simples
      <4> DEFINE p == n + 1
      <4>2. p \in 1..Len(src') /\ src'[p] \in Simples /\ p + 1 = n + 2
            /\ code'[top.block] # <<>> /\ code'[top.block][Len(code'[top.block])].at = p
        BY <1>9, <4>1
      <4> HIDE DEF p
      <4>3. Arrives(src', code'[top.block], st[top.block], p + 1)
        BY <4>2, SimpleArrives
      <4> QED
        BY <4>2, <4>3
    <3> QED
      BY <1>5, <2>1, <3>1, <3>4, <3>5 DEF CallFlows
  <2>2. CASE k # N
    <3>1. \A b \in {top.fn, top.block} : Apart(k, b)
      BY <1>1, <2>2, TopApart
    <3>2. NextOf(k)' = NextOf(k) /\ SameStart(frames[k], frames'[k])
          /\ frames'[k].block = frames[k].block
      BY <1>1, <2>2 DEF NextOf, SameStart
    <3> DEFINE T == {top.fn, top.block}
    <3>3. /\ \A b \in Blocks : b \notin T => code'[b] = code[b]
          /\ \A b \in T : Apart(k, b)
      BY <1>9, <3>1
    <3>4. frames'[k].fn \notin misuse' /\ k # Len(frames)
      BY <1>1, <1>11, <2>2
    <3> HIDE DEF T
    <3>5. CallFlows(src', code', st, frames'[k], NextOf(k)')
      BY <1>6, <3>2, <3>3, <3>4, OutersKept
    <3> QED
      BY <1>1, <3>5
  <2> QED
    BY <2>1, <2>2
<1>12. FlowsFrom(st)'
  BY <1>1, <1>9, <1>11 DEF FlowsFrom, Calls
<1> QED
  BY <1>10, <1>12 DEF FlowInv

\* A return leaves the function and closes its block.
LEMMA ReturnFlows == ASSUME Inv, PlacedInv, FlowInv, Return PROVE FlowInv'
<1> DEFINE n == Len(src)
           ret == Instr("ret", <<>>, n + 1)
           N == Len(frames)
<1>1. /\ InBody /\ owner' = owner /\ NoteStatement /\ Read("return")
      /\ code' = Emit(code, top.block, ret)
      /\ frames' = [frames EXCEPT ![N].straight = FALSE, ![N].returned = TRUE]
  BY DEF Return
<1>2. /\ Longer(src, src') /\ n \in Nat /\ Len(src') = n + 1 /\ src'[Len(src')] = "return"
      /\ src'[n + 1] = "return"
  BY <1>1, ReadLonger DEF Tokens
<1>3. misuse \subseteq misuse' /\ (top.returned => top.fn \in misuse')
  BY <1>1, NoteLemma
<1>4. /\ Len(code) \in Nat /\ Blocks = 1..Len(code) /\ owner \in Seq(Nat)
      /\ top.fn \in Blocks /\ top.block \in Blocks /\ top.fn # top.block
      /\ owner[top.block] = top.fn /\ code \in Seq(Seq(InstrType))
      /\ N \in Calls /\ top = frames[N] /\ frames \in Seq(FrameType)
      /\ frames[N] \in FrameType
  BY <1>1, BodyLemma, TopLemma DEF Inv, TypeOK
<1>5. /\ Len(frames') = Len(frames) /\ frames' \in Seq(FrameType)
      /\ \A k \in Calls : SameStart(frames[k], frames'[k]) /\ frames'[k].block = frames[k].block
  <2> DEFINE g == [frames[N] EXCEPT !.straight = FALSE, !.returned = TRUE]
  <2>1. g \in FrameType /\ SameStart(frames[N], g) /\ g.block = frames[N].block
    BY <1>4 DEF FrameType, SameStart
  <2>2. frames' = [frames EXCEPT ![N] = g]
    BY <1>1, <1>4
  <2> HIDE DEF g, N
  <2>3. /\ frames' \in Seq(FrameType) /\ Len(frames') = Len(frames)
        /\ \A k \in Calls : frames'[k] = IF k = N THEN g ELSE frames[k]
    BY <1>4, <2>1, <2>2, ExceptSeq DEF Calls
  <2> QED
    BY <2>1, <2>3 DEF SameStart
<1>6. PICK st \in Seq(Nat \ {0}) : Grounds(st)
  <2>1. <<>> \in Seq(Nat \ {0}) /\ Len(<<>>) = 0
    OBVIOUS
  <2>2. owner' \in Seq(Nat) /\ Len(owner') = Len(owner) + Len(<<>>)
    BY <1>1, <1>4
  <2> HIDE DEF n
  <2> QED
    BY <1>1, <1>2, <1>3, <2>1, <2>2, GroundLemma
<1>7. /\ Flows(src', code', owner', st, misuse') /\ Elsewhere(code, top.block, code')
      /\ Terminated(code'[top.block])
  <2>1. /\ ret \in InstrType /\ IsTerm(ret) /\ ret.op = "ret" /\ ret.at = n + 1 /\ ret.to = <<>>
        /\ Targets(ret, owner', owner'[top.block])
    BY <1>2, InstrLemma, TargetsLemma DEF Instr, Terminators
  <2>2. ASSUME owner'[top.block] \notin misuse'
        PROVE  Fits(src', code, owner', st, top.block, ret)
    <3>1. ~ Terminated(code[top.block])
      BY <1>1, <1>3, <1>4, <2>2, TopOpen
    <3>2. Arrives(src', code[top.block], st[top.block], n + 1)
      BY <1>1, <1>3, <1>4, <1>6, <2>2, <3>1, TopArrives
    <3>3. n + 1 \in 1..Len(src') /\ src'[n + 1] # "func"
      BY <1>2
    <3> HIDE DEF n, ret
    <3>4. Ready(src', code[top.block], st[top.block], n + 1)
      BY <3>2, <3>3, ArrivesReady
    <3>5. Leaves(src', n + 1)
      BY <1>2, <3>3 DEF Leaves
    <3>6. 1..Len(ret.to) = {}
      BY <2>1
    <3>7. Linked(src', code, st, ret)
      BY <2>1, <3>5, <3>6 DEF Linked
    <3> QED
      BY <1>1, <1>4, <2>1, <3>3, <3>4, <3>7 DEF Fits
  <2>3. Flows(src', code, owner', st, misuse') /\ ret.op # "alloca"
    BY <1>6, <2>1 DEF Grounds
  <2> HIDE DEF ret
  <2>4. Flows(src', code', owner', st, misuse') /\ Elsewhere(code, top.block, code')
    BY <1>1, <1>4, <2>1, <2>2, <2>3, EmitFlows
  <2> QED
    BY <1>1, <1>4, <2>1, <2>4, EmittedAt
<1>8. Nested(src', frames')
  <2>1. \A k \in 1..Len(frames) : SameCall(frames, frames', k)
    BY <1>5 DEF SameCall, SameStart, Calls
  <2> QED
    BY <1>1, <1>2, <1>4, <1>5, <2>1, NestedSimple DEF FlowInv, InBody
<1>9. ASSUME NEW k \in Calls, frames'[k].fn \notin misuse'
      PROVE  CallFlows(src', code', st, frames'[k], NextOf(k)')
  <2> DEFINE T == {top.block}
  <2>1. \A b \in Blocks : b \notin T => code'[b] = code[b]
    BY <1>4, <1>7 DEF Elsewhere
  <2>2. CASE k = N
    <3>1. Started(code, st, frames[k]) /\ SameStart(frames[k], frames'[k])
          /\ frames'[k].block = top.block
      BY <1>4, <1>5, <1>6, <1>9, <2>2 DEF Grounds, CallFlows, SameStart
    <3>2. frames[k].kind = "while" => frames[k].cond \notin T
      <4>1. FramesLinked!(N)
        BY <1>4 DEF Inv, IInv, FramesLinked
      <4> QED
        BY <1>4, <2>2, <4>1
    <3> HIDE DEF T
    <3>3. Started(code', st, frames'[k])
      BY <2>1, <3>1, <3>2, StartedKept
    <3> QED
      BY <1>7, <3>1, <3>3 DEF CallFlows
  <2>3. CASE k # N
    <3>1. \A b \in T : Apart(k, b)
      BY <1>1, <2>3, TopApart
    <3>2. NextOf(k)' = NextOf(k)
      <4>1. k + 1 \in Calls /\ k # Len(frames')
        BY <1>4, <1>5, <2>3 DEF Calls
      <4> QED
        BY <1>5, <2>3, <4>1 DEF NextOf, SameStart
    <3> HIDE DEF T
    <3>3. SameStart(frames[k], frames'[k]) /\ frames'[k].block = frames[k].block
      BY <1>5
    <3> QED
      BY <1>6, <1>9, <2>1, <2>3, <3>1, <3>2, <3>3, OutersKept
  <2> QED
    BY <2>2, <2>3
<1>10. FlowsFrom(st)'
  <2>1. Calls' = Calls
    BY <1>5 DEF Calls
  <2> QED
    BY <1>7, <1>9, <2>1 DEF FlowsFrom
<1> QED
  BY <1>8, <1>10 DEF FlowInv

\* A block is created.
LEMMA EmptyBlockFlows ==
    ASSUME NEW s, NEW o \in Seq(Nat), NEW st, NEW M, NEW cs, Flows(s, cs, o, st, M),
           Len(cs) + 1 <= Len(o)
    PROVE  Flows(s, NewBlock(cs), o, st, M) /\ Adds(cs, <<>>, NewBlock(cs))
<1>1. Stage(Append(cs, <<>>), o)
  BY NewBlockStage DEF Flows, NewBlock
<1>2. <<>> \in Seq(InstrType) /\ Len(<<>>) <= 1 /\ 1..Len(<<>>) = {}
  OBVIOUS
<1>3. Heads(s, <<>>, st[Len(cs) + 1])
  BY DEF Heads
<1> QED
  BY <1>1, <1>2, <1>3, NewBlockFlows DEF NewBlock

\* The start of one more block, and of two.
LEMMA GroundOne ==
    ASSUME Inv, PlacedInv, FlowInv, InBody, Longer(src, src'), misuse \subseteq misuse', Grown(1),
           NEW x \in Nat \ {0}
    PROVE  \E st \in Seq(Nat \ {0}) : Grounds(st) /\ st[Len(code) + 1] = x
<1> DEFINE e == <<x>>
<1>1. e \in Seq(Nat \ {0}) /\ Len(e) = 1 /\ e[1] = x /\ 1 \in 1..Len(e)
  OBVIOUS
<1>2. /\ owner' \in Seq(Nat) /\ Len(owner') = Len(owner) + 1
      /\ \A b \in 1..Len(owner) : owner'[b] = owner[b]
  BY BodyLemma DEF Grown
<1> HIDE DEF e
<1>3. \E st \in Seq(Nat \ {0}) :
         Grounds(st) /\ \A i \in 1..Len(e) : st[Len(code) + i] = e[i]
  BY <1>1, <1>2, GroundLemma
<1> QED
  BY <1>1, <1>3

\* A step reads a token and adds two blocks, that start at x and at y.
LEMMA GroundTwo ==
    ASSUME Inv, FlowInv, Longer(src, src'), misuse \subseteq misuse',
           owner' \in Seq(Nat), Len(owner') = Len(owner) + 2,
           \A b \in 1..Len(owner) : owner'[b] = owner[b],
           NEW x \in Nat \ {0}, NEW y \in Nat \ {0}
    PROVE  \E st \in Seq(Nat \ {0}) :
              Grounds(st) /\ st[Len(code) + 1] = x /\ st[Len(code) + 2] = y
<1> DEFINE e == <<x, y>>
<1>1. e \in Seq(Nat \ {0}) /\ Len(e) = 2 /\ e[1] = x /\ e[2] = y
      /\ 1 \in 1..Len(e) /\ 2 \in 1..Len(e)
  OBVIOUS
<1> HIDE DEF e
<1>2. \E st \in Seq(Nat \ {0}) :
         Grounds(st) /\ \A i \in 1..Len(e) : st[Len(code) + i] = e[i]
  BY <1>1, GroundLemma
<1> QED
  BY <1>1, <1>2

\* A body whose first block is empty has come to the position next to its token.
LEMMA EmptyCall ==
    ASSUME NEW s, NEW cs, NEW st, NEW f \in FrameType, cs[f.block] = <<>>, f.first = f.block,
           st[f.block] = f.tok + 1,
           f.kind = "while" => /\ st[f.cond] = f.tok
                               /\ cs[f.cond] = <<Instr("inst", <<>>, f.tok)>>
    PROVE  CallFlows(s, cs, st, f, f.tok + 1)
<1>1. f.tok + 1 \in Nat
  BY DEF FrameType
<1>2. Passed(s, f.tok + 1, f.tok + 1)
  BY <1>1, PassedSelf
<1> QED
  BY <1>2 DEF CallFlows, Arrives, Started

\* The calls after one has begun.
LEMMA PushFlows ==
    ASSUME Inv, NEW st, Flows(src', code', owner', st, misuse'), NEW f, f.tok = Len(src) + 1,
           Len(src') = Len(src) + 1, Len(frames') = Len(frames) + 1,
           frames'[Len(frames) + 1] = f,
           \A k \in Calls : SameStart(frames[k], frames'[k]),
           \A k \in Calls : frames'[k].fn \notin misuse' =>
                                CallFlows(src', code', st, frames'[k], NextOf(k)),
           f.fn \notin misuse' => CallFlows(src', code', st, f, f.tok + 1)
    PROVE  FlowsFrom(st)'
<1>1. Len(frames) \in Nat /\ Len(src) \in Nat /\ Calls' = 1..(Len(frames) + 1)
  BY DEF Inv, TypeOK, Calls
<1>2. ASSUME NEW k \in 1..(Len(frames) + 1), frames'[k].fn \notin misuse'
      PROVE  CallFlows(src', code', st, frames'[k], NextOf(k)')
  <2>1. CASE k = Len(frames) + 1
    <3>1. NextOf(k)' = f.tok + 1
      BY <1>1, <2>1 DEF NextOf
    <3> QED
      BY <1>2, <2>1, <3>1
  <2>2. CASE k = Len(frames)
    <3>1. NextOf(k)' = NextOf(k) /\ k \in Calls
      BY <1>1, <2>2 DEF NextOf, Calls
    <3> QED
      BY <1>2, <3>1
  <2>3. CASE k \in 1..(Len(frames) - 1)
    <3>1. k + 1 \in Calls /\ k \in Calls /\ k # Len(frames) /\ k # Len(frames')
      BY <1>1, <2>3 DEF Calls
    <3>2. frames'[k + 1].tok = frames[k + 1].tok
      BY <3>1 DEF SameStart
    <3>3. NextOf(k)' = NextOf(k)
      BY <3>1, <3>2 DEF NextOf
    <3> QED
      BY <1>2, <3>1, <3>3
  <2> QED
    BY <1>1, <2>1, <2>2, <2>3
<1> QED
  BY <1>1, <1>2 DEF FlowsFrom

\* The calls there were are the same, but for the history.
Below(n) ==
    /\ Len(frames') = n + 1 /\ frames' \in Seq(FrameType)
    /\ \A k \in Calls : SameStart(frames[k], frames'[k]) /\ frames'[k].block = frames[k].block

\* What a call that begins leaves as it was.
LEMMA PushBelow ==
    ASSUME Inv, InBody, NEW f \in FrameType, Push(f)
    PROVE  Below(Len(frames)) /\ frames'[Len(frames) + 1] = f
BY PushLemma DEF Below, SameStart

\* A compound statement begins: its first instructions go to the block of the
\* innermost body, or nothing does.
LEMMA BeginFlows ==
    ASSUME Inv, PlacedInv, InBody, NEW st, Grounds(st), misuse \subseteq misuse',
           Len(src') = Len(src) + 1, NEW f, f.tok = Len(src) + 1,
           Below(Len(frames)), frames'[Len(frames) + 1] = f,
           Flows(src', code', owner', st, misuse'),
           \A b \in Blocks : b # top.block => code'[b] = code[b],
           \/ code'[top.block] = code[top.block]
           \/ /\ code'[top.block] # <<>>
              /\ code'[top.block][Len(code'[top.block])].at = Len(src) + 1
              /\ src'[Len(src) + 1] # "func",
           f.fn \notin misuse' => CallFlows(src', code', st, f, f.tok + 1)
    PROVE  FlowsFrom(st)'
<1>1. /\ Len(frames) \in Calls /\ top = frames[Len(frames)] /\ top.block \in Blocks
      /\ top.block # top.fn
  BY TopLemma
<1>2. ASSUME NEW k \in Calls, frames'[k].fn \notin misuse'
      PROVE  CallFlows(src', code', st, frames'[k], NextOf(k))
  <2> DEFINE T == {top.block}
  <2>1. \A b \in Blocks : b \notin T => code'[b] = code[b]
    OBVIOUS
  <2>2. /\ SameStart(frames[k], frames'[k]) /\ frames'[k].block = frames[k].block
        /\ CallFlows(src', code, st, frames[k], NextOf(k))
    BY <1>2 DEF Below, SameStart, Grounds
  <2>3. CASE k = Len(frames)
    <3>1. frames[k].kind = "while" => frames[k].cond \notin T
      <4>1. FramesLinked!(k)
        BY DEF Inv, IInv, FramesLinked
      <4> QED
        BY <1>1, <2>3, <4>1
    <3> HIDE DEF T
    <3>2. Started(code', st, frames'[k])
      BY <2>1, <2>2, <3>1, StartedKept DEF CallFlows
    <3>3. /\ NextOf(k) = Len(src) + 1 /\ frames'[k].block = top.block
          /\ ~ Terminated(code[top.block]) =>
                Arrives(src', code[top.block], st[top.block], NextOf(k))
      BY <1>1, <2>2, <2>3 DEF NextOf, CallFlows
    <3>4. ASSUME ~ Terminated(code'[top.block])
          PROVE  Arrives(src', code'[top.block], st[top.block], NextOf(k))
      <4>1. Len(src) + 1 \in 1..Len(src')
        BY DEF Inv, TypeOK
      <4> QED
        BY <3>3, <3>4, <4>1 DEF Arrives
    <3> QED
      BY <3>2, <3>3, <3>4 DEF CallFlows
  <2>4. CASE k # Len(frames)
    <3>1. \A b \in T : Apart(k, b)
      BY <2>4, TopApart
    <3> HIDE DEF T
    <3> QED
      BY <2>1, <2>2, <3>1, CallKept
  <2> QED
    BY <2>3, <2>4
<1> QED
  BY <1>2, PushFlows DEF Below

\* The statement that is opened is that of the new call.
LEMMA BeginNested ==
    ASSUME Inv, FlowInv, NEW token \in S!Openers, Longer(src, src'), src'[Len(src')] = token,
           Below(Len(frames)), NEW f, frames'[Len(frames) + 1] = f,
           f.tok = Len(src) + 1, f.kind # "else", TokenOf(f.kind) = token
    PROVE  Nested(src', frames')
<1>1. \A k \in 1..Len(frames) : SameCall(frames, frames', k)
  BY DEF Below, SameStart, SameCall, Calls
<1>2. frames \in Seq(FrameType) /\ frames' \in Seq(FrameType) /\ Len(frames') = Len(frames) + 1
  BY DEF Below, Inv, TypeOK
<1>3. Len(src') = Len(src) + 1 /\ Nested(src, frames)
  BY DEF Longer, FlowInv
<1> QED
  BY <1>1, <1>2, <1>3, NestedPush

\* The new call of a body.
LEMMA FrameFlows ==
    ASSUME Inv, NEW kind \in Kinds, NEW fn \in Nat, NEW block \in Nat, NEW test \in Nat
    PROVE  LET f == Frame(kind, fn, block, test)
           IN  /\ f \in FrameType /\ f.kind = kind /\ f.fn = fn /\ f.block = block
               /\ f.first = f.block /\ f.cond = test /\ f.tok = Len(src) + 1
BY FrameLemma DEF Frame

\* The condition of an if goes to the block of the body around it; the then branch
\* starts behind the "if".
LEMMA BeginIfFlows == ASSUME Inv, PlacedInv, FlowInv, BeginIf PROVE FlowInv'
<1> DEFINE n == Len(src)
           m == Len(code)
           inst == Instr("inst", <<>>, n + 1)
           tested == Emit(code, top.block, inst)
           f == Frame("then", top.fn, m + 1, 0)
<1>1. /\ InBody /\ owner' = Append(owner, top.fn) /\ NoteStatement /\ Read("if")
      /\ code' = NewBlock(tested) /\ Push(f)
  BY DEF BeginIf
<1>2. /\ Longer(src, src') /\ n \in Nat /\ Len(src') = n + 1 /\ src'[Len(src')] = "if"
      /\ src'[n + 1] = "if"
  BY <1>1, ReadLonger DEF Tokens, Opening
<1>3. misuse \subseteq misuse' /\ (top.returned => top.fn \in misuse')
  BY <1>1, NoteLemma
<1>4. /\ m \in Nat /\ Blocks = 1..m /\ top.block \in Blocks /\ top.fn \in Nat
  BY <1>1, BodyLemma
<1>5. Grown(1)
  BY <1>1, GrownLemma
<1>6. /\ f \in FrameType /\ f.kind = "then" /\ f.fn = top.fn /\ f.block = m + 1
      /\ f.first = f.block /\ f.tok = n + 1
  <2>1. "then" \in Kinds /\ m + 1 \in Nat /\ 0 \in Nat
    BY <1>4 DEF Kinds
  <2> QED
    BY <1>4, <2>1, FrameFlows
<1> HIDE DEF f
<1>7. Below(Len(frames)) /\ frames'[Len(frames) + 1] = f
  BY <1>1, <1>6, PushBelow
<1>8. PICK st \in Seq(Nat \ {0}) : Grounds(st) /\ st[m + 1] = n + 2
  <2>1. n + 2 \in Nat \ {0}
    BY <1>2
  <2> HIDE DEF n
  <2> QED
    BY <1>1, <1>2, <1>3, <1>5, <2>1, GroundOne
<1>9. /\ Flows(src', tested, owner', st, misuse') /\ Elsewhere(code, top.block, tested)
      /\ tested[top.block] # <<>> /\ tested[top.block][Len(tested[top.block])] = inst
  <2>1. n + 1 \in 1..Len(src') /\ src'[n + 1] # "func"
    BY <1>2
  <2>2. /\ owner' \in Seq(Nat) /\ (\A b \in Blocks : owner'[b] = owner[b])
        /\ Flows(src', code, owner', st, misuse')
    BY <1>5, <1>8 DEF Grown, Grounds
  <2> QED
    BY <1>1, <1>3, <1>8, <2>1, <2>2, InstFlows
<1>10. inst.at = n + 1
  BY DEF Instr
<1> HIDE DEF tested, inst
<1>11. Flows(src', code', owner', st, misuse') /\ Adds(tested, <<>>, code')
  <2>1. owner' \in Seq(Nat) /\ Len(tested) + 1 <= Len(owner')
    BY <1>5, <1>9 DEF Grown, Elsewhere
  <2> QED
    BY <1>1, <1>9, <2>1, EmptyBlockFlows
<1>12. /\ code'[m + 1] = <<>> /\ code'[top.block] = tested[top.block]
       /\ \A b \in Blocks : b # top.block => code'[b] = code[b]
  BY <1>4, <1>9, <1>11 DEF Adds, Elsewhere
<1>13. CallFlows(src', code', st, f, f.tok + 1)
  <2>1. st[f.block] = f.tok + 1
    BY <1>2, <1>6, <1>8
  <2> QED
    BY <1>6, <1>12, <2>1, EmptyCall
<1>14. FlowsFrom(st)'
  BY <1>1, <1>2, <1>3, <1>6, <1>7, <1>8, <1>9, <1>10, <1>11, <1>12, <1>13, BeginFlows
<1>15. Nested(src', frames')
  <2>1. "if" \in S!Openers /\ TokenOf(f.kind) = "if" /\ f.kind # "else"
    BY <1>6 DEF TokenOf, S!Openers
  <2> QED
    BY <1>2, <1>6, <1>7, <2>1, BeginNested
<1> QED
  BY <1>14, <1>15 DEF FlowInv

\* The else branch and the loop only add the block their body starts in.
LEMMA NewBodyFlows ==
    ASSUME Inv, PlacedInv, FlowInv, BeginElse \/ BeginLoop
    PROVE  FlowInv'
<1> DEFINE n == Len(src)
           m == Len(code)
<1>1. PICK kind \in {"else", "loop"} :
        /\ InBody /\ owner' = Append(owner, top.fn) /\ Read(kind) /\ code' = NewBlock(code)
        /\ kind = "else" => /\ frames' = Append(frames, Frame(kind, top.fn, m + 1, 0))
                            /\ misuse' = misuse /\ top.kind = "then"
        /\ kind = "loop" => Push(Frame(kind, top.fn, m + 1, 0)) /\ NoteStatement
  BY DEF BeginElse, BeginLoop, BodyComplete
<1> DEFINE f == Frame(kind, top.fn, m + 1, 0)
<1>2. /\ Longer(src, src') /\ n \in Nat /\ Len(src') = n + 1 /\ src'[Len(src')] = kind
  BY <1>1, ReadLonger DEF Tokens, Opening
<1>3. misuse \subseteq misuse'
  BY <1>1, NoteLemma
<1>4. /\ m \in Nat /\ Blocks = 1..m /\ top.block \in Blocks /\ top.fn \in Nat
      /\ Len(frames) \in Calls /\ top = frames[Len(frames)]
  BY <1>1, BodyLemma, TopLemma
<1>5. Grown(1)
  BY <1>1, GrownLemma
<1>6. /\ f \in FrameType /\ f.kind = kind /\ f.fn = top.fn /\ f.block = m + 1
      /\ f.first = f.block /\ f.tok = n + 1
  <2>1. kind \in Kinds /\ top.fn \in Nat /\ m + 1 \in Nat /\ 0 \in Nat
    BY <1>4 DEF Kinds
  <2> HIDE DEF m
  <2>2. LET g == Frame(kind, top.fn, m + 1, 0)
        IN  /\ g \in FrameType /\ g.kind = kind /\ g.fn = top.fn /\ g.block = m + 1
            /\ g.first = g.block /\ g.cond = 0 /\ g.tok = Len(src) + 1
    BY <2>1, FrameFlows
  <2> QED
    BY <2>2
<1>7. Below(Len(frames)) /\ frames'[Len(frames) + 1] = f
  <2>1. CASE kind = "loop"
    BY <1>1, <1>6, <2>1, PushBelow
  <2>2. CASE kind = "else"
    <3>1. frames' = Append(frames, f) /\ frames \in Seq(FrameType)
      BY <1>1, <2>2 DEF Inv, TypeOK
    <3> HIDE DEF f
    <3>2. /\ Len(frames') = Len(frames) + 1 /\ frames' \in Seq(FrameType)
          /\ frames'[Len(frames) + 1] = f /\ \A k \in Calls : frames'[k] = frames[k]
      BY <1>6, <3>1 DEF Calls
    <3> QED
      BY <3>2 DEF Below, SameStart
  <2> QED
    BY <2>1, <2>2
<1> HIDE DEF f
<1>8. PICK st \in Seq(Nat \ {0}) : Grounds(st) /\ st[m + 1] = n + 2
  <2>1. n + 2 \in Nat \ {0}
    BY <1>2
  <2> HIDE DEF n
  <2> QED
    BY <1>1, <1>2, <1>3, <1>5, <2>1, GroundOne
<1>9. Flows(src', code', owner', st, misuse') /\ Adds(code, <<>>, code')
  <2>1. owner' \in Seq(Nat) /\ m + 1 <= Len(owner') /\ Flows(src', code, owner', st, misuse')
    BY <1>5, <1>8 DEF Grown, Grounds
  <2> QED
    BY <1>1, <2>1, EmptyBlockFlows
<1>10. code'[m + 1] = <<>> /\ \A b \in Blocks : code'[b] = code[b]
  BY <1>4, <1>9 DEF Adds
<1>11. CallFlows(src', code', st, f, f.tok + 1)
  <2>1. st[f.block] = f.tok + 1 /\ f.kind # "while"
    BY <1>1, <1>2, <1>6, <1>8
  <2> QED
    BY <1>6, <1>10, <2>1, EmptyCall
<1>12. FlowsFrom(st)'
  BY <1>1, <1>2, <1>3, <1>4, <1>6, <1>7, <1>8, <1>9, <1>10, <1>11, BeginFlows
<1>13. Nested(src', frames')
  <2>1. CASE kind = "loop"
    <3>1. "loop" \in S!Openers /\ TokenOf(f.kind) = "loop" /\ f.kind # "else"
      BY <1>6, <2>1 DEF TokenOf, S!Openers
    <3> QED
      BY <1>2, <1>6, <1>7, <2>1, <3>1, BeginNested
  <2>2. CASE kind = "else"
    <3>1. \A k \in 1..Len(frames) : SameCall(frames, frames', k)
      BY <1>7 DEF Below, SameStart, SameCall, Calls
    <3>2. frames \in Seq(FrameType) /\ frames' \in Seq(FrameType) /\ Len(frames') = Len(frames) + 1
          /\ frames # <<>> /\ frames[Len(frames)].kind = "then" /\ Nested(src, frames)
      BY <1>1, <1>4, <1>7, <2>2 DEF Below, Inv, TypeOK, InBody, FlowInv
    <3> QED
      BY <1>2, <1>6, <1>7, <2>2, <3>1, <3>2, NestedElse
  <2> QED
    BY <2>1, <2>2
<1> QED
  BY <1>12, <1>13 DEF FlowInv

\* The condition of a while has a block of its own.
LEMMA BeginWhileFlows == ASSUME Inv, PlacedInv, FlowInv, BeginWhile PROVE FlowInv'
<1> DEFINE n == Len(src)
           m == Len(code)
           inst == Instr("inst", <<>>, n + 1)
           tested == Append(code, <<inst>>)
           f == Frame("while", top.fn, m + 2, m + 1)
<1>1. /\ InBody /\ owner' = owner \o <<top.fn, top.fn>> /\ NoteStatement /\ Read("while")
      /\ code' = code \o << <<inst>>, <<>> >> /\ Push(f)
  BY DEF BeginWhile
<1>2. /\ Longer(src, src') /\ n \in Nat /\ Len(src') = n + 1 /\ src'[Len(src')] = "while"
      /\ src'[n + 1] = "while"
  BY <1>1, ReadLonger DEF Tokens, Opening
<1>3. misuse \subseteq misuse'
  BY <1>1, NoteLemma
<1>4. /\ m \in Nat /\ Blocks = 1..m /\ top.block \in Blocks /\ top.fn \in Nat
      /\ Len(owner) = m /\ code \in Seq(Seq(InstrType))
  BY <1>1, BodyLemma DEF Inv, TypeOK
<1>5. Grown(2)
  BY <1>1, GrownLemma
<1>6. /\ f \in FrameType /\ f.kind = "while" /\ f.fn = top.fn /\ f.block = m + 2
      /\ f.first = f.block /\ f.tok = n + 1 /\ f.cond = m + 1
  <2> DEFINE body == m + 2
             condition == m + 1
  <2>1. /\ "while" \in Kinds /\ body \in Nat /\ condition \in Nat
        /\ f = Frame("while", top.fn, body, condition)
    BY <1>4 DEF Kinds
  <2> HIDE DEF body, condition, f
  <2>3. "while" \in Kinds /\ top.fn \in Nat /\ body \in Nat /\ condition \in Nat
    BY <1>4, <2>1
  <2>2. LET g == Frame("while", top.fn, body, condition)
        IN  /\ g \in FrameType /\ g.kind = "while" /\ g.fn = top.fn /\ g.block = body
            /\ g.first = g.block /\ g.cond = condition /\ g.tok = Len(src) + 1
    BY <2>3, FrameFlows
  <2> QED
    BY <2>1, <2>2 DEF body, condition
<1> HIDE DEF f
<1>7. Below(Len(frames)) /\ frames'[Len(frames) + 1] = f
  BY <1>1, <1>6, PushBelow
<1>8. PICK st \in Seq(Nat \ {0}) : Grounds(st) /\ st[m + 1] = n + 1 /\ st[m + 2] = n + 2
  <2>1. n + 1 \in Nat \ {0} /\ n + 2 \in Nat \ {0}
    BY <1>2
  <2>2. /\ owner' \in Seq(Nat) /\ Len(owner') = Len(owner) + 2
        /\ \A b \in 1..Len(owner) : owner'[b] = owner[b]
    BY <1>4, <1>5 DEF Grown
  <2> HIDE DEF n
  <2> QED
    BY <1>2, <1>3, <2>1, <2>2, GroundTwo
<1>9. /\ inst \in InstrType /\ inst.op # "alloca" /\ inst.to = <<>> /\ inst.at = n + 1
      /\ inst.op \notin {"br", "cbr"} /\ ~ IsTerm(inst)
  BY <1>2, InstrLemma DEF Instr, IsTerm, Terminators
<1> HIDE DEF inst
<1>10. Flows(src', tested, owner', st, misuse') /\ Adds(code, <<inst>>, tested)
  <2>1. owner' \in Seq(Nat) /\ m + 1 <= Len(owner') /\ Flows(src', code, owner', st, misuse')
        /\ Stage(code, owner')
    BY <1>5, <1>8 DEF Grown, Grounds
  <2>2. Stage(tested, owner')
    BY <1>9, <2>1, BlockWithStage
  <2>3. Heads(src', <<inst>>, st[m + 1])
    <3>1. Reaches(src', n + 1, n + 1)
      <4>1. n + 1 \in 1..Len(src') /\ src'[n + 1] # "func" /\ n + 1 \in Nat
        BY <1>2
      <4> QED
        BY <4>1, PassedSelf DEF Reaches
    <3>2. <<inst>>[1] = inst
      OBVIOUS
    <3> QED
      BY <1>8, <1>9, <3>1, <3>2 DEF Heads
  <2>4. /\ <<inst>> \in Seq(InstrType) /\ Len(<<inst>>) <= 1
        /\ \A i \in 1..Len(<<inst>>) : <<inst>>[i] = inst
    BY <1>9
  <2>5. n + 1 \in 1..Len(src')
    BY <1>2
  <2>6. \A i \in 1..Len(<<inst>>) :
           <<inst>>[i].to = <<>> /\ ~ IsTerm(<<inst>>[i]) /\ <<inst>>[i].at \in 1..Len(src')
    BY <1>9, <2>4, <2>5
  <2> QED
    BY <2>1, <2>2, <2>3, <2>4, <2>6, NewBlockFlows
<1>11. code' = NewBlock(tested)
  <2>1. <<inst>> \in Seq(InstrType) /\ <<>> \in Seq(InstrType)
    BY <1>9
  <2> QED
    BY <1>1, <1>4, <2>1, TwoBlocksLemma DEF NewBlock
<1> HIDE DEF tested
<1>12. Flows(src', code', owner', st, misuse') /\ Adds(tested, <<>>, code')
  <2>1. owner' \in Seq(Nat) /\ Len(tested) + 1 <= Len(owner')
    BY <1>5, <1>10 DEF Grown, Adds
  <2> QED
    BY <1>10, <1>11, <2>1, EmptyBlockFlows
<1>13. /\ code'[m + 2] = <<>> /\ code'[m + 1] = <<inst>>
       /\ \A b \in Blocks : code'[b] = code[b]
  <2>1. Len(tested) = m + 1 /\ (m + 1) + 1 = m + 2 /\ m + 1 \in 1..Len(tested)
        /\ \A b \in 1..m : b \in 1..Len(tested)
    BY <1>4, <1>10 DEF Adds
  <2> QED
    BY <1>4, <1>10, <1>12, <2>1 DEF Adds
<1>14. CallFlows(src', code', st, f, f.tok + 1)
  <2>1. st[f.block] = f.tok + 1 /\ st[f.cond] = f.tok
    BY <1>2, <1>6, <1>8
  <2>2. code'[f.cond] = <<Instr("inst", <<>>, f.tok)>>
    BY <1>6, <1>13 DEF inst
  <2> QED
    BY <1>6, <1>13, <2>1, <2>2, EmptyCall
<1>15. FlowsFrom(st)'
  BY <1>1, <1>2, <1>3, <1>4, <1>6, <1>7, <1>8, <1>12, <1>13, <1>14, BeginFlows
<1>16. Nested(src', frames')
  <2>1. "while" \in S!Openers /\ TokenOf(f.kind) = "while" /\ f.kind # "else"
    BY <1>6 DEF TokenOf, S!Openers
  <2> QED
    BY <1>2, <1>6, <1>7, <2>1, BeginNested
<1> QED
  BY <1>15, <1>16 DEF FlowInv

\* A function that is declared in a body waits in blocks of its own.
LEMMA BeginFunctionFlows == ASSUME Inv, PlacedInv, FlowInv, BeginFunction PROVE FlowInv'
<1> DEFINE n == Len(src)
           m == Len(code)
           alloca == Instr("alloca", <<>>, n + 1)
           inst == Instr("inst", <<>>, n + 1)
           fn == m + 1
           body == m + 2
           f == Frame("func", fn, body, 0)
<1>1. /\ owner' = owner \o <<fn, fn>> /\ misuse' = misuse /\ Read("func")
      /\ \/ code' = code \o << <<alloca>>, <<inst>> >>
         \/ code' = code \o << <<>>, <<>> >>
      /\ frames' = Append(frames, f)
  BY DEF BeginFunction
<1>2. /\ Longer(src, src') /\ n \in Nat /\ Len(src') = n + 1 /\ src'[Len(src')] = "func"
      /\ src'[n + 1] = "func"
  BY <1>1, ReadLonger DEF Tokens, Opening
<1>3. /\ code \in Seq(Seq(InstrType)) /\ owner \in Seq(Nat) /\ Len(owner) = m
      /\ m \in Nat /\ frames \in Seq(FrameType) /\ Len(frames) \in Nat
  BY LenProperties DEF Inv, TypeOK
<1>4. fn \in Nat /\ body \in Nat /\ fn = m + 1 /\ body = m + 2 /\ body = fn + 1
  BY <1>3
<1> HIDE DEF fn, body
<1>5. /\ owner' \in Seq(Nat) /\ Len(owner') = m + 2
      /\ owner'[m + 1] = fn /\ owner'[m + 2] = fn
      /\ \A b \in 1..m : owner'[b] = owner[b]
  <2>1. owner \in Seq(Nat) /\ fn \in Nat /\ owner' = owner \o <<fn, fn>>
    BY <1>1, <1>3, <1>4
  <2>2. /\ owner' \in Seq(Nat) /\ Len(owner') = Len(owner) + 2
        /\ owner'[Len(owner) + 1] = fn /\ owner'[Len(owner) + 2] = fn
        /\ \A b \in 1..Len(owner) : owner'[b] = owner[b]
    BY <2>1, OwnerLemma
  <2> QED
    BY <1>3, <2>2
<1>6. /\ f \in FrameType /\ f.kind = "func" /\ f.fn = fn /\ f.block = body
      /\ f.first = f.block /\ f.tok = n + 1
  <2>1. "func" \in Kinds /\ 0 \in Nat
    BY DEF Kinds
  <2> QED
    BY <1>4, <2>1, FrameFlows
<1> HIDE DEF f
<1>7. Below(Len(frames)) /\ frames'[Len(frames) + 1] = f
  <2>1. /\ Len(frames') = Len(frames) + 1 /\ frames' \in Seq(FrameType)
        /\ frames'[Len(frames) + 1] = f /\ \A k \in Calls : frames'[k] = frames[k]
    BY <1>1, <1>3, <1>6 DEF Calls
  <2> QED
    BY <2>1 DEF Below, SameStart
<1>8. PICK st \in Seq(Nat \ {0}) : Grounds(st) /\ st[m + 1] = n + 1 /\ st[m + 2] = n + 2
  <2>1. n + 1 \in Nat \ {0} /\ n + 2 \in Nat \ {0}
    BY <1>2
  <2>2. /\ owner' \in Seq(Nat) /\ Len(owner') = Len(owner) + 2
        /\ \A b \in 1..Len(owner) : owner'[b] = owner[b]
    BY <1>3, <1>5
  <2>3. misuse \subseteq misuse'
    BY <1>1
  <2> HIDE DEF n
  <2> QED
    BY <1>2, <2>1, <2>2, <2>3, GroundTwo
<1>9. /\ alloca \in InstrType /\ inst \in InstrType /\ inst.op # "alloca"
      /\ inst.op \notin {"br", "cbr"} /\ alloca.op \notin {"br", "cbr"}
      /\ alloca.to = <<>> /\ inst.to = <<>> /\ alloca.at = n + 1 /\ inst.at = n + 1
      /\ ~ IsTerm(alloca) /\ ~ IsTerm(inst)
  BY <1>2, InstrLemma DEF Instr, IsTerm, Terminators
<1> HIDE DEF alloca, inst
<1>10. PICK x \in Seq(InstrType), y \in Seq(InstrType) :
         /\ \/ x = <<alloca>> /\ y = <<inst>>
            \/ x = <<>> /\ y = <<>>
         /\ code' = Append(Append(code, x), y)
  <2>1. /\ <<alloca>> \in Seq(InstrType) /\ <<inst>> \in Seq(InstrType) /\ <<>> \in Seq(InstrType)
    BY <1>9
  <2>2. \A x \in Seq(InstrType), y \in Seq(InstrType) :
           code \o <<x, y>> = Append(Append(code, x), y)
    BY <1>3, TwoBlocksLemma
  <2>3. CASE code' = code \o << <<alloca>>, <<inst>> >>
    BY <2>1, <2>2, <2>3
  <2>4. CASE code' = code \o << <<>>, <<>> >>
    BY <2>1, <2>2, <2>4
  <2> QED
    BY <1>1, <2>3, <2>4
<1>11. /\ Len(x) <= 1 /\ Len(y) <= 1
       /\ \A i \in 1..Len(x) : x[i].to = <<>> /\ ~ IsTerm(x[i]) /\ x[i].at \in 1..Len(src')
       /\ \A i \in 1..Len(y) : y[i].to = <<>> /\ ~ IsTerm(y[i]) /\ y[i].at \in 1..Len(src')
  <2>1. n + 1 \in 1..Len(src')
    BY <1>2
  <2>2. CASE x = <<alloca>> /\ y = <<inst>>
    <3>1. Len(x) = 1 /\ Len(y) = 1 /\ x[1] = alloca /\ y[1] = inst
      BY <2>2
    <3>2. \A i \in 1..1 : i = 1
      OBVIOUS
    <3> QED
      BY <1>9, <2>1, <3>1, <3>2
  <2>3. CASE x = <<>> /\ y = <<>>
    BY <2>3
  <2> QED
    BY <1>10, <2>2, <2>3
<1>12. Stage(Append(code, x), owner') /\ Len(Append(code, x)) = m + 1
  <2>1. Stage(code, owner') /\ m + 1 <= Len(owner')
    BY <1>3, <1>5, <1>8 DEF Grounds, Flows
  <2>2. CASE x = <<alloca>>
    BY <1>4, <1>5, <1>9, <2>1, <2>2, BlockWithStage
  <2>3. CASE x = <<>>
    BY <1>5, <2>1, <2>3, NewBlockStage DEF NewBlock
  <2> QED
    BY <1>10, <2>2, <2>3
<1>13. Stage(code', owner')
  <2> DEFINE cs == Append(code, x)
  <2>1. Stage(cs, owner') /\ Len(cs) + 1 <= Len(owner') /\ code' = Append(cs, y)
    BY <1>3, <1>5, <1>10, <1>12
  <2> HIDE DEF cs
  <2>2. CASE y = <<inst>>
    BY <1>5, <1>9, <2>1, <2>2, BlockWithStage
  <2>3. CASE y = <<>>
    BY <1>5, <2>1, <2>3, NewBlockStage DEF NewBlock
  <2> QED
    BY <1>10, <2>2, <2>3
<1>14. Flows(src', Append(code, x), owner', st, misuse') /\ Adds(code, x, Append(code, x))
  <2>1. owner'[m + 1] = m + 1
    BY <1>4, <1>5
  <2>2. Flows(src', code, owner', st, misuse')
    BY <1>8 DEF Grounds
  <2> QED
    BY <1>5, <1>11, <1>12, <2>1, <2>2, NewBlockFlows
<1>15. Flows(src', code', owner', st, misuse') /\ Adds(Append(code, x), y, code')
  <2> DEFINE cs == Append(code, x)
  <2>1. /\ Flows(src', cs, owner', st, misuse') /\ Len(cs) + 1 = m + 2
        /\ code' = Append(cs, y) /\ Stage(Append(cs, y), owner')
    BY <1>3, <1>10, <1>12, <1>13, <1>14
  <2>2. Heads(src', y, st[m + 2])
    <3>1. CASE y = <<inst>>
      <4>1. y # <<>> /\ y[1] = inst /\ n + 1 \in 1..Len(src') /\ (n + 1) + 1 = n + 2
        BY <1>2, <3>1
      <4> QED
        BY <1>2, <1>8, <1>9, <4>1 DEF Heads
    <3>2. CASE y = <<>>
      BY <3>2 DEF Heads
    <3> QED
      BY <1>10, <3>1, <3>2
  <2> HIDE DEF cs
  <2>3. LET b == Len(cs) + 1 IN owner'[b] \notin misuse' /\ owner'[b] # b => Heads(src', y, st[b])
    BY <2>1, <2>2
  <2>4. Flows(src', Append(cs, y), owner', st, misuse') /\ Adds(cs, y, Append(cs, y))
    BY <1>5, <1>11, <2>1, <2>3, NewBlockFlows
  <2> QED
    BY <2>1, <2>4 DEF cs
<1>16. code'[m + 2] = y /\ \A b \in Blocks : code'[b] = code[b]
  <2> DEFINE cs == Append(code, x)
  <2>1. Len(cs) = m + 1 /\ (m + 1) + 1 = m + 2 /\ \A b \in 1..m : b \in 1..Len(cs)
    BY <1>3, <1>12
  <2>2. (\A b \in 1..m : cs[b] = code[b]) /\ Adds(cs, y, code')
    BY <1>14, <1>15 DEF Adds
  <2> HIDE DEF cs
  <2> QED
    BY <2>1, <2>2 DEF Adds, Blocks
<1>17. CallFlows(src', code', st, f, f.tok + 1)
  <2>1. st[f.block] = f.tok + 1 /\ f.kind # "while" /\ code'[f.block] = y
    BY <1>2, <1>4, <1>6, <1>8, <1>16
  <2>2. CASE y = <<>>
    BY <1>6, <2>1, <2>2, EmptyCall
  <2>3. CASE y = <<inst>>
    <3>1. y # <<>> /\ y[Len(y)] = inst /\ n + 1 \in 1..Len(src')
      BY <1>2, <2>3
    <3> DEFINE p == n + 1
    <3>2. p \in 1..Len(src') /\ src'[p] \in Simples /\ y # <<>> /\ y[Len(y)].at = p
      BY <1>2, <1>9, <3>1 DEF Simples
    <3> HIDE DEF p
    <3>3. Arrives(src', y, st[f.block], p + 1)
      BY <3>2, SimpleArrives
    <3>4. Arrives(src', y, st[f.block], f.tok + 1)
      BY <1>6, <3>3 DEF p
    <3> QED
      BY <1>6, <2>1, <3>4 DEF CallFlows, Started
  <2> QED
    BY <1>10, <2>2, <2>3
<1>18. ASSUME NEW k \in Calls, frames'[k].fn \notin misuse'
       PROVE  CallFlows(src', code', st, frames'[k], NextOf(k))
  <2> DEFINE T == {}
  <2>1. (\A b \in Blocks : b \notin T => code'[b] = code[b]) /\ \A b \in T : Apart(k, b)
    BY <1>16
  <2>2. /\ SameStart(frames[k], frames'[k]) /\ frames'[k].block = frames[k].block
        /\ CallFlows(src', code, st, frames[k], NextOf(k))
    BY <1>7, <1>8, <1>18 DEF Below, SameStart, Grounds
  <2> HIDE DEF T
  <2> QED
    BY <2>1, <2>2, CallKept
<1>19. FlowsFrom(st)'
  <2>1. f.tok = Len(src) + 1 /\ Len(src') = Len(src) + 1
    BY <1>2, <1>6
  <2>2. Len(frames') = Len(frames) + 1 /\ \A k \in Calls : SameStart(frames[k], frames'[k])
    BY <1>7 DEF Below
  <2> HIDE DEF n
  <2> QED
    BY <1>7, <1>15, <1>17, <1>18, <2>1, <2>2, PushFlows
<1>20. Nested(src', frames')
  <2>1. "func" \in S!Openers /\ TokenOf(f.kind) = "func" /\ f.kind # "else"
    BY <1>6 DEF TokenOf, S!Openers
  <2> QED
    BY <1>2, <1>6, <1>7, <2>1, BeginNested
<1> QED
  BY <1>19, <1>20 DEF FlowInv

\* The calls after others have returned.
LEMMA PopFlows ==
    ASSUME Inv, NEW st, Flows(src', code', owner', st, misuse'),
           Len(src') = Len(src) + 1, NEW j \in Nat, j < Len(frames), Len(frames') = j,
           \A k \in 1..j : SameStart(frames[k], frames'[k]),
           \A k \in 1..(j - 1) : frames'[k].fn \notin misuse' =>
                                CallFlows(src', code', st, frames'[k], NextOf(k)),
           j \in 1..j /\ frames'[j].fn \notin misuse' =>
                                CallFlows(src', code', st, frames'[j], Len(src) + 2)
    PROVE  FlowsFrom(st)'
<1>1. Len(frames) \in Nat /\ Len(src) \in Nat /\ Calls' = 1..j
  BY DEF Inv, TypeOK, Calls
<1>2. ASSUME NEW k \in 1..j, frames'[k].fn \notin misuse'
      PROVE  CallFlows(src', code', st, frames'[k], NextOf(k)')
  <2>1. CASE k = j
    <3>1. NextOf(k)' = Len(src) + 2
      BY <1>1, <2>1 DEF NextOf
    <3> QED
      BY <1>2, <2>1, <3>1
  <2>2. CASE k \in 1..(j - 1)
    <3>1. k + 1 \in 1..j /\ k # Len(frames) /\ k # Len(frames')
      BY <1>1, <2>2
    <3>2. frames'[k + 1].tok = frames[k + 1].tok
      BY <3>1 DEF SameStart
    <3>3. NextOf(k)' = NextOf(k)
      BY <3>1, <3>2 DEF NextOf
    <3> QED
      BY <1>2, <2>2, <3>3
  <2> QED
    BY <1>1, <2>1, <2>2
<1> QED
  BY <1>1, <1>2 DEF FlowsFrom

\* A block that has come to a function goes on behind it when that is finished.
LEMMA ArrivesOver ==
    ASSUME NEW r \in Seq(Tokens), NEW c, NEW e \in Nat \ {0}, NEW p \in 1..Len(r),
           r[p] = "func", S!Closed(r, p), S!EndOf(r, p) = Len(r),
           \A k \in p..Len(r) : r[k] = "func" => S!Closed(r, k),
           Arrives(r, c, e, p)
    PROVE  Arrives(r, c, e, Len(r) + 1)
<1>1. ASSUME NEW a \in Nat \ {0}, Passed(r, a, p) PROVE Passed(r, a, Len(r) + 1)
  BY <1>1, PassedOver
<1>2. CASE c = <<>>
  BY <1>1, <1>2 DEF Arrives
<1>3. CASE c # <<>>
  <2> DEFINE q == c[Len(c)].at
  <2>1. q \in 1..Len(r) /\ r[q] \in Simples /\ Passed(r, q + 1, p)
    BY <1>3 DEF Arrives
  <2>2. q + 1 \in Nat \ {0}
    BY <2>1
  <2> HIDE DEF q
  <2>3. Passed(r, q + 1, Len(r) + 1)
    BY <1>1, <2>1, <2>2
  <2> QED
    BY <1>3, <2>1, <2>3 DEF Arrives, q
<1> QED
  BY <1>2, <1>3

\* The branch from "entry": the declaration goes on with its body.
LEMMA EntryFits ==
    ASSUME NEW s, NEW o \in Seq(Nat), NEW st, NEW M, NEW cs, Flows(s, cs, o, st, M),
           NEW fn \in 1..Len(cs), o[fn] = fn, fn \notin M,
           NEW b \in 1..Len(cs), o[b] = fn, b # fn,
           NEW p \in 1..Len(s), s[p] = "func", S!Closed(s, p), st[b] = p + 1
    PROVE  Fits(s, cs, o, st, fn, Instr("br", <<b>>, p))
<1> DEFINE x == Instr("br", <<b>>, p)
<1>1. x.op = "br" /\ x.at = p /\ x.to = <<b>> /\ Len(x.to) = 1 /\ x.to[1] = b
  BY DEF Instr
<1> HIDE DEF x
<1>2. BlockFlows(s, cs, o, st, b)
  BY DEF Flows
<1>3. Heads(s, cs[b], st[b])
  BY <1>2 DEF BlockFlows
<1>4. \A v : Lands(s, p, v, st[b])
  BY DEF Lands
<1>5. ASSUME NEW v \in BOOLEAN PROVE Leads(s, cs[b], st[b], p, v)
  <2>1. CASE cs[b] = <<>> \/ Reaches(s, st[b], cs[b][1].at)
    BY <1>4, <2>1 DEF Leads, Enters
  <2>2. CASE cs[b] # <<>> /\ cs[b][1].at \in 1..Len(s) /\ cs[b][1].at + 1 = p + 1
    <3>1. cs[b][1].at = p
      BY <2>2
    <3> QED
      BY <2>2, <3>1 DEF Leads
  <2> QED
    BY <1>3, <2>1, <2>2 DEF Heads
<1>6. \A j \in 1..Len(x.to) : x.to[j] \in 1..Len(cs)
  <2>1. \A j \in 1..1 : j = 1
    OBVIOUS
  <2> QED
    BY <1>1, <2>1
<1>7. Linked(s, cs, st, x)
  BY <1>1, <1>5, <1>6 DEF Linked
<1>8. Fits(s, cs, o, st, fn, x)
  BY <1>1, <1>7 DEF Fits, Declares
<1> QED
  BY <1>8 DEF x

\* At the end of a function its missing return and the branch from "entry" follow
\* the source, and the body around it goes on behind the declaration.
LEMMA EndFunctionFlows == ASSUME Inv, PlacedInv, FlowInv, EndFunction PROVE FlowInv'
<1> DEFINE n == Len(src)
           N == Len(frames)
           ret == Instr("ret", <<>>, n + 1)
           br == Instr("br", <<top.first>>, top.tok)
           returned == EmitUnlessTerminated(code, top.block, ret)
<1>1. /\ InBody /\ owner' = owner /\ misuse' = misuse /\ Read("end")
      /\ code' = Emit(returned, top.fn, br) /\ top.kind = "func"
      /\ frames' = SubSeq(frames, 1, N - 1)
  BY DEF EndFunction, BodyComplete
<1>2. /\ Longer(src, src') /\ n \in Nat /\ Len(src') = n + 1 /\ src'[Len(src')] = "end"
      /\ src'[n + 1] = "end" /\ src' \in Seq(Tokens)
  BY <1>1, ReadLonger DEF Tokens, Longer
<1>3. /\ Len(code) \in Nat /\ Blocks = 1..Len(code) /\ owner \in Seq(Nat)
      /\ top.fn \in Blocks /\ top.block \in Blocks /\ top.first \in Blocks
      /\ top.fn # top.block /\ top.fn # top.first
      /\ owner[top.block] = top.fn /\ owner[top.first] = top.fn /\ owner[top.fn] = top.fn
      /\ N \in Calls /\ N \in Nat \ {0} /\ top = frames[N] /\ frames \in Seq(FrameType)
      /\ top.tok \in Nat /\ top.first \in Nat
  BY <1>1, BodyLemma, TopLemma DEF Inv, TypeOK
<1>4. PICK st \in Seq(Nat \ {0}) : Grounds(st)
  <2>1. <<>> \in Seq(Nat \ {0}) /\ Len(<<>>) = 0
    OBVIOUS
  <2>2. owner' \in Seq(Nat) /\ Len(owner') = Len(owner) + Len(<<>>) /\ misuse \subseteq misuse'
    BY <1>1, <1>3
  <2> HIDE DEF n
  <2> QED
    BY <1>1, <1>2, <2>1, <2>2, GroundLemma
<1>5. /\ frames' \in Seq(FrameType) /\ Len(frames') = N - 1 /\ N - 1 \in Nat
      /\ \A k \in 1..(N - 1) : frames'[k] = frames[k] /\ k \in Calls
  <2> DEFINE j == N - 1
  <2>1. j \in Nat /\ j \in 0..Len(frames) /\ \A k \in 1..j : k \in Calls
    BY <1>3 DEF Calls
  <2>2. frames' = SubSeq(frames, 1, j) /\ frames \in Seq(FrameType)
    BY <1>1, <1>3
  <2> HIDE DEF j
  <2>3. /\ frames' \in Seq(FrameType) /\ Len(frames') = j
        /\ \A k \in 1..j : frames'[k] = frames[k]
    BY <2>1, <2>2
  <2> QED
    BY <2>1, <2>3 DEF j
<1>6. Closes(frames, N) /\ Nested(src, frames)
  <2>1. N \in 1..Len(frames) /\ frames[N].kind \in Kinds \ {"else"}
    BY <1>1, <1>3 DEF Kinds, Calls
  <2> QED
    BY <2>1 DEF Closes, FlowInv
<1>7. /\ S!Closed(src', top.tok) /\ S!EndOf(src', top.tok) = n + 1
      /\ S!OpenerOf(src', n + 1) = top.tok
      /\ top.tok \in 1..n /\ src'[top.tok] = "func"
  <2>1. Shuts(src', frames, N)
    BY <1>2, <1>3, <1>6, EndCloses
  <2> QED
    BY <1>1, <1>2, <1>3, <2>1 DEF Shuts, TokenOf
<1>8. Nested(src', frames')
  <2>1. \A k \in 1..(N - 1) : SameCall(frames, frames', k)
    BY <1>5 DEF SameCall
  <2> QED
    BY <1>2, <1>3, <1>5, <1>6, <2>1, NestedPop
<1>9. /\ Flows(src', returned, owner', st, misuse') /\ Elsewhere(code, top.block, returned)
  <2>1. /\ ret \in InstrType /\ IsTerm(ret) /\ ret.op = "ret" /\ ret.at = n + 1 /\ ret.to = <<>>
        /\ Targets(ret, owner', owner'[top.block])
    BY <1>2, InstrLemma, TargetsLemma DEF Instr, Terminators
  <2>2. ASSUME owner'[top.block] \notin misuse', ~ Terminated(code[top.block])
        PROVE  Fits(src', code, owner', st, top.block, ret)
    <3>1. Arrives(src', code[top.block], st[top.block], n + 1)
      BY <1>1, <1>3, <1>4, <2>2, TopArrives
    <3>2. n + 1 \in 1..Len(src') /\ src'[n + 1] # "func" /\ top.tok \in 1..((n + 1) - 1)
      BY <1>2, <1>7
    <3> HIDE DEF ret
    <3>3. Leaves(src', n + 1)
      BY <1>2, <1>7, <3>2 DEF Leaves
    <3>4. Ready(src', code[top.block], st[top.block], n + 1)
      BY <3>1, <3>2, ArrivesReady
    <3>5. 1..Len(ret.to) = {}
      BY <2>1
    <3>6. Linked(src', code, st, ret)
      BY <2>1, <3>3, <3>5 DEF Linked
    <3> QED
      BY <1>1, <1>3, <2>1, <3>2, <3>4, <3>6 DEF Fits
  <2>3. Flows(src', code, owner', st, misuse')
    BY <1>4 DEF Grounds
  <2> HIDE DEF ret
  <2> QED
    BY <1>1, <1>3, <2>1, <2>2, <2>3, BranchFlows
<1>10. /\ Flows(src', code', owner', st, misuse') /\ Elsewhere(returned, top.fn, code')
  <2>1. /\ br \in InstrType /\ br.op # "alloca" /\ Targets(br, owner', owner'[top.fn])
    <3>1. br \in InstrType /\ br.op # "alloca"
      BY <1>3, InstrLemma DEF Instr
    <3>2. top.first \in 1..Len(owner') /\ owner'[top.fn] = top.fn /\ owner'[top.first] = top.fn
      BY <1>1, <1>3 DEF Inv, TypeOK
    <3> QED
      BY <1>3, <3>1, <3>2, TargetsLemma
  <2>2. ASSUME owner'[top.fn] \notin misuse'
        PROVE  Fits(src', returned, owner', st, top.fn, br)
    <3>1. st[top.first] = top.tok + 1
      BY <1>1, <1>3, <1>4, <2>2 DEF Grounds, CallFlows, Started
    <3>2. /\ top.fn \in 1..Len(returned) /\ top.first \in 1..Len(returned)
          /\ owner' \in Seq(Nat) /\ owner'[top.fn] = top.fn /\ owner'[top.first] = top.fn
          /\ top.tok \in 1..Len(src')
      BY <1>1, <1>2, <1>3, <1>7, <1>9 DEF Elsewhere
    <3> HIDE DEF returned
    <3> QED
      BY <1>3, <1>7, <1>9, <2>2, <3>1, <3>2, EntryFits
  <2>3. top.fn \in 1..Len(returned) /\ owner' \in Seq(Nat)
    BY <1>1, <1>3, <1>9 DEF Elsewhere
  <2> HIDE DEF br, returned
  <2> QED
    BY <1>1, <1>9, <2>1, <2>2, <2>3, EmitFlows
<1> DEFINE T == {top.fn, top.block}
<1>11. \A b \in Blocks : b \notin T => code'[b] = code[b]
  BY <1>3, <1>9, <1>10 DEF Elsewhere
<1>12. \A k \in 1..(N - 1) : \A b \in T : Apart(k, b)
  BY <1>1, <1>3, <1>5, TopApart
<1> HIDE DEF T, returned
<1>13. ASSUME NEW k \in 1..(N - 1), frames'[k].fn \notin misuse', NEW q,
              CallFlows(src', code, st, frames[k], q)
       PROVE  CallFlows(src', code', st, frames'[k], q)
  <2>1. SameStart(frames[k], frames'[k]) /\ frames'[k].block = frames[k].block /\ k \in Calls
    BY <1>5 DEF SameStart
  <2> QED
    BY <1>11, <1>12, <1>13, <2>1, CallKept
<1>14. ASSUME NEW k \in 1..(N - 1), frames'[k].fn \notin misuse'
       PROVE  /\ CallFlows(src', code, st, frames[k], NextOf(k))
              /\ k = N - 1 => CallFlows(src', code, st, frames[k], n + 2)
  <2>1. CallFlows(src', code, st, frames[k], NextOf(k)) /\ k \in Calls
    BY <1>4, <1>5, <1>14 DEF Grounds
  <2>2. ASSUME k = N - 1 PROVE CallFlows(src', code, st, frames[k], n + 2)
    <3>1. NextOf(k) = top.tok
      BY <1>3, <2>2 DEF NextOf
    <3>2. frames[k].block \in 1..Len(code) /\ st[frames[k].block] \in Nat \ {0}
      <4>1. FramesLinked!(k)
        BY <2>1 DEF Inv, IInv, FramesLinked
      <4>2. Len(st) = Len(code)
        BY <1>1, <1>4 DEF Grounds, Flows, Inv, TypeOK
      <4> QED
        BY <1>3, <1>4, <4>1, <4>2, ElementOfSeq
    <3>3. ASSUME NEW i \in top.tok..Len(src'), src'[i] = "func"
          PROVE  S!Closed(src', i)
      <4>1. i \in 1..Len(src') /\ src'[i] \in S!Openers
        BY <1>7, <3>3 DEF S!Openers
      <4>2. S!Closed(src', i) \/ \E j \in 1..Len(frames') : frames'[j].tok = i
        BY <1>8, <4>1 DEF Nested
      <4>3. \A j \in 1..(N - 1) : frames[j].tok \in 1..(top.tok - 1)
        BY <1>3, <1>6 DEF Nested, Open, Calls
      <4>4. \A j \in 1..Len(frames') : frames'[j].tok < top.tok
        BY <1>5, <1>7, <4>3
      <4>5. ~ \E j \in 1..Len(frames') : frames'[j].tok = i
        BY <1>7, <4>4
      <4> QED
        BY <4>2, <4>5
    <3>4. top.tok \in 1..Len(src') /\ S!EndOf(src', top.tok) = Len(src')
      BY <1>2, <1>7
    <3>5. ASSUME Arrives(src', code[frames[k].block], st[frames[k].block], top.tok)
          PROVE  Arrives(src', code[frames[k].block], st[frames[k].block], n + 2)
      <4>1. Arrives(src', code[frames[k].block], st[frames[k].block], Len(src') + 1)
        BY <1>2, <1>7, <3>2, <3>3, <3>4, <3>5, ArrivesOver
      <4> QED
        BY <1>2, <4>1
    <3> QED
      BY <2>1, <3>1, <3>5 DEF CallFlows
  <2> QED
    BY <2>1, <2>2
<1>15. \A k \in 1..(N - 1) : SameStart(frames[k], frames'[k])
  BY <1>5 DEF SameStart
<1>16. FlowsFrom(st)'
  <2> DEFINE j == N - 1
  <2>1. /\ j \in Nat /\ j < Len(frames) /\ Len(frames') = j
        /\ Len(src') = Len(src) + 1
        /\ \A k \in 1..j : SameStart(frames[k], frames'[k])
        /\ \A k \in 1..(j - 1) : k \in 1..j
    <3>1. \A k \in 1..j : SameStart(frames[k], frames'[k])
      BY <1>15
    <3>2. j \in Nat /\ j < Len(frames) /\ Len(frames') = j /\ Len(src') = Len(src) + 1
      BY <1>2, <1>3, <1>5
    <3> HIDE DEF j
    <3> QED
      BY <3>1, <3>2
  <2>2. \A k \in 1..j : frames'[k].fn \notin misuse' =>
                          /\ CallFlows(src', code', st, frames'[k], NextOf(k))
                          /\ k = j => CallFlows(src', code', st, frames'[k], Len(src) + 2)
    BY <1>13, <1>14
  <2> HIDE DEF j, n
  <2> QED
    BY <1>10, <2>1, <2>2, PopFlows
<1> QED
  BY <1>8, <1>16 DEF FlowInv

\* The calls after the q innermost ones have returned and their caller goes on in
\* the new block b.
LEMMA PopCalls ==
    ASSUME Inv, NEW st, Grounds(st), Flows(src', code', owner', st, misuse'),
           Len(src') = Len(src) + 1,
           NEW q \in {1, 2}, Len(frames) > q, NEW b \in Nat, PopInto(q, b),
           code'[b] = <<>>, st[b] = Len(src) + 2,
           NEW T, \A x \in Blocks : x \notin T => code'[x] = code[x],
           \A k \in 1..(Len(frames) - q) : frames[k].fn \notin misuse' =>
               /\ frames[k].kind = "while" => frames[k].cond \notin T
               /\ k # Len(frames) - q => \A x \in T : Apart(k, x)
    PROVE  FlowsFrom(st)'
<1> DEFINE j == Len(frames) - q
<1>1. Len(frames) \in Nat /\ Len(src) \in Nat
  BY DEF Inv, TypeOK
<1>2. j \in Nat /\ j < Len(frames) /\ j \in 1..j /\ \A k \in 1..j : k \in Calls
  BY <1>1 DEF Calls
<1>3. /\ Len(frames') = j /\ frames'[j].block = b
      /\ \A k \in 1..j : /\ SameStart(frames[k], frames'[k])
                         /\ k # j => frames'[k].block = frames[k].block
  BY <1>2, PopLemma DEF SameStart
<1> HIDE DEF j
<1>4. ASSUME NEW k \in 1..(j - 1), frames'[k].fn \notin misuse'
      PROVE  CallFlows(src', code', st, frames'[k], NextOf(k))
  <2>1. k \in 1..j /\ k # j
    BY <1>2
  <2>2. CallFlows(src', code, st, frames[k], NextOf(k)) /\ k \in Calls
        /\ SameStart(frames[k], frames'[k]) /\ frames'[k].block = frames[k].block
    BY <1>2, <1>3, <1>4, <2>1 DEF Grounds, SameStart
  <2>3. \A x \in T : Apart(k, x)
    <3>1. frames[k].fn \notin misuse'
      BY <1>4, <2>2 DEF SameStart
    <3> QED
      BY <2>1, <3>1 DEF j
  <2> QED
    BY <2>2, <2>3, CallKept
<1>5. ASSUME frames'[j].fn \notin misuse'
      PROVE  CallFlows(src', code', st, frames'[j], Len(src) + 2)
  <2>1. /\ Started(code, st, frames[j]) /\ j \in Calls /\ SameStart(frames[j], frames'[j])
        /\ frames[j].fn \notin misuse'
    BY <1>2, <1>3, <1>5 DEF Grounds, SameStart, CallFlows
  <2>2. frames[j].kind = "while" => frames[j].cond \notin T
    BY <1>2, <2>1 DEF j
  <2>3. Started(code', st, frames'[j])
    BY <2>1, <2>2, StartedKept
  <2>4. Len(src) + 2 \in Nat
    BY <1>1
  <2>5. Arrives(src', code'[b], st[b], Len(src) + 2)
    BY <2>4, PassedSelf DEF Arrives
  <2> QED
    BY <1>3, <2>3, <2>5 DEF CallFlows
<1>6. \A k \in 1..j : SameStart(frames[k], frames'[k])
  BY <1>3
<1> QED
  BY <1>2, <1>3, <1>4, <1>5, <1>6, PopFlows

\* The statement that is closed is that of the outermost of these calls.
LEMMA PopNested ==
    ASSUME Inv, Nested(src, frames), Longer(src, src'), src'[Len(src')] = "end",
           NEW q \in {1, 2}, Len(frames) > q, NEW b \in Nat, PopInto(q, b),
           Closes(frames, Len(frames) - q + 1)
    PROVE  Nested(src', frames')
<1> DEFINE m == Len(frames) - q + 1
<1>1. Len(frames) \in Nat /\ frames \in Seq(FrameType)
  BY DEF Inv, TypeOK
<1>2. m - 1 = Len(frames) - q
  BY <1>1
<1>3. frames' \in Seq(FrameType) /\ Len(frames') = m - 1
  BY <1>2, PopLemma
<1>4. \A k \in 1..(m - 1) : SameCall(frames, frames', k)
  <2>1. \A k \in 1..(Len(frames) - q) :
           /\ frames'[k].kind = frames[k].kind /\ frames'[k].tok = frames[k].tok
    BY PopLemma
  <2> HIDE DEF m
  <2>2. \A k \in 1..(m - 1) :
           /\ frames'[k].kind = frames[k].kind /\ frames'[k].tok = frames[k].tok
    BY <1>2, <2>1
  <2> QED
    BY <2>2 DEF SameCall
<1>5. Closes(frames, m)
  OBVIOUS
<1> HIDE DEF m
<1> QED
  BY <1>1, <1>3, <1>4, <1>5, NestedPop

\* A branch behind a token that is no function enters the block that starts there.
LEMMA HeadEnters ==
    ASSUME NEW s, NEW o, NEW st, NEW M, NEW cs, Flows(s, cs, o, st, M),
           NEW b \in 1..Len(cs), o[b] \notin M, o[b] # b,
           NEW q \in Nat, s[q] # "func", st[b] = q + 1,
           NEW p, NEW v, Lands(s, p, v, st[b])
    PROVE  Enters(s, cs[b], st[b], p, v)
<1>1. Heads(s, cs[b], st[b])
  BY DEF Flows, BlockFlows
<1>2. cs[b] # <<>> => Reaches(s, st[b], cs[b][1].at)
  <2>1. CASE cs[b] # <<>> /\ cs[b][1].at \in 1..Len(s) /\ cs[b][1].at + 1 = q + 1
             /\ s[cs[b][1].at] = "func"
    <3>1. cs[b][1].at = q
      BY <2>1
    <3> QED
      BY <2>1, <3>1
  <2> QED
    BY <1>1, <2>1 DEF Heads
<1> QED
  BY <1>2 DEF Enters

\* What If::generate must find to join both branches.
Joins(s, cs, st, block, then, thenEnd, elseb, lastelse, mergb, e) ==
    /\ then.tok \in 1..Len(s) /\ thenEnd \in 1..Len(s) /\ e \in 1..Len(s)
    /\ s[then.tok] = "if"
    /\ Ready(s, cs[block], st[block], then.tok)
    /\ Enters(s, cs[then.first], st[then.first], then.tok, TRUE)
    /\ Enters(s, cs[elseb], st[elseb], then.tok, FALSE)
    /\ ~ Terminated(cs[then.block]) => Ready(s, cs[then.block], st[then.block], thenEnd)
    /\ ~ Terminated(cs[lastelse]) => Ready(s, cs[lastelse], st[lastelse], e)
    /\ \A v \in BOOLEAN : Lands(s, thenEnd, v, st[mergb]) /\ Lands(s, e, v, st[mergb])

\* The branches of If::generate and nothing else.
Touches(cs, T, b, d) ==
    /\ Len(d) = Len(cs) + 1 /\ d[b] = <<>>
    /\ \A a \in 1..Len(cs) : a \notin T => d[a] = cs[a]

\* A branch to the block that If::generate has just created.
LEMMA MergeFits ==
    ASSUME NEW s, NEW cs, NEW o, NEW st, NEW mergb \in 1..Len(cs), cs[mergb] = <<>>,
           NEW b, o[b] # b, NEW p \in 1..Len(s), Ready(s, cs[b], st[b], p),
           \A v \in BOOLEAN : Lands(s, p, v, st[mergb])
    PROVE  Fits(s, cs, o, st, b, Instr("br", <<mergb>>, p))
<1> DEFINE x == Instr("br", <<mergb>>, p)
<1>1. x.op = "br" /\ x.at = p /\ x.to = <<mergb>> /\ Len(x.to) = 1 /\ x.to[1] = mergb
  BY DEF Instr
<1> HIDE DEF x
<1>2. \A j \in 1..Len(x.to) : x.to[j] \in 1..Len(cs)
  <2>1. \A j \in 1..1 : j = 1
    OBVIOUS
  <2> QED
    BY <1>1, <2>1
<1>3. Linked(s, cs, st, x)
  BY <1>1, <1>2 DEF Linked, Leads, Enters
<1>4. Fits(s, cs, o, st, b, x)
  BY <1>1, <1>3 DEF Fits
<1> QED
  BY <1>4 DEF x

\* The conditional branch.
LEMMA TestFits ==
    ASSUME NEW s, NEW cs, NEW o, NEW st, NEW t \in 1..Len(cs), NEW u \in 1..Len(cs),
           NEW b, o[b] # b, NEW p \in 1..Len(s), s[p] \in {"if", "while"},
           Ready(s, cs[b], st[b], p),
           Enters(s, cs[t], st[t], p, TRUE), Enters(s, cs[u], st[u], p, FALSE)
    PROVE  Fits(s, cs, o, st, b, Instr("cbr", <<t, u>>, p))
<1> DEFINE x == Instr("cbr", <<t, u>>, p)
<1>1. x.op = "cbr" /\ x.at = p /\ x.to = <<t, u>> /\ Len(x.to) = 2 /\ x.to[1] = t /\ x.to[2] = u
  BY DEF Instr
<1> HIDE DEF x
<1>2. \A j \in 1..Len(x.to) : x.to[j] \in 1..Len(cs)
  <2>1. \A j \in 1..2 : j = 1 \/ j = 2
    OBVIOUS
  <2> QED
    BY <1>1, <2>1
<1>3. Linked(s, cs, st, x)
  BY <1>1, <1>2 DEF Linked
<1>4. Fits(s, cs, o, st, b, x)
  BY <1>1, <1>3 DEF Fits
<1> QED
  BY <1>4 DEF x

\* The blocks that If::generate joins.
Branches(cs, o, fn, block, then, thenEnd, elseb, lastelse, mergb) ==
    /\ o \in Seq(Nat) /\ Len(cs) + 1 <= Len(o) /\ mergb = Len(cs) + 1
    /\ then \in FrameType /\ thenEnd \in Nat
    /\ {block, then.block, lastelse, then.first, elseb} \subseteq 1..Len(cs)
    /\ \A b \in {block, then.block, lastelse, then.first, elseb, mergb} : o[b] = fn /\ b # fn
    /\ block # then.block /\ block # lastelse /\ then.block # lastelse

\* The branches that If::generate creates lead where the condition and the ends of
\* its branches go, and the join starts behind the "end".
LEMMA JoinFlows ==
    ASSUME NEW s, NEW o, NEW st, NEW M, NEW cs, Flows(s, cs, o, st, M), Len(src) + 1 \in Nat,
           NEW fn, NEW block, NEW then, NEW thenEnd, NEW elseb, NEW lastelse, NEW mergb,
           Branches(cs, o, fn, block, then, thenEnd, elseb, lastelse, mergb),
           fn \notin M => Joins(s, cs, st, block, then, thenEnd, elseb, lastelse, mergb,
                                Len(src) + 1)
    PROVE  LET d == JoinIf(cs, block, then, thenEnd, elseb, lastelse, mergb)
           IN  Flows(s, d, o, st, M) /\ Touches(cs, {block, then.block, lastelse}, mergb, d)
<1> DEFINE d == JoinIf(cs, block, then, thenEnd, elseb, lastelse, mergb)
<1>0. /\ o \in Seq(Nat) /\ Len(cs) + 1 <= Len(o) /\ mergb = Len(cs) + 1
      /\ then \in FrameType /\ thenEnd \in Nat
      /\ block \in 1..Len(cs) /\ then.block \in 1..Len(cs) /\ lastelse \in 1..Len(cs)
      /\ then.first \in 1..Len(cs) /\ elseb \in 1..Len(cs)
      /\ o[block] = fn /\ o[then.block] = fn /\ o[lastelse] = fn
      /\ o[then.first] = fn /\ o[elseb] = fn /\ o[mergb] = fn
      /\ block # fn /\ then.block # fn /\ lastelse # fn
      /\ then.first # fn /\ elseb # fn /\ mergb # fn
      /\ block # then.block /\ block # lastelse /\ then.block # lastelse
  BY DEF Branches
<1>a. d = JoinIf(cs, block, then, thenEnd, elseb, lastelse, mergb)
  OBVIOUS
<1> HIDE DEF d
<1> DEFINE cbr == Instr("cbr", <<then.first, elseb>>, then.tok)
           br1 == Instr("br", <<mergb>>, thenEnd)
           br2 == Instr("br", <<mergb>>, Len(src) + 1)
           branched == Emit(cs, block, cbr)
           grown == NewBlock(branched)
           joined == EmitUnlessTerminated(grown, then.block, br1)
<1>1. d = EmitUnlessTerminated(joined, lastelse, br2)
  BY <1>a DEF JoinIf
<1>2. /\ mergb \in 1..Len(o) /\ mergb \in Nat /\ mergb \notin 1..Len(cs)
      /\ then.first \in 1..Len(o) /\ elseb \in 1..Len(o) /\ Len(cs) \in Nat
      /\ then.first \in Nat /\ elseb \in Nat /\ then.tok \in Nat
      /\ \A a \in 1..Len(cs) : a \in 1..mergb /\ a # mergb
  <2>1. Len(cs) \in Nat
    BY DEF Flows, Stage
  <2>2. Len(o) \in Nat
    BY <1>0
  <2>3. then.tok \in Nat
    BY <1>0 DEF FrameType
  <2>4. mergb \in 1..Len(o) /\ mergb \in Nat /\ mergb \notin 1..Len(cs)
    BY <1>0, <2>1, <2>2
  <2>5. ASSUME NEW a \in 1..Len(cs)
        PROVE  a \in 1..Len(o) /\ a \in Nat /\ a \in 1..mergb /\ a # mergb
    <3> DEFINE n == Len(cs)
               k == Len(o)
    <3>1. n \in Nat /\ a \in 1..n /\ k \in Nat /\ mergb = n + 1 /\ mergb <= k
      BY <1>0, <2>1, <2>2
    <3> HIDE DEF n, k
    <3>2. a \in 1..k /\ a \in Nat /\ a \in 1..mergb /\ a # mergb
      BY <3>1
    <3> QED
      BY <3>2 DEF k
  <2> QED
    BY <1>0, <2>1, <2>3, <2>4, <2>5
<1>3. /\ cbr \in InstrType /\ br1 \in InstrType /\ br2 \in InstrType
      /\ IsTerm(cbr) /\ IsTerm(br1) /\ IsTerm(br2)
      /\ cbr.op # "alloca"
  <2>1. cbr \in InstrType /\ IsTerm(cbr)
    BY <1>0, <1>2, InstrLemma DEF Terminators
  <2>2. br1 \in InstrType /\ IsTerm(br1)
    BY <1>0, <1>2, InstrLemma DEF Terminators
  <2>3. br2 \in InstrType /\ IsTerm(br2)
    BY <1>0, <1>2, InstrLemma DEF Terminators
  <2> QED
    BY <1>0, <2>1, <2>2, <2>3 DEF Instr
<1>4. Targets(cbr, o, o[block]) /\ Targets(br1, o, o[then.block]) /\ Targets(br2, o, o[lastelse])
  <2>1. o[mergb] = fn /\ mergb # fn
    BY <1>0
  <2> QED
    BY <1>0, <1>2, <2>1, TargetsLemma
<1>5. /\ Flows(s, branched, o, st, M) /\ Elsewhere(cs, block, branched)
  <2>1. o[block] \notin M => Fits(s, cs, o, st, block, cbr)
    BY <1>0, TestFits DEF Joins
  <2> HIDE DEF cbr
  <2> QED
    BY <1>0, <1>3, <1>4, <2>1, EmitFlows
<1>6. Flows(s, grown, o, st, M) /\ Adds(branched, <<>>, grown)
  <2>1. Len(branched) + 1 <= Len(o)
    BY <1>0, <1>5 DEF Elsewhere
  <2> HIDE DEF branched
  <2> QED
    BY <1>0, <1>5, <2>1, EmptyBlockFlows
<1> HIDE DEF branched, cbr
<1>7. /\ Len(grown) = mergb /\ grown[mergb] = <<>>
      /\ \A a \in 1..Len(cs) : a # block => grown[a] = cs[a]
  <2>1. Len(branched) = Len(cs) /\ \A a \in 1..Len(cs) : a # block => branched[a] = cs[a]
    BY <1>0, <1>5 DEF Elsewhere
  <2>2. /\ Len(grown) = Len(branched) + 1 /\ grown[Len(branched) + 1] = <<>>
        /\ \A a \in 1..Len(branched) : grown[a] = branched[a]
    BY <1>0, <1>6 DEF Adds
  <2> HIDE DEF grown
  <2>3. \A a \in 1..Len(cs) : grown[a] = branched[a]
    BY <1>0, <2>1, <2>2
  <2>4. Len(grown) = mergb /\ grown[mergb] = <<>>
    BY <1>0, <2>1, <2>2
  <2> QED
    BY <1>0, <2>1, <2>3, <2>4
<1> HIDE DEF grown
<1>8. /\ mergb \in 1..Len(grown) /\ then.block \in 1..Len(grown) /\ lastelse \in 1..Len(grown)
      /\ then.block # mergb /\ lastelse # mergb
      /\ grown[then.block] = cs[then.block] /\ grown[lastelse] = cs[lastelse]
  <2>1. mergb \in 1..mergb
    BY <1>0, <1>2
  <2>2. mergb \in 1..Len(grown) /\ then.block \in 1..Len(grown) /\ lastelse \in 1..Len(grown)
    BY <1>0, <1>2, <1>7, <2>1
  <2>3. grown[then.block] = cs[then.block] /\ grown[lastelse] = cs[lastelse]
    BY <1>0, <1>7
  <2> QED
    BY <1>0, <1>2, <2>2, <2>3
<1>9. Flows(s, joined, o, st, M) /\ Elsewhere(grown, then.block, joined)
  <2>1. o[then.block] \notin M /\ ~ Terminated(grown[then.block])
           => Fits(s, grown, o, st, then.block, br1)
    <3>1. o[then.block] \notin M => Joins(s, cs, st, block, then, thenEnd, elseb, lastelse, mergb, Len(src) + 1)
      BY <1>0
    <3> QED
      BY <1>0, <1>7, <1>8, <3>1, MergeFits DEF Joins
  <2> HIDE DEF br1
  <2> QED
    BY <1>0, <1>3, <1>4, <1>6, <1>8, <2>1, BranchFlows
<1> HIDE DEF joined, br1
<1>10. /\ Len(joined) = Len(grown) /\ joined[mergb] = <<>> /\ joined[lastelse] = cs[lastelse]
       /\ mergb \in 1..Len(joined) /\ lastelse \in 1..Len(joined)
  BY <1>0, <1>7, <1>8, <1>9 DEF Elsewhere
<1>11. Flows(s, d, o, st, M) /\ Elsewhere(joined, lastelse, d)
  <2>1. o[lastelse] \notin M /\ ~ Terminated(joined[lastelse])
           => Fits(s, joined, o, st, lastelse, br2)
    <3>1. o[lastelse] \notin M => Joins(s, cs, st, block, then, thenEnd, elseb, lastelse, mergb, Len(src) + 1)
      BY <1>0
    <3> QED
      BY <1>0, <1>7, <1>10, <3>1, MergeFits DEF Joins
  <2> HIDE DEF br2
  <2> QED
    <3> DEFINE r == EmitUnlessTerminated(joined, lastelse, br2)
    <3>1. Flows(s, r, o, st, M) /\ Elsewhere(joined, lastelse, r)
      BY <1>0, <1>3, <1>4, <1>9, <1>10, <2>1, BranchFlows
    <3>2. d = r
      BY <1>0, <1>1
    <3> HIDE DEF r
    <3> QED
      BY <1>0, <3>1, <3>2
<1> HIDE DEF br2
<1>12. Touches(cs, {block, then.block, lastelse}, mergb, d)
  <2>1. Len(d) = Len(cs) + 1 /\ d[mergb] = <<>>
    BY <1>0, <1>7, <1>8, <1>10, <1>11 DEF Elsewhere
  <2>2. ASSUME NEW a \in 1..Len(cs), a \notin {block, then.block, lastelse}
        PROVE  d[a] = cs[a]
    <3>1. a \in 1..Len(grown) /\ a \in 1..Len(joined) /\ grown[a] = cs[a]
      BY <1>0, <1>2, <1>7, <1>10, <2>2
    <3> QED
      BY <1>0, <1>9, <1>11, <2>2, <3>1 DEF Elsewhere
  <2> QED
    BY <1>0, <2>1, <2>2 DEF Touches
<1> QED
  BY <1>11, <1>12 DEF d

\* A body around another is ready for what the statement of that one does at the end.
LEMMA CallStands ==
    ASSUME Inv, FlowInv, Longer(src, src'), NEW st, Grounds(st), NEW k \in Calls,
           k # Len(frames), frames[k].fn \notin misuse', src'[frames[k + 1].tok] # "func",
           ~ Terminated(code[frames[k].block])
    PROVE  Ready(src', code[frames[k].block], st[frames[k].block], frames[k + 1].tok)
<1> DEFINE q == frames[k + 1].tok
           c == code[frames[k].block]
           e == st[frames[k].block]
<1>1. Len(frames) \in Nat /\ Len(src) \in Nat /\ Len(src') = Len(src) + 1
  BY DEF Inv, TypeOK, Longer
<1>2. k + 1 \in 1..Len(frames)
  BY <1>1 DEF Calls
<1>3. q \in 1..Len(src)
  BY <1>2 DEF FlowInv, Nested, Open
<1>4. q \in 1..Len(src') /\ src'[q] # "func"
  BY <1>1, <1>3
<1>5. NextOf(k) = q
  BY DEF NextOf
<1>6. CallFlows(src', code, st, frames[k], q)
  BY <1>5 DEF Grounds
<1>7. Arrives(src', c, e, q)
  BY <1>6 DEF CallFlows
<1> HIDE DEF c, e, q
<1>8. Ready(src', c, e, q)
  BY <1>4, <1>7, ArrivesReady
<1> QED
  BY <1>8 DEF c, e, q

\* So is the innermost one for what follows it.
LEMMA TopStands ==
    ASSUME Inv, InBody, Longer(src, src'), src'[Len(src) + 1] = "end", NEW st, Grounds(st),
           misuse \subseteq misuse', top.fn \notin misuse', ~ Terminated(code[top.block])
    PROVE  Ready(src', code[top.block], st[top.block], Len(src) + 1)
<1> DEFINE q == Len(src) + 1
           c == code[top.block]
           e == st[top.block]
<1>1. q \in 1..Len(src') /\ src'[q] # "func"
  BY DEF Inv, TypeOK, Longer
<1>2. Arrives(src', c, e, q)
  BY TopArrives
<1> HIDE DEF c, e, q
<1>3. Ready(src', c, e, q)
  BY <1>1, <1>2, ArrivesReady
<1> QED
  BY <1>3 DEF c, e, q

\* The first block of a body starts behind its token.
LEMMA FirstStarts ==
    ASSUME NEW st, Grounds(st), NEW k \in Calls, frames[k].fn \notin misuse'
    PROVE  /\ st[frames[k].first] = frames[k].tok + 1
           /\ frames[k].kind = "while" =>
                /\ st[frames[k].cond] = frames[k].tok
                /\ code[frames[k].cond] = <<Instr("inst", <<>>, frames[k].tok)>>
BY DEF Grounds, CallFlows, Started

\* A branch to an empty block.
LEMMA EmptyEnters ==
    ASSUME NEW s, NEW c, c = <<>>, NEW e, NEW p, NEW v, Lands(s, p, v, e)
    PROVE  Enters(s, c, e, p, v)
BY DEF Enters

\* The calls of the function that goes on, as the branches of If::generate see them.
LEMMA EndFrame ==
    ASSUME Inv, NEW d \in {1, 2}, Grown(d), NEW k \in Calls, frames[k].fn = top.fn
    PROVE  /\ frames[k] \in FrameType
           /\ frames[k].block \in 1..Len(code) /\ owner'[frames[k].block] = top.fn
           /\ frames[k].first \in 1..Len(code) /\ owner'[frames[k].first] = top.fn
           /\ frames[k].first # top.fn /\ frames[k].block # top.fn
<1>1. /\ frames[k] \in FrameType
      /\ frames[k].block \in Blocks /\ owner[frames[k].block] = top.fn
      /\ frames[k].first \in Blocks /\ owner[frames[k].first] = top.fn
      /\ frames[k].first # top.fn /\ frames[k].block # top.fn
  BY BlockLemma
<1>2. \A b \in Blocks : b \in 1..Len(code) /\ owner'[b] = owner[b]
  BY DEF Grown
<1> HIDE DEF Blocks
<1> QED
  BY <1>1, <1>2

\* The end of an if without else: the empty else block runs the "end".
LEMMA EndIfWithoutElseFlows == ASSUME Inv, PlacedInv, FlowInv, EndIfWithoutElse PROVE FlowInv'
<1> DEFINE n == Len(src)
           m == Len(code)
           N == Len(frames)
           grown == NewBlock(code)
<1>1. /\ InBody /\ top.kind = "then" /\ owner' = owner \o <<top.fn, top.fn>> /\ Read("end")
      /\ misuse' = misuse /\ PopInto(1, m + 2)
      /\ code' = JoinIf(grown, caller.block, top, n + 1, m + 1, m + 1, m + 2)
  BY DEF EndIfWithoutElse, BodyComplete
<1>2. /\ Longer(src, src') /\ n \in Nat /\ Len(src') = n + 1 /\ src'[Len(src')] = "end"
      /\ src'[n + 1] = "end" /\ src' \in Seq(Tokens)
  BY <1>1, ReadLonger DEF Tokens, Longer
<1>3. Grown(2) /\ m \in Nat /\ Blocks = 1..m /\ owner \in Seq(Nat) /\ Len(owner) = m
  BY <1>1, GrownLemma, BodyLemma
<1>4. /\ N \in Calls /\ top = frames[N] /\ N - 1 \in Calls /\ caller = frames[N - 1]
      /\ N \in Nat /\ (N - 1) + 1 = N /\ N - 1 # N /\ N > 1
      /\ caller.fn = top.fn /\ n + 1 \in Nat /\ top.fn \in Blocks
      /\ top.fn \notin misuse => Clean(code[caller.block])
  <2>1. N \in Calls /\ top = frames[N] /\ N \in Nat \ {0} /\ top.fn \in Blocks
    BY <1>1, TopLemma
  <2>2. /\ N - 1 \in Calls /\ frames[N - 1].fn = top.fn
        /\ top.fn \notin misuse => Clean(code[frames[N - 1].block])
    <3> HIDE DEF N
    <3> QED
      BY <1>1, <2>1, CallerLemma
  <2> QED
    BY <1>2, <2>1, <2>2 DEF caller, Calls
<1>5. PICK st \in Seq(Nat \ {0}) : Grounds(st) /\ st[m + 1] = n + 1 /\ st[m + 2] = n + 2
  <2>1. n + 1 \in Nat \ {0} /\ n + 2 \in Nat \ {0}
    BY <1>2
  <2>2. /\ owner' \in Seq(Nat) /\ Len(owner') = Len(owner) + 2 /\ misuse \subseteq misuse'
        /\ \A b \in 1..Len(owner) : owner'[b] = owner[b]
    BY <1>1, <1>3 DEF Grown
  <2> HIDE DEF n
  <2> QED
    BY <1>2, <2>1, <2>2, GroundTwo
<1>6. Closes(frames, N) /\ Nested(src, frames) /\ frames \in Seq(FrameType)
  <2>1. N \in 1..Len(frames) /\ frames[N].kind \in Kinds \ {"else"}
    BY <1>1, <1>4 DEF Kinds, Calls
  <2> QED
    BY <2>1 DEF Closes, FlowInv, Inv, TypeOK
<1>7. /\ S!Closed(src', top.tok) /\ S!EndOf(src', top.tok) = n + 1
      /\ S!OpenerOf(src', n + 1) = top.tok /\ S!ElsesOf(src', top.tok) = {}
      /\ top.tok \in 1..n /\ src'[top.tok] = "if"
  <2>1. Shuts(src', frames, N)
    BY <1>2, <1>6, EndCloses
  <2>2. Len(src') = n + 1 /\ (n + 1) - 1 = n /\ top = frames[N] /\ top.kind = "then"
    <3>1. top = frames[N] /\ top.kind = "then"
      BY <1>1, <1>4
    <3>2. Len(src') = n + 1 /\ n \in Nat
      BY <1>2
    <3> HIDE DEF n
    <3> QED
      BY <3>1, <3>2
  <2>3. /\ top.tok \in 1..n /\ src'[top.tok] = TokenOf("then")
        /\ S!Closed(src', top.tok) /\ S!EndOf(src', top.tok) = n + 1
        /\ S!OpenerOf(src', n + 1) = top.tok
        /\ S!ElsesOf(src', top.tok) = {}
    <3>1. /\ frames[N].tok \in 1..(Len(src') - 1) /\ src'[frames[N].tok] = TokenOf(frames[N].kind)
          /\ S!Closed(src', frames[N].tok) /\ S!EndOf(src', frames[N].tok) = Len(src')
          /\ S!OpenerOf(src', Len(src')) = frames[N].tok
          /\ frames[N].kind = "then" => S!ElsesOf(src', frames[N].tok) = {}
      BY <2>1 DEF Shuts
    <3> HIDE DEF n, N
    <3> QED
      BY <2>2, <3>1
  <2> QED
    BY <2>3 DEF TokenOf
<1>8. /\ top \in FrameType /\ caller \in FrameType
      /\ top.block \in 1..m /\ owner'[top.block] = top.fn /\ top.block # top.fn
      /\ top.first \in 1..m /\ owner'[top.first] = top.fn /\ top.first # top.fn
      /\ caller.block \in 1..m /\ owner'[caller.block] = top.fn /\ caller.block # top.fn
  <2> HIDE DEF N
  <2> QED
    BY <1>3, <1>4, EndFrame
<1>9. \A b \in {m + 1, m + 2} : b \in 1..Len(owner') /\ owner'[b] = top.fn /\ b # top.fn
  <2>1. \A b \in {m + 1, m + 2} : b \in (m + 1)..(m + 2)
    BY <1>3
  <2> QED
    BY <1>1, <1>3, <2>1, AddedLemma
<1>10. Flows(src', grown, owner', st, misuse') /\ Adds(code, <<>>, grown)
  <2>1. owner' \in Seq(Nat) /\ m + 1 <= Len(owner') /\ Flows(src', code, owner', st, misuse')
    BY <1>3, <1>5 DEF Grown, Grounds
  <2> QED
    BY <2>1, EmptyBlockFlows
<1> HIDE DEF grown
<1>11. /\ Len(grown) = m + 1 /\ grown[m + 1] = <<>> /\ \A b \in 1..m : grown[b] = code[b]
       /\ Len(grown) + 1 = m + 2 /\ m + 1 \in 1..Len(grown)
       /\ \A b \in 1..m : b \in 1..Len(grown) /\ b # m + 1
  <2>1. Len(grown) = m + 1 /\ grown[m + 1] = <<>> /\ \A b \in 1..m : grown[b] = code[b]
    BY <1>10 DEF Adds
  <2>2. (m + 1) + 1 = m + 2 /\ m + 1 \in 1..(m + 1) /\ \A b \in 1..m : b \in 1..(m + 1) /\ b # m + 1
    BY <1>3
  <2> QED
    BY <2>1, <2>2
<1>12. top.block # caller.block
  <2> HIDE DEF N
  <2> QED
    BY <1>4, DistinctLemma
<1>13. ASSUME top.fn \notin misuse'
       PROVE  Joins(src', grown, st, caller.block, top, n + 1, m + 1, m + 1, m + 2, n + 1)
  <2>1. top.tok \in 1..Len(src') /\ n + 1 \in 1..Len(src')
    BY <1>2, <1>7
  <2>2. Ready(src', grown[caller.block], st[caller.block], top.tok)
    <3>1. ~ Terminated(code[caller.block])
      <4>1. Clean(code[caller.block]) /\ code[caller.block] \in Seq(InstrType)
        BY <1>1, <1>4, <1>8, <1>13, ElementOfSeq DEF Inv, TypeOK
      <4> QED
        BY <4>1, CleanOrSealed
    <3> DEFINE k == N - 1
    <3>2. k \in Calls /\ k # Len(frames) /\ frames[k] = caller /\ frames[k + 1] = top
      BY <1>4
    <3>3. frames[k].fn \notin misuse' /\ src'[frames[k + 1].tok] # "func"
          /\ ~ Terminated(code[frames[k].block])
      BY <1>4, <1>7, <1>13, <3>1, <3>2
    <3> HIDE DEF k
    <3>4. Ready(src', code[frames[k].block], st[frames[k].block], frames[k + 1].tok)
      BY <1>2, <1>5, <3>2, <3>3, CallStands
    <3> QED
      BY <1>8, <1>11, <3>2, <3>4
  <2>3. Enters(src', grown[top.first], st[top.first], top.tok, TRUE)
    <3>1. st[top.first] = top.tok + 1
      <4> HIDE DEF N
      <4> QED
        BY <1>4, <1>5, <1>13, FirstStarts
    <3>2. Lands(src', top.tok, TRUE, st[top.first])
      BY <1>7, <2>1, <3>1 DEF Lands
    <3>3. /\ top.first \in 1..Len(grown) /\ owner'[top.first] \notin misuse'
          /\ owner'[top.first] # top.first /\ top.tok \in Nat /\ src'[top.tok] # "func"
      BY <1>7, <1>8, <1>11, <1>13
    <3> QED
      BY <1>10, <3>1, <3>2, <3>3, HeadEnters
  <2>4. Enters(src', grown[m + 1], st[m + 1], top.tok, FALSE)
    <3>1. Lands(src', top.tok, FALSE, st[m + 1])
      BY <1>5, <1>7, <2>1 DEF Lands
    <3> QED
      BY <1>11, <3>1, EmptyEnters
  <2>5. ~ Terminated(grown[top.block]) => Ready(src', grown[top.block], st[top.block], n + 1)
    <3>1. ASSUME ~ Terminated(code[top.block])
          PROVE  Ready(src', code[top.block], st[top.block], n + 1)
      BY <1>1, <1>2, <1>5, <1>13, <3>1, TopStands
    <3> QED
      BY <1>8, <1>11, <3>1
  <2>6. Ready(src', grown[m + 1], st[m + 1], n + 1)
    <3>1. Reaches(src', n + 1, n + 1)
      <4>1. n + 1 \in Nat /\ src'[n + 1] # "func"
        BY <1>2
      <4> QED
        BY <2>1, <4>1, PassedSelf DEF Reaches
    <3> QED
      BY <1>5, <1>11, <3>1 DEF Ready
  <2>7. \A v \in BOOLEAN : Lands(src', n + 1, v, st[m + 2])
    <3>1. S!OpenerOf(src', n + 1) \in 1..((n + 1) - 1) /\ st[m + 2] = (n + 1) + 1
      BY <1>2, <1>5, <1>7
    <3> HIDE DEF n
    <3> QED
      BY <1>2, <1>7, <2>1, <3>1 DEF Lands
  <2> QED
    BY <1>7, <2>1, <2>2, <2>3, <2>4, <2>5, <2>6, <2>7 DEF Joins
<1> DEFINE T == {caller.block, top.block, m + 1}
<1>14. /\ Flows(src', code', owner', st, misuse')
       /\ Touches(grown, T, m + 2, code')
  <2> DEFINE fn == top.fn
             block == caller.block
             then == top
             o == owner'
             M == m + 1
             P == m + 2
             E == n + 1
  <2>1. Branches(grown, o, fn, block, then, E, M, M, P)
    <3>1. o \in Seq(Nat) /\ P = Len(grown) + 1 /\ Len(grown) + 1 <= Len(o) /\ E \in Nat
      BY <1>2, <1>3, <1>11 DEF Grown
    <3>2. /\ then \in FrameType
          /\ {block, then.block, M, then.first, M} \subseteq 1..Len(grown)
      BY <1>8, <1>11
    <3>3. \A b \in {block, then.block, M, then.first, M, P} : o[b] = fn /\ b # fn
      BY <1>8, <1>9
    <3>4. block # then.block /\ block # M /\ then.block # M
      BY <1>8, <1>11, <1>12
    <3> HIDE DEF fn, block, then, o, M, P, E
    <3> QED
      BY <3>1, <3>2, <3>3, <3>4 DEF Branches
  <2>2. /\ fn \notin misuse' => Joins(src', grown, st, block, then, E, M, M, P, Len(src) + 1)
        /\ code' = JoinIf(grown, block, then, E, M, M, P) /\ Flows(src', grown, o, st, misuse')
        /\ Len(src) + 1 \in Nat
    BY <1>1, <1>2, <1>10, <1>13
  <2> HIDE DEF fn, block, then, o, m, n, M, P, E
  <2>3. Flows(src', code', o, st, misuse') /\ Touches(grown, {block, then.block, M}, P, code')
    BY <2>1, <2>2, JoinFlows
  <2> QED
    BY <2>3 DEF block, then, o, M, P
<1>15. code'[m + 2] = <<>> /\ \A b \in Blocks : b \notin T => code'[b] = code[b]
  <2>1. /\ code'[m + 2] = <<>>
        /\ \A a \in 1..Len(grown) : a \notin T => code'[a] = grown[a]
    BY <1>14 DEF Touches
  <2> HIDE DEF T
  <2> QED
    BY <1>3, <1>11, <2>1
<1>16. \A k \in 1..(N - 1) : /\ k \in Calls
                             /\ frames[k].kind = "while" => frames[k].cond \notin T
                             /\ k # N - 1 => \A x \in T : Apart(k, x)
  <2> SUFFICES ASSUME NEW k \in 1..(N - 1)
               PROVE  /\ k \in Calls
                      /\ frames[k].kind = "while" => frames[k].cond \notin T
                      /\ k # N - 1 => \A x \in T : Apart(k, x)
    OBVIOUS
  <2>1. k \in Calls /\ k # N
    <3>1. Calls = 1..N /\ N \in Nat /\ k \in 1..(N - 1)
      BY <1>4 DEF Calls
    <3> HIDE DEF N
    <3> QED
      BY <3>1
  <2>2. /\ frames[k].block \in 1..m
        /\ frames[k].kind = "while" => frames[k].cond \in 1..m /\ frames[k].cond # frames[k].block
    <3>1. FramesLinked!(k)
      BY <2>1 DEF Inv, IInv, FramesLinked
    <3> QED
      BY <1>3, <3>1
  <2>3. Apart(k, m + 1)
    BY <1>3, <2>2 DEF Apart
  <2>4. Apart(k, top.block)
    BY <1>1, <2>1, TopApart
  <2>5. k # N - 1 => Apart(k, caller.block)
    <3> HIDE DEF N
    <3> QED
      BY <1>4, <2>1, ApartLemma
  <2>6. k = N - 1 => frames[k] = caller
    BY <1>4
  <2> QED
    BY <2>1, <2>2, <2>3, <2>4, <2>5, <2>6 DEF Apart
<1> HIDE DEF T
<1>17. FlowsFrom(st)'
  <2> DEFINE P == m + 2
             q == 1
  <2>1. /\ q \in {1, 2} /\ Len(frames) > q /\ PopInto(q, P) /\ P \in Nat /\ Len(frames) - q = N - 1
        /\ code'[P] = <<>> /\ st[P] = Len(src) + 2 /\ Len(src') = Len(src) + 1
    <3>1. q \in {1, 2} /\ Len(frames) > q /\ Len(frames) - q = N - 1
      BY <1>4
    <3>2. P \in Nat /\ st[P] = Len(src) + 2 /\ Len(src') = Len(src) + 1
      BY <1>2, <1>3, <1>5
    <3>3. PopInto(q, P) /\ code'[P] = <<>>
      BY <1>1, <1>15
    <3> QED
      BY <3>1, <3>2, <3>3
  <2> HIDE DEF P, q
  <2>2. \A k \in 1..(Len(frames) - q) : frames[k].fn \notin misuse' =>
            /\ frames[k].kind = "while" => frames[k].cond \notin T
            /\ k # Len(frames) - q => \A x \in T : Apart(k, x)
    <3> HIDE DEF N
    <3> QED
      BY <1>16, <2>1
  <2> HIDE DEF n, m, N
  <2> QED
    BY <1>5, <1>14, <1>15, <2>1, <2>2, PopCalls
<1>18. Nested(src', frames')
  <2> DEFINE P == m + 2
             q == 1
  <2>1. /\ q \in {1, 2} /\ Len(frames) > q /\ PopInto(q, P) /\ P \in Nat
        /\ Len(frames) - q + 1 = N
    <3>1. q \in {1, 2} /\ Len(frames) > q /\ Len(frames) - q + 1 = N
      BY <1>4
    <3>2. P \in Nat
      BY <1>3
    <3>3. PopInto(q, P)
      BY <1>1
    <3> QED
      BY <3>1, <3>2, <3>3
  <2>2. Closes(frames, Len(frames) - q + 1)
    BY <1>6, <2>1
  <2> HIDE DEF P, q
  <2> QED
    BY <1>2, <1>6, <2>1, <2>2, PopNested
<1> QED
  BY <1>17, <1>18 DEF FlowInv

\* The end of an if with both branches.
LEMMA EndIfWithElseFlows == ASSUME Inv, PlacedInv, FlowInv, EndIfWithElse PROVE FlowInv'
<1> DEFINE n == Len(src)
           m == Len(code)
           N == Len(frames)
           outer == frames[N - 2]
           o == owner'
<1>1. /\ InBody /\ top.kind = "else" /\ owner' = Append(owner, top.fn) /\ Read("end")
      /\ misuse' = misuse /\ PopInto(2, m + 1)
      /\ code' = JoinIf(code, outer.block, caller, top.tok, top.first, top.block, m + 1)
  BY DEF EndIfWithElse, BodyComplete
<1>2. /\ Longer(src, src') /\ n \in Nat /\ Len(src') = n + 1 /\ src'[Len(src')] = "end"
      /\ src'[n + 1] = "end" /\ src' \in Seq(Tokens)
  BY <1>1, ReadLonger DEF Tokens, Longer
<1>3. Grown(1) /\ m \in Nat /\ Blocks = 1..m /\ owner \in Seq(Nat) /\ Len(owner) = m
  BY <1>1, GrownLemma, BodyLemma
<1>4. /\ N \in Calls /\ top = frames[N] /\ N \in Nat /\ top.fn \in Blocks
      /\ N - 1 \in Calls /\ caller = frames[N - 1] /\ caller.fn = top.fn /\ caller.kind = "then"
  BY <1>1, TopLemma, CallerLemma DEF caller
<1>5. /\ N - 2 \in Calls /\ outer.fn = top.fn
      /\ top.fn \notin misuse => Clean(code[outer.block])
  <2> DEFINE k == N - 1
  <2>1. k \in Calls /\ frames[k].fn = top.fn /\ frames[k].kind = "then"
    BY <1>4
  <2>2. k - 1 = N - 2
    BY <1>4
  <2> HIDE DEF k
  <2>3. /\ k - 1 \in Calls /\ frames[k - 1].fn = top.fn
        /\ top.fn \notin misuse => Clean(code[frames[k - 1].block])
    BY <2>1, CallerLemma
  <2> QED
    BY <2>2, <2>3
<1>6. /\ N - 2 # N - 1 /\ N - 2 # N /\ N - 1 # N /\ N > 2 /\ N > 1
      /\ (N - 2) + 1 = N - 1 /\ (N - 1) + 1 = N
  BY <1>4, <1>5 DEF Calls
<1>7. PICK st \in Seq(Nat \ {0}) : Grounds(st) /\ st[m + 1] = n + 2
  <2>1. n + 2 \in Nat \ {0} /\ misuse \subseteq misuse'
    BY <1>1, <1>2
  <2> HIDE DEF n
  <2> QED
    BY <1>1, <1>2, <1>3, <2>1, GroundOne
<1>8. Closes(frames, N - 1) /\ Nested(src, frames) /\ frames \in Seq(FrameType)
  <2>1. N - 1 \in 1..Len(frames) /\ frames[N - 1].kind \in Kinds \ {"else"}
    BY <1>4 DEF Kinds, Calls
  <2> QED
    BY <1>1, <1>4, <2>1 DEF Closes, FlowInv, Inv, TypeOK
<1>9. /\ S!Closed(src', caller.tok) /\ S!EndOf(src', caller.tok) = n + 1
      /\ S!OpenerOf(src', n + 1) = caller.tok /\ S!ElsesOf(src', caller.tok) = {top.tok}
      /\ caller.tok \in 1..n /\ src'[caller.tok] = "if"
  <2> DEFINE k == N - 1
  <2>1. k # Len(frames) /\ frames[k] = caller /\ caller.kind = "then"
        /\ frames[Len(frames)] = top /\ Closes(frames, k)
    BY <1>4, <1>6, <1>8
  <2> HIDE DEF k
  <2>2. Shuts(src', frames, k)
    BY <1>2, <1>8, <2>1, EndCloses
  <2>3. /\ caller.tok \in 1..(Len(src') - 1) /\ src'[caller.tok] = TokenOf("then")
        /\ S!Closed(src', caller.tok) /\ S!EndOf(src', caller.tok) = Len(src')
        /\ S!OpenerOf(src', Len(src')) = caller.tok
        /\ S!ElsesOf(src', caller.tok) = {top.tok}
    BY <2>1, <2>2 DEF Shuts
  <2>4. Len(src') = n + 1 /\ (n + 1) - 1 = n
    BY <1>2
  <2> HIDE DEF n
  <2> QED
    BY <2>3, <2>4 DEF TokenOf
<1>10. /\ top.tok \in 1..n /\ src'[top.tok] = "else" /\ caller.tok \in 1..(top.tok - 1)
       /\ S!OpenerOf(src', top.tok) = caller.tok
  <2>1. /\ top.tok \in 1..Len(src) /\ caller.tok \in 1..(top.tok - 1) /\ src[top.tok] = "else"
        /\ S!OpenerOf(src, top.tok) = caller.tok
    <3>1. src \in Seq(Tokens) /\ Len(frames) > 1 /\ frames[Len(frames)].kind = "else"
          /\ frames[Len(frames) - 1].kind = "then"
      BY <1>1, <1>2, <1>4, <1>6 DEF Longer
    <3>2. frames[Len(frames)] = top /\ frames[Len(frames) - 1] = caller
      BY <1>4
    <3>3. LET e == frames[Len(frames)].tok
              p == frames[Len(frames) - 1].tok
          IN  /\ e \in 1..Len(src) /\ p \in 1..(e - 1) /\ src[e] = "else" /\ src[p] = "if"
              /\ S!OpenerOf(src, e) = p
      BY <1>8, <3>1, ElseOpens
    <3> QED
      BY <3>2, <3>3
  <2>2. src'[top.tok] = src[top.tok] /\ S!OpenerOf(src', top.tok) = S!OpenerOf(src, top.tok)
    BY <1>2, <2>1, OpenerKept DEF Longer
  <2> QED
    BY <2>1, <2>2
<1> HIDE DEF outer
<1>11. /\ top \in FrameType /\ caller \in FrameType
       /\ top.block \in 1..m /\ o[top.block] = top.fn /\ top.block # top.fn
       /\ top.first \in 1..m /\ o[top.first] = top.fn /\ top.first # top.fn
       /\ caller.block \in 1..m /\ o[caller.block] = top.fn /\ caller.block # top.fn
       /\ caller.first \in 1..m /\ o[caller.first] = top.fn /\ caller.first # top.fn
       /\ outer.block \in 1..m /\ o[outer.block] = top.fn /\ outer.block # top.fn
  <2> HIDE DEF N
  <2> QED
    BY <1>3, <1>4, <1>5, EndFrame DEF outer
<1>12. m + 1 \in 1..Len(o) /\ o[m + 1] = top.fn /\ m + 1 # top.fn
  BY <1>1, <1>3, AddedLemma
<1>13. /\ top.block # caller.block /\ top.block # outer.block /\ caller.block # outer.block
  <2> HIDE DEF N
  <2> QED
    BY <1>4, <1>5, <1>6, DistinctLemma DEF outer
<1>14. Flows(src', code, o, st, misuse')
  BY <1>7 DEF Grounds
<1>15. ASSUME top.fn \notin misuse'
       PROVE  Joins(src', code, st, outer.block, caller, top.tok, top.first, top.block, m + 1, n + 1)
  <2>1. /\ caller.tok \in 1..Len(src') /\ top.tok \in 1..Len(src') /\ n + 1 \in 1..Len(src')
        /\ top.tok \in Nat /\ caller.tok \in Nat
    BY <1>2, <1>9, <1>10
  <2>2. Ready(src', code[outer.block], st[outer.block], caller.tok)
    <3>1. ~ Terminated(code[outer.block])
      <4>1. Clean(code[outer.block]) /\ code[outer.block] \in Seq(InstrType)
        BY <1>1, <1>5, <1>11, <1>15, ElementOfSeq DEF Inv, TypeOK
      <4> QED
        BY <4>1, CleanOrSealed
    <3> DEFINE k == N - 2
    <3>2. k \in Calls /\ k # Len(frames) /\ frames[k] = outer /\ frames[k + 1] = caller
      BY <1>4, <1>5, <1>6 DEF outer
    <3>3. frames[k].fn \notin misuse' /\ src'[frames[k + 1].tok] # "func"
          /\ ~ Terminated(code[frames[k].block])
      BY <1>5, <1>9, <1>15, <3>1, <3>2
    <3> HIDE DEF k
    <3>4. Ready(src', code[frames[k].block], st[frames[k].block], frames[k + 1].tok)
      BY <1>2, <1>7, <3>2, <3>3, CallStands
    <3> QED
      BY <3>2, <3>4
  <2>3. Enters(src', code[caller.first], st[caller.first], caller.tok, TRUE)
    <3>1. st[caller.first] = caller.tok + 1
      <4> HIDE DEF N
      <4> QED
        BY <1>4, <1>7, <1>15, FirstStarts
    <3>2. Lands(src', caller.tok, TRUE, st[caller.first])
      BY <1>9, <2>1, <3>1 DEF Lands
    <3>3. /\ caller.first \in 1..Len(code) /\ o[caller.first] \notin misuse'
          /\ o[caller.first] # caller.first /\ src'[caller.tok] # "func"
      BY <1>9, <1>11, <1>15
    <3> QED
      BY <1>14, <2>1, <3>1, <3>2, <3>3, HeadEnters
  <2>4. Enters(src', code[top.first], st[top.first], caller.tok, FALSE)
    <3>1. st[top.first] = top.tok + 1
      <4> HIDE DEF N
      <4> QED
        BY <1>4, <1>7, <1>15, FirstStarts
    <3>2. Lands(src', caller.tok, FALSE, st[top.first])
      <4>1. S!Min(S!ElsesOf(src', caller.tok)) = top.tok /\ S!ElsesOf(src', caller.tok) # {}
        <5>1. {top.tok} \in SUBSET Nat /\ top.tok \in {top.tok} /\ \A x \in {top.tok} : top.tok <= x
          BY <2>1
        <5> QED
          BY <1>9, <5>1, LeastIs
      <4> QED
        BY <1>9, <2>1, <3>1, <4>1 DEF Lands
    <3>3. /\ top.first \in 1..Len(code) /\ o[top.first] \notin misuse'
          /\ o[top.first] # top.first /\ src'[top.tok] # "func"
      BY <1>10, <1>11, <1>15
    <3> QED
      BY <1>14, <2>1, <3>1, <3>2, <3>3, HeadEnters
  <2>5. ASSUME ~ Terminated(code[caller.block])
        PROVE  Ready(src', code[caller.block], st[caller.block], top.tok)
    <3> DEFINE k == N - 1
    <3>2. k \in Calls /\ k # Len(frames) /\ frames[k] = caller /\ frames[k + 1] = top
      BY <1>4, <1>6
    <3>3. frames[k].fn \notin misuse' /\ src'[frames[k + 1].tok] # "func"
          /\ ~ Terminated(code[frames[k].block])
      BY <1>4, <1>10, <1>15, <2>5, <3>2
    <3> HIDE DEF k
    <3>4. Ready(src', code[frames[k].block], st[frames[k].block], frames[k + 1].tok)
      BY <1>2, <1>7, <3>2, <3>3, CallStands
    <3> QED
      BY <3>2, <3>4
  <2>6. ASSUME ~ Terminated(code[top.block])
        PROVE  Ready(src', code[top.block], st[top.block], n + 1)
    BY <1>1, <1>2, <1>7, <1>15, <2>6, TopStands
  <2>7. \A v \in BOOLEAN : Lands(src', n + 1, v, st[m + 1])
    <3>1. S!OpenerOf(src', n + 1) \in 1..((n + 1) - 1) /\ st[m + 1] = (n + 1) + 1
      BY <1>2, <1>7, <1>9
    <3> HIDE DEF n
    <3> QED
      BY <1>2, <1>9, <2>1, <3>1 DEF Lands
  <2>8. \A v \in BOOLEAN : Lands(src', top.tok, v, st[m + 1])
    <3>1. st[m + 1] = (n + 1) + 1
      BY <1>2, <1>7
    <3> HIDE DEF n
    <3> QED
      BY <1>9, <1>10, <2>1, <3>1 DEF Lands
  <2> QED
    BY <1>9, <2>1, <2>2, <2>3, <2>4, <2>5, <2>6, <2>7, <2>8 DEF Joins
<1> DEFINE T == {outer.block, caller.block, top.block}
<1>16. /\ Flows(src', code', o, st, misuse')
       /\ Touches(code, T, m + 1, code')
  <2> DEFINE fn == top.fn
             block == outer.block
             then == caller
             elseb == top.first
             lastelse == top.block
             thenEnd == top.tok
             P == m + 1
  <2>1. Branches(code, o, fn, block, then, thenEnd, elseb, lastelse, P)
    <3>1. o \in Seq(Nat) /\ P = Len(code) + 1 /\ Len(code) + 1 <= Len(o) /\ thenEnd \in Nat
      BY <1>2, <1>3, <1>10 DEF Grown
    <3>2. /\ then \in FrameType
          /\ {block, then.block, lastelse, then.first, elseb} \subseteq 1..Len(code)
      BY <1>11
    <3>3. \A b \in {block, then.block, lastelse, then.first, elseb, P} : o[b] = fn /\ b # fn
      BY <1>11, <1>12
    <3>4. block # then.block /\ block # lastelse /\ then.block # lastelse
      BY <1>13
    <3> HIDE DEF fn, block, then, o, P, elseb, lastelse, thenEnd
    <3> QED
      BY <3>1, <3>2, <3>3, <3>4 DEF Branches
  <2>2. /\ fn \notin misuse' => Joins(src', code, st, block, then, thenEnd, elseb, lastelse, P, Len(src) + 1)
        /\ code' = JoinIf(code, block, then, thenEnd, elseb, lastelse, P)
        /\ Flows(src', code, o, st, misuse') /\ Len(src) + 1 \in Nat
    BY <1>1, <1>2, <1>14, <1>15 DEF outer
  <2> HIDE DEF fn, block, then, o, m, n, P, elseb, lastelse, thenEnd
  <2>3. Flows(src', code', o, st, misuse') /\ Touches(code, {block, then.block, lastelse}, P, code')
    BY <2>1, <2>2, JoinFlows
  <2> QED
    BY <2>3 DEF block, then, lastelse, P
<1>17. code'[m + 1] = <<>> /\ \A b \in Blocks : b \notin T => code'[b] = code[b]
  BY <1>3, <1>16 DEF Touches
<1>18. \A k \in 1..(N - 2) : /\ k \in Calls
                             /\ frames[k].kind = "while" => frames[k].cond \notin T
                             /\ k # N - 2 => \A x \in T : Apart(k, x)
  <2> SUFFICES ASSUME NEW k \in 1..(N - 2)
               PROVE  /\ k \in Calls
                      /\ frames[k].kind = "while" => frames[k].cond \notin T
                      /\ k # N - 2 => \A x \in T : Apart(k, x)
    OBVIOUS
  <2>1. k \in Calls /\ k # N /\ k # N - 1
    <3>1. Calls = 1..N /\ N \in Nat /\ k \in 1..(N - 2)
      BY <1>4 DEF Calls
    <3> HIDE DEF N
    <3> QED
      BY <3>1
  <2>2. frames[k].kind = "while" => frames[k].cond # frames[k].block
    <3>1. FramesLinked!(k)
      BY <2>1 DEF Inv, IInv, FramesLinked
    <3> QED
      BY <3>1
  <2>3. Apart(k, caller.block)
    <3> HIDE DEF N
    <3> QED
      BY <1>4, <2>1, ApartLemma
  <2>4. Apart(k, top.block)
    BY <1>1, <2>1, TopApart
  <2>5. k # N - 2 => Apart(k, outer.block)
    <3> HIDE DEF N
    <3> QED
      BY <1>5, <2>1, ApartLemma DEF outer
  <2>6. k = N - 2 => frames[k] = outer
    BY DEF outer
  <2> QED
    BY <2>1, <2>2, <2>3, <2>4, <2>5, <2>6 DEF Apart
<1> HIDE DEF T
<1>19. FlowsFrom(st)'
  <2> DEFINE P == m + 1
             q == 2
  <2>1. /\ q \in {1, 2} /\ Len(frames) > q /\ PopInto(q, P) /\ P \in Nat /\ Len(frames) - q = N - 2
        /\ code'[P] = <<>> /\ st[P] = Len(src) + 2 /\ Len(src') = Len(src) + 1
    <3>1. q \in {1, 2} /\ Len(frames) > q /\ Len(frames) - q = N - 2
      BY <1>4, <1>6
    <3>2. P \in Nat /\ st[P] = Len(src) + 2 /\ Len(src') = Len(src) + 1
      BY <1>2, <1>3, <1>7
    <3>3. PopInto(q, P) /\ code'[P] = <<>>
      BY <1>1, <1>17
    <3> QED
      BY <3>1, <3>2, <3>3
  <2> HIDE DEF P, q
  <2>2. \A k \in 1..(Len(frames) - q) : frames[k].fn \notin misuse' =>
            /\ frames[k].kind = "while" => frames[k].cond \notin T
            /\ k # Len(frames) - q => \A x \in T : Apart(k, x)
    <3> HIDE DEF N
    <3> QED
      BY <1>18, <2>1
  <2> HIDE DEF n, m, N
  <2> QED
    BY <1>7, <1>16, <1>17, <2>1, <2>2, PopCalls
<1>20. Nested(src', frames')
  <2> DEFINE P == m + 1
             q == 2
  <2>1. /\ q \in {1, 2} /\ Len(frames) > q /\ PopInto(q, P) /\ P \in Nat
        /\ Len(frames) - q + 1 = N - 1
    <3>1. q \in {1, 2} /\ Len(frames) > q /\ Len(frames) - q + 1 = N - 1
      BY <1>4, <1>6
    <3>2. P \in Nat
      BY <1>3
    <3>3. PopInto(q, P)
      BY <1>1
    <3> QED
      BY <3>1, <3>2, <3>3
  <2>2. Closes(frames, Len(frames) - q + 1)
    BY <1>8, <2>1
  <2> HIDE DEF P, q
  <2> QED
    BY <1>2, <1>8, <2>1, <2>2, PopNested
<1> QED
  BY <1>19, <1>20 DEF FlowInv

\* A branch to a block of the same function.
LEMMA BranchFits ==
    ASSUME NEW s, NEW cs, NEW o, NEW st, NEW t \in 1..Len(cs),
           NEW b, o[b] # b, NEW p \in 1..Len(s), Ready(s, cs[b], st[b], p),
           \A v \in BOOLEAN : Leads(s, cs[t], st[t], p, v)
    PROVE  Fits(s, cs, o, st, b, Instr("br", <<t>>, p))
<1> DEFINE x == Instr("br", <<t>>, p)
<1>1. x.op = "br" /\ x.at = p /\ x.to = <<t>> /\ Len(x.to) = 1 /\ x.to[1] = t
  BY DEF Instr
<1> HIDE DEF x
<1>2. \A j \in 1..Len(x.to) : x.to[j] \in 1..Len(cs)
  <2>1. \A j \in 1..1 : j = 1
    OBVIOUS
  <2> QED
    BY <1>1, <2>1
<1>3. Linked(s, cs, st, x)
  BY <1>1, <1>2 DEF Linked
<1>4. Fits(s, cs, o, st, b, x)
  BY <1>1, <1>3 DEF Fits
<1> QED
  BY <1>4 DEF x

\* A terminator that is emitted without a guard.
LEMMA TermFlows ==
    ASSUME NEW s, NEW o \in Seq(Nat), NEW st, NEW M, NEW cs, Flows(s, cs, o, st, M),
           NEW b \in 1..Len(cs), NEW x \in InstrType, IsTerm(x), Targets(x, o, o[b]),
           o[b] \notin M => Fits(s, cs, o, st, b, x)
    PROVE  Flows(s, Emit(cs, b, x), o, st, M) /\ Elsewhere(cs, b, Emit(cs, b, x))
<1>1. x.op # "alloca"
  BY DEF IsTerm, Terminators
<1> QED
  BY <1>1, EmitFlows

\* The innermost call of a compound statement other than an else, and its caller.
EndsBody(kind, o) ==
    /\ InBody /\ top.kind = kind /\ Len(frames) \in Calls /\ Len(frames) - 1 \in Calls
    /\ Len(frames) \in Nat /\ Len(frames) > 1 /\ (Len(frames) - 1) + 1 = Len(frames)
    /\ top = frames[Len(frames)] /\ caller = frames[Len(frames) - 1]
    /\ top \in FrameType /\ caller.fn = top.fn /\ top.fn \in Blocks
    /\ top.block \in Blocks /\ o[top.block] = top.fn /\ top.block # top.fn
    /\ top.first \in Blocks /\ o[top.first] = top.fn /\ top.first # top.fn
    /\ caller.block \in Blocks /\ o[caller.block] = top.fn /\ caller.block # top.fn
    /\ top.block # caller.block
    /\ top.fn \notin misuse => ~ Terminated(code[caller.block])

\* What the end of a while or of a loop finds.
LEMMA EndsBodyLemma ==
    ASSUME Inv, PlacedInv, InBody, Grown(1), NEW kind \in {"while", "loop"}, top.kind = kind
    PROVE  EndsBody(kind, owner')
<1> DEFINE N == Len(frames)
<1>1. N \in Calls /\ top = frames[N] /\ N \in Nat \ {0} /\ top.fn \in Blocks
  BY TopLemma
<1>2. /\ N - 1 \in Calls /\ frames[N - 1].fn = top.fn
      /\ top.fn \notin misuse => Clean(code[frames[N - 1].block])
  <2> HIDE DEF N
  <2> QED
    BY <1>1, CallerLemma
<1>3. N > 1 /\ (N - 1) + 1 = N /\ N - 1 # N /\ caller = frames[N - 1]
  BY <1>1, <1>2 DEF Calls, caller
<1>4. Blocks = 1..Len(code)
  BY DEF Blocks
<1>5. top.block # caller.block
  <2> HIDE DEF N
  <2> QED
    BY <1>1, <1>2, <1>3, DistinctLemma
<1>6. /\ top \in FrameType
      /\ top.block \in Blocks /\ owner'[top.block] = top.fn /\ top.block # top.fn
      /\ top.first \in Blocks /\ owner'[top.first] = top.fn /\ top.first # top.fn
      /\ caller.block \in Blocks /\ owner'[caller.block] = top.fn /\ caller.block # top.fn
  <2> HIDE DEF N
  <2> QED
    BY <1>1, <1>2, <1>3, <1>4, EndFrame
<1>7. ASSUME top.fn \notin misuse PROVE ~ Terminated(code[caller.block])
  <2>1. Clean(code[caller.block]) /\ code[caller.block] \in Seq(InstrType)
    BY <1>2, <1>3, <1>4, <1>6, <1>7, ElementOfSeq DEF Inv, TypeOK
  <2> QED
    BY <2>1, CleanOrSealed
<1> QED
  BY <1>1, <1>2, <1>3, <1>5, <1>6, <1>7 DEF EndsBody

\* The caller of the innermost body is ready for the statement that is closed.
LEMMA CallerStands ==
    ASSUME Inv, FlowInv, Longer(src, src'), NEW st, Grounds(st), NEW kind, NEW o,
           EndsBody(kind, o), misuse \subseteq misuse', top.fn \notin misuse',
           src'[top.tok] # "func"
    PROVE  Ready(src', code[caller.block], st[caller.block], top.tok)
<1> DEFINE k == Len(frames) - 1
<1>1. k \in Calls /\ k # Len(frames) /\ frames[k] = caller /\ frames[k + 1] = top
  BY DEF EndsBody
<1>2. frames[k].fn \notin misuse' /\ src'[frames[k + 1].tok] # "func"
      /\ ~ Terminated(code[frames[k].block])
  <2>1. caller.fn = top.fn /\ ~ Terminated(code[caller.block])
    BY DEF EndsBody
  <2> QED
    BY <1>1, <2>1
<1> HIDE DEF k
<1>3. Ready(src', code[frames[k].block], st[frames[k].block], frames[k + 1].tok)
  BY <1>1, <1>2, CallStands
<1> QED
  BY <1>1, <1>3

\* The statement of the innermost body is closed with the last token.
LEMMA TopShuts ==
    ASSUME Inv, FlowInv, Longer(src, src'), src'[Len(src')] = "end", InBody,
           NEW kind \in {"while", "loop"}, top.kind = kind
    PROVE  /\ S!Closed(src', top.tok) /\ S!EndOf(src', top.tok) = Len(src) + 1
           /\ S!OpenerOf(src', Len(src) + 1) = top.tok
           /\ top.tok \in 1..Len(src) /\ src'[top.tok] = kind
           /\ Closes(frames, Len(frames))
<1> DEFINE N == Len(frames)
           n == Len(src)
<1>1. N \in 1..Len(frames) /\ frames[N] = top /\ frames \in Seq(FrameType) /\ Nested(src, frames)
  BY TopLemma DEF Calls, Inv, TypeOK, FlowInv
<1>2. Closes(frames, N)
  <2>1. frames[N].kind \in Kinds \ {"else"}
    BY <1>1 DEF Kinds
  <2> QED
    BY <1>1, <2>1 DEF Closes
<1> HIDE DEF N
<1>3. Shuts(src', frames, N)
  BY <1>1, <1>2, EndCloses
<1>4. Len(src') = n + 1 /\ (n + 1) - 1 = n
  BY DEF Longer, Inv, TypeOK
<1> HIDE DEF n
<1>5. /\ top.tok \in 1..(Len(src') - 1) /\ src'[top.tok] = TokenOf(kind)
      /\ S!Closed(src', top.tok) /\ S!EndOf(src', top.tok) = Len(src')
      /\ S!OpenerOf(src', Len(src')) = top.tok
  BY <1>1, <1>3 DEF Shuts
<1>6. TokenOf(kind) = kind
  BY DEF TokenOf
<1> QED
  BY <1>2, <1>4, <1>5, <1>6 DEF n, N

\* The end of a while: into the condition, on to the body or behind the "end", and
\* back from the end of the body to the condition.
LEMMA EndWhileFlows == ASSUME Inv, PlacedInv, FlowInv, EndWhile PROVE FlowInv'
<1> DEFINE n == Len(src)
           m == Len(code)
           N == Len(frames)
           o == owner'
           M == m + 1
           enter == Instr("br", <<top.cond>>, top.tok)
           test == Instr("cbr", <<top.first, M>>, top.tok)
           back == Instr("br", <<top.cond>>, n + 1)
           inst == Instr("inst", <<>>, top.tok)
           grown == NewBlock(code)
           entered == Emit(grown, caller.block, enter)
           tested == Emit(entered, top.cond, test)
<1>1. /\ InBody /\ top.kind = "while" /\ owner' = Append(owner, top.fn) /\ Read("end")
      /\ misuse' = misuse /\ PopInto(1, M)
      /\ code' = EmitUnlessTerminated(tested, top.block, back)
  BY DEF EndWhile, BodyComplete
<1>2. /\ Longer(src, src') /\ n \in Nat /\ Len(src') = n + 1 /\ src'[Len(src')] = "end"
      /\ src'[n + 1] = "end" /\ src' \in Seq(Tokens) /\ n + 1 \in Nat
  BY <1>1, ReadLonger DEF Tokens, Longer
<1>3. Grown(1) /\ m \in Nat /\ Blocks = 1..m /\ owner \in Seq(Nat) /\ Len(owner) = m
  BY <1>1, GrownLemma, BodyLemma
<1>4. EndsBody("while", o) /\ misuse \subseteq misuse'
  BY <1>1, <1>3, EndsBodyLemma
<1>5. PICK st \in Seq(Nat \ {0}) : Grounds(st) /\ st[m + 1] = n + 2
  <2>1. n + 2 \in Nat \ {0}
    BY <1>2
  <2> HIDE DEF n
  <2> QED
    BY <1>1, <1>2, <1>3, <1>4, <2>1, GroundOne
<1>6. /\ S!Closed(src', top.tok) /\ S!EndOf(src', top.tok) = n + 1
      /\ S!OpenerOf(src', n + 1) = top.tok /\ Closes(frames, N)
      /\ top.tok \in 1..n /\ src'[top.tok] = "while"
      /\ top.tok \in 1..Len(src') /\ n + 1 \in 1..Len(src') /\ top.tok \in Nat
  <2>1. /\ S!Closed(src', top.tok) /\ S!EndOf(src', top.tok) = n + 1
        /\ S!OpenerOf(src', n + 1) = top.tok /\ Closes(frames, N)
        /\ top.tok \in 1..n /\ src'[top.tok] = "while"
    BY <1>1, <1>2, TopShuts
  <2>2. top.tok \in 1..Len(src') /\ n + 1 \in 1..Len(src') /\ top.tok \in Nat
    BY <1>2, <2>1
  <2> QED
    BY <2>1, <2>2
<1>7. /\ top.cond \in 1..m /\ o[top.cond] = top.fn /\ top.cond # top.fn
      /\ top.cond # top.block /\ caller.block # top.cond
  <2>1. FramesLinked!(N)
    BY <1>4 DEF EndsBody, Inv, IInv, FramesLinked
  <2>2. /\ top.cond \in 1..m /\ owner[top.cond] = top.fn /\ top.cond # top.fn
        /\ top.cond # top.block
    BY <1>1, <1>3, <1>4, <2>1 DEF EndsBody
  <2>3. N - 1 \in Calls /\ N \in Calls /\ N - 1 # N /\ frames[N].kind = "while"
        /\ frames[N] = top /\ frames[N - 1] = caller
    BY <1>1, <1>4 DEF EndsBody
  <2>4. caller.block # top.cond
    <3> HIDE DEF N
    <3> QED
      BY <2>3, DistinctLemma
  <2>5. o[top.cond] = owner[top.cond]
    BY <1>3, <2>2 DEF Grown
  <2> QED
    BY <2>2, <2>4, <2>5
<1>8. /\ top.block \in 1..m /\ o[top.block] = top.fn /\ top.block # top.fn
      /\ top.first \in 1..m /\ o[top.first] = top.fn /\ top.first # top.fn
      /\ caller.block \in 1..m /\ o[caller.block] = top.fn /\ caller.block # top.fn
      /\ top.block # caller.block
  BY <1>3, <1>4 DEF EndsBody
<1>9. M \in 1..Len(o) /\ o[M] = top.fn /\ M # top.fn /\ M \in Nat
      /\ o \in Seq(Nat) /\ M <= Len(o) /\ \A b \in 1..m : b \in 1..Len(o) /\ b \in Nat /\ b \in 1..M
                                                       /\ b # M
  <2>1. m + 1 \in 1..Len(o) /\ o[m + 1] = top.fn /\ m + 1 # top.fn
    BY <1>1, <1>3, AddedLemma
  <2>2. o \in Seq(Nat) /\ Len(o) = m + 1
    BY <1>3 DEF Grown
  <2>3. \A b \in 1..m : b \in 1..Len(o) /\ b \in Nat /\ b \in 1..M /\ b # M
    BY <1>3, <2>2
  <2>4. M \in Nat /\ M <= Len(o)
    BY <1>3, <2>2
  <2> QED
    BY <2>1, <2>2, <2>3, <2>4
<1>10. /\ Flows(src', grown, o, st, misuse') /\ Len(grown) = M /\ grown[M] = <<>>
       /\ \A b \in 1..m : grown[b] = code[b]
  <2>1. Flows(src', code, o, st, misuse')
    BY <1>5 DEF Grounds
  <2>2. Flows(src', grown, o, st, misuse') /\ Adds(code, <<>>, grown)
    <3> HIDE DEF o
    <3> QED
      BY <1>9, <2>1, EmptyBlockFlows
  <2> QED
    BY <2>2 DEF Adds
<1> HIDE DEF M
<1>11. /\ enter \in InstrType /\ test \in InstrType /\ back \in InstrType
       /\ IsTerm(enter) /\ IsTerm(test) /\ IsTerm(back)
  <2>1. top.cond \in Nat /\ top.first \in Nat /\ M \in Nat /\ top.tok \in Nat
    BY <1>6, <1>7, <1>8, <1>9
  <2> HIDE DEF n
  <2>2. enter \in InstrType /\ IsTerm(enter)
    BY <2>1, InstrLemma DEF Terminators
  <2>3. test \in InstrType /\ IsTerm(test)
    BY <2>1, InstrLemma DEF Terminators
  <2>4. back \in InstrType /\ IsTerm(back)
    BY <1>2, <2>1, InstrLemma DEF Terminators
  <2> QED
    BY <2>2, <2>3, <2>4
<1>12. /\ Targets(enter, o, o[caller.block])
       /\ Targets(test, o, o[top.cond])
       /\ Targets(back, o, o[top.block])
  <2> HIDE DEF n, o
  <2> QED
    BY <1>7, <1>8, <1>9, TargetsLemma
<1>13. ASSUME top.fn \notin misuse'
       PROVE  /\ st[top.first] = top.tok + 1 /\ st[top.cond] = top.tok
              /\ code[top.cond] = <<inst>>
  <2>1. N \in Calls /\ frames[N] = top
    BY <1>4 DEF EndsBody
  <2> HIDE DEF N
  <2> QED
    BY <1>1, <1>5, <1>13, <2>1, FirstStarts
<1>14. inst.at = top.tok /\ <<inst>> # <<>> /\ <<inst>>[1] = inst /\ Len(<<inst>>) = 1
  BY DEF Instr
<1> HIDE DEF grown, inst
<1>15. Flows(src', entered, o, st, misuse') /\ Elsewhere(grown, caller.block, entered)
  <2>1. ASSUME o[caller.block] \notin misuse'
        PROVE  Fits(src', grown, o, st, caller.block, enter)
    <3>1. Ready(src', code[caller.block], st[caller.block], top.tok)
      BY <1>2, <1>4, <1>5, <1>6, <1>8, <2>1, CallerStands
    <3>2. grown[caller.block] = code[caller.block] /\ grown[top.cond] = code[top.cond]
          /\ top.cond \in 1..Len(grown)
      BY <1>7, <1>8, <1>9, <1>10
    <3>3. \A v \in BOOLEAN : Leads(src', grown[top.cond], st[top.cond], top.tok, v)
      BY <1>8, <1>13, <1>14, <2>1, <3>2 DEF Leads
    <3> QED
      BY <1>6, <1>8, <3>1, <3>2, <3>3, BranchFits
  <2>2. caller.block \in 1..Len(grown)
    BY <1>8, <1>9, <1>10
  <2> HIDE DEF enter, o
  <2> QED
    BY <1>9, <1>10, <1>11, <1>12, <2>1, <2>2, TermFlows
<1> HIDE DEF entered, enter
<1>16. /\ Len(entered) = M /\ entered[M] = <<>>
       /\ \A b \in 1..m : b # caller.block => entered[b] = code[b]
  <2>1. M \in 1..M /\ M # caller.block
    BY <1>8, <1>9
  <2> QED
    BY <1>9, <1>10, <1>15, <2>1 DEF Elsewhere
<1>17. Flows(src', tested, o, st, misuse') /\ Elsewhere(entered, top.cond, tested)
  <2>1. ASSUME o[top.cond] \notin misuse'
        PROVE  Fits(src', entered, o, st, top.cond, test)
    <3>1. /\ top.first \in 1..Len(entered) /\ M \in 1..Len(entered) /\ o[top.cond] # top.cond
          /\ o[top.first] # top.first /\ o[top.first] \notin misuse'
      <4>1. M \in 1..M
        BY <1>9
      <4> QED
        BY <1>7, <1>8, <1>9, <1>16, <2>1, <4>1
    <3>2. entered[top.cond] = <<inst>>
      BY <1>7, <1>13, <1>16, <2>1
    <3>3. Ready(src', entered[top.cond], st[top.cond], top.tok)
      BY <1>14, <3>2 DEF Ready, Follows
    <3>4. Enters(src', entered[top.first], st[top.first], top.tok, TRUE)
      <4>1. st[top.first] = top.tok + 1
        BY <1>7, <1>13, <2>1
      <4>2. Lands(src', top.tok, TRUE, st[top.first])
        BY <1>6, <4>1 DEF Lands
      <4>3. top.tok \in Nat /\ src'[top.tok] # "func"
        BY <1>6
      <4> HIDE DEF o
      <4> QED
        BY <1>15, <3>1, <4>1, <4>2, <4>3, HeadEnters
    <3>5. Enters(src', entered[M], st[M], top.tok, FALSE)
      <4>1. st[M] = (n + 1) + 1
        BY <1>2, <1>5 DEF M
      <4>2. Lands(src', top.tok, FALSE, st[M])
        <5> HIDE DEF n
        <5> QED
          BY <1>6, <4>1 DEF Lands
      <4> QED
        BY <1>16, <4>2, EmptyEnters
    <3>6. src'[top.tok] \in {"if", "while"} /\ top.tok \in 1..Len(src')
      BY <1>6
    <3> HIDE DEF o
    <3> QED
      BY <3>1, <3>3, <3>4, <3>5, <3>6, TestFits
  <2>2. top.cond \in 1..Len(entered)
    BY <1>7, <1>9, <1>16
  <2> HIDE DEF test, o
  <2> QED
    BY <1>9, <1>11, <1>12, <1>15, <2>1, <2>2, TermFlows
<1> HIDE DEF tested
<1>18. /\ Len(tested) = M /\ tested[M] = <<>> /\ tested[top.block] = code[top.block]
       /\ \A b \in 1..m : b # caller.block /\ b # top.cond => tested[b] = code[b]
       /\ top.block \in 1..Len(tested) /\ top.cond \in 1..Len(tested)
  <2>1. M \in 1..M /\ M # top.cond
    BY <1>7, <1>9
  <2>2. /\ Len(tested) = M /\ tested[M] = <<>>
        /\ \A b \in 1..m : b # caller.block /\ b # top.cond => tested[b] = code[b]
    BY <1>9, <1>16, <1>17, <2>1 DEF Elsewhere
  <2> QED
    BY <1>7, <1>8, <1>9, <2>2
<1>19. ASSUME top.fn \notin misuse'
       PROVE  tested[top.cond] # <<>> /\ tested[top.cond][1] = inst
  <2>1. entered[top.cond] = <<inst>> /\ top.cond \in 1..Len(entered)
    BY <1>7, <1>9, <1>13, <1>16, <1>19
  <2>2. entered \in Seq(Seq(InstrType))
    BY <1>15 DEF Flows, Stage
  <2>3. entered[top.cond] # <<>> /\ entered[top.cond][1] = inst
    BY <1>14, <2>1
  <2>4. LET c == Emit(entered, top.cond, test)[top.cond]
        IN  /\ c # <<>>
            /\ entered[top.cond] # <<>> => c[1] = entered[top.cond][1]
    <3> HIDE DEF test
    <3> QED
      BY <1>11, <2>1, <2>2, EmittedAt
  <2> QED
    BY <2>3, <2>4 DEF tested
<1>20. /\ Flows(src', code', o, st, misuse') /\ Elsewhere(tested, top.block, code')
  <2>1. ASSUME o[top.block] \notin misuse', ~ Terminated(tested[top.block])
        PROVE  Fits(src', tested, o, st, top.block, back)
    <3>1. Ready(src', tested[top.block], st[top.block], n + 1)
      BY <1>1, <1>2, <1>4, <1>5, <1>8, <1>18, <2>1, TopStands
    <3>2. ASSUME NEW v \in BOOLEAN
          PROVE  Leads(src', tested[top.cond], st[top.cond], n + 1, v)
      <4>1. st[top.cond] = top.tok
        BY <1>8, <1>13, <2>1
      <4>2. S!OpenerOf(src', n + 1) \in 1..((n + 1) - 1) /\ S!OpenerOf(src', n + 1) = top.tok
        BY <1>2, <1>6
      <4>3. Lands(src', n + 1, v, st[top.cond])
        <5> HIDE DEF n
        <5> QED
          BY <1>2, <1>6, <4>1, <4>2 DEF Lands
      <4>4. Reaches(src', top.tok, top.tok)
        BY <1>6, PassedSelf DEF Reaches
      <4>5. tested[top.cond][1].at = top.tok
        BY <1>8, <1>14, <1>19, <2>1
      <4> QED
        BY <4>1, <4>3, <4>4, <4>5 DEF Leads, Enters
    <3>3. top.cond \in 1..Len(tested) /\ o[top.block] # top.block /\ n + 1 \in 1..Len(src')
      BY <1>6, <1>8, <1>18
    <3> HIDE DEF n, o
    <3> QED
      BY <3>1, <3>2, <3>3, BranchFits
  <2> DEFINE r == EmitUnlessTerminated(tested, top.block, back)
  <2>2. Flows(src', r, o, st, misuse') /\ Elsewhere(tested, top.block, r)
    <3> HIDE DEF back, o
    <3> QED
      BY <1>9, <1>11, <1>12, <1>17, <1>18, <2>1, BranchFlows
  <2>3. code' = r
    BY <1>1
  <2> HIDE DEF r
  <2> QED
    BY <2>2, <2>3
<1> DEFINE T == {caller.block, top.cond, top.block}
<1>21. code'[M] = <<>> /\ \A b \in Blocks : b \notin T => code'[b] = code[b]
  <2>1. M \in 1..M /\ M # top.block
    BY <1>8, <1>9
  <2>2. code'[M] = <<>>
    BY <1>18, <1>20, <2>1 DEF Elsewhere
  <2>3. ASSUME NEW b \in Blocks, b \notin T PROVE code'[b] = code[b]
    <3>1. b \in 1..Len(tested) /\ b # top.block /\ tested[b] = code[b]
      BY <1>3, <1>9, <1>18, <2>3
    <3> QED
      BY <1>20, <3>1 DEF Elsewhere
  <2> QED
    BY <2>2, <2>3
<1>22. \A k \in 1..(N - 1) : /\ frames[k].kind = "while" => frames[k].cond \notin T
                             /\ k # N - 1 => \A x \in T : Apart(k, x)
  <2> SUFFICES ASSUME NEW k \in 1..(N - 1)
               PROVE  /\ frames[k].kind = "while" => frames[k].cond \notin T
                      /\ k # N - 1 => \A x \in T : Apart(k, x)
    OBVIOUS
  <2>1. k \in Calls /\ k # N
    <3>1. Calls = 1..N /\ N \in Nat /\ k \in 1..(N - 1)
      BY <1>4 DEF Calls, EndsBody
    <3> HIDE DEF N
    <3> QED
      BY <3>1
  <2>2. frames[k].kind = "while" => frames[k].cond # frames[k].block
    <3>1. FramesLinked!(k)
      BY <2>1 DEF Inv, IInv, FramesLinked
    <3> QED
      BY <3>1
  <2>3. Apart(k, top.block) /\ Apart(k, top.cond)
    BY <1>1, <2>1, TopApart
  <2>4. k # N - 1 => Apart(k, caller.block)
    <3>1. N - 1 \in Calls /\ frames[N - 1] = caller
      BY <1>4 DEF EndsBody
    <3> HIDE DEF N
    <3> QED
      BY <2>1, <3>1, ApartLemma
  <2>5. k = N - 1 => frames[k] = caller
    BY <1>4 DEF EndsBody
  <2> QED
    BY <2>1, <2>2, <2>3, <2>4, <2>5 DEF Apart
<1> HIDE DEF T
<1>23. FlowsFrom(st)'
  <2> DEFINE q == 1
  <2>1. /\ q \in {1, 2} /\ Len(frames) > q /\ PopInto(q, M) /\ M \in Nat /\ Len(frames) - q = N - 1
        /\ code'[M] = <<>> /\ st[M] = Len(src) + 2 /\ Len(src') = Len(src) + 1
    <3>1. q \in {1, 2} /\ Len(frames) > q /\ Len(frames) - q = N - 1
      BY <1>4 DEF EndsBody
    <3>2. M \in Nat /\ st[M] = Len(src) + 2 /\ Len(src') = Len(src) + 1
      BY <1>2, <1>5, <1>9 DEF M
    <3>3. PopInto(q, M) /\ code'[M] = <<>>
      BY <1>1, <1>21
    <3> QED
      BY <3>1, <3>2, <3>3
  <2> HIDE DEF q
  <2>2. \A k \in 1..(Len(frames) - q) : frames[k].fn \notin misuse' =>
            /\ frames[k].kind = "while" => frames[k].cond \notin T
            /\ k # Len(frames) - q => \A x \in T : Apart(k, x)
    <3> HIDE DEF N
    <3> QED
      BY <1>22, <2>1
  <2> HIDE DEF n, m, N
  <2> QED
    BY <1>5, <1>20, <1>21, <2>1, <2>2, PopCalls
<1>24. Nested(src', frames')
  <2> DEFINE q == 1
  <2>1. /\ q \in {1, 2} /\ Len(frames) > q /\ PopInto(q, M) /\ M \in Nat
        /\ Len(frames) - q + 1 = N
    <3>1. q \in {1, 2} /\ Len(frames) > q /\ Len(frames) - q + 1 = N
      BY <1>4 DEF EndsBody
    <3>3. PopInto(q, M)
      BY <1>1
    <3> QED
      BY <1>9, <3>1, <3>3
  <2>2. Closes(frames, Len(frames) - q + 1)
    BY <1>6, <2>1
  <2>3. Nested(src, frames)
    BY DEF FlowInv
  <2> HIDE DEF q
  <2> QED
    BY <1>2, <2>1, <2>2, <2>3, PopNested
<1> QED
  BY <1>23, <1>24 DEF FlowInv

\* The end of a loop: into the body, and from its end back to its start.  A body
\* that does not end in the block it started in makes its function one of misuse.
LEMMA EndLoopFlows == ASSUME Inv, PlacedInv, FlowInv, EndLoop PROVE FlowInv'
<1> DEFINE n == Len(src)
           m == Len(code)
           N == Len(frames)
           o == owner'
           M == m + 1
           back == Instr("br", <<top.first>>, n + 1)
           enter == Instr("br", <<top.first>>, top.tok)
           looped == Emit(code, top.first, back)
           entered == Emit(looped, caller.block, enter)
<1>1. /\ InBody /\ top.kind = "loop" /\ owner' = Append(owner, top.fn) /\ Read("end")
      /\ misuse' = (IF top.straight THEN misuse ELSE misuse \cup {top.fn}) /\ PopInto(1, M)
      /\ code' = NewBlock(entered)
  BY DEF EndLoop, BodyComplete
<1>2. /\ Longer(src, src') /\ n \in Nat /\ Len(src') = n + 1 /\ src'[Len(src')] = "end"
      /\ src'[n + 1] = "end" /\ src' \in Seq(Tokens) /\ n + 1 \in Nat
  BY <1>1, ReadLonger DEF Tokens, Longer
<1>3. Grown(1) /\ m \in Nat /\ Blocks = 1..m /\ owner \in Seq(Nat) /\ Len(owner) = m
  BY <1>1, GrownLemma, BodyLemma
<1>4. EndsBody("loop", o) /\ misuse \subseteq misuse'
  BY <1>1, <1>3, EndsBodyLemma
<1>5. PICK st \in Seq(Nat \ {0}) : Grounds(st) /\ st[m + 1] = n + 2
  <2>1. n + 2 \in Nat \ {0}
    BY <1>2
  <2> HIDE DEF n
  <2> QED
    BY <1>1, <1>2, <1>3, <1>4, <2>1, GroundOne
<1>6. /\ S!Closed(src', top.tok) /\ S!EndOf(src', top.tok) = n + 1
      /\ S!OpenerOf(src', n + 1) = top.tok /\ Closes(frames, N)
      /\ top.tok \in 1..n /\ src'[top.tok] = "loop"
      /\ top.tok \in 1..Len(src') /\ n + 1 \in 1..Len(src') /\ top.tok \in Nat
  <2>1. /\ S!Closed(src', top.tok) /\ S!EndOf(src', top.tok) = n + 1
        /\ S!OpenerOf(src', n + 1) = top.tok /\ Closes(frames, N)
        /\ top.tok \in 1..n /\ src'[top.tok] = "loop"
    BY <1>1, <1>2, TopShuts
  <2>2. top.tok \in 1..Len(src') /\ n + 1 \in 1..Len(src') /\ top.tok \in Nat
    BY <1>2, <2>1
  <2> QED
    BY <2>1, <2>2
<1>7. N \in Calls /\ frames[N] = top /\ N - 1 \in Calls /\ frames[N - 1] = caller /\ N \in Nat
  BY <1>4 DEF EndsBody
<1>8. /\ top.block \in 1..m /\ o[top.block] = top.fn /\ top.block # top.fn
      /\ top.first \in 1..m /\ o[top.first] = top.fn /\ top.first # top.fn
      /\ caller.block \in 1..m /\ o[caller.block] = top.fn /\ caller.block # top.fn
      /\ top.block # caller.block /\ caller.fn = top.fn
  BY <1>3, <1>4 DEF EndsBody
<1>9. /\ M \in Nat /\ o \in Seq(Nat) /\ M <= Len(o)
      /\ \A b \in 1..m : b \in 1..Len(o) /\ b \in Nat /\ b # M
  <2>1. o \in Seq(Nat) /\ Len(o) = m + 1
    BY <1>3 DEF Grown
  <2> QED
    BY <1>3, <2>1
<1> HIDE DEF M
<1>10. Flows(src', code, o, st, misuse')
  BY <1>5 DEF Grounds
<1>11. back \in InstrType /\ enter \in InstrType /\ IsTerm(back) /\ IsTerm(enter)
  <2>1. top.first \in Nat /\ top.tok \in Nat
    BY <1>6, <1>8, <1>9
  <2> HIDE DEF n
  <2>2. back \in InstrType /\ IsTerm(back)
    BY <1>2, <2>1, InstrLemma DEF Terminators
  <2>3. enter \in InstrType /\ IsTerm(enter)
    BY <2>1, InstrLemma DEF Terminators
  <2> QED
    BY <2>2, <2>3
<1>12. Targets(back, o, o[top.first]) /\ Targets(enter, o, o[caller.block])
  <2> HIDE DEF n, o
  <2> QED
    BY <1>8, <1>9, TargetsLemma
<1>13. ASSUME top.fn \notin misuse'
       PROVE  /\ top.block = top.first /\ ~ Terminated(code[top.block])
              /\ st[top.first] = top.tok + 1
  <2>1. top.straight
    BY <1>1, <1>13
  <2>2. FramesHistory!(N) /\ top.fn \notin misuse
    BY <1>4, <1>7, <1>13 DEF Inv, IInv, FramesHistory
  <2>3. top.block = top.first /\ ~ top.returned
    BY <1>7, <2>1, <2>2
  <2>4. Clean(code[top.block]) /\ code[top.block] \in Seq(InstrType)
    <3> HIDE DEF N
    <3>1. Clean(code[top.block])
      BY <1>7, <2>2, <2>3, BlockLemma
    <3> QED
      BY <1>8, <3>1, ElementOfSeq DEF Inv, TypeOK
  <2>5. st[top.first] = top.tok + 1
    <3> HIDE DEF N
    <3> QED
      BY <1>5, <1>7, <1>13, FirstStarts
  <2> QED
    BY <2>3, <2>4, <2>5, CleanOrSealed
<1>14. Flows(src', looped, o, st, misuse') /\ Elsewhere(code, top.first, looped)
  <2>1. ASSUME o[top.first] \notin misuse'
        PROVE  Fits(src', code, o, st, top.first, back)
    <3>0. top.fn \notin misuse'
      BY <1>8, <2>1
    <3>1. Ready(src', code[top.first], st[top.first], n + 1)
      BY <1>1, <1>2, <1>4, <1>5, <1>13, <3>0, TopStands
    <3>2. ASSUME NEW v \in BOOLEAN
          PROVE  Leads(src', code[top.first], st[top.first], n + 1, v)
      <4>1. S!OpenerOf(src', n + 1) \in 1..((n + 1) - 1) /\ S!OpenerOf(src', n + 1) = top.tok
        BY <1>2, <1>6
      <4>2. Lands(src', n + 1, v, st[top.first])
        <5> HIDE DEF n
        <5> QED
          BY <1>2, <1>6, <1>13, <3>0, <4>1 DEF Lands
      <4>3. /\ top.first \in 1..Len(code) /\ o[top.first] \notin misuse' /\ o[top.first] # top.first
            /\ top.tok \in Nat /\ src'[top.tok] # "func" /\ st[top.first] = top.tok + 1
        BY <1>6, <1>8, <1>13, <2>1, <3>0
      <4> HIDE DEF n, o
      <4>4. Enters(src', code[top.first], st[top.first], n + 1, v)
        BY <1>10, <4>2, <4>3, HeadEnters
      <4> QED
        BY <4>4 DEF Leads
    <3>3. top.first \in 1..Len(code) /\ o[top.first] # top.first /\ n + 1 \in 1..Len(src')
      BY <1>6, <1>8
    <3> HIDE DEF n, o
    <3> QED
      BY <3>1, <3>2, <3>3, BranchFits
  <2>2. top.first \in 1..Len(code)
    BY <1>8
  <2> HIDE DEF back, o
  <2> QED
    BY <1>9, <1>10, <1>11, <1>12, <2>1, <2>2, TermFlows
<1> HIDE DEF looped
<1>15. /\ Len(looped) = m /\ \A b \in 1..m : b # top.first => looped[b] = code[b]
       /\ caller.block \in 1..Len(looped) /\ top.first \in 1..Len(looped)
  BY <1>8, <1>14 DEF Elsewhere
<1>16. Flows(src', entered, o, st, misuse') /\ Elsewhere(looped, caller.block, entered)
  <2>1. ASSUME o[caller.block] \notin misuse'
        PROVE  Fits(src', looped, o, st, caller.block, enter)
    <3>0. top.fn \notin misuse'
      BY <1>8, <2>1
    <3>1. Ready(src', looped[caller.block], st[caller.block], top.tok)
      <4>1. Ready(src', code[caller.block], st[caller.block], top.tok)
        BY <1>2, <1>4, <1>5, <1>6, <3>0, CallerStands
      <4> QED
        BY <1>8, <1>13, <1>15, <3>0, <4>1
    <3>2. ASSUME NEW v \in BOOLEAN
          PROVE  Leads(src', looped[top.first], st[top.first], top.tok, v)
      <4>1. Lands(src', top.tok, v, st[top.first])
        BY <1>6, <1>13, <3>0 DEF Lands
      <4>2. /\ o[top.first] \notin misuse' /\ o[top.first] # top.first
            /\ top.tok \in Nat /\ src'[top.tok] # "func" /\ st[top.first] = top.tok + 1
        BY <1>6, <1>8, <1>13, <3>0
      <4> HIDE DEF o
      <4>3. Enters(src', looped[top.first], st[top.first], top.tok, v)
        BY <1>14, <1>15, <4>1, <4>2, HeadEnters
      <4> QED
        BY <4>3 DEF Leads
    <3>3. o[caller.block] # caller.block
      BY <1>8
    <3> HIDE DEF o
    <3> QED
      BY <1>6, <1>15, <3>1, <3>2, <3>3, BranchFits
  <2> HIDE DEF enter, o
  <2> QED
    BY <1>9, <1>11, <1>12, <1>14, <1>15, <2>1, TermFlows
<1> HIDE DEF entered, enter, back
<1> DEFINE T == {caller.block, top.first}
<1>17. /\ Flows(src', code', o, st, misuse') /\ code'[M] = <<>>
       /\ \A b \in Blocks : b \notin T => code'[b] = code[b]
  <2>1. Len(entered) = m
    BY <1>15, <1>16 DEF Elsewhere
  <2>2. Flows(src', code', o, st, misuse') /\ Adds(entered, <<>>, code')
    <3>1. Len(entered) + 1 <= Len(o) /\ o \in Seq(Nat)
      BY <1>9, <2>1 DEF M
    <3> HIDE DEF o
    <3> QED
      BY <1>1, <1>16, <3>1, EmptyBlockFlows
  <2>3. code'[M] = <<>> /\ \A b \in 1..m : code'[b] = entered[b]
    BY <2>1, <2>2 DEF Adds, M
  <2>4. ASSUME NEW b \in Blocks, b \notin T PROVE code'[b] = code[b]
    <3>1. b \in 1..m /\ b # top.first /\ b # caller.block
      BY <1>3, <2>4
    <3>2. entered[b] = looped[b] /\ looped[b] = code[b]
      BY <1>15, <1>16, <3>1 DEF Elsewhere
    <3> QED
      BY <2>3, <3>1, <3>2
  <2> QED
    BY <2>2, <2>3, <2>4
<1>18. ASSUME NEW k \in 1..(N - 1), frames[k].fn \notin misuse'
       PROVE  /\ frames[k].kind = "while" => frames[k].cond \notin T
              /\ k # N - 1 => \A x \in T : Apart(k, x)
  <2>1. k \in Calls /\ k # N
    <3>1. Calls = 1..N /\ N \in Nat /\ k \in 1..(N - 1)
      BY <1>7 DEF Calls
    <3> HIDE DEF N
    <3> QED
      BY <3>1
  <2>2. frames[k].kind = "while" => frames[k].cond # frames[k].block
    <3>1. FramesLinked!(k)
      BY <2>1 DEF Inv, IInv, FramesLinked
    <3> QED
      BY <3>1
  <2>3. Apart(k, top.first)
    <3>1. CASE frames[k].fn = top.fn
      <4>1. top.first = top.block
        BY <1>13, <1>18, <3>1
      <4> QED
        BY <1>1, <2>1, <4>1, TopApart
    <3>2. CASE frames[k].fn # top.fn
      <4>1. top.first \in Blocks /\ owner[top.first] = top.fn
        BY <1>1, TopLemma
      <4> HIDE DEF N
      <4> QED
        BY <1>7, <2>1, <3>2, <4>1, ApartLemma
    <3> QED
      BY <3>1, <3>2
  <2>4. k # N - 1 => Apart(k, caller.block)
    <3> HIDE DEF N
    <3> QED
      BY <1>7, <2>1, ApartLemma
  <2>5. k = N - 1 => frames[k] = caller
    BY <1>7
  <2> QED
    BY <2>1, <2>2, <2>3, <2>4, <2>5 DEF Apart
<1> HIDE DEF T
<1>19. FlowsFrom(st)'
  <2> DEFINE q == 1
  <2>1. /\ q \in {1, 2} /\ Len(frames) > q /\ PopInto(q, M) /\ M \in Nat /\ Len(frames) - q = N - 1
        /\ code'[M] = <<>> /\ st[M] = Len(src) + 2 /\ Len(src') = Len(src) + 1
    <3>1. q \in {1, 2} /\ Len(frames) > q /\ Len(frames) - q = N - 1
      BY <1>4 DEF EndsBody
    <3>2. M \in Nat /\ st[M] = Len(src) + 2 /\ Len(src') = Len(src) + 1
      BY <1>2, <1>5, <1>9 DEF M
    <3>3. PopInto(q, M) /\ code'[M] = <<>>
      BY <1>1, <1>17
    <3> QED
      BY <3>1, <3>2, <3>3
  <2> HIDE DEF q
  <2>2. \A k \in 1..(Len(frames) - q) : frames[k].fn \notin misuse' =>
            /\ frames[k].kind = "while" => frames[k].cond \notin T
            /\ k # Len(frames) - q => \A x \in T : Apart(k, x)
    <3> HIDE DEF N
    <3> QED
      BY <1>18, <2>1
  <2> HIDE DEF n, m, N
  <2> QED
    BY <1>5, <1>17, <2>1, <2>2, PopCalls
<1>20. Nested(src', frames')
  <2> DEFINE q == 1
  <2>1. /\ q \in {1, 2} /\ Len(frames) > q /\ PopInto(q, M) /\ M \in Nat
        /\ Len(frames) - q + 1 = N
    <3>1. q \in {1, 2} /\ Len(frames) > q /\ Len(frames) - q + 1 = N
      BY <1>4 DEF EndsBody
    <3>3. PopInto(q, M)
      BY <1>1
    <3> QED
      BY <1>9, <3>1, <3>3
  <2>2. Closes(frames, Len(frames) - q + 1)
    BY <1>6, <2>1
  <2>3. Nested(src, frames)
    BY DEF FlowInv
  <2> HIDE DEF q
  <2> QED
    BY <1>2, <2>1, <2>2, <2>3, PopNested
<1> QED
  BY <1>19, <1>20 DEF FlowInv

-----------------------------------------------------------------------------
(* The refinement. *)

\* Nothing has been generated, so it follows the empty source.
LEMMA InitFlows == Init => FlowInv
<1> SUFFICES ASSUME Init PROVE FlowInv
  OBVIOUS
<1>1. /\ src = <<>> /\ code = <<>> /\ owner = <<>> /\ frames = <<>> /\ misuse = {}
      /\ 1..Len(src) = {} /\ 1..Len(code) = {} /\ 1..Len(frames) = {}
      /\ Len(owner) = Len(code) /\ Len(owner) = Len(<<>>)
  BY DEF Init
<1>2. Nested(src, frames)
  BY <1>1 DEF Nested
<1>3. <<>> \in Seq(Nat \ {0})
  OBVIOUS
<1>4. Stage(code, owner)
  BY InitPlaced DEF PlacedInv
<1>5. Flows(src, code, owner, <<>>, misuse)
  BY <1>1, <1>3, <1>4 DEF Flows
<1>6. FlowsFrom(<<>>)
  BY <1>1, <1>5 DEF FlowsFrom, Calls
<1> QED
  BY <1>2, <1>6 DEF FlowInv

\* Every action keeps the blocks following the source.
LEMMA NextFlows == Inv /\ PlacedInv /\ FlowInv /\ [Next]_vars => FlowInv'
<1> SUFFICES ASSUME Inv, PlacedInv, FlowInv, [Next]_vars  PROVE FlowInv'
  OBVIOUS
<1>1. CASE BeginFunction          BY <1>1, BeginFunctionFlows
<1>2. CASE EndFunction            BY <1>2, EndFunctionFlows
<1>3. CASE Statement              BY <1>3, StatementFlows
<1>4. CASE Return                 BY <1>4, ReturnFlows
<1>5. CASE BeginIf                BY <1>5, BeginIfFlows
<1>6. CASE BeginElse \/ BeginLoop BY <1>6, NewBodyFlows
<1>7. CASE EndIfWithoutElse       BY <1>7, EndIfWithoutElseFlows
<1>8. CASE EndIfWithElse          BY <1>8, EndIfWithElseFlows
<1>9. CASE BeginWhile             BY <1>9, BeginWhileFlows
<1>10. CASE EndWhile              BY <1>10, EndWhileFlows
<1>11. CASE EndLoop               BY <1>11, EndLoopFlows
<1>12. CASE UNCHANGED vars
  <2>1. src' = src /\ code' = code /\ owner' = owner /\ frames' = frames /\ misuse' = misuse
    BY <1>12 DEF vars
  <2>2. PICK start : FlowsFrom(start)
    BY DEF FlowInv
  <2>3. FlowsFrom(start)'
    BY <2>1, <2>2 DEF FlowsFrom, NextOf, Calls
  <2>4. Nested(src, frames)'
    BY <2>1 DEF FlowInv
  <2> QED
    BY <2>3, <2>4 DEF FlowInv
<1> QED
  BY <1>1, <1>2, <1>3, <1>4, <1>5, <1>6, <1>7, <1>8, <1>9, <1>10, <1>11, <1>12 DEF Next

\* Every step of code generation reads one token.
LEMMA NextReads == Next => \E token \in Tokens : Read(token)
BY DEF Next, BeginFunction, EndFunction, Statement, Return, BeginIf, BeginElse,
       EndIfWithoutElse, EndIfWithElse, BeginWhile, EndWhile, BeginLoop, EndLoop,
       Tokens, Opening

\* Where a run stands: at the instruction that comes next, but for the allocas
\* of an entry block.
LEMMA PositionIs ==
    ASSUME Inv, Runs, pc # Idle
    PROVE  /\ IsTerm(Here) => pc[2] = Len(code[pc[1]]) /\ Position = Here.at
           /\ owner[pc[1]] # pc[1] => Position = Here.at
<1>1. frames = <<>> /\ pc[1] \in Blocks /\ owner[pc[1]] \notin misuse /\ pc[2] \in 1..Len(code[pc[1]])
  BY DEF Runs
<1>2. Sealed(code[pc[1]]) /\ Len(code[pc[1]]) \in Nat \ {0}
  BY <1>1, BlocksSealed
<1>3. ASSUME IsTerm(Here) PROVE pc[2] = Len(code[pc[1]])
  <2>1. pc[2] \notin 1..(Len(code[pc[1]]) - 1)
    BY <1>2, <1>3 DEF Sealed, Here
  <2> QED
    BY <1>1, <1>2, <2>1
<1> QED
  BY <1>3 DEF Position, Here

\* The statement that a run comes to when it gets to a block of a body.
LEMMA PositionAt ==
    ASSUME NEW b, NEW i \in Nat \ {0}, pc' = <<b, i>>, code' = code, owner' = owner, owner[b] # b
    PROVE  Position' = code[b][i].at
<1>1. pc' # Idle /\ pc'[1] = b /\ pc'[2] = i
  BY DEF Idle
<1>2. (pc = Idle)' <=> pc' = Idle
  BY DEF Idle
<1>3. Position' = IF pc' = Idle THEN 0
                  ELSE LET c == code'[pc'[1]]
                       IN  IF owner'[pc'[1]] = pc'[1] THEN c[Len(c)].at ELSE c[pc'[2]].at
  BY DEF Position, Idle
<1> QED
  BY <1>1, <1>3

\* Control that lands where q is reached is a step of the source.
LEMMA RunStep ==
    ASSUME Inv, NEW c \in BOOLEAN, NEW e, Lands(src, Position, c, e),
           Reaches(src, e, Position'), src' = src,
           cond' = IF src[Position] \in {"if", "while"} THEN c ELSE cond
    PROVE  S!Run
<1>1. src \in Seq(Tokens)
  BY DEF Inv, TypeOK
<1>2. Position \in 1..Len(src) /\ S!Step(src, Position, c) = Position'
  BY <1>1, LandsStep
<1>3. Position' \in 1..Len(src)
  BY DEF Reaches
<1>4. Position # 0 /\ Position' # 0
  BY <1>2, <1>3
<1> QED
  BY <1>2, <1>4 DEF S!Run

\* A step of code generation reads a token of the source and runs nothing.
LEMMA CompileImplements ==
    ASSUME Inv, Compile PROVE S!Write
<1>1. PICK token \in Tokens : Read(token)
  BY NextReads DEF Compile
<1>2. src' = Append(src, token) /\ pc = Idle /\ pc' = Idle /\ cond' = cond
  BY <1>1 DEF Read, Compile
<1>3. Position = 0 /\ Position' = 0
  BY <1>2 DEF Position
<1>4. token \in S!Tokens
  BY DEF Tokens, Opening, S!Tokens, S!Openers, S!Simple
<1> QED
  BY <1>2, <1>3, <1>4 DEF S!Write

\* A call enters a function by its declaration, which is closed.
LEMMA EnterImplements ==
    ASSUME Inv, PlacedInv, FlowInv, Enter PROVE S!Call
<1>1. PICK f \in Blocks \ misuse : owner[f] = f /\ pc' = <<f, 1>>
  BY DEF Enter
<1>2. /\ pc = Idle /\ frames = <<>> /\ src' = src /\ code' = code /\ owner' = owner
      /\ cond' = cond
  BY DEF Enter, vars
<1>3. PICK start : FlowsFrom(start)
  BY DEF FlowInv
<1>4. BlockFlows(src, code, owner, start, f)
  BY <1>1, <1>3 DEF FlowsFrom, Flows, Blocks
<1>5. Sealed(code[f]) /\ Len(code[f]) \in Nat \ {0}
  BY <1>1, <1>2, BlocksSealed
<1> DEFINE x == code[f][Len(code[f])]
<1>6. IsTerm(x) /\ Len(code[f]) \in 1..Len(code[f])
  BY <1>5 DEF Sealed, Terminated
<1>7. Declares(src, x)
  BY <1>1, <1>4, <1>6 DEF BlockFlows
<1>8. Position = 0
  BY <1>2 DEF Position
<1>9. Position' = x.at
  <2>1. pc' # Idle /\ pc'[1] = f
    BY <1>1, <1>5 DEF Idle, Blocks
  <2>2. Position' = IF pc' = Idle THEN 0
                    ELSE LET c == code'[pc'[1]]
                         IN  IF owner'[pc'[1]] = pc'[1] THEN c[Len(c)].at ELSE c[pc'[2]].at
    BY DEF Position, Idle
  <2> QED
    BY <1>1, <1>2, <2>1, <2>2
<1>10. Position' \in {g \in DOMAIN src : src[g] = "func" /\ S!Closed(src, g)}
  <2>1. DOMAIN src = 1..Len(src)
    BY DEF Inv, TypeOK
  <2> QED
    BY <1>7, <1>9, <2>1 DEF Declares
<1> QED
  BY <1>2, <1>8, <1>10 DEF S!Call

\* An instruction stays with its statement or goes on to the one that the source
\* runs next, and the condition it branches on is that of its statement.
LEMMA ExecuteImplements ==
    ASSUME Inv, PlacedInv, Runs, FlowInv, Execute PROVE S!Run \/ UNCHANGED S!vars
<1> DEFINE b == pc[1]
           i == pc[2]
           c == code[b]
<1>1. pc # Idle /\ src' = src /\ frames' = frames /\ code' = code /\ owner' = owner
      /\ misuse' = misuse
  BY DEF Execute, vars
<1>2. /\ frames = <<>> /\ b \in Blocks /\ owner[b] \notin misuse
      /\ i \in 1..Len(c) /\ cond \in BOOLEAN /\ Here = c[i]
  BY <1>1 DEF Runs, Here
<1>3. Sealed(c) /\ Len(c) \in Nat \ {0}
  BY <1>2, BlocksSealed
<1>4. /\ IsTerm(Here) => i = Len(c) /\ Position = Here.at
      /\ owner[b] # b => Position = Here.at
  BY <1>1, PositionIs
<1>5. PICK start : FlowsFrom(start)
  BY DEF FlowInv
<1>6. BlockFlows(src, code, owner, start, b)
  BY <1>2, <1>5 DEF FlowsFrom, Flows, Blocks
<1>7. Linked(src, code, start, Here) /\ Targets(Here, owner, owner[b]) /\ Len(Here.to) = Arity(Here.op)
  <2>1. Linked(src, code, start, Here)
    BY <1>2, <1>6 DEF BlockFlows
  <2>2. Placed(c, b, owner)
    BY <1>2 DEF PlacedInv, Stage, Blocks
  <2>3. Targets(Here, owner, owner[b])
    BY <1>2, <2>2 DEF Placed
  <2> QED
    BY <2>1, <2>3 DEF Targets
<1>8. ASSUME NEW j \in 1..Len(Here.to), pc' = <<Here.to[j], 1>>
      PROVE  LET t == Here.to[j]
             IN  code[t] # <<>> /\ Position' = code[t][1].at
  <2> DEFINE t == Here.to[j]
  <2>1. t \in Blocks /\ 1 \in 1..Len(code[t])
    BY <1>2, <1>8, SuccessorStarts DEF Here
  <2>2. owner[t] = owner[b] /\ t # owner[b]
    BY <1>7 DEF Targets
  <2>3. Position' = code[t][1].at
    BY <1>1, <1>8, <2>2, PositionAt
  <2>4. code[t] # <<>>
    BY <2>1
  <2> QED
    BY <2>3, <2>4
<1>9. CASE ~ IsTerm(Here) /\ pc' = <<pc[1], pc[2] + 1>> /\ UNCHANGED cond
  <2>1. i # Len(c)
    BY <1>2, <1>3, <1>9 DEF Sealed, Terminated
  <2>2. i \in 1..(Len(c) - 1) /\ i + 1 \in Nat \ {0}
    BY <1>2, <1>3, <2>1
  <2>3. CASE owner[b] = b
    <3>1. pc' # Idle /\ pc'[1] = b
      BY <1>2, <1>9, <2>2 DEF Idle, Blocks
    <3>2. Position' = IF pc' = Idle THEN 0
                      ELSE LET d == code'[pc'[1]]
                           IN  IF owner'[pc'[1]] = pc'[1] THEN d[Len(d)].at ELSE d[pc'[2]].at
      BY DEF Position, Idle
    <3>3. Position' = Position
      BY <1>1, <2>3, <3>1, <3>2 DEF Position
    <3> QED
      BY <1>1, <1>9, <3>3 DEF S!vars
  <2>4. CASE owner[b] # b
    <3>1. Position' = c[i + 1].at
      BY <1>1, <1>9, <2>2, <2>4, PositionAt
    <3>2. Follows(src, Position, Position')
      BY <1>2, <1>4, <1>6, <2>2, <2>4, <3>1 DEF BlockFlows
    <3>3. CASE Position' = Position
      BY <1>1, <1>9, <3>3 DEF S!vars
    <3>4. CASE /\ Position \in 1..Len(src) /\ src[Position] \in Simples
               /\ Reaches(src, Position + 1, Position')
      <4>1. Lands(src, Position, cond, Position + 1)
        BY <3>4 DEF Lands, Simples
      <4>2. cond' = IF src[Position] \in {"if", "while"} THEN cond ELSE cond
        BY <1>9
      <4> QED
        BY <1>1, <1>2, <3>4, <4>1, <4>2, RunStep
    <3> QED
      BY <3>2, <3>3, <3>4 DEF Follows
  <2> QED
    BY <2>3, <2>4
<1>10. CASE Here.op = "br" /\ pc' = <<Here.to[1], 1>> /\ UNCHANGED cond
  <2> DEFINE t == Here.to[1]
  <2>1. 1 \in 1..Len(Here.to) /\ Position = Here.at
    BY <1>4, <1>7, <1>10 DEF Arity, IsTerm, Terminators
  <2>2. code[t] # <<>> /\ Position' = code[t][1].at
    BY <1>8, <1>10, <2>1
  <2>3. Leads(src, code[t], start[t], Position, cond)
    BY <1>2, <1>7, <1>10, <2>1 DEF Linked
  <2>4. CASE code[t][1].at = Position
    BY <1>1, <1>10, <2>2, <2>4 DEF S!vars
  <2>5. CASE Enters(src, code[t], start[t], Position, cond)
    <3>1. Lands(src, Position, cond, start[t]) /\ Reaches(src, start[t], Position')
      BY <2>2, <2>5 DEF Enters
    <3>2. cond' = IF src[Position] \in {"if", "while"} THEN cond ELSE cond
      BY <1>10
    <3> QED
      BY <1>1, <1>2, <3>1, <3>2, RunStep
  <2> QED
    BY <2>3, <2>4, <2>5 DEF Leads
<1>11. CASE /\ Here.op = "cbr" /\ cond' \in BOOLEAN
            /\ pc' = <<IF cond' THEN Here.to[1] ELSE Here.to[2], 1>>
  <2>1. 1 \in 1..Len(Here.to) /\ 2 \in 1..Len(Here.to) /\ Position = Here.at
    BY <1>4, <1>7, <1>11 DEF Arity, IsTerm, Terminators
  <2>2. src[Position] \in {"if", "while"}
    BY <1>7, <1>11, <2>1 DEF Linked
  <2>3. PICK j \in 1..Len(Here.to) :
           /\ pc' = <<Here.to[j], 1>>
           /\ Enters(src, code[Here.to[j]], start[Here.to[j]], Position, cond')
    <3>1. CASE cond' = TRUE
      BY <1>7, <1>11, <2>1, <3>1 DEF Linked
    <3>2. CASE cond' = FALSE
      BY <1>7, <1>11, <2>1, <3>2 DEF Linked
    <3> QED
      BY <1>11, <3>1, <3>2
  <2> DEFINE t == Here.to[j]
  <2>4. code[t] # <<>> /\ Position' = code[t][1].at
    BY <1>8, <2>3
  <2>5. Lands(src, Position, cond', start[t]) /\ Reaches(src, start[t], Position')
    BY <2>3, <2>4 DEF Enters
  <2>6. cond' = IF src[Position] \in {"if", "while"} THEN cond' ELSE cond
    BY <2>2
  <2> QED
    BY <1>1, <1>11, <2>5, <2>6, RunStep
<1>12. CASE Here.op = "ret" /\ pc' = Idle /\ cond' = FALSE
  <2>1. Position = Here.at
    BY <1>4, <1>12 DEF IsTerm, Terminators
  <2>2. Leaves(src, Position)
    BY <1>7, <1>12, <2>1 DEF Linked
  <2>3. src \in Seq(Tokens)
    BY DEF Inv, TypeOK
  <2>4. Position \in 1..Len(src) /\ S!Step(src, Position, cond) = 0
    BY <1>2, <2>2, <2>3, LeavesStep
  <2>5. Position' = 0
    BY <1>12 DEF Position, Idle
  <2>6. Position # 0
    BY <2>4
  <2> QED
    BY <1>1, <1>2, <1>12, <2>4, <2>5, <2>6 DEF S!Run
<1> QED
  BY <1>9, <1>10, <1>11, <1>12 DEF Execute

\* The generated blocks run the statements of the source in the order of structured
\* control flow, for every program, however it is nested and whatever its conditions
\* evaluate to: a well-formed function of the finished program implements Structured
\* (FunctionDecl.cpp, Stmts.cpp, Return.cpp, If.cpp, While.cpp, Loop.cpp).
THEOREM BlocksRunTheSource == ESpec => RunsTheSource
<1> DEFINE I == Inv /\ PlacedInv /\ Runs /\ FlowInv
<1>1. EInit => I
  <2>1. EInit => Init /\ Runs
    BY DEF EInit, Runs
  <2> QED
    BY <2>1, InitInv, InitPlaced, InitFlows
<1>2. I /\ [ENext]_evars => I'
  <2>1. [ENext]_evars => [Next]_vars
    BY DEF ENext, Compile, Enter, Execute, evars, vars
  <2> QED
    BY <2>1, NextInv, NextPlaced, RunsStep, NextFlows
<1>3. EInit => S!Init
  BY DEF EInit, Init, S!Init, Position
<1>4. I /\ [ENext]_evars => [S!Next]_(S!vars)
  <2> SUFFICES ASSUME I, [ENext]_evars PROVE [S!Next]_(S!vars)
    OBVIOUS
  <2>1. CASE Compile  BY <2>1, CompileImplements DEF S!Next
  <2>2. CASE Enter    BY <2>2, EnterImplements DEF S!Next
  <2>3. CASE Execute  BY <2>3, ExecuteImplements DEF S!Next
  <2>4. CASE UNCHANGED evars
    BY <2>4 DEF evars, S!vars, Position, Idle
  <2> QED
    BY <2>1, <2>2, <2>3, <2>4 DEF ENext
<1> QED
  BY <1>1, <1>2, <1>3, <1>4, PTL DEF ESpec, RunsTheSource, S!Spec
=============================================================================
