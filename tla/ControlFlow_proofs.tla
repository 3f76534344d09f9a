-------------------------- MODULE ControlFlow_proofs --------------------------
(***************************************************************************)
(* Proofs about ControlFlow, for programs of every size: the type          *)
(* invariant, the well-formedness of finished functions, the isolation of  *)
(* functions from each other, and where branches and variables are placed. *)
(*                                                                         *)
(* The steps of the specification come in a few shapes: a body grows, a    *)
(* call begins, a call ends.  For each shape a lemma shows that IInv is    *)
(* preserved; for each action a lemma shows which shape it has.            *)
(*                                                                         *)
(* The last part is about single instructions, and an instruction stays    *)
(* well placed as blocks are added.  So there a step is taken apart into   *)
(* the emits it is made of, under the owners it ends with: each keeps what *)
(* has been built so far well placed (Stage).                              *)
(***************************************************************************)
EXTENDS ControlFlow, SequenceTheorems, TLAPS

Inv == TypeOK /\ IInv

-----------------------------------------------------------------------------
(* Lemmas about blocks: what Emit, EmitUnlessTerminated and NewBlock do. *)

\* Two elements appended at once.
AppendTwo(s, x, y) == s \o <<x, y>>

\* What is appended comes after what was there.
LEMMA AppendTwoLemma ==
    ASSUME NEW s \in Seq(Nat), NEW x \in Nat, NEW y \in Nat
    PROVE  /\ AppendTwo(s, x, y) \in Seq(Nat)
           /\ Len(AppendTwo(s, x, y)) = Len(s) + 2
           /\ \A i \in 1..Len(s) : AppendTwo(s, x, y)[i] = s[i]
           /\ AppendTwo(s, x, y)[Len(s) + 1] = x
           /\ AppendTwo(s, x, y)[Len(s) + 2] = y
BY DEF AppendTwo

\* A terminator seals a clean block; any other instruction keeps it clean.
LEMMA AppendClean ==
    ASSUME NEW c \in Seq(InstrType), NEW i \in InstrType, Clean(c)
    PROVE  /\ IsTerm(i) => Sealed(Append(c, i))
           /\ ~ IsTerm(i) => Clean(Append(c, i))
<1>1. /\ Append(c, i) \in Seq(InstrType)
      /\ Len(Append(c, i)) = Len(c) + 1
      /\ Append(c, i)[Len(c) + 1] = i
      /\ \A j \in 1..Len(c) : Append(c, i)[j] = c[j]
  OBVIOUS
<1>2. Append(c, i) # <<>>
  BY <1>1
<1>3. QED  BY <1>1, <1>2 DEF Clean, Sealed, Terminated

\* getTerminator() tells a clean block from a sealed one.
LEMMA CleanOrSealed ==
    ASSUME NEW c \in Seq(InstrType)
    PROVE  /\ Clean(c) => ~ Terminated(c)
           /\ Sealed(c) => Terminated(c)
BY DEF Clean, Sealed, Terminated

\* Appending an instruction to one block keeps the others.
LEMMA EmitLemma ==
    ASSUME NEW cs \in Seq(Seq(InstrType)), NEW b \in 1..Len(cs), NEW i \in InstrType
    PROVE  /\ Emit(cs, b, i) \in Seq(Seq(InstrType))
           /\ Len(Emit(cs, b, i)) = Len(cs)
           /\ \A a \in 1..Len(cs) : a # b => Emit(cs, b, i)[a] = cs[a]
           /\ Clean(cs[b]) /\ IsTerm(i) => Sealed(Emit(cs, b, i)[b])
           /\ Clean(cs[b]) /\ ~ IsTerm(i) => Clean(Emit(cs, b, i)[b])
<1>1. cs[b] \in Seq(InstrType)
  BY ElementOfSeq
<1>2. Append(cs[b], i) \in Seq(InstrType)
  BY <1>1
<1>3. Emit(cs, b, i)[b] = Append(cs[b], i)
  BY DEF Emit
<1>4. QED  BY <1>1, <1>2, <1>3, AppendClean DEF Emit

\* The guarded terminator seals its block, be it clean or already sealed.
LEMMA EmitUnlessLemma ==
    ASSUME NEW cs \in Seq(Seq(InstrType)), NEW b \in 1..Len(cs), NEW i \in InstrType,
           IsTerm(i)
    PROVE  /\ EmitUnlessTerminated(cs, b, i) \in Seq(Seq(InstrType))
           /\ Len(EmitUnlessTerminated(cs, b, i)) = Len(cs)
           /\ \A a \in 1..Len(cs) : a # b => EmitUnlessTerminated(cs, b, i)[a] = cs[a]
           /\ Clean(cs[b]) \/ Sealed(cs[b]) => Sealed(EmitUnlessTerminated(cs, b, i)[b])
<1>1. cs[b] \in Seq(InstrType)
  BY ElementOfSeq
<1>2. QED  BY <1>1, CleanOrSealed, EmitLemma DEF EmitUnlessTerminated

\* A new block is empty and has the next number.
LEMMA NewBlockLemma ==
    ASSUME NEW cs \in Seq(Seq(InstrType))
    PROVE  /\ NewBlock(cs) \in Seq(Seq(InstrType))
           /\ Len(NewBlock(cs)) = Len(cs) + 1
           /\ Clean(NewBlock(cs)[Len(cs) + 1])
           /\ \A a \in 1..Len(cs) : NewBlock(cs)[a] = cs[a]
<1>1. <<>> \in Seq(InstrType)
  OBVIOUS
<1>2. QED  BY <1>1 DEF NewBlock, Clean

\* The instructions the actions create.
LEMMA InstrLemma ==
    ASSUME NEW op \in {"inst", "alloca", "ret", "br", "cbr"}, NEW at \in Nat
    PROVE  /\ Instr(op, <<>>, at) \in InstrType
           /\ \A t \in Nat : Instr(op, <<t>>, at) \in InstrType
           /\ \A t, u \in Nat : Instr(op, <<t, u>>, at) \in InstrType
           /\ \A to : IsTerm(Instr(op, to, at)) <=> op \in Terminators
BY DEF Instr, InstrType, Terminators, IsTerm

-----------------------------------------------------------------------------
(* Lemmas about the calls under way. *)

\* The innermost call works on blocks that exist.
LEMMA TopLemma ==
    ASSUME Inv, InBody
    PROVE  /\ Len(frames) \in Nat \ {0} /\ Len(frames) \in Calls
           /\ Len(code) \in Nat /\ Len(src) + 1 \in Nat
           /\ top = frames[Len(frames)]
           /\ top \in FrameType
           /\ top.tok \in Nat
           /\ top.fn \in Blocks /\ top.block \in Blocks /\ top.first \in Blocks
           /\ top.fn \in Nat /\ top.block \in Nat /\ top.first \in Nat
           /\ top.fn # top.block /\ top.fn # top.first
           /\ owner[top.block] = top.fn /\ owner[top.first] = top.fn
           /\ owner[top.fn] = top.fn
<1>1. Len(frames) \in Nat \ {0}
  BY EmptySeq DEF Inv, TypeOK, InBody
<1>2. top \in FrameType
  BY <1>1, ElementOfSeq DEF Inv, TypeOK, top
<1>3. top.tok \in Nat
  BY <1>2 DEF FrameType
<1>4. Len(code) \in Nat /\ Len(src) + 1 \in Nat
  BY LenProperties DEF Inv, TypeOK
<1>5. QED  BY <1>1, <1>2, <1>3, <1>4 DEF Inv, IInv, FramesLinked, Calls, Blocks, top

\* A new call joins the others; the caller's body is not straight any more.
LEMMA PushLemma ==
    ASSUME Inv, InBody, NEW f \in FrameType, Push(f)
    PROVE  /\ frames' \in Seq(FrameType)
           /\ Len(frames') = Len(frames) + 1
           /\ frames'[Len(frames) + 1] = f
           /\ \A k \in Calls :
                /\ frames'[k].kind = frames[k].kind
                /\ frames'[k].tok = frames[k].tok
                /\ frames'[k].fn = frames[k].fn
                /\ frames'[k].block = frames[k].block
                /\ frames'[k].first = frames[k].first
                /\ frames'[k].cond = frames[k].cond
                /\ frames'[k].returned = frames[k].returned
                /\ frames'[k].straight = (k # Len(frames) /\ frames[k].straight)
<1>1. frames \in Seq(FrameType) /\ Len(frames) \in Nat \ {0}
  BY TopLemma DEF Inv, TypeOK
<1> DEFINE g == [frames[Len(frames)] EXCEPT !.straight = FALSE]
<1>2. frames[Len(frames)] \in FrameType
  BY <1>1, ElementOfSeq
<1>3. g \in FrameType
  BY <1>2 DEF FrameType
<1> DEFINE fs == [frames EXCEPT ![Len(frames)] = g]
<1>4. /\ fs \in Seq(FrameType) /\ Len(fs) = Len(frames)
      /\ \A k \in Calls : fs[k] = IF k = Len(frames) THEN g ELSE frames[k]
  BY <1>1, <1>3, ExceptSeq DEF Calls
<1>5. frames' = Append(fs, f)
  BY <1>1 DEF Push
<1>6. \A k \in Calls : frames[k] \in FrameType
  BY <1>1, ElementOfSeq DEF Calls
<1>7. /\ frames' \in Seq(FrameType)
      /\ Len(frames') = Len(frames) + 1
      /\ frames'[Len(frames) + 1] = f
      /\ \A k \in Calls : frames'[k] = IF k = Len(frames) THEN g ELSE frames[k]
  <2> HIDE DEF fs, g
  <2> QED  BY <1>1, <1>4, <1>5 DEF Calls
<1>8. QED  BY <1>2, <1>6, <1>7 DEF FrameType, Calls

\* The innermost calls return and their caller goes on in another block.
LEMMA PopLemma ==
    ASSUME Inv, NEW q \in {1, 2}, Len(frames) > q, NEW b \in Nat, PopInto(q, b)
    PROVE  /\ frames' \in Seq(FrameType)
           /\ Len(frames') = Len(frames) - q
           /\ \A k \in 1..(Len(frames) - q) :
                /\ frames'[k].kind = frames[k].kind
                /\ frames'[k].tok = frames[k].tok
                /\ frames'[k].fn = frames[k].fn
                /\ frames'[k].block = IF k = Len(frames) - q THEN b ELSE frames[k].block
                /\ frames'[k].first = frames[k].first
                /\ frames'[k].cond = frames[k].cond
                /\ frames'[k].returned = frames[k].returned
                /\ frames'[k].straight = frames[k].straight
<1> DEFINE n == Len(frames) - q
           fs == SubSeq(frames, 1, n)
           g == [frames[n] EXCEPT !.block = b]
<1>1. frames \in Seq(FrameType) /\ Len(frames) \in Nat
  BY LenProperties DEF Inv, TypeOK
<1>2. n \in Nat \ {0} /\ n \in 1..Len(frames)
  BY <1>1
<1>3. \A k \in 1..Len(frames) : frames[k] \in FrameType
  BY <1>1, ElementOfSeq
<1>4. g \in FrameType
  BY <1>2, <1>3 DEF FrameType
<1>5. fs \in Seq(FrameType) /\ Len(fs) = n /\ \A k \in 1..n : fs[k] = frames[k]
  BY <1>1, <1>2, <1>3
<1>6. frames' = [fs EXCEPT ![n] = g]
  <2>1. frames' = [fs EXCEPT ![n].block = b]
    BY DEF PopInto
  <2>2. fs[n] = frames[n]
    <3> HIDE DEF fs, n
    <3> QED  BY <1>2, <1>5
  <2> HIDE DEF fs, n
  <2> QED  BY <2>1, <2>2
<1>7. /\ frames' \in Seq(FrameType) /\ Len(frames') = n
      /\ \A k \in 1..n : frames'[k] = IF k = n THEN g ELSE frames[k]
  <2> HIDE DEF fs, g, n
  <2> QED  BY <1>2, <1>4, <1>5, <1>6, ExceptSeq
<1>8. \A k \in 1..n : frames[k] \in FrameType
  BY <1>2, <1>3
<1>9. QED
  <2> SUFFICES \A k \in 1..n :
                 /\ frames'[k].kind = frames[k].kind
                 /\ frames'[k].tok = frames[k].tok
                 /\ frames'[k].fn = frames[k].fn
                 /\ frames'[k].block = IF k = n THEN b ELSE frames[k].block
                 /\ frames'[k].first = frames[k].first
                 /\ frames'[k].cond = frames[k].cond
                 /\ frames'[k].returned = frames[k].returned
                 /\ frames'[k].straight = frames[k].straight
    BY <1>7
  <2> TAKE k \in 1..n
  <2>1. frames[k] \in FrameType /\ frames'[k] = IF k = n THEN g ELSE frames[k]
    BY <1>7, <1>8
  <2> HIDE DEF n
  <2> QED  BY <2>1 DEF FrameType
\* A call awaits blocks of its own function only.
LEMMA AwaitsLemma ==
    ASSUME Inv, NEW k \in Calls, NEW b \in Awaits(frames[k])
    PROVE  b \in Blocks /\ owner[b] = frames[k].fn
BY DEF Inv, IInv, FramesLinked, Awaits

\* The functions that no call works on stay as they are.
OthersKept ==
    \A b \in Blocks : Finished(b) => code'[b] = code[b] /\ owner'[b] = owner[b]

\* A step that changes only blocks of the innermost function keeps the others.
LEMMA KeptLemma ==
    ASSUME Inv, InBody,
           \A b \in Blocks : owner'[b] = owner[b],
           \A b \in Blocks : owner[b] # top.fn => code'[b] = code[b]
    PROVE  OthersKept
BY TopLemma DEF OthersKept, Finished

-----------------------------------------------------------------------------
(* The shapes of a step. *)

\* The calls are the same but for what the history notes of the innermost one.
SameCalls ==
    /\ Len(frames') = Len(frames)
    /\ \A k \in Calls :
        /\ frames'[k].kind = frames[k].kind
        /\ frames'[k].fn = frames[k].fn
        /\ frames'[k].block = frames[k].block
        /\ frames'[k].first = frames[k].first
        /\ frames'[k].cond = frames[k].cond
        /\ k # Len(frames) => /\ frames'[k].straight = frames[k].straight
                              /\ frames'[k].returned = frames[k].returned

\* A statement grows the current block and perhaps the entry block.
LEMMA GrowStep ==
    ASSUME Inv, InBody,
           Len(code') = Len(code), owner' = owner, SameCalls,
           misuse \subseteq misuse', top.returned => top.fn \in misuse',
           top.returned => frames'[Len(frames)].returned,
           frames'[Len(frames)].straight => top.straight /\ ~ frames'[Len(frames)].returned,
           \A b \in Blocks \ {top.fn, top.block} : code'[b] = code[b],
           Clean(code[top.fn]) => Clean(code'[top.fn]),
           top.fn \notin misuse' /\ Clean(code[top.block]) =>
               IF frames'[Len(frames)].returned /\ ~ top.returned
               THEN Sealed(code'[top.block]) ELSE Clean(code'[top.block])
    PROVE  IInv'
<1>1. Calls' = Calls /\ Blocks' = Blocks /\ Len(frames) \in Calls /\ top = frames[Len(frames)]
  BY TopLemma DEF SameCalls, Calls, Blocks
<1>2. /\ IInv /\ TypeOK /\ top.fn \in Blocks /\ top.block \in Blocks /\ top.fn # top.block
      /\ owner[top.fn] = top.fn /\ owner[top.block] = top.fn
  BY TopLemma DEF Inv
<1>3. \A k \in Calls : Awaits(frames'[k]) = Awaits(frames[k])
  BY DEF SameCalls, Awaits
<1>4. FramesLinked'
  <2>1. \A k \in Calls : k > 1 => k - 1 \in Calls
    BY <1>1, TopLemma DEF Calls
  <2>2. \A k \in Calls : \A j \in 1..(k - 1) : j \in Calls
    BY <1>1, TopLemma DEF Calls
  <2>3. QED  BY <1>1, <1>2, <2>1, <2>2 DEF IInv, FramesLinked, SameCalls
<1>5. AwaitedOnce'
  BY <1>1, <1>2, <1>3 DEF IInv, AwaitedOnce
<1>6. FramesHistory'
  <2> SUFFICES ASSUME NEW k \in Calls
               PROVE  /\ frames'[k].straight =>
                           frames'[k].block = frames'[k].first /\ ~ frames'[k].returned
                      /\ frames'[k].kind \notin {"func", "else"} =>
                           /\ ~ frames'[k - 1].straight
                           /\ frames'[k].fn \notin misuse' => ~ frames'[k - 1].returned
    BY <1>1 DEF FramesHistory
  <2>1. frames'[k].straight => frames'[k].block = frames'[k].first /\ ~ frames'[k].returned
    BY <1>1, <1>2 DEF IInv, FramesHistory, SameCalls
  <2>2. ASSUME frames'[k].kind \notin {"func", "else"}
        PROVE  /\ ~ frames'[k - 1].straight
               /\ frames'[k].fn \notin misuse' => ~ frames'[k - 1].returned
    <3>1. k - 1 \in Calls /\ k - 1 # Len(frames)
      BY <1>1, <1>2, <2>2, TopLemma DEF IInv, FramesLinked, SameCalls, Calls
    <3>2. QED  BY <1>2, <2>2, <3>1 DEF IInv, FramesHistory, SameCalls
  <2>3. QED  BY <2>1, <2>2
<1>7. AwaitedClean'
  <2> SUFFICES ASSUME NEW k \in Calls
               PROVE  /\ Clean(code'[frames[k].fn])
                      /\ frames[k].fn \notin misuse' =>
                           /\ ~ frames'[k].returned => Clean(code'[frames[k].block])
                           /\ frames[k].kind = "while" => Clean(code'[frames[k].cond])
    BY <1>1 DEF AwaitedClean, SameCalls
  <2>1. Clean(code'[frames[k].fn])
    <3>1. frames[k].fn \in Blocks /\ Clean(code[frames[k].fn]) /\ frames[k].fn # top.block
      BY <1>2 DEF IInv, FramesLinked, AwaitedClean
    <3>2. QED  BY <3>1
  <2>2. ASSUME frames[k].fn \notin misuse', ~ frames'[k].returned
        PROVE  Clean(code'[frames[k].block])
    <3>1. frames[k].block \in Blocks /\ frames[k].block # top.fn
      BY <1>2 DEF IInv, FramesLinked
    <3>2. CASE k = Len(frames)
      BY <1>1, <1>2, <2>2, <3>2 DEF IInv, AwaitedClean
    <3>3. CASE k # Len(frames)
      <4>1. frames[k].block # top.block
        BY <1>1, <1>2, <3>3 DEF IInv, AwaitedOnce, Awaits
      <4>2. Clean(code[frames[k].block])
        BY <1>2, <2>2, <3>3 DEF IInv, AwaitedClean, SameCalls
      <4>3. QED  BY <3>1, <4>1, <4>2
    <3>4. QED  BY <3>2, <3>3
  <2>3. ASSUME frames[k].fn \notin misuse', frames[k].kind = "while"
        PROVE  Clean(code'[frames[k].cond])
    <3>1. frames[k].cond \in Blocks /\ frames[k].cond # top.fn
      BY <1>2, <2>3 DEF IInv, FramesLinked
    <3>2. frames[k].cond # top.block
      <4>1. frames[k].cond \in Awaits(frames[k]) /\ top.block \in Awaits(top)
        BY <2>3 DEF Awaits
      <4>2. k = Len(frames) => frames[k].cond # top.block
        BY <1>1, <1>2, <2>3 DEF IInv, FramesLinked
      <4>3. k # Len(frames) => frames[k].cond # top.block
        BY <1>1, <1>2, <4>1 DEF IInv, AwaitedOnce
      <4>4. QED  BY <4>2, <4>3
    <3>3. QED  BY <1>2, <2>3, <3>1, <3>2 DEF IInv, AwaitedClean
  <2>4. QED  BY <2>1, <2>2, <2>3
<1>8. UnsealedAwaited'
  <2> SUFFICES ASSUME NEW b \in Blocks, owner[b] \notin misuse'
               PROVE  \/ Sealed(code'[b])
                      \/ Clean(code'[b]) /\ \E k \in Calls : b \in Awaits(frames[k])
    BY <1>1, <1>3 DEF UnsealedAwaited
  <2>1. CASE b \notin {top.fn, top.block}
    BY <1>2, <2>1 DEF IInv, UnsealedAwaited
  <2>2. CASE b = top.block
    <3>1. Clean(code[b])
      BY <1>1, <1>2, <2>2, TopLemma DEF IInv, AwaitedClean
    <3>2. b \in Awaits(frames[Len(frames)])
      BY <1>1, <2>2 DEF Awaits
    <3>3. top.fn \notin misuse'
      BY <1>2, <2>2
    <3>4. QED  BY <1>1, <2>2, <3>1, <3>2, <3>3
  <2>3. CASE b = top.fn
    <3>1. Clean(code[b])
      BY <1>1, <1>2, <2>3 DEF IInv, AwaitedClean
    <3>2. ~ Sealed(code[b])
      <4>1. code[b] \in Seq(InstrType)
        BY <1>2, ElementOfSeq DEF TypeOK, Blocks
      <4>2. QED  BY <3>1, <4>1, CleanOrSealed
    <3>3. QED  BY <1>2, <2>3, <3>1, <3>2, TopLemma DEF IInv, UnsealedAwaited, FramesLinked
  <2>4. QED  BY <2>1, <2>2, <2>3
<1>9. QED  BY <1>4, <1>5, <1>6, <1>7, <1>8 DEF IInv

\* A body inside the innermost call begins, in blocks of its own.
BeginShape(f, d) ==
    LET New == (Len(code) + 1)..(Len(code) + d) IN
    /\ Len(code') = Len(code) + d
    /\ \A b \in Blocks : owner'[b] = owner[b]
    /\ \A b \in New : owner'[b] = top.fn /\ Clean(code'[b]) /\ b \in Awaits(f)
    /\ f.kind \in Kinds \ {"func"} /\ f.fn = top.fn /\ f.block = f.first /\ f.block \in New
    /\ f.kind = "while" => f.cond \in New /\ f.cond # f.block
    /\ f.kind = "else" => top.kind = "then"
    /\ ~ f.returned
    /\ Len(frames') = Len(frames) + 1 /\ frames'[Len(frames) + 1] = f
    /\ \A k \in Calls :
        /\ frames'[k].kind = frames[k].kind
        /\ frames'[k].fn = frames[k].fn
        /\ frames'[k].block = frames[k].block
        /\ frames'[k].first = frames[k].first
        /\ frames'[k].cond = frames[k].cond
        /\ frames'[k].returned = frames[k].returned
        /\ frames'[k].straight => frames[k].straight
    /\ f.kind # "else" => ~ frames'[Len(frames)].straight
    /\ misuse \subseteq misuse'
    /\ f.kind # "else" /\ top.returned => top.fn \in misuse'
    /\ \A b \in Blocks \ {top.block} : code'[b] = code[b]
    /\ Clean(code[top.block]) => Clean(code'[top.block])
    /\ top.fn \notin misuse' /\ Sealed(code[top.block]) => Sealed(code'[top.block])

\* A step of this shape preserves the inductive invariant.
LEMMA BeginStep ==
    ASSUME Inv, InBody, NEW d \in {1, 2}, NEW f \in FrameType, BeginShape(f, d)
    PROVE  IInv'
<1> USE DEF BeginShape
<1> DEFINE n == Len(frames)
           New == (Len(code) + 1)..(Len(code) + d)
<1>1. /\ n \in Nat \ {0} /\ n \in Calls /\ Len(code) \in Nat
      /\ top = frames[n] /\ IInv /\ TypeOK
      /\ top.fn \in Blocks /\ top.block \in Blocks /\ top.fn # top.block
      /\ owner[top.fn] = top.fn /\ owner[top.block] = top.fn
  BY TopLemma DEF Inv
<1>2. Calls' = 1..(n + 1) /\ (\A k \in Calls' : k \in Calls \/ k = n + 1) /\ n + 1 \notin Calls
  BY <1>1 DEF Calls
<1>3. /\ \A b \in Blocks' : b \in Blocks \/ b \in New
      /\ \A b \in Blocks : b \in Blocks' /\ b \notin New
      /\ \A b \in New : b \in Blocks'
  BY <1>1 DEF Blocks
<1>4. Awaits(f) \subseteq New
  BY DEF Awaits
<1>5. \A k \in Calls : Awaits(frames'[k]) = Awaits(frames[k]) /\ Awaits(frames[k]) \subseteq Blocks
  BY AwaitsLemma DEF Awaits
<1> HIDE DEF n
<1>6. FramesLinked'
  <2> SUFFICES ASSUME NEW k \in Calls'
               PROVE  FramesLinked!(k)'
    BY DEF FramesLinked
  <2>1. CASE k \in Calls
    <3>1. (\A j \in 1..(k - 1) : j \in Calls) /\ (k > 1 => k - 1 \in Calls)
      BY <1>1, <2>1 DEF Calls, n
    <3>2. FramesLinked!(k)
      BY <1>1, <2>1 DEF IInv, FramesLinked
    <3>3. QED  BY <1>3, <2>1, <3>1, <3>2
  <2>2. CASE k = n + 1
    <3>1. frames'[k] = f /\ frames'[k - 1].fn = frames[n].fn /\ frames'[k - 1].kind = frames[n].kind /\ k > 1
      BY <1>1, <2>2 DEF n
    <3>2. f.fn \in Blocks' /\ f.block \in Blocks' /\ f.block # f.fn /\ owner'[f.fn] = f.fn
      BY <1>1, <1>3
    <3>3. QED  BY <1>1, <1>3, <3>1, <3>2
  <2>3. QED  BY <1>2, <2>1, <2>2
<1>7. AwaitedOnce'
  <2>1. \A j, k \in Calls : j # k => Awaits(frames[j]) \cap Awaits(frames[k]) = {}
    BY <1>1 DEF IInv, AwaitedOnce
  <2>2. \A k \in Calls : Awaits(frames[k]) \cap Awaits(f) = {}
    BY <1>3, <1>4, <1>5
  <2>3. Awaits(frames'[n + 1]) = Awaits(f)
    BY DEF n
  <2> SUFFICES ASSUME NEW j \in Calls', NEW k \in Calls', j # k
               PROVE  Awaits(frames'[j]) \cap Awaits(frames'[k]) = {}
    BY DEF AwaitedOnce, Awaits
  <2>4. CASE j \in Calls /\ k \in Calls
    BY <1>5, <2>1, <2>4
  <2>5. CASE j \in Calls /\ k = n + 1
    BY <1>5, <2>2, <2>3, <2>5
  <2>6. CASE j = n + 1 /\ k \in Calls
    BY <1>5, <2>2, <2>3, <2>6
  <2>7. QED  BY <1>2, <2>4, <2>5, <2>6
<1>8. FramesHistory'
  <2> SUFFICES ASSUME NEW k \in Calls'
               PROVE  FramesHistory!(k)'
    BY DEF FramesHistory
  <2>1. CASE k \in Calls
    <3>1. FramesHistory!(k)
      BY <1>1, <2>1 DEF IInv, FramesHistory
    <3>2. frames[k].kind \notin {"func", "else"} => k - 1 \in Calls
      BY <1>1, <2>1 DEF IInv, FramesLinked, Calls, n
    <3>3. QED  BY <2>1, <3>1, <3>2
  <2>2. CASE k = n + 1
    <3>1. frames'[k] = f /\ k - 1 = n
      BY <1>1, <2>2 DEF n
    <3>2. f.kind \notin {"func", "else"} => ~ frames'[n].straight
      BY DEF n
    <3>3. QED  BY <1>1, <3>1, <3>2
  <2>3. QED  BY <1>2, <2>1, <2>2
<1>9. AwaitedClean'
  <2> SUFFICES ASSUME NEW k \in Calls'
               PROVE  AwaitedClean!(k)'
    BY DEF AwaitedClean
  <2>1. CASE k \in Calls
    <3>1. AwaitedClean!(k) /\ FramesLinked!(k)
      BY <1>1, <2>1 DEF IInv, AwaitedClean, FramesLinked
    <3>2. \A b \in Blocks : Clean(code[b]) => Clean(code'[b])
      OBVIOUS
    <3>3. QED  BY <2>1, <3>1, <3>2
  <2>2. CASE k = n + 1
    <3>1. frames'[k] = f
      BY <2>2 DEF n
    <3>2. Clean(code'[f.fn])
      BY <1>1 DEF IInv, AwaitedClean
    <3>3. QED  BY <3>1, <3>2
  <2>3. QED  BY <1>2, <2>1, <2>2
<1>10. UnsealedAwaited'
  <2> SUFFICES ASSUME NEW b \in Blocks', owner'[b] \notin misuse'
               PROVE  \/ Sealed(code'[b])
                      \/ Clean(code'[b]) /\ \E k \in Calls' : b \in Awaits(frames'[k])
    BY DEF UnsealedAwaited
  <2>1. CASE b \in New
    <3>1. n + 1 \in Calls' /\ frames'[n + 1] = f
      BY <1>1, <1>2 DEF n
    <3>2. QED  BY <2>1, <3>1
  <2>2. CASE b \in Blocks
    <3>1. owner[b] \notin misuse
      BY <2>2
    <3>2. \/ Sealed(code[b])
          \/ Clean(code[b]) /\ \E k \in Calls : b \in Awaits(frames[k])
      BY <1>1, <2>2, <3>1 DEF IInv, UnsealedAwaited
    <3>3. Sealed(code[b]) => Sealed(code'[b])
      BY <1>1, <2>2
    <3>4. Clean(code[b]) => Clean(code'[b])
      BY <2>2
    <3>5. \A k \in Calls : b \in Awaits(frames[k]) => k \in Calls' /\ b \in Awaits(frames'[k])
      BY <1>2, <1>5, <1>1 DEF Calls
    <3>6. QED  BY <3>2, <3>3, <3>4, <3>5
  <2>3. QED  BY <1>3, <2>1, <2>2
<1>11. QED  BY <1>6, <1>7, <1>8, <1>9, <1>10 DEF IInv

\* Bodies end and their caller goes on in the last of the new blocks; every
\* block they awaited, and the caller's former block, is sealed.
EndShape(n, d) ==
    LET new == Len(code) + d IN
    /\ n \in 1..(Len(frames) - 1)
    /\ Len(code') = new
    /\ \A b \in Blocks : owner'[b] = owner[b]
    /\ \A b \in (Len(code) + 1)..new : owner'[b] = top.fn
    /\ Clean(code'[new])
    /\ d = 2 /\ top.fn \notin misuse' => Sealed(code'[Len(code) + 1])
    /\ Len(frames') = n
    /\ \A k \in 1..n :
        /\ frames'[k].kind = frames[k].kind
        /\ frames'[k].fn = frames[k].fn
        /\ frames'[k].block = IF k = n THEN new ELSE frames[k].block
        /\ frames'[k].first = frames[k].first
        /\ frames'[k].cond = frames[k].cond
        /\ frames'[k].returned = frames[k].returned
        /\ frames'[k].straight = frames[k].straight
    /\ \A k \in n..Len(frames) : frames[k].fn = top.fn
    /\ frames[n + 1].kind \notin {"func", "else"}
    /\ misuse \subseteq misuse'
    /\ \A b \in Blocks : owner[b] # top.fn => code'[b] = code[b]
    /\ code'[top.fn] = code[top.fn]
    /\ top.fn \notin misuse' =>
        \A b \in Blocks \ {top.fn} :
            IF \/ b = frames[n].block
               \/ \E k \in (n + 1)..Len(frames) : b \in Awaits(frames[k])
            THEN Sealed(code'[b]) ELSE code'[b] = code[b]

\* A step of this shape preserves the inductive invariant.
LEMMA EndStep ==
    ASSUME Inv, InBody, NEW d \in {1, 2}, NEW n \in Nat, EndShape(n, d)
    PROVE  IInv'
<1> DEFINE new == Len(code) + d
           New == (Len(code) + 1)..new
           Popped == (n + 1)..Len(frames)
<1>0. n \in 1..(Len(frames) - 1) /\ Len(code') = new /\ Len(frames') = n
  BY DEF EndShape
<1>1. /\ n \in Nat \ {0} /\ n \in Calls /\ Len(code) \in Nat /\ Len(frames) \in Nat
      /\ Popped \subseteq Calls /\ 1..n \subseteq Calls
      /\ \A k \in Calls : k \in 1..n \/ k \in Popped
      /\ \A k \in 1..n : k \notin Popped /\ (k > 1 => k - 1 \in 1..n /\ k - 1 # n)
      /\ n + 1 \in Popped /\ n + 1 \in Calls
      /\ IInv /\ TypeOK
      /\ top.fn \in Blocks /\ owner[top.fn] = top.fn
  BY <1>0, TopLemma DEF Inv, Calls
<1>2. Calls' = 1..n
  BY <1>0 DEF Calls
<1>3. /\ \A b \in Blocks' : b \in Blocks \/ b \in New
      /\ \A b \in Blocks : b \in Blocks' /\ b \notin New
      /\ \A b \in New : b \in Blocks'
      /\ new \in New
      /\ \A b \in New : b = new \/ (d = 2 /\ b = Len(code) + 1)
  BY <1>0, <1>1 DEF Blocks
<1>4. ASSUME NEW k \in 1..n
      PROVE  /\ frames'[k].kind = frames[k].kind
             /\ frames'[k].fn = frames[k].fn
             /\ frames'[k].block = IF k = n THEN new ELSE frames[k].block
             /\ frames'[k].first = frames[k].first
             /\ frames'[k].cond = frames[k].cond
             /\ frames'[k].returned = frames[k].returned
             /\ frames'[k].straight = frames[k].straight
  BY DEF EndShape
<1>4a. \A k \in Popped : frames[k].fn = top.fn
  BY <1>1 DEF EndShape
<1>4b. /\ frames[n].fn = top.fn
       /\ ~ frames[n].straight
       /\ top.fn \notin misuse' => ~ frames[n].returned
  <2>1. FramesHistory!(n + 1)
    BY <1>1 DEF IInv, FramesHistory
  <2>2. n + 1 - 1 = n /\ frames[n + 1].fn = top.fn /\ frames[n].fn = top.fn
    BY <1>1 DEF EndShape
  <2>3. frames[n + 1].kind \notin {"func", "else"} /\ misuse \subseteq misuse'
    BY DEF EndShape
  <2>4. QED  BY <2>1, <2>2, <2>3
<1>5. \A k \in Calls : \A b \in Awaits(frames[k]) : b \in Blocks /\ owner[b] = frames[k].fn
  BY AwaitsLemma
<1>6. \A k \in Calls : FramesLinked!(k) /\ FramesHistory!(k) /\ AwaitedClean!(k)
  BY <1>1 DEF IInv, FramesLinked, FramesHistory, AwaitedClean
<1>7. /\ Clean(code'[new])
      /\ d = 2 /\ top.fn \notin misuse' => Sealed(code'[Len(code) + 1])
      /\ \A b \in New : owner'[b] = top.fn
      /\ top.fn \notin misuse' =>
            \A b \in Blocks \ {top.fn} :
               IF b = frames[n].block \/ \E k \in Popped : b \in Awaits(frames[k])
               THEN Sealed(code'[b]) ELSE code'[b] = code[b]
      /\ \A b \in Blocks : owner[b] # top.fn => code'[b] = code[b]
      /\ \A b \in Blocks : owner'[b] = owner[b]
      /\ code'[top.fn] = code[top.fn]
      /\ misuse \subseteq misuse'
  BY DEF EndShape
<1> HIDE DEF new, New, Popped
<1>8. FramesLinked'
  <2> SUFFICES ASSUME NEW k \in 1..n
               PROVE  FramesLinked!(k)'
    BY <1>2 DEF FramesLinked
  <2>1. FramesLinked!(k) /\ k \in Calls /\ \A j \in 1..(k - 1) : j \in 1..n
    BY <1>1, <1>6
  <2>2. \A j \in 1..(k - 1) : frames'[j].fn = frames[j].fn
    BY <1>4, <2>1
  <2>3. k > 1 => frames'[k - 1].fn = frames[k - 1].fn /\ frames'[k - 1].kind = frames[k - 1].kind
    BY <1>1, <1>4
  <2>4. /\ frames'[k].block \in Blocks' /\ owner'[frames'[k].block] = frames[k].fn
        /\ frames'[k].block # frames[k].fn
        /\ frames[k].kind = "while" => frames'[k].block # frames[k].cond
    <3>1. CASE k = n
      BY <1>3, <1>4, <1>4b, <1>7, <2>1, <3>1
    <3>2. CASE k # n
      BY <1>3, <1>4, <1>7, <2>1, <3>2
    <3>3. QED  BY <3>1, <3>2
  <2>5. QED  BY <1>3, <1>4, <1>7, <2>1, <2>2, <2>3, <2>4
<1>9. ASSUME NEW k \in 1..n
      PROVE  /\ k # n => Awaits(frames'[k]) = Awaits(frames[k])
             /\ k = n => Awaits(frames'[k]) = (Awaits(frames[k]) \ {frames[k].block}) \cup {new}
  <2>1. FramesLinked!(k)
    BY <1>1, <1>6
  <2>2. frames[k].block # frames[k].fn /\ (frames[k].kind = "while" => frames[k].block # frames[k].cond)
    BY <2>1
  <2>3. QED  BY <1>4, <2>2 DEF Awaits
<1>10. AwaitedOnce'
  <2> SUFFICES ASSUME NEW j \in 1..n, NEW k \in 1..n, j # k
               PROVE  Awaits(frames'[j]) \cap Awaits(frames'[k]) = {}
    BY <1>2 DEF AwaitedOnce, Awaits
  <2>1. Awaits(frames[j]) \cap Awaits(frames[k]) = {}
    BY <1>1 DEF IInv, AwaitedOnce
  <2>2. new \notin Awaits(frames[j]) /\ new \notin Awaits(frames[k])
    BY <1>1, <1>3, <1>5
  <2>3. CASE j # n /\ k # n
    BY <1>9, <2>1, <2>3
  <2>4. CASE j = n
    BY <1>9, <2>1, <2>2, <2>4
  <2>5. CASE k = n
    BY <1>9, <2>1, <2>2, <2>5
  <2>6. QED  BY <2>3, <2>4, <2>5
<1>11. FramesHistory'
  <2> SUFFICES ASSUME NEW k \in 1..n
               PROVE  FramesHistory!(k)'
    BY <1>2 DEF FramesHistory
  <2>1. FramesHistory!(k) /\ FramesLinked!(k)
    BY <1>1, <1>6
  <2>2. k > 1 => k - 1 \in 1..n /\ k - 1 # n
    BY <1>1
  <2>3. k > 1 => /\ frames'[k - 1].straight = frames[k - 1].straight
                 /\ frames'[k - 1].returned = frames[k - 1].returned
    BY <1>4, <2>2
  <2>4. frames'[k].straight => frames'[k].block = frames'[k].first /\ ~ frames'[k].returned
    BY <1>4, <1>4b, <2>1
  <2>5. frames[k].kind \notin {"func", "else"} =>
            ~ frames'[k - 1].straight /\ (frames[k].fn \notin misuse' => ~ frames'[k - 1].returned)
    BY <1>7, <2>1, <2>3
  <2>6. QED  BY <1>4, <2>4, <2>5
<1>12. AwaitedClean'
  <2> SUFFICES ASSUME NEW k \in 1..n
               PROVE  AwaitedClean!(k)'
    BY <1>2 DEF AwaitedClean
  <2>1. FramesLinked!(k) /\ AwaitedClean!(k) /\ k \in Calls
    BY <1>1, <1>6
  <2>2. Clean(code'[frames[k].fn])
    BY <1>7, <2>1
  <2>0. frames'[k].kind = frames[k].kind /\ frames'[k].fn = frames[k].fn
        /\ frames'[k].cond = frames[k].cond /\ frames'[k].returned = frames[k].returned
    BY <1>4
  <2>3. ASSUME frames[k].fn # top.fn, frames[k].fn \notin misuse'
        PROVE  /\ ~ frames[k].returned => Clean(code'[frames'[k].block])
               /\ frames[k].kind = "while" => Clean(code'[frames[k].cond])
    <3>1. k # n /\ frames'[k].block = frames[k].block
      BY <1>4, <1>4b, <2>3
    <3>2. QED  BY <1>7, <2>1, <2>3, <3>1
  <2>4. ASSUME frames[k].fn = top.fn, top.fn \notin misuse', ~ frames[k].returned
        PROVE  Clean(code'[frames'[k].block])
    <3>1. CASE k = n
      <4>1. frames'[k].block = new
        BY <1>4, <3>1
      <4>2. QED  BY <1>7, <4>1
    <3>2. CASE k # n
      <4>0. frames[k].block \in Awaits(frames[k]) /\ frames[n].block \in Awaits(frames[n])
        BY DEF Awaits
      <4>1. frames[k].block # frames[n].block
            /\ \A j \in Popped : frames[k].block \notin Awaits(frames[j])
        BY <1>1, <3>2, <4>0 DEF IInv, AwaitedOnce
      <4>2. code'[frames[k].block] = code[frames[k].block]
        BY <1>7, <2>1, <2>4, <4>1
      <4>3. frames'[k].block = frames[k].block /\ frames[k].fn \notin misuse
        BY <1>4, <1>7, <2>4, <3>2
      <4>4. QED  BY <2>1, <2>4, <4>2, <4>3
    <3>3. QED  BY <3>1, <3>2
  <2>5. ASSUME frames[k].fn = top.fn, top.fn \notin misuse', frames[k].kind = "while"
        PROVE  Clean(code'[frames[k].cond])
    <3>1. frames[k].cond \in Awaits(frames[k]) /\ frames[n].block \in Awaits(frames[n])
      BY <2>5 DEF Awaits
    <3>2. frames[k].cond # frames[n].block
          /\ \A j \in Popped : frames[k].cond \notin Awaits(frames[j])
      BY <1>1, <2>1, <2>5, <3>1 DEF IInv, AwaitedOnce
    <3>3. QED  BY <1>7, <2>1, <2>5, <3>2
  <2>6. QED  BY <2>0, <2>2, <2>3, <2>4, <2>5
<1>13. UnsealedAwaited'
  <2> SUFFICES ASSUME NEW b \in Blocks', owner'[b] \notin misuse'
               PROVE  \/ Sealed(code'[b])
                      \/ Clean(code'[b]) /\ \E k \in 1..n : b \in Awaits(frames'[k])
    BY <1>2 DEF UnsealedAwaited
  <2>1. CASE b \in New
    <3>1. n \in 1..n /\ new \in Awaits(frames'[n])
      BY <1>1, <1>9
    <3>2. QED  BY <1>3, <1>7, <2>1, <3>1
  <2>2. CASE b \in Blocks
    <3>1. \/ Sealed(code[b])
          \/ Clean(code[b]) /\ \E k \in Calls : b \in Awaits(frames[k])
      BY <1>1, <1>7, <2>2 DEF IInv, UnsealedAwaited
    <3>2. \A k \in 1..n : b \in Awaits(frames[k]) /\ (k = n => b # frames[n].block)
                             => b \in Awaits(frames'[k])
      BY <1>9
    <3>3. CASE owner[b] # top.fn
      <4>1. code'[b] = code[b]
        BY <1>7, <2>2, <3>3
      <4>2. \A k \in Calls : b \in Awaits(frames[k]) => k \in 1..n /\ k # n
        BY <1>1, <1>4a, <1>4b, <1>5, <3>3
      <4>3. QED  BY <3>1, <3>2, <4>1, <4>2
    <3>4. CASE owner[b] = top.fn
      <4>1. top.fn \notin misuse'
        BY <1>7, <2>2, <3>4
      <4>2. CASE b = top.fn
        <5>1. \A k \in Popped : b \notin Awaits(frames[k])
          <6>1. \A k \in Popped : frames[k].block # b /\ (frames[k].kind = "while" => frames[k].cond # b)
            BY <1>1, <1>4a, <1>6, <4>2
          <6>2. \A k \in Popped : frames[k].kind # "func"
            <7>1. \A k \in Popped : k \in Calls /\ n \in 1..(k - 1)
              BY <1>1 DEF Popped
            <7>2. QED  BY <1>4a, <1>4b, <1>6, <7>1
          <6>3. QED  BY <6>1, <6>2 DEF Awaits
        <5>2. b # frames[n].block
          BY <1>1, <1>4b, <1>6, <4>2
        <5>3. code'[b] = code[b]
          BY <1>7, <4>2
        <5>4. QED  BY <1>1, <3>1, <3>2, <5>1, <5>2, <5>3
      <4>3. CASE b # top.fn
        BY <1>1, <1>7, <2>2, <3>1, <3>2, <4>1, <4>3
      <4>4. QED  BY <4>2, <4>3
    <3>5. QED  BY <3>3, <3>4
  <2>3. QED  BY <1>3, <2>1, <2>2
<1>14. QED  BY <1>8, <1>10, <1>11, <1>12, <1>13 DEF IInv
-----------------------------------------------------------------------------
(* Each action preserves the invariant. *)

\* What is read is a token.
LEMMA ReadLemma ==
    ASSUME Inv, NEW token \in Tokens, Read(token)
    PROVE  src' \in Seq(Tokens)
BY DEF Inv, TypeOK, Read

\* A new call starts in the block it is given.
LEMMA FrameLemma ==
    ASSUME Inv, NEW kind \in Kinds, NEW fn \in Nat, NEW block \in Nat, NEW cond \in Nat
    PROVE  /\ Frame(kind, fn, block, cond) \in FrameType
           /\ Frame(kind, fn, block, cond).kind = kind
           /\ Frame(kind, fn, block, cond).fn = fn
           /\ Frame(kind, fn, block, cond).block = block
           /\ Frame(kind, fn, block, cond).first = block
           /\ Frame(kind, fn, block, cond).cond = cond
           /\ Frame(kind, fn, block, cond).straight
           /\ ~ Frame(kind, fn, block, cond).returned
BY LenProperties DEF Inv, TypeOK, Frame, FrameType

\* A statement after a return of the same body is noted as misuse.
LEMMA NoteLemma ==
    ASSUME Inv, InBody, NoteStatement
    PROVE  /\ misuse' \subseteq Nat /\ misuse \subseteq misuse'
           /\ top.returned => top.fn \in misuse'
BY TopLemma DEF NoteStatement, Inv, TypeOK

\* Statement preserves the invariant: no block gets a terminator.
LEMMA StatementStep ==
    ASSUME Inv, Statement
    PROVE  Inv' /\ OthersKept
<1> DEFINE inst == Instr("inst", <<>>, Len(src) + 1)
           alloca == Instr("alloca", <<>>, Len(src) + 1)
           declared == Emit(code, top.fn, alloca)
<1>1. /\ InBody /\ TypeOK /\ code \in Seq(Seq(InstrType))
      /\ top.fn \in 1..Len(code) /\ top.block \in 1..Len(code) /\ top.fn # top.block
      /\ Blocks = 1..Len(code)
  BY TopLemma DEF Statement, Inv, TypeOK, Blocks
<1>2. /\ inst \in InstrType /\ ~ IsTerm(inst)
      /\ alloca \in InstrType /\ ~ IsTerm(alloca)
  BY TopLemma, InstrLemma, <1>1 DEF Terminators
<1> HIDE DEF inst, alloca
<1>3. /\ declared \in Seq(Seq(InstrType)) /\ Len(declared) = Len(code)
      /\ \A b \in Blocks : b # top.fn => declared[b] = code[b]
      /\ Clean(code[top.fn]) => Clean(declared[top.fn])
  BY <1>1, <1>2, EmitLemma
<1> HIDE DEF declared
<1>4. /\ code' \in Seq(Seq(InstrType)) /\ Len(code') = Len(code)
      /\ \A b \in Blocks \ {top.fn, top.block} : code'[b] = code[b]
      /\ Clean(code[top.fn]) => Clean(code'[top.fn])
      /\ Clean(code[top.block]) => Clean(code'[top.block])
  <2>1. CASE code' = Emit(code, top.block, inst)
    BY <1>1, <1>2, <2>1, EmitLemma
  <2>2. CASE code' = Emit(declared, top.block, inst)
    <3>1. /\ code' \in Seq(Seq(InstrType)) /\ Len(code') = Len(declared)
          /\ \A b \in Blocks : b # top.block => code'[b] = declared[b]
          /\ Clean(declared[top.block]) => Clean(code'[top.block])
      <4>1. declared \in Seq(Seq(InstrType)) /\ top.block \in 1..Len(declared)
            /\ Blocks = 1..Len(declared)
        BY <1>1, <1>3
      <4>2. inst \in InstrType /\ ~ IsTerm(inst)
        BY <1>2
      <4>3. QED  BY <2>2, <4>1, <4>2, EmitLemma
    <3>2. QED  BY <1>1, <1>3, <3>1
  <2>3. QED  BY <2>1, <2>2 DEF Statement, declared, inst, alloca
<1>5. src' \in Seq(Tokens)
  BY ReadLemma DEF Statement, Tokens
<1>6. owner' = owner /\ frames' = frames /\ NoteStatement
  BY DEF Statement
<1>7. TypeOK'
  BY <1>1, <1>4, <1>5, <1>6, NoteLemma DEF TypeOK
<1>8. SameCalls
  BY <1>6 DEF SameCalls
<1>9. /\ top.returned => frames'[Len(frames)].returned
      /\ frames'[Len(frames)].straight => top.straight /\ ~ frames'[Len(frames)].returned
  BY <1>1, <1>6, TopLemma DEF Inv, IInv, FramesHistory
<1>10. top = frames'[Len(frames)]
  BY <1>1, <1>6, TopLemma
<1>11. IInv'
  <2>1. ~ (frames'[Len(frames)].returned /\ ~ top.returned)
    BY <1>10
  <2> QED  BY <1>1, <1>4, <1>6, <1>8, <1>9, <2>1, NoteLemma, GrowStep
<1>12. OthersKept
  <2>1. \A b \in Blocks : owner'[b] = owner[b] /\ (owner[b] # top.fn => code'[b] = code[b])
    BY <1>1, <1>4, <1>6, TopLemma
  <2>2. QED  BY <1>1, <2>1, KeptLemma
<1>13. QED  BY <1>7, <1>11, <1>12 DEF Inv

\* Return preserves the invariant: the block the body goes on in is sealed.
LEMMA ReturnStep ==
    ASSUME Inv, Return
    PROVE  Inv' /\ OthersKept
<1> DEFINE ret == Instr("ret", <<>>, Len(src) + 1)
           n == Len(frames)
           g == [frames[n] EXCEPT !.straight = FALSE, !.returned = TRUE]
<1>1. /\ InBody /\ TypeOK /\ code \in Seq(Seq(InstrType))
      /\ top.fn \in 1..Len(code) /\ top.block \in 1..Len(code) /\ top.fn # top.block
      /\ Blocks = 1..Len(code) /\ frames \in Seq(FrameType) /\ n \in 1..Len(frames)
      /\ top = frames[n] /\ frames[n] \in FrameType
  BY TopLemma DEF Return, Inv, TypeOK, Blocks
<1>2. ret \in InstrType /\ IsTerm(ret)
  BY TopLemma, InstrLemma, <1>1 DEF Terminators
<1>3. code' = Emit(code, top.block, ret) /\ owner' = owner /\ NoteStatement
  BY DEF Return
<1> HIDE DEF ret
<1>4. /\ code' \in Seq(Seq(InstrType)) /\ Len(code') = Len(code)
      /\ \A b \in Blocks : b # top.block => code'[b] = code[b]
      /\ Clean(code[top.block]) => Sealed(code'[top.block])
  BY <1>1, <1>2, <1>3, EmitLemma
<1>5. src' \in Seq(Tokens)
  BY ReadLemma DEF Return, Tokens
<1>6. g \in FrameType
  BY <1>1 DEF FrameType
<1>7. frames' = [frames EXCEPT ![n] = g]
  BY <1>1 DEF Return
<1>8. /\ frames' \in Seq(FrameType) /\ Len(frames') = Len(frames)
      /\ \A k \in Calls : frames'[k] = IF k = n THEN g ELSE frames[k]
  <2> HIDE DEF g, n
  <2> QED  BY <1>1, <1>6, <1>7, ExceptSeq DEF Calls
<1>9. TypeOK'
  BY <1>1, <1>3, <1>4, <1>5, <1>8, NoteLemma DEF TypeOK
<1>10. frames'[n].returned /\ ~ frames'[n].straight
  BY <1>1, <1>8 DEF FrameType, Calls
<1>11. SameCalls
  BY <1>1, <1>8 DEF SameCalls, FrameType
<1>12. IInv'
  <2>1. \/ Clean(code[top.block]) /\ ~ top.returned
        \/ top.returned
        \/ top.fn \in misuse
    BY <1>1, TopLemma DEF Inv, IInv, AwaitedClean
  <2> QED  BY <1>1, <1>3, <1>4, <1>10, <1>11, <2>1, NoteLemma, GrowStep
<1>13. OthersKept
  <2>1. \A b \in Blocks : owner'[b] = owner[b] /\ (owner[b] # top.fn => code'[b] = code[b])
    BY <1>1, <1>3, <1>4, TopLemma
  <2>2. QED  BY <1>1, <2>1, KeptLemma
<1>14. QED  BY <1>9, <1>12, <1>13 DEF Inv

\* A compound statement other than an else branch begins.
LEMMA OpenStep ==
    ASSUME Inv, InBody, NoteStatement, NEW f \in FrameType, Push(f), NEW d \in {1, 2},
           Len(code') = Len(code) + d,
           \A b \in Blocks : owner'[b] = owner[b],
           \A b \in (Len(code) + 1)..(Len(code) + d) :
                owner'[b] = top.fn /\ Clean(code'[b]) /\ b \in Awaits(f),
           f.kind \in {"then", "while", "loop"}, f.fn = top.fn, f.block = f.first,
           f.block \in (Len(code) + 1)..(Len(code) + d),
           f.kind = "while" => /\ f.cond \in (Len(code) + 1)..(Len(code) + d)
                               /\ f.cond # f.block,
           ~ f.returned,
           \A b \in Blocks \ {top.block} : code'[b] = code[b],
           Clean(code[top.block]) => Clean(code'[top.block])
    PROVE  IInv'
<1>1. /\ TypeOK /\ code \in Seq(Seq(InstrType)) /\ top.block \in 1..Len(code)
      /\ top = frames[Len(frames)] /\ Len(frames) \in Calls
  BY TopLemma DEF Inv, TypeOK, Blocks
<1>2. /\ misuse \subseteq misuse'
      /\ ~ frames'[Len(frames)].straight
      /\ \A k \in Calls : frames'[k].straight => frames[k].straight
  BY <1>1, PushLemma, NoteLemma
<1>3. top.fn \notin misuse' /\ Sealed(code[top.block]) => Sealed(code'[top.block])
  <2> SUFFICES ASSUME top.fn \notin misuse', Sealed(code[top.block])
               PROVE  FALSE
    OBVIOUS
  <2>1. ~ top.returned /\ top.fn \notin misuse
    BY NoteLemma
  <2>2. Clean(code[top.block])
    BY <1>1, <2>1 DEF Inv, IInv, AwaitedClean
  <2>3. code[top.block] \in Seq(InstrType)
    BY <1>1, ElementOfSeq
  <2>4. QED  BY <2>2, <2>3, CleanOrSealed
<1>4. /\ Len(frames') = Len(frames) + 1 /\ frames'[Len(frames) + 1] = f
      /\ \A k \in Calls :
            /\ frames'[k].kind = frames[k].kind
            /\ frames'[k].fn = frames[k].fn
            /\ frames'[k].block = frames[k].block
            /\ frames'[k].first = frames[k].first
            /\ frames'[k].cond = frames[k].cond
            /\ frames'[k].returned = frames[k].returned
            /\ frames'[k].straight => frames[k].straight
  BY <1>2, PushLemma
<1>5. f.kind \in Kinds \ {"func"} /\ f.kind # "else"
  BY DEF Kinds
<1>6. top.returned => top.fn \in misuse'
  BY NoteLemma
<1>7. BeginShape(f, d)
  BY <1>2, <1>3, <1>4, <1>5, <1>6 DEF BeginShape
<1>8. QED  BY <1>7, BeginStep

\* BeginIf preserves the invariant: the body of the then branch starts.
LEMMA BeginIfStep ==
    ASSUME Inv, BeginIf
    PROVE  Inv' /\ OthersKept
<1> DEFINE inst == Instr("inst", <<>>, Len(src) + 1)
           tested == Emit(code, top.block, inst)
           f == Frame("then", top.fn, Len(code) + 1, 0)
<1>1. /\ InBody /\ TypeOK /\ code \in Seq(Seq(InstrType)) /\ owner \in Seq(Nat)
      /\ top.block \in 1..Len(code) /\ Blocks = 1..Len(code) /\ Len(code) \in Nat
      /\ Len(owner) = Len(code) /\ top.fn \in Nat
  BY TopLemma DEF BeginIf, Inv, TypeOK, Blocks
<1>2. inst \in InstrType /\ ~ IsTerm(inst)
  BY TopLemma, InstrLemma, <1>1 DEF Terminators
<1>3. /\ code' = NewBlock(tested) /\ owner' = Append(owner, top.fn)
      /\ Push(f) /\ NoteStatement /\ src' \in Seq(Tokens)
  BY ReadLemma DEF BeginIf, Tokens, Opening
<1> HIDE DEF inst
<1>4. /\ tested \in Seq(Seq(InstrType)) /\ Len(tested) = Len(code)
      /\ \A b \in Blocks : b # top.block => tested[b] = code[b]
      /\ Clean(code[top.block]) => Clean(tested[top.block])
  BY <1>1, <1>2, EmitLemma
<1> HIDE DEF tested
<1>5. /\ code' \in Seq(Seq(InstrType)) /\ Len(code') = Len(code) + 1
      /\ Clean(code'[Len(code) + 1])
      /\ \A b \in Blocks : code'[b] = tested[b]
  BY <1>1, <1>3, <1>4, NewBlockLemma
<1>6. /\ f \in FrameType /\ f.kind = "then" /\ f.fn = top.fn /\ f.block = Len(code) + 1
      /\ f.first = Len(code) + 1 /\ ~ f.returned
  <2>1. top.fn \in Nat /\ "then" \in Kinds /\ Len(code) + 1 \in Nat /\ 0 \in Nat
    BY <1>1 DEF Kinds
  <2>2. QED  BY <2>1, FrameLemma
<1> HIDE DEF f
<1>7. /\ owner' \in Seq(Nat) /\ Len(owner') = Len(code')
      /\ owner'[Len(code) + 1] = top.fn /\ \A b \in Blocks : owner'[b] = owner[b]
  BY <1>1, <1>3, <1>5
<1>8. TypeOK'
  BY <1>1, <1>3, <1>5, <1>6, <1>7, NoteLemma, PushLemma DEF TypeOK
<1>9. \A b \in (Len(code) + 1)..(Len(code) + 1) :
          owner'[b] = top.fn /\ Clean(code'[b]) /\ b \in Awaits(f)
  BY <1>1, <1>5, <1>6, <1>7 DEF Awaits
<1>10. IInv'
  <2>1. \A b \in Blocks \ {top.block} : code'[b] = code[b]
    BY <1>4, <1>5
  <2>2. Clean(code[top.block]) => Clean(code'[top.block])
    BY <1>1, <1>4, <1>5
  <2>3. f.kind \in {"then", "while", "loop"} /\ f.block = f.first /\ f.kind # "while"
        /\ f.block \in (Len(code) + 1)..(Len(code) + 1)
    BY <1>1, <1>6
  <2>4. QED  BY <1>1, <1>3, <1>5, <1>6, <1>7, <1>9, <2>1, <2>2, <2>3, OpenStep
<1>11. OthersKept
  <2>1. \A b \in Blocks : owner'[b] = owner[b] /\ (owner[b] # top.fn => code'[b] = code[b])
    BY <1>1, <1>4, <1>5, <1>7, TopLemma
  <2>2. QED  BY <1>1, <2>1, KeptLemma
<1>12. QED  BY <1>8, <1>10, <1>11 DEF Inv

\* BeginLoop preserves the invariant: the body starts in its only block so far.
LEMMA BeginLoopStep ==
    ASSUME Inv, BeginLoop
    PROVE  Inv' /\ OthersKept
<1> DEFINE f == Frame("loop", top.fn, Len(code) + 1, 0)
<1>1. /\ InBody /\ TypeOK /\ code \in Seq(Seq(InstrType)) /\ owner \in Seq(Nat)
      /\ top.block \in 1..Len(code) /\ Blocks = 1..Len(code) /\ Len(code) \in Nat
      /\ Len(owner) = Len(code) /\ top.fn \in Nat
  BY TopLemma DEF BeginLoop, Inv, TypeOK, Blocks
<1>2. /\ code' = NewBlock(code) /\ owner' = Append(owner, top.fn)
      /\ Push(f) /\ NoteStatement /\ src' \in Seq(Tokens)
  BY ReadLemma DEF BeginLoop, Tokens, Opening
<1>3. /\ code' \in Seq(Seq(InstrType)) /\ Len(code') = Len(code) + 1
      /\ Clean(code'[Len(code) + 1])
      /\ \A b \in Blocks : code'[b] = code[b]
  BY <1>1, <1>2, NewBlockLemma
<1>4. /\ f \in FrameType /\ f.kind = "loop" /\ f.fn = top.fn /\ f.block = Len(code) + 1
      /\ f.first = Len(code) + 1 /\ ~ f.returned
  <2>1. top.fn \in Nat /\ "loop" \in Kinds /\ Len(code) + 1 \in Nat /\ 0 \in Nat
    BY <1>1 DEF Kinds
  <2>2. QED  BY <2>1, FrameLemma
<1> HIDE DEF f
<1>5. /\ owner' \in Seq(Nat) /\ Len(owner') = Len(code')
      /\ owner'[Len(code) + 1] = top.fn /\ \A b \in Blocks : owner'[b] = owner[b]
  BY <1>1, <1>2, <1>3
<1>6. TypeOK'
  BY <1>1, <1>2, <1>3, <1>4, <1>5, NoteLemma, PushLemma DEF TypeOK
<1>7. \A b \in (Len(code) + 1)..(Len(code) + 1) :
          owner'[b] = top.fn /\ Clean(code'[b]) /\ b \in Awaits(f)
  BY <1>1, <1>3, <1>4, <1>5 DEF Awaits
<1>8. IInv'
  <2>1. \A b \in Blocks \ {top.block} : code'[b] = code[b]
    BY <1>3
  <2>2. code'[top.block] = code[top.block]
    BY <1>1, <1>3
  <2>3. f.kind \in {"then", "while", "loop"} /\ f.block = f.first /\ f.kind # "while"
        /\ f.block \in (Len(code) + 1)..(Len(code) + 1)
    BY <1>1, <1>4
  <2>4. QED  BY <1>1, <1>2, <1>3, <1>4, <1>5, <1>7, <2>1, <2>2, <2>3, OpenStep
<1>9. OthersKept
  <2>1. \A b \in Blocks : owner'[b] = owner[b] /\ (owner[b] # top.fn => code'[b] = code[b])
    BY <1>1, <1>3, <1>5, TopLemma
  <2>2. QED  BY <1>1, <2>1, KeptLemma
<1>10. QED  BY <1>6, <1>8, <1>9 DEF Inv

\* BeginWhile preserves the invariant: the condition and the body are new blocks.
LEMMA BeginWhileStep ==
    ASSUME Inv, BeginWhile
    PROVE  Inv' /\ OthersKept
<1> DEFINE inst == Instr("inst", <<>>, Len(src) + 1)
           f == Frame("while", top.fn, Len(code) + 2, Len(code) + 1)
<1>1. /\ InBody /\ TypeOK /\ code \in Seq(Seq(InstrType)) /\ owner \in Seq(Nat)
      /\ top.block \in 1..Len(code) /\ Blocks = 1..Len(code) /\ Len(code) \in Nat
      /\ Len(owner) = Len(code) /\ top.fn \in Nat
  BY TopLemma DEF BeginWhile, Inv, TypeOK, Blocks
<1>2. inst \in InstrType /\ ~ IsTerm(inst)
  BY TopLemma, InstrLemma, <1>1 DEF Terminators
<1>3. /\ code' = code \o << <<inst>>, <<>> >> /\ owner' = owner \o <<top.fn, top.fn>>
      /\ Push(f) /\ NoteStatement /\ src' \in Seq(Tokens)
  BY ReadLemma DEF BeginWhile, Tokens, Opening
<1> HIDE DEF inst
<1>4. <<inst>> \in Seq(InstrType) /\ Clean(<<inst>>) /\ Clean(<<>>)
  BY <1>2 DEF Clean
<1>5. /\ code' \in Seq(Seq(InstrType)) /\ Len(code') = Len(code) + 2
      /\ code'[Len(code) + 1] = <<inst>> /\ code'[Len(code) + 2] = <<>>
      /\ \A b \in Blocks : code'[b] = code[b]
  BY <1>1, <1>3, <1>4
<1>6. /\ f \in FrameType /\ f.kind = "while" /\ f.fn = top.fn /\ f.block = Len(code) + 2
      /\ f.first = Len(code) + 2 /\ f.cond = Len(code) + 1 /\ ~ f.returned
  <2>1. top.fn \in Nat /\ "while" \in Kinds /\ Len(code) + 1 \in Nat /\ Len(code) + 2 \in Nat
    BY <1>1 DEF Kinds
  <2>2. QED  BY <2>1, FrameLemma
<1> HIDE DEF f
<1>7. /\ owner' \in Seq(Nat) /\ Len(owner') = Len(code')
      /\ owner'[Len(code) + 1] = top.fn /\ owner'[Len(code) + 2] = top.fn
      /\ \A b \in Blocks : owner'[b] = owner[b]
  <2>1. owner \in Seq(Nat) /\ top.fn \in Nat
    BY <1>1
  <2>2. owner' = AppendTwo(owner, top.fn, top.fn)
    BY <1>3 DEF AppendTwo
  <2>3. /\ owner' \in Seq(Nat) /\ Len(owner') = Len(owner) + 2
        /\ \A i \in 1..Len(owner) : owner'[i] = owner[i]
        /\ owner'[Len(owner) + 1] = top.fn /\ owner'[Len(owner) + 2] = top.fn
    BY <2>1, <2>2, AppendTwoLemma
  <2>4. Len(owner) = Len(code) /\ Len(code') = Len(code) + 2 /\ Blocks = 1..Len(code)
    BY <1>1, <1>5
  <2>5. QED  BY <2>3, <2>4
<1>8. TypeOK'
  BY <1>1, <1>3, <1>5, <1>6, <1>7, NoteLemma, PushLemma DEF TypeOK
<1>9. \A b \in (Len(code) + 1)..(Len(code) + 2) :
          owner'[b] = top.fn /\ Clean(code'[b]) /\ b \in Awaits(f)
  <2>1. \A b \in (Len(code) + 1)..(Len(code) + 2) : b = Len(code) + 1 \/ b = Len(code) + 2
    BY <1>1
  <2>2. QED  BY <1>4, <1>5, <1>6, <1>7, <2>1 DEF Awaits
<1>10. IInv'
  <2>1. f.block \in (Len(code) + 1)..(Len(code) + 2) /\ f.cond \in (Len(code) + 1)..(Len(code) + 2)
        /\ f.cond # f.block /\ f.block = f.first
    BY <1>1, <1>6
  <2>2. QED  BY <1>1, <1>3, <1>5, <1>6, <1>7, <1>9, <2>1, OpenStep
<1>11. OthersKept
  <2>1. \A b \in Blocks : owner'[b] = owner[b] /\ (owner[b] # top.fn => code'[b] = code[b])
    BY <1>1, <1>5, <1>7, TopLemma
  <2>2. QED  BY <1>1, <2>1, KeptLemma
<1>12. QED  BY <1>8, <1>10, <1>11 DEF Inv

\* BeginElse preserves the invariant: the block of the then branch stays awaited.
LEMMA BeginElseStep ==
    ASSUME Inv, BeginElse
    PROVE  Inv' /\ OthersKept
<1> DEFINE f == Frame("else", top.fn, Len(code) + 1, 0)
<1>1. /\ InBody /\ TypeOK /\ code \in Seq(Seq(InstrType)) /\ owner \in Seq(Nat)
      /\ top.block \in 1..Len(code) /\ Blocks = 1..Len(code) /\ Len(code) \in Nat
      /\ Len(owner) = Len(code) /\ top.fn \in Nat /\ top.kind = "then"
      /\ frames \in Seq(FrameType) /\ Len(frames) \in Nat
  BY TopLemma DEF BeginElse, BodyComplete, Inv, TypeOK, Blocks
<1>2. /\ code' = NewBlock(code) /\ owner' = Append(owner, top.fn)
      /\ frames' = Append(frames, f) /\ misuse' = misuse /\ src' \in Seq(Tokens)
  BY ReadLemma DEF BeginElse, Tokens, Opening
<1>3. /\ code' \in Seq(Seq(InstrType)) /\ Len(code') = Len(code) + 1
      /\ Clean(code'[Len(code) + 1])
      /\ \A b \in Blocks : code'[b] = code[b]
  BY <1>1, <1>2, NewBlockLemma
<1>4. /\ f \in FrameType /\ f.kind = "else" /\ f.fn = top.fn /\ f.block = Len(code) + 1
      /\ f.first = Len(code) + 1 /\ ~ f.returned
  <2>1. top.fn \in Nat /\ "else" \in Kinds /\ Len(code) + 1 \in Nat /\ 0 \in Nat
    BY <1>1 DEF Kinds
  <2>2. QED  BY <2>1, FrameLemma
<1> HIDE DEF f
<1>5. /\ owner' \in Seq(Nat) /\ Len(owner') = Len(code')
      /\ owner'[Len(code) + 1] = top.fn /\ \A b \in Blocks : owner'[b] = owner[b]
  BY <1>1, <1>2, <1>3
<1>6. /\ frames' \in Seq(FrameType) /\ Len(frames') = Len(frames) + 1
      /\ frames'[Len(frames) + 1] = f /\ \A k \in Calls : frames'[k] = frames[k]
  BY <1>1, <1>2, <1>4, AppendProperties DEF Calls
<1>7. TypeOK'
  BY <1>1, <1>2, <1>3, <1>5, <1>6 DEF TypeOK
<1>8. \A b \in (Len(code) + 1)..(Len(code) + 1) :
          owner'[b] = top.fn /\ Clean(code'[b]) /\ b \in Awaits(f)
  BY <1>1, <1>3, <1>4, <1>5 DEF Awaits
<1>9. IInv'
  <2>1. /\ f.kind \in Kinds \ {"func"} /\ f.kind # "while" /\ f.block = f.first
        /\ f.block \in (Len(code) + 1)..(Len(code) + 1)
    BY <1>1, <1>4 DEF Kinds
  <2>2. code'[top.block] = code[top.block]
    BY <1>1, <1>3
  <2>3. BeginShape(f, 1)
    BY <1>1, <1>2, <1>3, <1>4, <1>5, <1>6, <1>8, <2>1, <2>2 DEF BeginShape
  <2>4. QED  BY <1>1, <1>4, <2>3, BeginStep
<1>10. OthersKept
  <2>1. \A b \in Blocks : owner'[b] = owner[b] /\ (owner[b] # top.fn => code'[b] = code[b])
    BY <1>1, <1>3, <1>5, TopLemma
  <2>2. QED  BY <1>1, <2>1, KeptLemma
<1>11. QED  BY <1>7, <1>9, <1>10 DEF Inv

-----------------------------------------------------------------------------
(* A call ends. *)

\* The blocks of a call exist, belong to its function and are not its entry;
\* in a function without misuse the one it goes on in is clean or sealed.
LEMMA BlockLemma ==
    ASSUME Inv, NEW k \in Calls
    PROVE  LET f == frames[k]
           IN  /\ f \in FrameType /\ f.fn \in Blocks /\ owner[f.fn] = f.fn
               /\ f.block \in Blocks /\ owner[f.block] = f.fn /\ f.block # f.fn
               /\ f.first \in Blocks /\ owner[f.first] = f.fn /\ f.first # f.fn
               /\ f.fn \notin misuse => Clean(code[f.block]) \/ Sealed(code[f.block])
               /\ f.fn \notin misuse /\ ~ f.returned => Clean(code[f.block])
<1>1. frames[k] \in FrameType
  BY ElementOfSeq DEF Inv, TypeOK, Calls
<1>2. FramesLinked!(k) /\ AwaitedClean!(k) /\ UnsealedAwaited
  BY DEF Inv, IInv, FramesLinked, AwaitedClean
<1>3. QED  BY <1>1, <1>2 DEF UnsealedAwaited

\* A call that is not that of a function has a caller in the same function,
\* which has not returned unless the function is misused.
LEMMA CallerLemma ==
    ASSUME Inv, NEW k \in Calls, frames[k].kind # "func"
    PROVE  /\ k - 1 \in Calls /\ frames[k - 1].fn = frames[k].fn
           /\ frames[k].kind = "else" => frames[k - 1].kind = "then"
           /\ frames[k].kind # "else" /\ frames[k].fn \notin misuse =>
                  ~ frames[k - 1].returned /\ Clean(code[frames[k - 1].block])
<1>1. FramesLinked!(k) /\ FramesHistory!(k)
  BY DEF Inv, IInv, FramesLinked, FramesHistory
<1>2. k - 1 \in Calls
  BY <1>1 DEF Calls, Inv, TypeOK
<1>3. QED  BY <1>1, <1>2, BlockLemma

\* Two calls go on in two blocks.
LEMMA DistinctLemma ==
    ASSUME Inv, NEW j \in Calls, NEW k \in Calls, j # k
    PROVE  /\ frames[j].block # frames[k].block
           /\ frames[k].kind = "while" => frames[j].block # frames[k].cond
BY DEF Inv, IInv, AwaitedOnce, Awaits

\* The branches that leave block and the ends of both branches seal these
\* blocks; the block they meet in is new.
Joined(r, cs, block, thennewb, lastelse) ==
    /\ r \in Seq(Seq(InstrType)) /\ Len(r) = Len(cs) + 1
    /\ Clean(r[Len(cs) + 1])
    /\ \A a \in 1..Len(cs) \ {block, thennewb, lastelse} : r[a] = cs[a]
    /\ Clean(cs[block]) => Sealed(r[block])
    /\ \A a \in {thennewb, lastelse} : Clean(cs[a]) \/ Sealed(cs[a]) => Sealed(r[a])

\* This is what If::generate does once both branches are generated.
LEMMA JoinIfLemma ==
    ASSUME Inv, NEW cs \in Seq(Seq(InstrType)), NEW block \in 1..Len(cs),
           NEW then \in FrameType, then.block \in 1..Len(cs),
           NEW thenEnd \in Nat, NEW elseb \in Nat, NEW lastelse \in 1..Len(cs),
           NEW mergb \in Nat,
           block # then.block, block # lastelse, then.block # lastelse
    PROVE  Joined(JoinIf(cs, block, then, thenEnd, elseb, lastelse, mergb),
                  cs, block, then.block, lastelse)
<1> DEFINE cbr == Instr("cbr", <<then.first, elseb>>, then.tok)
           br1 == Instr("br", <<mergb>>, thenEnd)
           br2 == Instr("br", <<mergb>>, Len(src) + 1)
           tested == Emit(cs, block, cbr)
           merged == NewBlock(tested)
           joined == EmitUnlessTerminated(merged, then.block, br1)
<1>1. /\ cbr \in InstrType /\ br1 \in InstrType /\ br2 \in InstrType
      /\ IsTerm(cbr) /\ IsTerm(br1) /\ IsTerm(br2)
  <2>1. Len(src) + 1 \in Nat /\ then.first \in Nat /\ then.tok \in Nat
    BY LenProperties DEF Inv, TypeOK, FrameType
  <2>2. QED  BY <2>1, InstrLemma DEF Terminators
<1> HIDE DEF cbr, br1, br2
<1>2. /\ tested \in Seq(Seq(InstrType)) /\ Len(tested) = Len(cs)
      /\ \A a \in 1..Len(cs) : a # block => tested[a] = cs[a]
      /\ Clean(cs[block]) => Sealed(tested[block])
  BY <1>1, EmitLemma
<1> HIDE DEF tested
<1>3. /\ merged \in Seq(Seq(InstrType)) /\ Len(merged) = Len(cs) + 1
      /\ \A a \in 1..Len(cs) : merged[a] = tested[a]
      /\ Clean(merged[Len(cs) + 1])
  BY <1>2, NewBlockLemma
<1> HIDE DEF merged
<1>4. /\ Len(cs) \in Nat /\ then.block \in 1..Len(merged) /\ lastelse \in 1..Len(merged)
      /\ Len(cs) + 1 \in 1..Len(merged) /\ Len(cs) + 1 # then.block /\ Len(cs) + 1 # lastelse
      /\ \A a \in 1..Len(cs) : a \in 1..Len(merged)
  BY <1>3
<1>5. /\ joined \in Seq(Seq(InstrType)) /\ Len(joined) = Len(merged)
      /\ \A a \in 1..Len(merged) : a # then.block => joined[a] = merged[a]
      /\ Clean(merged[then.block]) \/ Sealed(merged[then.block]) => Sealed(joined[then.block])
  BY <1>1, <1>3, <1>4, EmitUnlessLemma
<1> HIDE DEF joined
<1> DEFINE last == EmitUnlessTerminated(joined, lastelse, br2)
<1>6. /\ last \in Seq(Seq(InstrType)) /\ Len(last) = Len(merged)
      /\ \A a \in 1..Len(merged) : a # lastelse => last[a] = joined[a]
      /\ Clean(joined[lastelse]) \/ Sealed(joined[lastelse]) => Sealed(last[lastelse])
  BY <1>1, <1>4, <1>5, EmitUnlessLemma
<1>7. JoinIf(cs, block, then, thenEnd, elseb, lastelse, mergb) = last
  BY DEF last, joined, merged, tested, cbr, br1, br2, JoinIf
<1> HIDE DEF last
<1>8. /\ last \in Seq(Seq(InstrType)) /\ Len(last) = Len(cs) + 1 /\ Clean(last[Len(cs) + 1])
  BY <1>3, <1>4, <1>5, <1>6
<1>9. \A a \in 1..Len(cs) \ {block, then.block, lastelse} : last[a] = cs[a]
  BY <1>2, <1>3, <1>4, <1>5, <1>6
<1>10. Clean(cs[block]) => Sealed(last[block])
  BY <1>2, <1>3, <1>4, <1>5, <1>6
<1>11. \A a \in {then.block, lastelse} : Clean(cs[a]) \/ Sealed(cs[a]) => Sealed(last[a])
  BY <1>2, <1>3, <1>4, <1>5, <1>6
<1>12. QED  BY <1>7, <1>8, <1>9, <1>10, <1>11 DEF Joined

\* EndIfWithoutElse preserves the invariant: the body of the then branch ends,
\* "else" is an empty block.
LEMMA EndIfWithoutElseStep ==
    ASSUME Inv, EndIfWithoutElse
    PROVE  Inv' /\ OthersKept
<1> DEFINE N == Len(frames)
           n == N - 1
           elseb == Len(code) + 1
           mergb == Len(code) + 2
           cs == NewBlock(code)
           block == caller.block
<1>1. /\ InBody /\ TypeOK /\ code \in Seq(Seq(InstrType)) /\ owner \in Seq(Nat)
      /\ Blocks = 1..Len(code) /\ Len(code) \in Nat /\ Len(owner) = Len(code)
      /\ N \in Nat \ {0} /\ N \in Calls /\ top = frames[N] /\ top.kind = "then"
      /\ Len(src) + 1 \in Nat /\ top.tok \in Nat /\ top.first \in Nat /\ top.fn \in Nat
  BY TopLemma DEF EndIfWithoutElse, BodyComplete, Inv, TypeOK, Blocks
<1>2. /\ code' = JoinIf(cs, block, top, Len(src) + 1, elseb, elseb, mergb)
      /\ PopInto(1, mergb) /\ owner' = owner \o <<top.fn, top.fn>>
      /\ misuse' = misuse /\ src' \in Seq(Tokens)
  BY ReadLemma DEF EndIfWithoutElse, Tokens
<1>3. /\ n \in Calls /\ n \in Nat \ {0} /\ n # N /\ n + 1 = N /\ caller = frames[n]
      /\ frames[n].fn = top.fn /\ N = Len(frames) /\ N > 1 /\ n = Len(frames) - 1
      /\ top.fn \notin misuse => Clean(code[block])
  BY <1>1, CallerLemma DEF Calls, caller
<1> HIDE DEF n, N
<1>4. /\ block \in Blocks /\ owner[block] = top.fn /\ block # top.fn
      /\ top.block \in Blocks /\ owner[top.block] = top.fn /\ top.block # top.fn
      /\ block # top.block
      /\ top.fn \notin misuse => Clean(code[top.block]) \/ Sealed(code[top.block])
  BY <1>1, <1>3, BlockLemma, DistinctLemma
<1>5. /\ cs \in Seq(Seq(InstrType)) /\ Len(cs) = Len(code) + 1
      /\ Clean(cs[elseb]) /\ \A a \in Blocks : cs[a] = code[a]
  BY <1>1, NewBlockLemma
<1> HIDE DEF cs
<1>6. /\ elseb \in Nat /\ mergb \in Nat /\ elseb \in 1..Len(cs) /\ elseb \notin Blocks
      /\ Blocks \subseteq 1..Len(cs) /\ Len(cs) + 1 = mergb
  BY <1>1, <1>5
<1> HIDE DEF elseb, mergb, block
<1>7. /\ code' \in Seq(Seq(InstrType)) /\ Len(code') = Len(cs) + 1
      /\ Clean(code'[mergb])
      /\ \A a \in Blocks : a # block /\ a # top.block => code'[a] = code[a]
      /\ Clean(code[block]) => Sealed(code'[block])
      /\ Clean(code[top.block]) \/ Sealed(code[top.block]) => Sealed(code'[top.block])
      /\ Sealed(code'[elseb])
  <2>1. block \in 1..Len(cs) /\ top.block \in 1..Len(cs) /\ block # elseb /\ top.block # elseb
    BY <1>4, <1>6
  <2>2. /\ code' \in Seq(Seq(InstrType)) /\ Len(code') = Len(cs) + 1
        /\ Clean(code'[mergb])
        /\ \A a \in 1..Len(cs) \ {block, top.block, elseb} : code'[a] = cs[a]
        /\ Clean(cs[block]) => Sealed(code'[block])
        /\ \A a \in {top.block, elseb} : Clean(cs[a]) \/ Sealed(cs[a]) => Sealed(code'[a])
    <3>1. /\ cs \in Seq(Seq(InstrType)) /\ top \in FrameType
          /\ Len(src) + 1 \in Nat /\ elseb \in Nat /\ elseb \in 1..Len(cs) /\ mergb \in Nat
          /\ Clean(cs[elseb]) /\ block # top.block
      BY <1>1, <1>4, <1>5, <1>6, TopLemma
    <3>2. code' = JoinIf(cs, block, top, Len(src) + 1, elseb, elseb, mergb)
      BY <1>2
    <3>3. Joined(code', cs, block, top.block, elseb)
      BY <2>1, <3>1, <3>2, JoinIfLemma
    <3>4. QED  BY <1>6, <3>3 DEF Joined
  <2>3. QED  BY <1>4, <1>5, <1>6, <2>2
<1>8. /\ owner' \in Seq(Nat) /\ Len(owner') = Len(code) + 2
      /\ \A b \in Blocks : owner'[b] = owner[b]
      /\ owner'[Len(code) + 1] = top.fn /\ owner'[Len(code) + 2] = top.fn
  <2>1. owner' = AppendTwo(owner, top.fn, top.fn)
    BY <1>2 DEF AppendTwo
  <2>2. owner \in Seq(Nat) /\ top.fn \in Nat
    BY <1>1
  <2>3. /\ owner' \in Seq(Nat) /\ Len(owner') = Len(owner) + 2
        /\ \A i \in 1..Len(owner) : owner'[i] = owner[i]
        /\ owner'[Len(owner) + 1] = top.fn /\ owner'[Len(owner) + 2] = top.fn
    BY <2>1, <2>2, AppendTwoLemma
  <2>4. Len(owner) = Len(code) /\ Blocks = 1..Len(code)
    BY <1>1
  <2>5. QED  BY <2>3, <2>4
<1>9. /\ frames' \in Seq(FrameType) /\ Len(frames') = n
      /\ \A k \in 1..n :
            /\ frames'[k].kind = frames[k].kind
            /\ frames'[k].fn = frames[k].fn
            /\ frames'[k].block = IF k = n THEN mergb ELSE frames[k].block
            /\ frames'[k].first = frames[k].first
            /\ frames'[k].cond = frames[k].cond
            /\ frames'[k].returned = frames[k].returned
            /\ frames'[k].straight = frames[k].straight
  <2>1. 1 \in {1, 2} /\ N > 1
    BY <1>3
  <2>2. PopInto(1, mergb) /\ mergb \in Nat /\ Len(frames) > 1
    BY <1>2, <1>3, <1>6
  <2>3. /\ frames' \in Seq(FrameType)
        /\ Len(frames') = Len(frames) - 1
        /\ \A k \in 1..(Len(frames) - 1) :
                /\ frames'[k].kind = frames[k].kind
                /\ frames'[k].fn = frames[k].fn
                /\ frames'[k].block = IF k = Len(frames) - 1 THEN mergb ELSE frames[k].block
                /\ frames'[k].first = frames[k].first
                /\ frames'[k].cond = frames[k].cond
                /\ frames'[k].returned = frames[k].returned
                /\ frames'[k].straight = frames[k].straight
    BY <2>1, <2>2, PopLemma
  <2>4. QED  BY <1>3, <2>3
<1>10. TypeOK'
  BY <1>1, <1>2, <1>5, <1>7, <1>8, <1>9 DEF TypeOK
<1>11. EndShape(n, 2)
  <2>1. /\ n \in 1..(N - 1) /\ mergb = Len(code) + 2 /\ elseb = Len(code) + 1
        /\ Len(code') = Len(code) + 2
        /\ \A b \in (Len(code) + 1)..(Len(code) + 2) : b = elseb \/ b = mergb
        /\ \A k \in n..N : k = n \/ k = N
        /\ \A k \in (n + 1)..N : k = N
    <3>1. n \in Nat \ {0} /\ N = n + 1
      BY <1>3
    <3>2. Len(code) \in Nat /\ Len(code') = Len(code) + 2
      BY <1>1, <1>5, <1>7
    <3>3. QED  BY <3>1, <3>2 DEF elseb, mergb
  <2>2. \A b \in (Len(code) + 1)..(Len(code) + 2) : owner'[b] = top.fn
    BY <1>8, <2>1
  <2>3. \A b \in Blocks : owner[b] # top.fn => code'[b] = code[b]
    BY <1>4, <1>7
  <2>4. code'[top.fn] = code[top.fn]
    BY <1>4, <1>7, TopLemma, <1>1
  <2>5. Awaits(top) = {top.block}
    BY <1>1 DEF Awaits
  <2>6. ASSUME top.fn \notin misuse, NEW b \in Blocks \ {top.fn}
        PROVE  IF \/ b = frames[n].block
                  \/ \E k \in (n + 1)..Len(frames) : b \in Awaits(frames[k])
               THEN Sealed(code'[b]) ELSE code'[b] = code[b]
    <3>1. (\E k \in (n + 1)..N : b \in Awaits(frames[k])) <=> b = top.block
      <4>1. N \in (n + 1)..N /\ \A k \in (n + 1)..N : k = N
        <5>1. n \in Nat /\ N = n + 1
          BY <1>3
        <5>2. QED  BY <5>1
      <4>2. Awaits(frames[N]) = {top.block}
        BY <1>1, <2>5
      <4>3. QED  BY <4>1, <4>2
    <3>2. frames[n].block = block
      BY <1>3 DEF block
    <3>3. QED  BY <1>3, <1>4, <1>7, <2>6, <3>1, <3>2
  <2> HIDE DEF N
  <2>7. frames[n + 1].kind \notin {"func", "else"} /\ \A k \in n..Len(frames) : frames[k].fn = top.fn
    BY <1>1, <1>3, <2>1
  <2>8. /\ n \in 1..(Len(frames) - 1) /\ Len(code') = Len(code) + 2
        /\ \A b \in Blocks : owner'[b] = owner[b]
        /\ Clean(code'[Len(code) + 2]) /\ Sealed(code'[Len(code) + 1])
        /\ misuse' = misuse
    BY <1>2, <1>3, <1>7, <1>8, <2>1
  <2>9. /\ Len(frames') = n
        /\ \A k \in 1..n :
            /\ frames'[k].kind = frames[k].kind
            /\ frames'[k].fn = frames[k].fn
            /\ frames'[k].block = IF k = n THEN Len(code) + 2 ELSE frames[k].block
            /\ frames'[k].first = frames[k].first
            /\ frames'[k].cond = frames[k].cond
            /\ frames'[k].returned = frames[k].returned
            /\ frames'[k].straight = frames[k].straight
    BY <1>9, <2>1
  <2>10. QED  BY <2>2, <2>3, <2>4, <2>6, <2>7, <2>8, <2>9 DEF EndShape
<1>12. IInv'
  BY <1>1, <1>3, <1>11, EndStep
<1>13. OthersKept
  <2>1. \A b \in Blocks : owner'[b] = owner[b] /\ (owner[b] # top.fn => code'[b] = code[b])
    BY <1>1, <1>4, <1>7, <1>8, TopLemma
  <2>2. QED  BY <1>1, <2>1, KeptLemma
<1>14. QED  BY <1>10, <1>12, <1>13 DEF Inv

\* EndIfWithElse preserves the invariant: the bodies of both branches end.
LEMMA EndIfWithElseStep ==
    ASSUME Inv, EndIfWithElse
    PROVE  Inv' /\ OthersKept
<1> DEFINE N == Len(frames)
           m == N - 1
           n == N - 2
           mergb == Len(code) + 1
           block == frames[N - 2].block
<1>1. /\ InBody /\ TypeOK /\ code \in Seq(Seq(InstrType)) /\ owner \in Seq(Nat)
      /\ Blocks = 1..Len(code) /\ Len(code) \in Nat /\ Len(owner) = Len(code)
      /\ N \in Nat \ {0} /\ N \in Calls /\ top = frames[N] /\ top.kind = "else"
      /\ Len(src) + 1 \in Nat /\ top.tok \in Nat /\ top.first \in Nat /\ top.fn \in Nat
  BY TopLemma DEF EndIfWithElse, BodyComplete, Inv, TypeOK, Blocks
<1>2. /\ code' = JoinIf(code, block, caller, top.tok, top.first, top.block, mergb)
      /\ PopInto(2, mergb) /\ owner' = Append(owner, top.fn)
      /\ misuse' = misuse /\ src' \in Seq(Tokens)
  BY ReadLemma DEF EndIfWithElse, Tokens
<1>3. /\ m \in Calls /\ caller = frames[m] /\ frames[m].fn = top.fn
      /\ frames[m].kind = "then"
  BY <1>1, CallerLemma DEF caller
<1>4. /\ m - 1 \in Calls /\ frames[m - 1].fn = top.fn
      /\ top.fn \notin misuse => Clean(code[frames[m - 1].block])
  <2> HIDE DEF m
  <2>1. QED  BY <1>3, CallerLemma
<1>5. /\ n \in Calls /\ n \in Nat \ {0} /\ N = n + 2 /\ m = n + 1 /\ m - 1 = n
      /\ N = Len(frames) /\ N > 2 /\ block = frames[n].block
  <2>1. N \in Nat /\ (N - 1) - 1 \in 1..N /\ (N - 1) - 1 = N - 2
    BY <1>1, <1>4 DEF Calls
  <2>2. QED  BY <2>1 DEF Calls
<1> HIDE DEF N, m, n
<1>6. /\ n # N /\ m # N /\ n # m
  BY <1>5
<1>7. /\ block \in Blocks /\ owner[block] = top.fn /\ block # top.fn
      /\ top.block \in Blocks /\ owner[top.block] = top.fn /\ top.block # top.fn
      /\ caller.block \in Blocks /\ owner[caller.block] = top.fn /\ caller.block # top.fn
      /\ block # top.block /\ block # caller.block /\ caller.block # top.block
      /\ caller \in FrameType
      /\ top.fn \notin misuse =>
            /\ Clean(code[block])
            /\ Clean(code[caller.block]) \/ Sealed(code[caller.block])
            /\ Clean(code[top.block]) \/ Sealed(code[top.block])
  <2>1. /\ N \in Calls /\ m \in Calls /\ n \in Calls /\ n # N /\ m # N /\ n # m
        /\ top = frames[N] /\ caller = frames[m] /\ block = frames[n].block
        /\ frames[m].fn = top.fn /\ frames[n].fn = top.fn
    BY <1>1, <1>3, <1>4, <1>5, <1>6
  <2>2. top.fn \notin misuse => Clean(code[frames[n].block])
    BY <1>4, <1>5
  <2> HIDE DEF block
  <2>3. QED  BY <2>1, <2>2, BlockLemma, DistinctLemma
<1> HIDE DEF block
<1>8. /\ code' \in Seq(Seq(InstrType)) /\ Len(code') = Len(code) + 1
      /\ Clean(code'[Len(code) + 1])
      /\ \A a \in Blocks : a \notin {block, caller.block, top.block} => code'[a] = code[a]
      /\ Clean(code[block]) => Sealed(code'[block])
      /\ \A a \in {caller.block, top.block} :
             Clean(code[a]) \/ Sealed(code[a]) => Sealed(code'[a])
  <2>1. /\ block \in 1..Len(code) /\ caller.block \in 1..Len(code) /\ top.block \in 1..Len(code)
        /\ caller \in FrameType /\ top.tok \in Nat /\ top.first \in Nat /\ mergb \in Nat
        /\ block # caller.block /\ block # top.block /\ caller.block # top.block
        /\ code \in Seq(Seq(InstrType))
    BY <1>1, <1>7
  <2>2. code' = JoinIf(code, block, caller, top.tok, top.first, top.block, mergb)
    BY <1>2
  <2> HIDE DEF mergb
  <2>3. Joined(code', code, block, caller.block, top.block)
    BY <2>1, <2>2, JoinIfLemma
  <2>4. QED  BY <1>1, <2>3 DEF Joined
<1>9. /\ owner' \in Seq(Nat) /\ Len(owner') = Len(code) + 1
      /\ owner'[Len(code) + 1] = top.fn /\ \A b \in Blocks : owner'[b] = owner[b]
  BY <1>1, <1>2
<1>10. /\ frames' \in Seq(FrameType) /\ Len(frames') = n
       /\ \A k \in 1..n :
            /\ frames'[k].kind = frames[k].kind
            /\ frames'[k].fn = frames[k].fn
            /\ frames'[k].block = IF k = n THEN Len(code) + 1 ELSE frames[k].block
            /\ frames'[k].first = frames[k].first
            /\ frames'[k].cond = frames[k].cond
            /\ frames'[k].returned = frames[k].returned
            /\ frames'[k].straight = frames[k].straight
  <2>1. PopInto(2, mergb) /\ mergb \in Nat /\ Len(frames) > 2 /\ 2 \in {1, 2}
    BY <1>1, <1>2, <1>5
  <2>2. /\ frames' \in Seq(FrameType)
        /\ Len(frames') = Len(frames) - 2
        /\ \A k \in 1..(Len(frames) - 2) :
                /\ frames'[k].kind = frames[k].kind
                /\ frames'[k].fn = frames[k].fn
                /\ frames'[k].block = IF k = Len(frames) - 2 THEN mergb ELSE frames[k].block
                /\ frames'[k].first = frames[k].first
                /\ frames'[k].cond = frames[k].cond
                /\ frames'[k].returned = frames[k].returned
                /\ frames'[k].straight = frames[k].straight
    BY <2>1, PopLemma
  <2>3. Len(frames) - 2 = n
    BY <1>5
  <2>4. QED  BY <2>2, <2>3
<1>11. TypeOK'
  BY <1>1, <1>2, <1>8, <1>9, <1>10 DEF TypeOK
<1>12. EndShape(n, 1)
  <2>1. /\ n \in 1..(Len(frames) - 1) /\ Len(code') = Len(code) + 1
        /\ \A b \in Blocks : owner'[b] = owner[b]
        /\ Clean(code'[Len(code) + 1])
        /\ misuse' = misuse
    <3>1. n \in 1..(N - 1) /\ N = Len(frames)
      BY <1>5
    <3>2. QED  BY <1>2, <1>8, <1>9, <3>1
  <2>2. \A b \in (Len(code) + 1)..(Len(code) + 1) : owner'[b] = top.fn
    BY <1>1, <1>9
  <2>3. \A b \in Blocks : owner[b] # top.fn => code'[b] = code[b]
    BY <1>7, <1>8
  <2>4. code'[top.fn] = code[top.fn]
    BY <1>1, <1>7, <1>8, TopLemma
  <2>5. ASSUME top.fn \notin misuse, NEW b \in Blocks \ {top.fn}
        PROVE  IF \/ b = frames[n].block
                  \/ \E k \in (n + 1)..Len(frames) : b \in Awaits(frames[k])
               THEN Sealed(code'[b]) ELSE code'[b] = code[b]
    <3>1. (\E k \in (n + 1)..N : b \in Awaits(frames[k])) <=> b = caller.block \/ b = top.block
      <4>1. m \in (n + 1)..N /\ N \in (n + 1)..N /\ \A k \in (n + 1)..N : k = m \/ k = N
        BY <1>5
      <4>2. Awaits(frames[N]) = {top.block} /\ Awaits(frames[m]) = {caller.block}
        BY <1>1, <1>3 DEF Awaits
      <4>3. QED  BY <4>1, <4>2
    <3>2. frames[n].block = block /\ N = Len(frames)
      BY <1>5 DEF block
    <3>3. QED  BY <1>7, <1>8, <2>5, <3>1, <3>2
  <2>6. frames[n + 1].kind \notin {"func", "else"} /\ \A k \in n..Len(frames) : frames[k].fn = top.fn
    <3>1. \A k \in n..N : k = n \/ k = m \/ k = N
      BY <1>5
    <3>2. QED  BY <1>1, <1>3, <1>4, <1>5, <3>1
  <2>7. QED  BY <1>10, <2>1, <2>2, <2>3, <2>4, <2>5, <2>6 DEF EndShape
<1>13. IInv'
  <2>1. 1 \in {1, 2} /\ n \in Nat
    BY <1>5
  <2>2. QED  BY <1>1, <1>12, <2>1, EndStep
<1>14. OthersKept
  <2>1. \A b \in Blocks : owner'[b] = owner[b] /\ (owner[b] # top.fn => code'[b] = code[b])
    BY <1>1, <1>7, <1>8, <1>9, TopLemma
  <2>2. QED  BY <1>1, <2>1, KeptLemma
<1>15. QED  BY <1>11, <1>13, <1>14 DEF Inv

\* EndWhile preserves the invariant: the block before the statement, the
\* condition and the end of the body get their branches.
LEMMA EndWhileStep ==
    ASSUME Inv, EndWhile
    PROVE  Inv' /\ OthersKept
<1> DEFINE N == Len(frames)
           n == N - 1
           endb == Len(code) + 1
           enter == Instr("br", <<top.cond>>, top.tok)
           test == Instr("cbr", <<top.first, endb>>, top.tok)
           back == Instr("br", <<top.cond>>, Len(src) + 1)
           grown == NewBlock(code)
           entered == Emit(grown, caller.block, enter)
           tested == Emit(entered, top.cond, test)
<1>1. /\ InBody /\ TypeOK /\ code \in Seq(Seq(InstrType)) /\ owner \in Seq(Nat)
      /\ Blocks = 1..Len(code) /\ Len(code) \in Nat /\ Len(owner) = Len(code)
      /\ N \in Nat \ {0} /\ N \in Calls /\ top = frames[N] /\ top.kind = "while"
      /\ Len(src) + 1 \in Nat /\ top.tok \in Nat /\ top.first \in Nat /\ top.fn \in Nat
  BY TopLemma DEF EndWhile, BodyComplete, Inv, TypeOK, Blocks
<1>2. /\ code' = EmitUnlessTerminated(tested, top.block, back)
      /\ PopInto(1, endb) /\ owner' = Append(owner, top.fn)
      /\ misuse' = misuse /\ src' \in Seq(Tokens)
  BY ReadLemma DEF EndWhile, Tokens
<1>3. /\ n \in Calls /\ caller = frames[n] /\ frames[n].fn = top.fn
      /\ top.fn \notin misuse => Clean(code[caller.block])
  BY <1>1, CallerLemma DEF caller
<1>5. /\ n \in Calls /\ n \in Nat \ {0} /\ N = n + 1 /\ n # N
      /\ N = Len(frames) /\ N > 1
  <2>1. N \in Nat /\ n \in 1..N /\ n \in Calls /\ N = Len(frames)
    BY <1>1, <1>3 DEF Calls
  <2> HIDE DEF N
  <2>2. QED  BY <2>1
<1> HIDE DEF N, n
<1>6. /\ top.cond \in Blocks /\ owner[top.cond] = top.fn /\ top.cond # top.fn
      /\ top.cond # top.block
      /\ top.fn \notin misuse => Clean(code[top.cond])
  <2>1. FramesLinked!(N) /\ AwaitedClean!(N)
    BY <1>1 DEF Inv, IInv, FramesLinked, AwaitedClean
  <2>2. QED  BY <1>1, <2>1
<1>7. /\ caller.block \in Blocks /\ owner[caller.block] = top.fn /\ caller.block # top.fn
      /\ top.block \in Blocks /\ owner[top.block] = top.fn /\ top.block # top.fn
      /\ caller.block # top.block /\ caller.block # top.cond
      /\ top.fn \notin misuse => Clean(code[top.block]) \/ Sealed(code[top.block])
  BY <1>1, <1>3, <1>5, BlockLemma, DistinctLemma
<1>8. /\ code' \in Seq(Seq(InstrType)) /\ Len(code') = Len(code) + 1
      /\ Clean(code'[Len(code) + 1])
      /\ \A a \in Blocks : a \notin {caller.block, top.cond, top.block} => code'[a] = code[a]
      /\ \A a \in {caller.block, top.cond} : Clean(code[a]) => Sealed(code'[a])
      /\ Clean(code[top.block]) \/ Sealed(code[top.block]) => Sealed(code'[top.block])
  <2>1. /\ enter \in InstrType /\ test \in InstrType /\ back \in InstrType
        /\ IsTerm(enter) /\ IsTerm(test) /\ IsTerm(back)
    <3>1. top.cond \in Nat /\ endb \in Nat
      BY <1>1, <1>6
    <3> HIDE DEF endb
    <3>2. QED  BY <1>1, <3>1, InstrLemma DEF Terminators
  <2> HIDE DEF enter, test, back
  <2>2. /\ grown \in Seq(Seq(InstrType)) /\ Len(grown) = Len(code) + 1
        /\ Clean(grown[Len(code) + 1]) /\ \A a \in Blocks : grown[a] = code[a]
    BY <1>1, NewBlockLemma
  <2> HIDE DEF grown
  <2>3. /\ caller.block \in 1..Len(grown) /\ top.cond \in 1..Len(grown)
        /\ top.block \in 1..Len(grown) /\ Len(code) + 1 \in 1..Len(grown)
        /\ Len(code) + 1 \notin {caller.block, top.cond, top.block}
        /\ Blocks \subseteq 1..Len(grown)
    <3>1. Blocks = 1..Len(code) /\ Len(code) \in Nat /\ Len(grown) = Len(code) + 1
      BY <1>1, <2>2
    <3>2. caller.block \in Blocks /\ top.cond \in Blocks /\ top.block \in Blocks
      BY <1>6, <1>7
    <3>3. QED  BY <3>1, <3>2
  <2>4. /\ entered \in Seq(Seq(InstrType)) /\ Len(entered) = Len(grown)
        /\ \A a \in 1..Len(grown) : a # caller.block => entered[a] = grown[a]
        /\ Clean(grown[caller.block]) => Sealed(entered[caller.block])
    BY <2>1, <2>2, <2>3, EmitLemma
  <2> HIDE DEF entered
  <2>5. /\ tested \in Seq(Seq(InstrType)) /\ Len(tested) = Len(grown)
        /\ \A a \in 1..Len(grown) : a # top.cond => tested[a] = entered[a]
        /\ Clean(entered[top.cond]) => Sealed(tested[top.cond])
    <3>1. top.cond \in 1..Len(entered)
      BY <2>3, <2>4
    <3>2. QED  BY <2>1, <2>4, <3>1, EmitLemma
  <2> HIDE DEF tested
  <2>6. /\ code' \in Seq(Seq(InstrType)) /\ Len(code') = Len(grown)
        /\ \A a \in 1..Len(grown) : a # top.block => code'[a] = tested[a]
        /\ Clean(tested[top.block]) \/ Sealed(tested[top.block]) => Sealed(code'[top.block])
    <3>1. code' = EmitUnlessTerminated(tested, top.block, back)
      BY <1>2
    <3>2. top.block \in 1..Len(tested)
      BY <2>3, <2>5
    <3>3. QED  BY <2>1, <2>5, <3>1, <3>2, EmitUnlessLemma
  <2>7. QED  BY <1>6, <1>7, <2>2, <2>3, <2>4, <2>5, <2>6
<1>9. /\ owner' \in Seq(Nat) /\ Len(owner') = Len(code) + 1
      /\ owner'[Len(code) + 1] = top.fn /\ \A b \in Blocks : owner'[b] = owner[b]
  BY <1>1, <1>2
<1>10. /\ frames' \in Seq(FrameType) /\ Len(frames') = n
       /\ \A k \in 1..n :
            /\ frames'[k].kind = frames[k].kind
            /\ frames'[k].fn = frames[k].fn
            /\ frames'[k].block = IF k = n THEN Len(code) + 1 ELSE frames[k].block
            /\ frames'[k].first = frames[k].first
            /\ frames'[k].cond = frames[k].cond
            /\ frames'[k].returned = frames[k].returned
            /\ frames'[k].straight = frames[k].straight
  <2>1. PopInto(1, endb) /\ endb \in Nat /\ Len(frames) > 1 /\ 1 \in {1, 2}
    BY <1>1, <1>2, <1>5
  <2>2. /\ frames' \in Seq(FrameType)
        /\ Len(frames') = Len(frames) - 1
        /\ \A k \in 1..(Len(frames) - 1) :
                /\ frames'[k].kind = frames[k].kind
                /\ frames'[k].fn = frames[k].fn
                /\ frames'[k].block = IF k = Len(frames) - 1 THEN endb ELSE frames[k].block
                /\ frames'[k].first = frames[k].first
                /\ frames'[k].cond = frames[k].cond
                /\ frames'[k].returned = frames[k].returned
                /\ frames'[k].straight = frames[k].straight
    BY <2>1, PopLemma
  <2>3. Len(frames) - 1 = n
    BY <1>5
  <2>4. QED  BY <2>2, <2>3
<1>11. TypeOK'
  BY <1>1, <1>2, <1>8, <1>9, <1>10 DEF TypeOK
<1>12. EndShape(n, 1)
  <2>1. /\ n \in 1..(Len(frames) - 1) /\ Len(code') = Len(code) + 1
        /\ \A b \in Blocks : owner'[b] = owner[b]
        /\ Clean(code'[Len(code) + 1])
        /\ misuse \subseteq misuse'
    <3>1. n \in 1..(N - 1) /\ N = Len(frames)
      BY <1>5
    <3>2. QED  BY <1>2, <1>8, <1>9, <3>1
  <2>2. \A b \in (Len(code) + 1)..(Len(code) + 1) : owner'[b] = top.fn
    BY <1>1, <1>9
  <2>3. \A b \in Blocks : owner[b] # top.fn => code'[b] = code[b]
    BY <1>6, <1>7, <1>8
  <2>4. code'[top.fn] = code[top.fn]
    BY <1>1, <1>6, <1>7, <1>8, TopLemma
  <2>5. ASSUME top.fn \notin misuse', NEW b \in Blocks \ {top.fn}
        PROVE  IF \/ b = frames[n].block
                  \/ \E k \in (n + 1)..Len(frames) : b \in Awaits(frames[k])
               THEN Sealed(code'[b]) ELSE code'[b] = code[b]
    <3>1. (\E k \in (n + 1)..N : b \in Awaits(frames[k])) <=> b = top.cond \/ b = top.block
      <4>1. N \in (n + 1)..N /\ \A k \in (n + 1)..N : k = N
        BY <1>5
      <4>2. Awaits(frames[N]) = {top.cond, top.block}
        BY <1>1 DEF Awaits
      <4>3. QED  BY <4>1, <4>2
    <3>2. frames[n].block = caller.block /\ N = Len(frames) /\ top.fn \notin misuse
      BY <1>2, <1>3, <1>5, <2>5
    <3>3. QED  BY <1>3, <1>6, <1>7, <1>8, <3>1, <3>2
  <2>6. frames[n + 1].kind \notin {"func", "else"} /\ \A k \in n..Len(frames) : frames[k].fn = top.fn
    <3>1. \A k \in n..N : k = n \/ k = N
      BY <1>5
    <3>2. QED  BY <1>1, <1>3, <1>5, <3>1
  <2>7. QED  BY <1>10, <2>1, <2>2, <2>3, <2>4, <2>5, <2>6 DEF EndShape
<1>13. IInv'
  <2>1. 1 \in {1, 2} /\ n \in Nat
    BY <1>5
  <2>2. QED  BY <1>1, <1>12, <2>1, EndStep
<1>14. OthersKept
  <2>1. \A b \in Blocks : owner'[b] = owner[b] /\ (owner[b] # top.fn => code'[b] = code[b])
    BY <1>1, <1>6, <1>7, <1>8, <1>9, TopLemma
  <2>2. QED  BY <1>1, <2>1, KeptLemma
<1>15. QED  BY <1>11, <1>13, <1>14 DEF Inv

\* EndLoop preserves the invariant: the branch back leaves the first block of
\* the body, which is where the body ended unless the loop is misused.
LEMMA EndLoopStep ==
    ASSUME Inv, EndLoop
    PROVE  Inv' /\ OthersKept
<1> DEFINE N == Len(frames)
           n == N - 1
           endb == Len(code) + 1
           back == Instr("br", <<top.first>>, Len(src) + 1)
           enter == Instr("br", <<top.first>>, top.tok)
           looped == Emit(code, top.first, back)
           entered == Emit(looped, caller.block, enter)
<1>1. /\ InBody /\ TypeOK /\ code \in Seq(Seq(InstrType)) /\ owner \in Seq(Nat)
      /\ Blocks = 1..Len(code) /\ Len(code) \in Nat /\ Len(owner) = Len(code)
      /\ N \in Nat \ {0} /\ N \in Calls /\ top = frames[N] /\ top.kind = "loop"
      /\ Len(src) + 1 \in Nat /\ top.tok \in Nat /\ top.first \in Nat /\ top.fn \in Nat
      /\ misuse \subseteq Nat
  BY TopLemma DEF EndLoop, BodyComplete, Inv, TypeOK, Blocks
<1>2. /\ code' = NewBlock(entered)
      /\ PopInto(1, endb) /\ owner' = Append(owner, top.fn)
      /\ misuse' = (IF top.straight THEN misuse ELSE misuse \cup {top.fn})
      /\ misuse \subseteq misuse' /\ misuse' \subseteq Nat /\ src' \in Seq(Tokens)
  BY <1>1, ReadLemma DEF EndLoop, Tokens
<1>3. /\ n \in Calls /\ caller = frames[n] /\ frames[n].fn = top.fn
      /\ top.fn \notin misuse => Clean(code[caller.block])
  BY <1>1, CallerLemma DEF caller
<1>5. /\ n \in Calls /\ n \in Nat \ {0} /\ N = n + 1 /\ n # N
      /\ N = Len(frames) /\ N > 1
  <2>1. N \in Nat /\ n \in 1..N /\ n \in Calls /\ N = Len(frames)
    BY <1>1, <1>3 DEF Calls
  <2> HIDE DEF N
  <2>2. QED  BY <2>1
<1> HIDE DEF N, n
<1>6. top.fn \notin misuse' =>
          top.fn \notin misuse /\ top.first = top.block /\ Clean(code[top.block])
  <2>1. FramesHistory!(N) /\ AwaitedClean!(N)
    BY <1>1 DEF Inv, IInv, FramesHistory, AwaitedClean
  <2>2. QED  BY <1>1, <1>2, <2>1
<1>7. /\ caller.block \in Blocks /\ owner[caller.block] = top.fn /\ caller.block # top.fn
      /\ top.first \in Blocks /\ owner[top.first] = top.fn /\ top.first # top.fn
      /\ caller.block # top.block
  BY <1>1, <1>3, <1>5, BlockLemma, DistinctLemma
<1>8. /\ code' \in Seq(Seq(InstrType)) /\ Len(code') = Len(code) + 1
      /\ Clean(code'[Len(code) + 1])
      /\ \A a \in Blocks : a \notin {caller.block, top.first} => code'[a] = code[a]
      /\ caller.block # top.first =>
            \A a \in {caller.block, top.first} : Clean(code[a]) => Sealed(code'[a])
  <2>1. back \in InstrType /\ enter \in InstrType /\ IsTerm(back) /\ IsTerm(enter)
    BY <1>1, InstrLemma DEF Terminators
  <2> HIDE DEF back, enter
  <2>2. /\ looped \in Seq(Seq(InstrType)) /\ Len(looped) = Len(code)
        /\ \A a \in Blocks : a # top.first => looped[a] = code[a]
        /\ Clean(code[top.first]) => Sealed(looped[top.first])
    BY <1>1, <1>7, <2>1, EmitLemma
  <2> HIDE DEF looped
  <2>3. caller.block \in 1..Len(looped) /\ Blocks = 1..Len(looped)
    BY <1>1, <1>7, <2>2
  <2>4. /\ entered \in Seq(Seq(InstrType)) /\ Len(entered) = Len(code)
        /\ \A a \in Blocks : a # caller.block => entered[a] = looped[a]
        /\ Clean(looped[caller.block]) => Sealed(entered[caller.block])
    BY <2>1, <2>2, <2>3, EmitLemma
  <2> HIDE DEF entered
  <2>5. /\ code' \in Seq(Seq(InstrType)) /\ Len(code') = Len(code) + 1
        /\ Clean(code'[Len(code) + 1])
        /\ \A a \in Blocks : code'[a] = entered[a]
    BY <1>1, <1>2, <2>4, NewBlockLemma
  <2>6. QED  BY <1>7, <2>2, <2>4, <2>5
<1>9. /\ owner' \in Seq(Nat) /\ Len(owner') = Len(code) + 1
      /\ owner'[Len(code) + 1] = top.fn /\ \A b \in Blocks : owner'[b] = owner[b]
  BY <1>1, <1>2
<1>10. /\ frames' \in Seq(FrameType) /\ Len(frames') = n
       /\ \A k \in 1..n :
            /\ frames'[k].kind = frames[k].kind
            /\ frames'[k].fn = frames[k].fn
            /\ frames'[k].block = IF k = n THEN Len(code) + 1 ELSE frames[k].block
            /\ frames'[k].first = frames[k].first
            /\ frames'[k].cond = frames[k].cond
            /\ frames'[k].returned = frames[k].returned
            /\ frames'[k].straight = frames[k].straight
  <2>1. PopInto(1, endb) /\ endb \in Nat /\ Len(frames) > 1 /\ 1 \in {1, 2}
    BY <1>1, <1>2, <1>5
  <2>2. /\ frames' \in Seq(FrameType)
        /\ Len(frames') = Len(frames) - 1
        /\ \A k \in 1..(Len(frames) - 1) :
                /\ frames'[k].kind = frames[k].kind
                /\ frames'[k].fn = frames[k].fn
                /\ frames'[k].block = IF k = Len(frames) - 1 THEN endb ELSE frames[k].block
                /\ frames'[k].first = frames[k].first
                /\ frames'[k].cond = frames[k].cond
                /\ frames'[k].returned = frames[k].returned
                /\ frames'[k].straight = frames[k].straight
    BY <2>1, PopLemma
  <2>3. Len(frames) - 1 = n
    BY <1>5
  <2>4. QED  BY <2>2, <2>3
<1>11. TypeOK'
  BY <1>1, <1>2, <1>8, <1>9, <1>10 DEF TypeOK
<1>12. EndShape(n, 1)
  <2>1. /\ n \in 1..(Len(frames) - 1) /\ Len(code') = Len(code) + 1
        /\ \A b \in Blocks : owner'[b] = owner[b]
        /\ Clean(code'[Len(code) + 1])
        /\ misuse \subseteq misuse'
    <3>1. n \in 1..(N - 1) /\ N = Len(frames)
      BY <1>5
    <3>2. QED  BY <1>2, <1>8, <1>9, <3>1
  <2>2. \A b \in (Len(code) + 1)..(Len(code) + 1) : owner'[b] = top.fn
    BY <1>1, <1>9
  <2>3. \A b \in Blocks : owner[b] # top.fn => code'[b] = code[b]
    BY <1>7, <1>8
  <2>4. code'[top.fn] = code[top.fn]
    BY <1>1, <1>7, <1>8, TopLemma
  <2>5. ASSUME top.fn \notin misuse', NEW b \in Blocks \ {top.fn}
        PROVE  IF \/ b = frames[n].block
                  \/ \E k \in (n + 1)..Len(frames) : b \in Awaits(frames[k])
               THEN Sealed(code'[b]) ELSE code'[b] = code[b]
    <3>1. (\E k \in (n + 1)..N : b \in Awaits(frames[k])) <=> b = top.block
      <4>1. N \in (n + 1)..N /\ \A k \in (n + 1)..N : k = N
        BY <1>5
      <4>2. Awaits(frames[N]) = {top.block}
        BY <1>1 DEF Awaits
      <4>3. QED  BY <4>1, <4>2
    <3>2. frames[n].block = caller.block /\ N = Len(frames)
      BY <1>3, <1>5
    <3>3. QED  BY <1>3, <1>6, <1>7, <1>8, <2>5, <3>1, <3>2
  <2>6. frames[n + 1].kind \notin {"func", "else"} /\ \A k \in n..Len(frames) : frames[k].fn = top.fn
    <3>1. \A k \in n..N : k = n \/ k = N
      BY <1>5
    <3>2. QED  BY <1>1, <1>3, <1>5, <3>1
  <2>7. QED  BY <1>10, <2>1, <2>2, <2>3, <2>4, <2>5, <2>6 DEF EndShape
<1>13. IInv'
  <2>1. 1 \in {1, 2} /\ n \in Nat
    BY <1>5
  <2>2. QED  BY <1>1, <1>12, <2>1, EndStep
<1>14. OthersKept
  <2>1. \A b \in Blocks : owner'[b] = owner[b] /\ (owner[b] # top.fn => code'[b] = code[b])
    BY <1>1, <1>7, <1>8, <1>9, TopLemma
  <2>2. QED  BY <1>1, <2>1, KeptLemma
<1>15. QED  BY <1>11, <1>13, <1>14 DEF Inv

\* EndFunction preserves the invariant: no other call is in this function, and
\* the two blocks its call awaited are sealed.
LEMMA EndFunctionStep ==
    ASSUME Inv, EndFunction
    PROVE  Inv' /\ OthersKept
<1> DEFINE N == Len(frames)
           n == N - 1
           ret == Instr("ret", <<>>, Len(src) + 1)
           br == Instr("br", <<top.first>>, top.tok)
           returned == EmitUnlessTerminated(code, top.block, ret)
<1>1. /\ InBody /\ TypeOK /\ code \in Seq(Seq(InstrType)) /\ frames \in Seq(FrameType)
      /\ Blocks = 1..Len(code) /\ Len(code) \in Nat
      /\ N \in Nat \ {0} /\ N \in Calls /\ top = frames[N] /\ top.kind = "func"
      /\ Len(src) + 1 \in Nat /\ top.tok \in Nat /\ top.first \in Nat
      /\ top.fn \in Blocks /\ top.block \in Blocks /\ top.fn # top.block
      /\ owner[top.fn] = top.fn /\ owner[top.block] = top.fn
  BY TopLemma DEF EndFunction, BodyComplete, Inv, TypeOK, Blocks
<1>2. /\ code' = Emit(returned, top.fn, br) /\ frames' = SubSeq(frames, 1, n)
      /\ owner' = owner /\ misuse' = misuse /\ src' \in Seq(Tokens)
  BY ReadLemma DEF EndFunction, Tokens
<1>3. /\ n \in Nat /\ 1..n \subseteq Calls /\ N \notin 1..n
      /\ \A k \in Calls : k \in 1..n \/ k = N
      /\ frames' \in Seq(FrameType) /\ Len(frames') = n
      /\ \A k \in 1..n : frames'[k] = frames[k]
  <2>1. N \in Nat \ {0} /\ N = Len(frames) /\ frames \in Seq(FrameType)
    BY <1>1
  <2>2. n \in Nat /\ 1..n \subseteq Calls /\ N \notin 1..n /\ \A k \in Calls : k \in 1..n \/ k = N
    BY <2>1 DEF Calls
  <2>3. /\ SubSeq(frames, 1, n) \in Seq(FrameType) /\ Len(SubSeq(frames, 1, n)) = n
        /\ \A k \in 1..n : SubSeq(frames, 1, n)[k] = frames[k]
    BY <2>1, SubSeqProperties
  <2>4. QED  BY <1>2, <2>2, <2>3
<1> HIDE DEF N, n
<1>4. \A k \in 1..n : frames[k].fn # top.fn
  <2>1. FramesLinked!(N)
    BY <1>1 DEF Inv, IInv, FramesLinked
  <2>2. 1..n = 1..(N - 1)
    BY DEF n
  <2>3. QED  BY <1>1, <2>1, <2>2
<1>5. /\ code' \in Seq(Seq(InstrType)) /\ Len(code') = Len(code)
      /\ \A b \in Blocks \ {top.fn, top.block} : code'[b] = code[b]
      /\ Sealed(code'[top.fn])
      /\ top.fn \notin misuse => Sealed(code'[top.block])
  <2>1. ret \in InstrType /\ br \in InstrType /\ IsTerm(ret) /\ IsTerm(br)
    BY <1>1, InstrLemma DEF Terminators
  <2> HIDE DEF ret, br
  <2>2. /\ Clean(code[top.fn])
        /\ top.fn \notin misuse => Clean(code[top.block]) \/ Sealed(code[top.block])
    BY <1>1, BlockLemma DEF Inv, IInv, AwaitedClean
  <2>3. /\ returned \in Seq(Seq(InstrType)) /\ Len(returned) = Len(code)
        /\ \A a \in Blocks : a # top.block => returned[a] = code[a]
        /\ Clean(code[top.block]) \/ Sealed(code[top.block]) => Sealed(returned[top.block])
    BY <1>1, <2>1, EmitUnlessLemma
  <2> HIDE DEF returned
  <2>4. /\ code' \in Seq(Seq(InstrType)) /\ Len(code') = Len(returned)
        /\ \A a \in Blocks : a # top.fn => code'[a] = returned[a]
        /\ Clean(returned[top.fn]) => Sealed(code'[top.fn])
    <3>1. top.fn \in 1..Len(returned) /\ Blocks = 1..Len(returned)
      BY <1>1, <2>3
    <3>2. QED  BY <1>2, <2>1, <2>3, <3>1, EmitLemma
  <2>5. QED  BY <1>1, <2>2, <2>3, <2>4
<1>6. TypeOK'
  BY <1>1, <1>2, <1>3, <1>5 DEF TypeOK
<1>7. Blocks' = Blocks /\ Calls' = 1..n
  BY <1>3, <1>5 DEF Blocks, Calls
<1>8. \A k \in 1..n : FramesLinked!(k) /\ FramesHistory!(k) /\ AwaitedClean!(k) /\ k \in Calls
  BY <1>3 DEF Inv, IInv, FramesLinked, FramesHistory, AwaitedClean
<1>9. \A k \in 1..n : (k > 1 => k - 1 \in 1..n) /\ \A j \in 1..(k - 1) : j \in 1..n
  BY <1>3
<1>10. FramesLinked'
  <2> SUFFICES ASSUME NEW k \in 1..n
               PROVE  FramesLinked!(k)'
    BY <1>7 DEF FramesLinked
  <2>1. /\ frames'[k] = frames[k] /\ (k > 1 => frames'[k - 1] = frames[k - 1])
        /\ \A j \in 1..(k - 1) : frames'[j] = frames[j]
    BY <1>3, <1>9
  <2>2. FramesLinked!(k)
    BY <1>8
  <2>3. QED  BY <1>2, <1>7, <2>1, <2>2
<1>11. AwaitedOnce'
  <2>1. \A j, k \in 1..n : j # k => Awaits(frames[j]) \cap Awaits(frames[k]) = {}
    BY <1>8 DEF Inv, IInv, AwaitedOnce
  <2>2. \A k \in 1..n : Awaits(frames'[k]) = Awaits(frames[k])
    BY <1>3
  <2>3. QED  BY <1>7, <2>1, <2>2 DEF AwaitedOnce, Awaits
<1>12. FramesHistory'
  <2> SUFFICES ASSUME NEW k \in 1..n
               PROVE  FramesHistory!(k)'
    BY <1>7 DEF FramesHistory
  <2>1. FramesHistory!(k) /\ FramesLinked!(k)
    BY <1>8
  <2>2. frames'[k] = frames[k] /\ (k > 1 => frames'[k - 1] = frames[k - 1])
    BY <1>3, <1>9
  <2>3. QED  BY <1>2, <2>1, <2>2
<1>13. AwaitedClean'
  <2> SUFFICES ASSUME NEW k \in 1..n
               PROVE  AwaitedClean!(k)'
    BY <1>7 DEF AwaitedClean
  <2>1. FramesLinked!(k) /\ AwaitedClean!(k) /\ frames'[k] = frames[k]
    BY <1>3, <1>8
  <2>2. \A b \in Blocks : owner[b] = frames[k].fn => code'[b] = code[b]
    BY <1>1, <1>4, <1>5
  <2>3. QED  BY <1>2, <2>1, <2>2
<1>14. UnsealedAwaited'
  <2> SUFFICES ASSUME NEW b \in Blocks, owner[b] \notin misuse
               PROVE  \/ Sealed(code'[b])
                      \/ Clean(code'[b]) /\ \E k \in 1..n : b \in Awaits(frames[k])
    BY <1>2, <1>3, <1>7 DEF UnsealedAwaited
  <2>1. \/ Sealed(code[b])
        \/ Clean(code[b]) /\ \E k \in Calls : b \in Awaits(frames[k])
    BY DEF Inv, IInv, UnsealedAwaited
  <2>2. \A k \in Calls : b \in Awaits(frames[k]) => owner[b] = frames[k].fn
    BY AwaitsLemma
  <2>3. CASE b \in {top.fn, top.block}
    BY <1>1, <1>5, <2>3
  <2>4. CASE b \notin {top.fn, top.block}
    <3>1. b \notin Awaits(frames[N])
      BY <1>1, <2>4 DEF Awaits
    <3>2. QED  BY <1>3, <1>5, <2>1, <2>4, <3>1
  <2>5. QED  BY <2>3, <2>4
<1>15. OthersKept
  <2>1. \A b \in Blocks : owner'[b] = owner[b] /\ (owner[b] # top.fn => code'[b] = code[b])
    BY <1>1, <1>2, <1>5, TopLemma
  <2>2. QED  BY <1>1, <2>1, KeptLemma
<1>16. QED  BY <1>6, <1>10, <1>11, <1>12, <1>13, <1>14, <1>15 DEF Inv, IInv

\* BeginFunction preserves the invariant: both blocks of the function are new,
\* and no call refers to them but its own.
LEMMA BeginFunctionStep ==
    ASSUME Inv, BeginFunction
    PROVE  Inv' /\ OthersKept
<1> DEFINE N == Len(frames)
           falloc == Len(code) + 1
           fblock == Len(code) + 2
           f == Frame("func", falloc, fblock, 0)
           alloca == Instr("alloca", <<>>, Len(src) + 1)
           inst == Instr("inst", <<>>, Len(src) + 1)
<1>1. /\ TypeOK /\ code \in Seq(Seq(InstrType)) /\ frames \in Seq(FrameType)
      /\ owner \in Seq(Nat) /\ Len(owner) = Len(code) /\ misuse \subseteq Nat
      /\ Blocks = 1..Len(code) /\ Len(code) \in Nat /\ N \in Nat /\ Calls = 1..N
      /\ Len(src) + 1 \in Nat
  BY LenProperties DEF Inv, TypeOK, Blocks, Calls
<1>2. /\ code' = code \o << <<alloca>>, <<inst>> >> \/ code' = code \o << <<>>, <<>> >>
      /\ owner' = owner \o <<falloc, falloc>> /\ frames' = Append(frames, f)
      /\ misuse' = misuse /\ src' \in Seq(Tokens)
  <2>1. src' \in Seq(Tokens)
    BY ReadLemma DEF BeginFunction, Tokens, Opening
  <2>2. QED  BY <2>1 DEF BeginFunction
<1>3. /\ code' \in Seq(Seq(InstrType)) /\ Len(code') = Len(code) + 2
      /\ Clean(code'[falloc]) /\ Clean(code'[fblock])
      /\ \A b \in Blocks : code'[b] = code[b]
  <2>1. alloca \in InstrType /\ inst \in InstrType /\ ~ IsTerm(alloca) /\ ~ IsTerm(inst)
    BY <1>1, InstrLemma DEF Terminators
  <2> HIDE DEF alloca, inst
  <2>2. <<alloca>> \in Seq(InstrType) /\ <<inst>> \in Seq(InstrType) /\ <<>> \in Seq(InstrType)
        /\ Clean(<<alloca>>) /\ Clean(<<inst>>) /\ Clean(<<>>)
    BY <2>1 DEF Clean
  <2>3. CASE code' = code \o << <<alloca>>, <<inst>> >>
    <3>1. /\ code' \in Seq(Seq(InstrType)) /\ Len(code') = Len(code) + 2
          /\ code'[Len(code) + 1] = <<alloca>> /\ code'[Len(code) + 2] = <<inst>>
          /\ \A b \in Blocks : code'[b] = code[b]
      BY <1>1, <2>2, <2>3
    <3>2. QED  BY <2>2, <3>1
  <2>4. CASE code' = code \o << <<>>, <<>> >>
    <3>1. /\ code' \in Seq(Seq(InstrType)) /\ Len(code') = Len(code) + 2
          /\ code'[Len(code) + 1] = <<>> /\ code'[Len(code) + 2] = <<>>
          /\ \A b \in Blocks : code'[b] = code[b]
      BY <1>1, <2>2, <2>4
    <3>2. QED  BY <2>2, <3>1
  <2>5. QED  BY <1>2, <2>3, <2>4
<1>4. /\ f \in FrameType /\ f.kind = "func" /\ f.fn = falloc /\ f.block = fblock
      /\ f.first = fblock /\ ~ f.returned
  <2>1. "func" \in Kinds /\ falloc \in Nat /\ fblock \in Nat /\ 0 \in Nat
    BY <1>1 DEF Kinds
  <2> HIDE DEF falloc, fblock
  <2>2. QED  BY <2>1, FrameLemma
<1> HIDE DEF f, N
<1>5. /\ owner' \in Seq(Nat) /\ Len(owner') = Len(code) + 2
      /\ owner'[falloc] = falloc /\ owner'[fblock] = falloc
      /\ \A b \in Blocks : owner'[b] = owner[b]
  <2>1. owner \in Seq(Nat) /\ falloc \in Nat /\ Len(owner) = Len(code)
        /\ Blocks = 1..Len(owner)
    BY <1>1
  <2>2. owner' = AppendTwo(owner, falloc, falloc)
    BY <1>2 DEF AppendTwo
  <2>3. /\ owner' \in Seq(Nat) /\ Len(owner') = Len(owner) + 2
        /\ \A i \in 1..Len(owner) : owner'[i] = owner[i]
        /\ owner'[Len(owner) + 1] = falloc /\ owner'[Len(owner) + 2] = falloc
    <3> HIDE DEF falloc
    <3>1. QED  BY <2>1, <2>2, AppendTwoLemma
  <2>4. QED  BY <2>1, <2>3
<1>6. /\ frames' \in Seq(FrameType) /\ Len(frames') = N + 1
      /\ frames'[N + 1] = f /\ \A k \in Calls : frames'[k] = frames[k]
  BY <1>1, <1>2, <1>4, AppendProperties DEF N
<1>7. TypeOK'
  BY <1>1, <1>2, <1>3, <1>5, <1>6 DEF TypeOK
<1>8. /\ Calls' = 1..(N + 1) /\ (\A k \in 1..(N + 1) : k \in Calls \/ k = N + 1)
      /\ N + 1 \notin Calls /\ \A k \in Calls : k \in 1..(N + 1)
  BY <1>1, <1>6 DEF Calls
<1>9. /\ \A b \in Blocks' : b \in Blocks \/ b = falloc \/ b = fblock
      /\ falloc \in Blocks' /\ fblock \in Blocks' /\ falloc # fblock
      /\ falloc \notin Blocks /\ fblock \notin Blocks /\ \A b \in Blocks : b \in Blocks'
  <2>1. Blocks = 1..Len(code) /\ Len(code) \in Nat /\ Len(code') = Len(code) + 2
    BY <1>1, <1>3
  <2>2. Blocks' = 1..(Len(code) + 2)
    BY <2>1 DEF Blocks
  <2>3. QED  BY <2>1, <2>2
<1> HIDE DEF falloc, fblock
<1>10. \A k \in Calls : FramesLinked!(k) /\ FramesHistory!(k) /\ AwaitedClean!(k)
  BY DEF Inv, IInv, FramesLinked, FramesHistory, AwaitedClean
<1>11. \A k \in 1..(N + 1) : \A j \in 1..(k - 1) : j \in Calls
  BY <1>1
<1>12. \A k \in Calls : k > 1 => k - 1 \in Calls
  BY <1>1
<1>13. FramesLinked'
  <2> SUFFICES ASSUME NEW k \in 1..(N + 1)
               PROVE  FramesLinked!(k)'
    BY <1>8 DEF FramesLinked
  <2>1. CASE k \in Calls
    <3>1. /\ frames'[k] = frames[k] /\ (k > 1 => frames'[k - 1] = frames[k - 1])
          /\ \A j \in 1..(k - 1) : frames'[j] = frames[j]
      BY <1>6, <1>11, <1>12, <2>1
    <3>2. FramesLinked!(k)
      BY <1>10, <2>1
    <3>3. QED  BY <1>5, <1>9, <3>1, <3>2
  <2>2. CASE k = N + 1
    <3>1. \A j \in 1..(k - 1) : frames'[j].fn \in Blocks
      BY <1>6, <1>10, <1>11
    <3>2. frames'[k] = f
      BY <1>6, <2>2
    <3>3. QED  BY <1>4, <1>5, <1>9, <3>1, <3>2
  <2>3. QED  BY <1>8, <2>1, <2>2
<1>14. AwaitedOnce'
  <2> SUFFICES ASSUME NEW j \in 1..(N + 1), NEW k \in 1..(N + 1), j # k
               PROVE  Awaits(frames'[j]) \cap Awaits(frames'[k]) = {}
    BY <1>8 DEF AwaitedOnce, Awaits
  <2>1. \A i \in Calls : frames'[i] = frames[i] /\ Awaits(frames[i]) \subseteq Blocks
    BY <1>6, AwaitsLemma
  <2>2. frames'[N + 1] = f /\ Awaits(f) \cap Blocks = {}
    BY <1>4, <1>6, <1>9 DEF Awaits
  <2>3. CASE j \in Calls /\ k \in Calls
    BY <2>1, <2>3 DEF Inv, IInv, AwaitedOnce
  <2>4. CASE j = N + 1 /\ k \in Calls
    BY <2>1, <2>2, <2>4
  <2>5. CASE k = N + 1 /\ j \in Calls
    BY <2>1, <2>2, <2>5
  <2>6. QED  BY <1>8, <2>3, <2>4, <2>5
<1>15. FramesHistory'
  <2> SUFFICES ASSUME NEW k \in 1..(N + 1)
               PROVE  FramesHistory!(k)'
    BY <1>8 DEF FramesHistory
  <2>1. CASE k \in Calls
    <3>1. FramesHistory!(k) /\ FramesLinked!(k)
      BY <1>10, <2>1
    <3>2. frames'[k] = frames[k] /\ (k > 1 => frames'[k - 1] = frames[k - 1])
      BY <1>6, <1>12, <2>1
    <3>3. QED  BY <1>2, <3>1, <3>2
  <2>2. CASE k = N + 1
    BY <1>4, <1>6, <2>2
  <2>3. QED  BY <1>8, <2>1, <2>2
<1>16. AwaitedClean'
  <2> SUFFICES ASSUME NEW k \in 1..(N + 1)
               PROVE  AwaitedClean!(k)'
    BY <1>8 DEF AwaitedClean
  <2>1. CASE k \in Calls
    <3>1. AwaitedClean!(k) /\ FramesLinked!(k) /\ frames'[k] = frames[k]
      BY <1>6, <1>10, <2>1
    <3>2. QED  BY <1>2, <1>3, <3>1
  <2>2. CASE k = N + 1
    BY <1>3, <1>4, <1>6, <2>2
  <2>3. QED  BY <1>8, <2>1, <2>2
<1>17. UnsealedAwaited'
  <2> SUFFICES ASSUME NEW b \in Blocks', owner'[b] \notin misuse
               PROVE  \/ Sealed(code'[b])
                      \/ Clean(code'[b]) /\ \E k \in 1..(N + 1) : b \in Awaits(frames'[k])
    BY <1>2, <1>8 DEF UnsealedAwaited
  <2>1. CASE b \in Blocks
    <3>1. \/ Sealed(code[b])
          \/ Clean(code[b]) /\ \E k \in Calls : b \in Awaits(frames[k])
      BY <1>5, <2>1 DEF Inv, IInv, UnsealedAwaited
    <3>2. QED  BY <1>3, <1>6, <1>8, <2>1, <3>1
  <2>2. CASE b = falloc \/ b = fblock
    <3>1. N + 1 \in 1..(N + 1) /\ frames'[N + 1] = f
      BY <1>1, <1>6
    <3>2. b \in Awaits(f) /\ Clean(code'[b])
      BY <1>3, <1>4, <2>2 DEF Awaits
    <3>3. QED  BY <3>1, <3>2
  <2>3. QED  BY <1>9, <2>1, <2>2
<1>18. OthersKept
  BY <1>3, <1>5 DEF OthersKept
<1>19. QED  BY <1>7, <1>13, <1>14, <1>15, <1>16, <1>17, <1>18 DEF Inv, IInv

-----------------------------------------------------------------------------
(* The theorems. *)

\* Before anything is generated there are no blocks and no calls.
LEMMA InitInv == Init => Inv
<1> SUFFICES ASSUME Init  PROVE Inv
  OBVIOUS
<1>1. TypeOK
  BY DEF Init, TypeOK
<1>2. Blocks = {} /\ Calls = {}
  BY DEF Init, Blocks, Calls
<1>3. IInv
  BY <1>2 DEF IInv, FramesLinked, AwaitedOnce, FramesHistory, AwaitedClean, UnsealedAwaited
<1>4. QED  BY <1>1, <1>3 DEF Inv

\* Every action preserves the invariant and the functions that are finished, and
\* so does a step that changes nothing.
LEMMA NextInv == Inv /\ [Next]_vars => Inv' /\ OthersKept
<1> SUFFICES ASSUME Inv, [Next]_vars  PROVE Inv' /\ OthersKept
  OBVIOUS
<1>1. CASE BeginFunction      BY <1>1, BeginFunctionStep
<1>2. CASE EndFunction        BY <1>2, EndFunctionStep
<1>3. CASE Statement          BY <1>3, StatementStep
<1>4. CASE Return             BY <1>4, ReturnStep
<1>5. CASE BeginIf            BY <1>5, BeginIfStep
<1>6. CASE BeginElse          BY <1>6, BeginElseStep
<1>7. CASE EndIfWithoutElse   BY <1>7, EndIfWithoutElseStep
<1>8. CASE EndIfWithElse      BY <1>8, EndIfWithElseStep
<1>9. CASE BeginWhile         BY <1>9, BeginWhileStep
<1>10. CASE EndWhile          BY <1>10, EndWhileStep
<1>11. CASE BeginLoop         BY <1>11, BeginLoopStep
<1>12. CASE EndLoop           BY <1>12, EndLoopStep
<1>13. CASE UNCHANGED vars
  <2>1. /\ src' = src /\ code' = code /\ owner' = owner
        /\ frames' = frames /\ misuse' = misuse
    BY <1>13 DEF vars
  <2>2. Blocks' = Blocks /\ Calls' = Calls
    BY <2>1 DEF Blocks, Calls
  <2>3. TypeOK'
    BY <2>1 DEF Inv, TypeOK
  <2>4. FramesLinked' /\ AwaitedOnce' /\ FramesHistory' /\ AwaitedClean' /\ UnsealedAwaited'
    BY <2>1, <2>2
       DEF Inv, IInv, FramesLinked, AwaitedOnce, FramesHistory, AwaitedClean, UnsealedAwaited
  <2>5. OthersKept
    BY <2>1 DEF OthersKept
  <2>6. QED  BY <2>3, <2>4, <2>5 DEF Inv, IInv
<1>14. QED
  BY <1>1, <1>2, <1>3, <1>4, <1>5, <1>6, <1>7, <1>8, <1>9, <1>10, <1>11, <1>12, <1>13 DEF Next

\* The inductive invariant holds together with type correctness in every state.
LEMMA Invariance == Spec => []Inv
BY InitInv, NextInv, PTL DEF Spec

\* While any program is generated, a block without its terminator is awaited by
\* exactly one generate() call, which will give it one.
THEOREM Inductive == Spec => []IInv
<1>1. Inv => IInv
  BY DEF Inv
<1>2. QED  BY <1>1, Invariance, PTL

\* Type correctness: however large the program, blocks and calls keep their shape.
THEOREM TypeCorrect == Spec => []TypeOK
<1>1. Inv => TypeOK
  BY DEF Inv
<1>2. QED  BY <1>1, Invariance, PTL

\* Every block of a function whose FunctionDecl::generate is done ends in its
\* only terminator, whatever the size and the nesting of the program, as long
\* as the function's own source has nothing after a return and no branch or
\* return in a loop.
THEOREM WellFormed == Spec => []FinishedWellFormed
<1>1. Inv => FinishedWellFormed
  <2> SUFFICES ASSUME Inv, NEW b \in Blocks, Finished(b), owner[b] \notin misuse
               PROVE  Sealed(code[b])
    BY DEF FinishedWellFormed
  <2>1. Sealed(code[b]) \/ \E k \in Calls : b \in Awaits(frames[k])
    BY DEF Inv, IInv, UnsealedAwaited
  <2>2. \A k \in Calls : b \notin Awaits(frames[k])
    BY AwaitsLemma DEF Finished
  <2>3. QED  BY <2>1, <2>2
<1>2. QED  BY <1>1, Invariance, PTL

\* What is generated after a function never changes the code of that function,
\* also when the function was declared inside a body that is still open.
THEOREM Frozen == Spec => FinishedIsFrozen
<1>1. Inv /\ [Next]_vars => [OthersKept]_vars
  BY NextInv
<1>2. Spec => [][OthersKept]_vars
  BY <1>1, Invariance, PTL DEF Spec
<1>3. QED  BY <1>2 DEF OthersKept, FinishedIsFrozen

-----------------------------------------------------------------------------
(* Where instructions are placed. *)

\* The successors an instruction has.
Arity(op) == IF op = "br" THEN 1 ELSE IF op = "cbr" THEN 2 ELSE 0

\* The successors of an instruction are blocks of the function, not its entry.
Targets(i, o, fn) ==
    /\ Len(i.to) = Arity(i.op)
    /\ \A j \in 1..Len(i.to) : i.to[j] \in 1..Len(o) /\ o[i.to[j]] = fn /\ i.to[j] # fn

\* Block b, with instructions c, under the owners o.
Placed(c, b, o) ==
    \A i \in 1..Len(c) :
        /\ Targets(c[i], o, o[b])
        /\ c[i].op = "alloca" => o[b] = b /\ \A j \in 1..i : ~ IsTerm(c[j])

Stage(cs, o) ==
    /\ cs \in Seq(Seq(InstrType)) /\ Len(cs) <= Len(o)
    /\ \A b \in 1..Len(cs) : Placed(cs[b], b, o)

PlacedInv == Stage(code, owner)

-----------------------------------------------------------------------------
(* What an emit keeps. *)

\* An instruction that is well placed keeps its block so.
LEMMA AppendPlaced ==
    ASSUME NEW o, NEW b, NEW c \in Seq(InstrType), NEW i \in InstrType,
           Placed(c, b, o), Targets(i, o, o[b]),
           i.op = "alloca" => o[b] = b /\ Clean(c)
    PROVE  Placed(Append(c, i), b, o)
<1> DEFINE d == Append(c, i)
<1>1. /\ Len(c) \in Nat /\ Len(d) = Len(c) + 1 /\ d[Len(c) + 1] = i
      /\ \A j \in 1..Len(c) : d[j] = c[j]
  OBVIOUS
<1> HIDE DEF d
<1>2. ASSUME NEW k \in 1..Len(c)
      PROVE  /\ Targets(d[k], o, o[b])
             /\ d[k].op = "alloca" => o[b] = b /\ \A j \in 1..k : ~ IsTerm(d[j])
  BY <1>1 DEF Placed
<1>3. i.op = "alloca" => ~ IsTerm(i)
  BY DEF IsTerm, Terminators
<1>4. i.op = "alloca" => \A j \in 1..(Len(c) + 1) : ~ IsTerm(d[j])
  BY <1>1, <1>3 DEF Clean
<1>5. ASSUME NEW k \in 1..Len(d)
      PROVE  /\ Targets(d[k], o, o[b])
             /\ d[k].op = "alloca" => o[b] = b /\ \A j \in 1..k : ~ IsTerm(d[j])
  <2>1. k \in 1..Len(c) \/ k = Len(c) + 1
    BY <1>1
  <2>2. CASE k = Len(c) + 1
    BY <2>2, <1>1, <1>4
  <2> QED
    BY <2>1, <2>2, <1>2
<1> QED
  BY <1>5 DEF Placed, d

\* Emit keeps the blocks well placed.
LEMMA EmitStage ==
    ASSUME NEW o \in Seq(Nat), NEW cs, Stage(cs, o), NEW b \in 1..Len(cs),
           NEW i \in InstrType, Targets(i, o, o[b]),
           i.op = "alloca" => o[b] = b /\ Clean(cs[b])
    PROVE  Stage(Emit(cs, b, i), o) /\ Len(Emit(cs, b, i)) = Len(cs)
<1>1. cs \in Seq(Seq(InstrType)) /\ Placed(cs[b], b, o) /\ Len(cs) <= Len(o)
  BY DEF Stage
<1>2. cs[b] \in Seq(InstrType)
  BY <1>1, ElementOfSeq
<1>3. /\ Emit(cs, b, i) \in Seq(Seq(InstrType)) /\ Len(Emit(cs, b, i)) = Len(cs)
      /\ \A a \in 1..Len(cs) : a # b => Emit(cs, b, i)[a] = cs[a]
  BY <1>1, EmitLemma
<1>4. Emit(cs, b, i)[b] = Append(cs[b], i)
  BY <1>1 DEF Emit
<1>5. Placed(Append(cs[b], i), b, o)
  BY <1>1, <1>2, AppendPlaced
<1>6. ASSUME NEW a \in 1..Len(cs) PROVE Placed(Emit(cs, b, i)[a], a, o)
  <2>1. CASE a = b
    BY <2>1, <1>4, <1>5
  <2>2. CASE a # b
    BY <2>2, <1>3 DEF Stage
  <2> QED
    BY <2>1, <2>2
<1> QED
  BY <1>1, <1>3, <1>6 DEF Stage

\* A terminator is no alloca.
LEMMA BranchStage ==
    ASSUME NEW o \in Seq(Nat), NEW cs, Stage(cs, o), NEW b \in 1..Len(cs),
           NEW i \in InstrType, IsTerm(i), Targets(i, o, o[b])
    PROVE  /\ Stage(Emit(cs, b, i), o) /\ Len(Emit(cs, b, i)) = Len(cs)
           /\ Stage(EmitUnlessTerminated(cs, b, i), o)
           /\ Len(EmitUnlessTerminated(cs, b, i)) = Len(cs)
<1>1. i.op # "alloca"
  BY DEF IsTerm, Terminators
<1>2. Stage(Emit(cs, b, i), o) /\ Len(Emit(cs, b, i)) = Len(cs)
  BY <1>1, EmitStage
<1> QED
  BY <1>2 DEF EmitUnlessTerminated

\* A new block is well placed.
LEMMA NewBlockStage ==
    ASSUME NEW o \in Seq(Nat), NEW cs, Stage(cs, o), Len(cs) + 1 <= Len(o)
    PROVE  Stage(NewBlock(cs), o) /\ Len(NewBlock(cs)) = Len(cs) + 1
<1>1. cs \in Seq(Seq(InstrType)) /\ Len(cs) \in Nat
  BY DEF Stage
<1>2. /\ NewBlock(cs) \in Seq(Seq(InstrType)) /\ Len(NewBlock(cs)) = Len(cs) + 1
      /\ \A a \in 1..Len(cs) : NewBlock(cs)[a] = cs[a]
  BY <1>1, NewBlockLemma
<1>3. NewBlock(cs)[Len(cs) + 1] = <<>>
  BY <1>1 DEF NewBlock
<1>4. Placed(<<>>, Len(cs) + 1, o)
  BY DEF Placed
<1>5. ASSUME NEW a \in 1..(Len(cs) + 1) PROVE Placed(NewBlock(cs)[a], a, o)
  <2>1. CASE a = Len(cs) + 1
    BY <2>1, <1>3, <1>4
  <2>2. CASE a # Len(cs) + 1
    <3>1. a \in 1..Len(cs)
      BY <2>2, <1>1
    <3> QED
      BY <3>1, <1>2 DEF Stage
  <2> QED
    BY <2>1, <2>2
<1> QED
  BY <1>1, <1>2, <1>5 DEF Stage

\* A block of one instruction without successors.
LEMMA BlockWithStage ==
    ASSUME NEW o \in Seq(Nat), NEW cs, Stage(cs, o), Len(cs) + 1 <= Len(o),
           NEW i \in InstrType, i.to = <<>>, i.op \notin {"br", "cbr"},
           i.op = "alloca" => o[Len(cs) + 1] = Len(cs) + 1
    PROVE  /\ Stage(Append(cs, <<i>>), o) /\ Len(Append(cs, <<i>>)) = Len(cs) + 1
<1>1. cs \in Seq(Seq(InstrType)) /\ Len(cs) \in Nat
  BY DEF Stage
<1>2. /\ <<i>> \in Seq(InstrType) /\ Append(cs, <<i>>) \in Seq(Seq(InstrType))
      /\ Len(Append(cs, <<i>>)) = Len(cs) + 1
      /\ Append(cs, <<i>>)[Len(cs) + 1] = <<i>>
      /\ \A a \in 1..Len(cs) : Append(cs, <<i>>)[a] = cs[a]
  BY <1>1
<1>3. Placed(<<i>>, Len(cs) + 1, o)
  <2>1. Len(<<i>>) = 1 /\ <<i>>[1] = i
    OBVIOUS
  <2>2. Targets(i, o, o[Len(cs) + 1])
    BY DEF Targets, Arity
  <2>3. i.op = "alloca" => ~ IsTerm(i)
    BY DEF IsTerm, Terminators
  <2> QED
    BY <2>1, <2>2, <2>3 DEF Placed
<1>4. ASSUME NEW a \in 1..(Len(cs) + 1) PROVE Placed(Append(cs, <<i>>)[a], a, o)
  <2>1. CASE a = Len(cs) + 1
    BY <2>1, <1>2, <1>3
  <2>2. CASE a # Len(cs) + 1
    <3>1. a \in 1..Len(cs)
      BY <2>2, <1>1
    <3> QED
      BY <3>1, <1>2 DEF Stage
  <2> QED
    BY <2>1, <2>2
<1> QED
  BY <1>1, <1>2, <1>4 DEF Stage

\* More blocks, whose owners are known, change nothing for those there are.
LEMMA GrowStage ==
    ASSUME Inv, PlacedInv, NEW o \in Seq(Nat), Len(owner) <= Len(o),
           \A b \in 1..Len(owner) : o[b] = owner[b]
    PROVE  Stage(code, o)
<1>1. /\ code \in Seq(Seq(InstrType)) /\ owner \in Seq(Nat) /\ Len(owner) = Len(code)
      /\ Len(owner) \in Nat /\ Len(o) \in Nat
  BY DEF Inv, TypeOK
<1>2. ASSUME NEW b \in 1..Len(code), NEW i \in InstrType, Targets(i, owner, owner[b])
      PROVE  Targets(i, o, o[b])
  <2>1. o[b] = owner[b]
    BY <1>1
  <2>2. ASSUME NEW j \in 1..Len(i.to)
        PROVE  i.to[j] \in 1..Len(o) /\ o[i.to[j]] = o[b] /\ i.to[j] # o[b]
    <3>1. i.to[j] \in 1..Len(owner) /\ owner[i.to[j]] = owner[b] /\ i.to[j] # owner[b]
      BY <1>2 DEF Targets
    <3>2. \A t \in 1..Len(owner) : t \in 1..Len(o) /\ o[t] = owner[t]
      BY <1>1
    <3> QED
      BY <2>1, <3>1, <3>2, Zenon
  <2> QED
    BY <1>2, <2>2 DEF Targets
<1>3. ASSUME NEW b \in 1..Len(code) PROVE Placed(code[b], b, o)
  <2>1. code[b] \in Seq(InstrType) /\ Placed(code[b], b, owner) /\ o[b] = owner[b]
    BY <1>1, ElementOfSeq DEF PlacedInv, Stage
  <2>2. \A i \in 1..Len(code[b]) : code[b][i] \in InstrType
    BY <2>1, ElementOfSeq
  <2> QED
    BY <1>2, <2>1, <2>2 DEF Placed
<1> QED
  BY <1>1, <1>3 DEF Stage

\* No successor, one, or two.
LEMMA TargetsLemma ==
    ASSUME NEW o, NEW fn, NEW op, NEW at
    PROVE  /\ op \notin {"br", "cbr"} => Targets(Instr(op, <<>>, at), o, fn)
           /\ \A t \in 1..Len(o) : op = "br" /\ o[t] = fn /\ t # fn
                                   => Targets(Instr(op, <<t>>, at), o, fn)
           /\ \A t, u \in 1..Len(o) : op = "cbr" /\ o[t] = fn /\ t # fn /\ o[u] = fn /\ u # fn
                                      => Targets(Instr(op, <<t, u>>, at), o, fn)
BY DEF Targets, Instr, Arity

-----------------------------------------------------------------------------
(* The steps. *)

\* What a body's statement finds: its blocks, and the owners it leaves as they are.
LEMMA BodyLemma ==
    ASSUME Inv, PlacedInv, InBody
    PROVE  /\ Len(code) \in Nat /\ Blocks = 1..Len(code) /\ owner \in Seq(Nat)
           /\ Len(owner) = Len(code) /\ Len(src) + 1 \in Nat /\ top.tok \in Nat
           /\ top.fn \in Blocks /\ top.block \in Blocks /\ top.first \in Blocks
           /\ top.fn # top.block /\ top.fn # top.first
           /\ owner[top.block] = top.fn /\ owner[top.first] = top.fn
           /\ owner[top.fn] = top.fn /\ Clean(code[top.fn])
           /\ top.fn \in Nat /\ top.block \in Nat /\ top.first \in Nat
           /\ Stage(code, owner)
<1>1. Len(frames) \in Calls /\ top = frames[Len(frames)]
  BY TopLemma
<1>2. Clean(code[top.fn])
  BY <1>1 DEF Inv, IInv, AwaitedClean
<1> QED
  BY <1>2, TopLemma DEF Inv, TypeOK, Blocks, PlacedInv

\* Owners of the blocks a step adds.
LEMMA OwnerLemma ==
    ASSUME NEW o \in Seq(Nat), NEW x \in Nat, NEW y \in Nat
    PROVE  /\ Append(o, x) \in Seq(Nat) /\ Len(Append(o, x)) = Len(o) + 1
           /\ Append(o, x)[Len(o) + 1] = x
           /\ \A b \in 1..Len(o) : Append(o, x)[b] = o[b]
           /\ (o \o <<x, y>>) \in Seq(Nat) /\ Len(o \o <<x, y>>) = Len(o) + 2
           /\ (o \o <<x, y>>)[Len(o) + 1] = x /\ (o \o <<x, y>>)[Len(o) + 2] = y
           /\ \A b \in 1..Len(o) : (o \o <<x, y>>)[b] = o[b]
OBVIOUS

\* Two blocks, one after the other.
LEMMA TwoBlocksLemma ==
    ASSUME NEW cs \in Seq(Seq(InstrType)), NEW x \in Seq(InstrType), NEW y \in Seq(InstrType)
    PROVE  cs \o <<x, y>> = Append(Append(cs, x), y)
OBVIOUS

\* A statement branches nowhere, and its alloca goes to the entry block.
LEMMA StatementPlaced == ASSUME Inv, PlacedInv, Statement PROVE PlacedInv'
<1> DEFINE inst == Instr("inst", <<>>, Len(src) + 1)
           alloca == Instr("alloca", <<>>, Len(src) + 1)
           declared == Emit(code, top.fn, alloca)
<1>1. InBody /\ owner' = owner
  BY DEF Statement
<1>2. inst \in InstrType /\ alloca \in InstrType /\ inst.op = "inst"
  BY <1>1, BodyLemma, InstrLemma DEF Instr
<1>3. \A fn : Targets(inst, owner, fn) /\ Targets(alloca, owner, fn)
  BY TargetsLemma
<1> HIDE DEF inst, alloca
<1>4. CASE code' = Emit(code, top.block, inst)
  <2>1. Stage(Emit(code, top.block, inst), owner)
    BY <1>1, <1>2, <1>3, BodyLemma, EmitStage
  <2> QED
    BY <1>1, <1>4, <2>1 DEF PlacedInv
<1>5. CASE code' = Emit(declared, top.block, inst)
  <2>1. Stage(declared, owner) /\ Len(declared) = Len(code)
    BY <1>1, <1>2, <1>3, BodyLemma, EmitStage
  <2> HIDE DEF declared
  <2>2. Stage(Emit(declared, top.block, inst), owner)
    BY <1>1, <1>2, <1>3, <2>1, BodyLemma, EmitStage
  <2> QED
    BY <1>1, <1>5, <2>2 DEF PlacedInv
<1> QED
  BY <1>4, <1>5 DEF Statement, inst, alloca

\* A return has no successor.
LEMMA ReturnPlaced == ASSUME Inv, PlacedInv, Return PROVE PlacedInv'
<1> DEFINE ret == Instr("ret", <<>>, Len(src) + 1)
<1>1. InBody /\ owner' = owner /\ code' = Emit(code, top.block, ret)
  BY DEF Return
<1>2. ret \in InstrType /\ IsTerm(ret) /\ \A fn : Targets(ret, owner, fn)
  BY <1>1, BodyLemma, InstrLemma, TargetsLemma DEF Terminators
<1> HIDE DEF ret
<1>3. Stage(Emit(code, top.block, ret), owner)
  BY <1>1, <1>2, BodyLemma, BranchStage
<1> QED
  BY <1>1, <1>3 DEF PlacedInv

\* What is known under the owners a step ends with, when it adds one block or two.
Grown(d) ==
    /\ Len(code) \in Nat /\ Blocks = 1..Len(code)
    /\ owner' \in Seq(Nat) /\ Len(owner') = Len(code) + d
    /\ \A b \in Blocks : owner'[b] = owner[b]
    /\ \A b \in (Len(code) + 1)..(Len(code) + d) : owner'[b] = top.fn
    /\ Stage(code, owner')

\* The blocks a step adds belong to the function of the innermost call.
LEMMA GrownLemma ==
    ASSUME Inv, PlacedInv, InBody
    PROVE  /\ owner' = Append(owner, top.fn) => Grown(1)
           /\ owner' = owner \o <<top.fn, top.fn>> => Grown(2)
<1>1. /\ Len(code) \in Nat /\ Blocks = 1..Len(code) /\ owner \in Seq(Nat)
      /\ Len(owner) = Len(code) /\ top.fn \in Nat
  BY BodyLemma
<1>2. ASSUME owner' = Append(owner, top.fn) PROVE Grown(1)
  <2>1. /\ owner' \in Seq(Nat) /\ Len(owner') = Len(owner) + 1
        /\ \A b \in 1..Len(owner) : owner'[b] = owner[b]
        /\ owner'[Len(owner) + 1] = top.fn
    BY <1>1, <1>2, OwnerLemma
  <2>2. Len(owner) <= Len(owner')
    BY <1>1, <2>1
  <2>3. Stage(code, owner')
    BY <2>1, <2>2, GrowStage
  <2> QED
    BY <1>1, <2>1, <2>3 DEF Grown
<1>3. ASSUME owner' = owner \o <<top.fn, top.fn>> PROVE Grown(2)
  <2>1. /\ owner' \in Seq(Nat) /\ Len(owner') = Len(owner) + 2
        /\ \A b \in 1..Len(owner) : owner'[b] = owner[b]
        /\ owner'[Len(owner) + 1] = top.fn /\ owner'[Len(owner) + 2] = top.fn
    BY <1>1, <1>3, OwnerLemma
  <2>2. Len(owner) <= Len(owner')
    BY <1>1, <2>1
  <2>3. Stage(code, owner')
    BY <2>1, <2>2, GrowStage
  <2> QED
    BY <1>1, <2>1, <2>3 DEF Grown
<1> QED
  BY <1>2, <1>3

\* The condition of an if and the first block of its branch.
LEMMA BeginIfPlaced == ASSUME Inv, PlacedInv, BeginIf PROVE PlacedInv'
<1> DEFINE inst == Instr("inst", <<>>, Len(src) + 1)
           tested == Emit(code, top.block, inst)
<1>1. InBody /\ owner' = Append(owner, top.fn) /\ code' = NewBlock(tested)
  BY DEF BeginIf
<1>2. Grown(1) /\ top.block \in 1..Len(code)
  BY <1>1, GrownLemma, BodyLemma
<1>3. inst \in InstrType /\ inst.op # "alloca" /\ \A fn : Targets(inst, owner', fn)
  BY <1>1, BodyLemma, InstrLemma, TargetsLemma DEF Instr
<1> HIDE DEF inst
<1>4. Stage(tested, owner') /\ Len(tested) = Len(code)
  BY <1>2, <1>3, EmitStage DEF Grown
<1> HIDE DEF tested
<1>5. Len(tested) + 1 <= Len(owner')
  BY <1>2, <1>4 DEF Grown
<1>6. Stage(NewBlock(tested), owner')
  BY <1>2, <1>4, <1>5, NewBlockStage DEF Grown
<1> QED
  BY <1>1, <1>6 DEF PlacedInv

\* The else branch and the loop only add the block their body starts in.
LEMMA NewBlockPlaced ==
    ASSUME Inv, PlacedInv, BeginElse \/ BeginLoop
    PROVE  PlacedInv'
<1>1. InBody /\ owner' = Append(owner, top.fn) /\ code' = NewBlock(code)
  BY DEF BeginElse, BeginLoop, BodyComplete
<1>2. Grown(1)
  BY <1>1, GrownLemma
<1>3. Len(code) + 1 <= Len(owner')
  BY <1>2 DEF Grown
<1>4. Stage(NewBlock(code), owner')
  BY <1>2, <1>3, NewBlockStage DEF Grown
<1> QED
  BY <1>1, <1>4 DEF PlacedInv

\* The blocks of the condition and of the body of a while.
LEMMA BeginWhilePlaced == ASSUME Inv, PlacedInv, BeginWhile PROVE PlacedInv'
<1> DEFINE inst == Instr("inst", <<>>, Len(src) + 1)
           first == Append(code, <<inst>>)
<1>1. /\ InBody /\ owner' = owner \o <<top.fn, top.fn>>
      /\ code' = code \o << <<inst>>, <<>> >>
  BY DEF BeginWhile
<1>2. Grown(2)
  BY <1>1, GrownLemma
<1>3. Len(code) + 1 <= Len(owner')
  BY <1>2 DEF Grown
<1>4. inst \in InstrType /\ inst.op # "alloca" /\ inst.to = <<>>
      /\ inst.op \notin {"br", "cbr"}
  BY <1>1, BodyLemma, InstrLemma DEF Instr
<1> HIDE DEF inst
<1>5. Stage(first, owner') /\ Len(first) = Len(code) + 1
  BY <1>2, <1>3, <1>4, BlockWithStage DEF Grown
<1>6. code' = NewBlock(first)
  <2>1. code \in Seq(Seq(InstrType)) /\ <<inst>> \in Seq(InstrType) /\ <<>> \in Seq(InstrType)
    BY <1>4 DEF Inv, TypeOK
  <2> QED
    BY <1>1, <2>1 DEF NewBlock
<1> HIDE DEF first
<1>7. Len(first) + 1 <= Len(owner')
  BY <1>2, <1>5 DEF Grown
<1>8. Stage(NewBlock(first), owner')
  BY <1>2, <1>5, <1>7, NewBlockStage DEF Grown
<1> QED
  BY <1>6, <1>8 DEF PlacedInv

\* The new function owns its two blocks; parameters are allocated in "entry".
LEMMA BeginFunctionPlaced == ASSUME Inv, PlacedInv, BeginFunction PROVE PlacedInv'
<1> DEFINE n == Len(code)
           alloca == Instr("alloca", <<>>, Len(src) + 1)
           inst == Instr("inst", <<>>, Len(src) + 1)
<1>1. /\ code \in Seq(Seq(InstrType)) /\ owner \in Seq(Nat) /\ Len(owner) = n
      /\ n \in Nat /\ Len(src) + 1 \in Nat
  BY LenProperties DEF Inv, TypeOK
<1>2. /\ code' = code \o << <<alloca>>, <<inst>> >> \/ code' = code \o << <<>>, <<>> >>
      /\ owner' = owner \o <<n + 1, n + 1>>
  BY DEF BeginFunction
<1>3. /\ alloca \in InstrType /\ inst \in InstrType /\ inst.op # "alloca"
      /\ inst.op \notin {"br", "cbr"} /\ alloca.op \notin {"br", "cbr"}
      /\ alloca.to = <<>> /\ inst.to = <<>>
  BY <1>1, InstrLemma DEF Instr
<1> HIDE DEF alloca, inst
<1>4. /\ owner' \in Seq(Nat) /\ Len(owner') = n + 2 /\ owner'[n + 1] = n + 1
      /\ \A b \in 1..n : owner'[b] = owner[b]
  <2> DEFINE x == n + 1
  <2>1. x \in Nat /\ owner' = owner \o <<x, x>>
    BY <1>1, <1>2
  <2> HIDE DEF x
  <2>2. /\ owner' \in Seq(Nat) /\ Len(owner') = Len(owner) + 2 /\ owner'[Len(owner) + 1] = x
        /\ \A b \in 1..Len(owner) : owner'[b] = owner[b]
    BY <1>1, <2>1, OwnerLemma
  <2> QED
    BY <1>1, <2>2 DEF x
<1>5. n + 1 <= Len(owner') /\ n + 2 <= Len(owner') /\ n <= Len(owner')
  BY <1>1, <1>4
<1>6. Stage(code, owner')
  BY <1>1, <1>4, <1>5, GrowStage
<1>7. CASE code' = code \o << <<alloca>>, <<inst>> >>
  <2> DEFINE entry == Append(code, <<alloca>>)
  <2>1. Stage(entry, owner') /\ Len(entry) = n + 1
    BY <1>3, <1>4, <1>5, <1>6, BlockWithStage
  <2>2. code' = Append(entry, <<inst>>)
    <3>1. <<alloca>> \in Seq(InstrType) /\ <<inst>> \in Seq(InstrType)
      BY <1>3
    <3> QED
      BY <1>1, <1>7, <3>1, TwoBlocksLemma
  <2> HIDE DEF entry
  <2>3. Len(entry) + 1 <= Len(owner')
    BY <1>1, <1>5, <2>1
  <2>4. Stage(Append(entry, <<inst>>), owner')
    BY <1>3, <1>4, <2>1, <2>3, BlockWithStage
  <2> QED
    BY <2>2, <2>4 DEF PlacedInv
<1>8. CASE code' = code \o << <<>>, <<>> >>
  <2> DEFINE entry == NewBlock(code)
  <2>1. Stage(entry, owner') /\ Len(entry) = n + 1
    BY <1>4, <1>5, <1>6, NewBlockStage
  <2>2. code' = NewBlock(entry)
    BY <1>1, <1>8 DEF NewBlock
  <2> HIDE DEF entry
  <2>3. Len(entry) + 1 <= Len(owner')
    BY <1>1, <1>5, <2>1
  <2>4. Stage(NewBlock(entry), owner')
    BY <1>4, <2>1, <2>3, NewBlockStage
  <2> QED
    BY <2>2, <2>4 DEF PlacedInv
<1> QED
  BY <1>2, <1>7, <1>8

\* "entry" branches to "body"; the missing return has no successor.
LEMMA EndFunctionPlaced == ASSUME Inv, PlacedInv, EndFunction PROVE PlacedInv'
<1> DEFINE ret == Instr("ret", <<>>, Len(src) + 1)
           br == Instr("br", <<top.first>>, top.tok)
           returned == EmitUnlessTerminated(code, top.block, ret)
<1>1. InBody /\ owner' = owner /\ code' = Emit(returned, top.fn, br)
  BY DEF EndFunction, BodyComplete
<1>2. /\ ret \in InstrType /\ IsTerm(ret) /\ br \in InstrType /\ IsTerm(br)
      /\ Targets(ret, owner, owner[top.block]) /\ Targets(br, owner, owner[top.fn])
  BY <1>1, BodyLemma, InstrLemma, TargetsLemma DEF Terminators
<1> HIDE DEF ret, br
<1>3. Stage(returned, owner) /\ Len(returned) = Len(code)
  BY <1>1, <1>2, BodyLemma, BranchStage
<1> HIDE DEF returned
<1>4. Stage(Emit(returned, top.fn, br), owner)
  BY <1>1, <1>2, <1>3, BodyLemma, BranchStage
<1> QED
  BY <1>1, <1>4 DEF PlacedInv

\* The end of an if: the three branches stay in the function.
LEMMA JoinStage ==
    ASSUME NEW o \in Seq(Nat), NEW cs, Stage(cs, o), Len(cs) + 1 <= Len(o), NEW fn,
           NEW block \in 1..Len(cs), NEW then \in FrameType, NEW lastelse \in 1..Len(cs),
           NEW elseb \in 1..Len(o), NEW mergb \in 1..Len(o), NEW thenEnd \in Nat,
           then.block \in 1..Len(cs), then.first \in 1..Len(o), Len(src) + 1 \in Nat,
           o[block] = fn, o[then.block] = fn, o[lastelse] = fn,
           o[then.first] = fn, o[elseb] = fn, o[mergb] = fn,
           then.first # fn, elseb # fn, mergb # fn
    PROVE  Stage(JoinIf(cs, block, then, thenEnd, elseb, lastelse, mergb), o)
<1> DEFINE cbr == Instr("cbr", <<then.first, elseb>>, then.tok)
           br1 == Instr("br", <<mergb>>, thenEnd)
           br2 == Instr("br", <<mergb>>, Len(src) + 1)
           branched == Emit(cs, block, cbr)
           grown == NewBlock(branched)
           joined == EmitUnlessTerminated(grown, then.block, br1)
<1>1. /\ JoinIf(cs, block, then, thenEnd, elseb, lastelse, mergb)
            = EmitUnlessTerminated(joined, lastelse, br2)
  BY DEF JoinIf
<1>2. /\ cbr \in InstrType /\ br1 \in InstrType /\ br2 \in InstrType
      /\ IsTerm(cbr) /\ IsTerm(br1) /\ IsTerm(br2)
  <2>1. then.first \in Nat /\ elseb \in Nat /\ mergb \in Nat /\ then.tok \in Nat
    BY DEF FrameType
  <2>2. /\ {"cbr", "br"} \subseteq {"inst", "alloca", "ret", "br", "cbr"}
        /\ {"cbr", "br"} \subseteq Terminators
    BY DEF Terminators
  <2>3. cbr \in InstrType /\ IsTerm(cbr)
    BY <2>1, <2>2, InstrLemma
  <2>4. br1 \in InstrType /\ IsTerm(br1)
    BY <2>1, <2>2, InstrLemma
  <2>5. br2 \in InstrType /\ IsTerm(br2)
    BY <2>1, <2>2, InstrLemma
  <2> QED
    BY <2>3, <2>4, <2>5
<1>3. Targets(cbr, o, o[block]) /\ Targets(br1, o, o[then.block]) /\ Targets(br2, o, o[lastelse])
  BY TargetsLemma
<1> HIDE DEF cbr, br1, br2
<1>4. Stage(branched, o) /\ Len(branched) = Len(cs)
  BY <1>2, <1>3, BranchStage
<1> HIDE DEF branched
<1>5. Stage(grown, o) /\ Len(grown) = Len(cs) + 1
  BY <1>4, NewBlockStage
<1> HIDE DEF grown
<1>6. then.block \in 1..Len(grown) /\ lastelse \in 1..Len(grown)
  <2>1. Len(cs) \in Nat
    BY DEF Stage
  <2>2. 1..Len(cs) \subseteq 1..Len(grown)
    BY <1>5, <2>1
  <2> QED
    BY <2>2
<1>7. Stage(joined, o) /\ Len(joined) = Len(grown)
  BY <1>2, <1>3, <1>5, <1>6, BranchStage
<1> HIDE DEF joined
<1>8. Stage(EmitUnlessTerminated(joined, lastelse, br2), o)
  BY <1>2, <1>3, <1>6, <1>7, BranchStage
<1> QED
  BY <1>1, <1>8

\* The block a call goes on in and the one its body started in.
Usable(f) ==
    /\ f \in FrameType
    /\ f.block \in 1..Len(code) /\ owner'[f.block] = top.fn
    /\ f.first \in 1..Len(owner') /\ owner'[f.first] = top.fn /\ f.first # top.fn

\* The calls of the function under way are usable.
LEMMA UsableLemma ==
    ASSUME Inv, NEW d \in {1, 2}, Grown(d), NEW k \in Calls, frames[k].fn = top.fn
    PROVE  Usable(frames[k])
<1>1. /\ frames[k] \in FrameType
      /\ frames[k].block \in Blocks /\ owner[frames[k].block] = top.fn
      /\ frames[k].first \in Blocks /\ owner[frames[k].first] = top.fn
      /\ frames[k].first # top.fn
  BY BlockLemma
<1>2. \A b \in Blocks : b \in 1..Len(code) /\ b \in 1..Len(owner') /\ owner'[b] = owner[b]
  BY DEF Grown
<1> HIDE DEF Blocks
<1> QED
  BY <1>1, <1>2 DEF Usable

\* The blocks a step adds: none is the entry block of the function.
LEMMA AddedLemma ==
    ASSUME Inv, InBody, NEW d \in {1, 2}, Grown(d)
    PROVE  \A b \in (Len(code) + 1)..(Len(code) + d) :
               b \in 1..Len(owner') /\ owner'[b] = top.fn /\ b # top.fn
<1>1. top.fn \in Blocks
  BY TopLemma
<1> QED
  BY <1>1 DEF Grown

\* An if without else joins the new else block.
LEMMA EndIfWithoutElsePlaced == ASSUME Inv, PlacedInv, EndIfWithoutElse PROVE PlacedInv'
<1> DEFINE n == Len(code)
           N == Len(frames)
           grown == NewBlock(code)
<1>1. /\ InBody /\ top.kind = "then" /\ owner' = owner \o <<top.fn, top.fn>>
      /\ code' = JoinIf(grown, caller.block, top, Len(src) + 1, n + 1, n + 1, n + 2)
  BY DEF EndIfWithoutElse, BodyComplete
<1>2. Grown(2) /\ n \in Nat
  BY <1>1, GrownLemma, BodyLemma
<1>3. N \in Calls /\ top = frames[N] /\ N - 1 \in Calls /\ caller = frames[N - 1]
      /\ caller.fn = top.fn /\ Len(src) + 1 \in Nat
  BY <1>1, TopLemma, CallerLemma DEF caller
<1>4. Usable(top) /\ Usable(caller)
  <2> HIDE DEF N
  <2> QED
    BY <1>2, <1>3, UsableLemma
<1>5. \A b \in {n + 1, n + 2} : b \in 1..Len(owner') /\ owner'[b] = top.fn /\ b # top.fn
  <2>1. \A b \in {n + 1, n + 2} : b \in (n + 1)..(n + 2)
    BY <1>2
  <2> QED
    BY <1>1, <1>2, <2>1, AddedLemma
<1>6. owner' \in Seq(Nat) /\ Len(owner') = n + 2 /\ Stage(code, owner')
  BY <1>2 DEF Grown
<1>7. Stage(grown, owner') /\ Len(grown) = n + 1
  <2>1. n + 1 <= Len(owner')
    BY <1>2, <1>6
  <2> QED
    BY <1>6, <2>1, NewBlockStage
<1> HIDE DEF grown
<1>8. /\ Len(grown) + 1 <= Len(owner') /\ n + 1 \in 1..Len(grown)
      /\ top.block \in 1..Len(grown) /\ caller.block \in 1..Len(grown)
  BY <1>2, <1>4, <1>6, <1>7 DEF Usable
<1> HIDE DEF n, N
<1>9. Stage(JoinIf(grown, caller.block, top, Len(src) + 1, n + 1, n + 1, n + 2), owner')
  BY <1>3, <1>4, <1>5, <1>6, <1>7, <1>8, JoinStage DEF Usable
<1> QED
  BY <1>1, <1>9 DEF PlacedInv, n

\* An if with else joins the blocks of two calls.
LEMMA EndIfWithElsePlaced == ASSUME Inv, PlacedInv, EndIfWithElse PROVE PlacedInv'
<1> DEFINE n == Len(code)
           N == Len(frames)
           outer == frames[N - 2]
<1>1. /\ InBody /\ top.kind = "else" /\ owner' = Append(owner, top.fn)
      /\ code' = JoinIf(code, outer.block, caller, top.tok, top.first, top.block, n + 1)
  BY DEF EndIfWithElse, BodyComplete
<1>2. Grown(1) /\ n \in Nat
  BY <1>1, GrownLemma, BodyLemma
<1>3. /\ N \in Calls /\ top = frames[N] /\ N - 1 \in Calls /\ caller = frames[N - 1]
      /\ caller.fn = top.fn /\ caller.kind = "then"
      /\ Len(src) + 1 \in Nat /\ top.tok \in Nat
  BY <1>1, TopLemma, CallerLemma DEF caller
<1>4. N - 2 \in Calls /\ outer.fn = top.fn
  <2> DEFINE m == N - 1
  <2>1. m \in Calls /\ frames[m].fn = top.fn /\ frames[m].kind = "then"
    BY <1>3
  <2>2. N \in Nat /\ m - 1 = N - 2
    BY <1>1, TopLemma
  <2> HIDE DEF m
  <2>3. m - 1 \in Calls /\ frames[m - 1].fn = top.fn
    BY <2>1, CallerLemma
  <2> QED
    BY <2>2, <2>3
<1>5. Usable(top) /\ Usable(caller) /\ Usable(outer)
  <2> HIDE DEF N
  <2> QED
    BY <1>2, <1>3, <1>4, UsableLemma
<1> HIDE DEF outer, N
<1>6. n + 1 \in 1..Len(owner') /\ owner'[n + 1] = top.fn /\ n + 1 # top.fn
  BY <1>1, <1>2, AddedLemma
<1>7. owner' \in Seq(Nat) /\ n + 1 <= Len(owner') /\ Stage(code, owner')
  BY <1>2 DEF Grown
<1>8. Stage(JoinIf(code, outer.block, caller, top.tok, top.first, top.block, n + 1), owner')
  BY <1>3, <1>5, <1>6, <1>7, JoinStage DEF Usable
<1> QED
  BY <1>1, <1>8 DEF PlacedInv

\* The three branches of a while.
LEMMA EndWhilePlaced == ASSUME Inv, PlacedInv, EndWhile PROVE PlacedInv'
<1> DEFINE n == Len(code)
           N == Len(frames)
           enter == Instr("br", <<top.cond>>, top.tok)
           test == Instr("cbr", <<top.first, n + 1>>, top.tok)
           back == Instr("br", <<top.cond>>, Len(src) + 1)
           grown == NewBlock(code)
           entered == Emit(grown, caller.block, enter)
           tested == Emit(entered, top.cond, test)
<1>1. /\ InBody /\ top.kind = "while" /\ owner' = Append(owner, top.fn)
      /\ code' = EmitUnlessTerminated(tested, top.block, back)
  BY DEF EndWhile, BodyComplete
<1>2. Grown(1) /\ n \in Nat /\ Blocks = 1..n /\ top.tok \in Nat
  BY <1>1, GrownLemma, BodyLemma
<1>3. /\ N \in Calls /\ top = frames[N] /\ N - 1 \in Calls /\ caller = frames[N - 1]
      /\ caller.fn = top.fn /\ Len(src) + 1 \in Nat
  BY <1>1, TopLemma, CallerLemma DEF caller
<1>4. Usable(top) /\ Usable(caller)
  <2> HIDE DEF N
  <2> QED
    BY <1>2, <1>3, UsableLemma
<1>5. n + 1 \in 1..Len(owner') /\ owner'[n + 1] = top.fn /\ n + 1 # top.fn
  BY <1>1, <1>2, AddedLemma
<1>6. owner' \in Seq(Nat) /\ n + 1 <= Len(owner') /\ Stage(code, owner')
      /\ \A b \in 1..n : b \in 1..Len(owner') /\ owner'[b] = owner[b]
  BY <1>2 DEF Grown
<1>7. /\ top.cond \in 1..n /\ top.cond \in 1..Len(owner') /\ owner'[top.cond] = top.fn
      /\ top.cond # top.fn
  <2>1. FramesLinked!(N)
    BY <1>3 DEF Inv, IInv, FramesLinked
  <2> QED
    BY <1>1, <1>2, <1>3, <1>6, <2>1
<1>8. /\ enter \in InstrType /\ test \in InstrType /\ back \in InstrType
      /\ IsTerm(enter) /\ IsTerm(test) /\ IsTerm(back)
  <2>1. top.cond \in Nat /\ top.first \in Nat /\ n + 1 \in Nat
    BY <1>1, <1>2, <1>7, TopLemma
  <2> HIDE DEF n
  <2> QED
    BY <1>2, <1>3, <2>1, InstrLemma DEF Terminators
<1>9. /\ Targets(enter, owner', owner'[caller.block])
      /\ Targets(test, owner', owner'[top.cond])
      /\ Targets(back, owner', owner'[top.block])
  <2> HIDE DEF n
  <2> QED
    BY <1>4, <1>5, <1>7, TargetsLemma DEF Usable
<1> HIDE DEF enter, test, back
<1>10. Stage(grown, owner') /\ Len(grown) = n + 1
  BY <1>6, NewBlockStage
<1> HIDE DEF grown
<1>11. /\ top.cond \in 1..Len(grown) /\ top.block \in 1..Len(grown)
       /\ caller.block \in 1..Len(grown)
  BY <1>2, <1>4, <1>7, <1>10 DEF Usable
<1>12. Stage(entered, owner') /\ Len(entered) = Len(grown)
  BY <1>6, <1>8, <1>9, <1>10, <1>11, BranchStage
<1> HIDE DEF entered
<1>13. Stage(tested, owner') /\ Len(tested) = Len(grown)
  BY <1>6, <1>8, <1>9, <1>11, <1>12, BranchStage
<1> HIDE DEF tested
<1>14. Stage(EmitUnlessTerminated(tested, top.block, back), owner')
  BY <1>6, <1>8, <1>9, <1>11, <1>13, BranchStage
<1> QED
  BY <1>1, <1>14 DEF PlacedInv

\* The two branches of a loop.
LEMMA EndLoopPlaced == ASSUME Inv, PlacedInv, EndLoop PROVE PlacedInv'
<1> DEFINE n == Len(code)
           N == Len(frames)
           back == Instr("br", <<top.first>>, Len(src) + 1)
           enter == Instr("br", <<top.first>>, top.tok)
           looped == Emit(code, top.first, back)
           entered == Emit(looped, caller.block, enter)
<1>1. /\ InBody /\ top.kind = "loop" /\ owner' = Append(owner, top.fn)
      /\ code' = NewBlock(entered)
  BY DEF EndLoop, BodyComplete
<1>2. /\ Grown(1) /\ n \in Nat /\ Blocks = 1..n /\ top.tok \in Nat
      /\ top.first \in 1..n /\ top.first \in Nat
  BY <1>1, GrownLemma, BodyLemma
<1>3. /\ N \in Calls /\ top = frames[N] /\ N - 1 \in Calls /\ caller = frames[N - 1]
      /\ caller.fn = top.fn /\ Len(src) + 1 \in Nat
  BY <1>1, TopLemma, CallerLemma DEF caller
<1>4. Usable(top) /\ Usable(caller)
  <2> HIDE DEF N
  <2> QED
    BY <1>2, <1>3, UsableLemma
<1>5. owner' \in Seq(Nat) /\ n + 1 <= Len(owner') /\ Stage(code, owner')
  BY <1>2 DEF Grown
<1>6. back \in InstrType /\ enter \in InstrType /\ IsTerm(back) /\ IsTerm(enter)
  BY <1>2, <1>3, InstrLemma DEF Terminators
<1>7. Targets(back, owner', owner'[top.first]) /\ Targets(enter, owner', owner'[caller.block])
  BY <1>4, TargetsLemma DEF Usable
<1> HIDE DEF back, enter
<1>8. Stage(looped, owner') /\ Len(looped) = n
  BY <1>2, <1>5, <1>6, <1>7, BranchStage
<1> HIDE DEF looped
<1>9. caller.block \in 1..Len(looped)
  BY <1>4, <1>8 DEF Usable
<1>10. Stage(entered, owner') /\ Len(entered) = n
  BY <1>5, <1>6, <1>7, <1>8, <1>9, BranchStage
<1> HIDE DEF entered
<1>11. Stage(NewBlock(entered), owner')
  BY <1>5, <1>10, NewBlockStage
<1> QED
  BY <1>1, <1>11 DEF PlacedInv

-----------------------------------------------------------------------------
(* The theorems. *)

\* There is no instruction at first.
LEMMA InitPlaced == Init => PlacedInv
BY DEF Init, PlacedInv, Stage

\* Every action keeps the instructions well placed.
LEMMA NextPlaced == Inv /\ PlacedInv /\ [Next]_vars => PlacedInv'
<1> SUFFICES ASSUME Inv, PlacedInv, [Next]_vars  PROVE PlacedInv'
  OBVIOUS
<1>1. CASE BeginFunction          BY <1>1, BeginFunctionPlaced
<1>2. CASE EndFunction            BY <1>2, EndFunctionPlaced
<1>3. CASE Statement              BY <1>3, StatementPlaced
<1>4. CASE Return                 BY <1>4, ReturnPlaced
<1>5. CASE BeginIf                BY <1>5, BeginIfPlaced
<1>6. CASE BeginElse \/ BeginLoop BY <1>6, NewBlockPlaced
<1>7. CASE EndIfWithoutElse       BY <1>7, EndIfWithoutElsePlaced
<1>8. CASE EndIfWithElse          BY <1>8, EndIfWithElsePlaced
<1>9. CASE BeginWhile             BY <1>9, BeginWhilePlaced
<1>10. CASE EndWhile              BY <1>10, EndWhilePlaced
<1>11. CASE EndLoop               BY <1>11, EndLoopPlaced
<1>12. CASE UNCHANGED vars
  <2>1. code' = code /\ owner' = owner
    BY <1>12 DEF vars
  <2> QED
    BY <2>1 DEF PlacedInv
<1> QED
  BY <1>1, <1>2, <1>3, <1>4, <1>5, <1>6, <1>7, <1>8, <1>9, <1>10, <1>11, <1>12 DEF Next

\* Every instruction that has been created is well placed, in every program.
THEOREM WellPlaced == Spec => []PlacedInv
BY InitInv, NextInv, InitPlaced, NextPlaced, PTL DEF Spec

\* No branch of If, While or Loop leaves its function or returns to its entry
\* block, however large the program and however its functions are nested.
THEOREM BranchesStay == Spec => []BranchesStayInside
<1>1. Inv /\ PlacedInv => BranchesStayInside
  <2> SUFFICES ASSUME Inv, PlacedInv PROVE BranchesStayInside
    OBVIOUS
  <2>1. Len(owner) = Len(code) /\ Blocks = 1..Len(owner)
    BY DEF Inv, TypeOK, Blocks
  <2>2. ASSUME NEW b \in Blocks, NEW i \in 1..Len(code[b]), NEW j \in 1..Len(code[b][i].to)
        PROVE  LET t == code[b][i].to[j]
               IN  t \in Blocks /\ owner[t] = owner[b] /\ owner[t] # t
    <3>1. Targets(code[b][i], owner, owner[b])
      BY <2>1 DEF PlacedInv, Stage, Placed
    <3> QED
      BY <2>1, <3>1 DEF Targets
  <2> QED
    BY <2>2 DEF BranchesStayInside
<1> QED
  BY <1>1, Invariance, WellPlaced, PTL

\* Every variable is allocated in the entry block of its function, ahead of the
\* terminator of that block, whatever the statement that declares it is in.
THEOREM AllocasPlaced == Spec => []AllocasInEntry
<1>1. Inv /\ PlacedInv => AllocasInEntry
  BY DEF PlacedInv, Stage, Placed, AllocasInEntry, Blocks
<1> QED
  BY <1>1, Invariance, WellPlaced, PTL
=============================================================================
