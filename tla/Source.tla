------------------------------- MODULE Source -------------------------------
(***************************************************************************)
(* The function bodies of a robcmp program, as the parser hands them to    *)
(* code generation: the statements of the syntax tree in source order, one *)
(* token for each simple statement and one for each opening, "else" and    *)
(* closing of a compound statement (src/src/Language.y: funcblock, stmt,   *)
(* condblock, whileblock).  A statement is known by its position.          *)
(***************************************************************************)
EXTENDS Integers, Sequences, FiniteSets, FiniteSetsExt

Openers == {"func", "if", "while", "loop"}
Simple == {"stmt", "decl", "return"}
Tokens == Openers \cup Simple \cup {"else", "end"}

\* How many compound statements are open after the token at position i.
Depth(s, i) ==
    Cardinality({j \in 1..i : s[j] \in Openers}) - Cardinality({j \in 1..i : s[j] = "end"})

\* The positions of s where the compound statement opened at i may be closed.
Closings(s, i) ==
    {j \in (i+1)..Len(s) : s[j] = "end" /\ Depth(s, j) = Depth(s, i) - 1}

Closed(s, i) == Closings(s, i) # {}
EndOf(s, i) == Min(Closings(s, i))

\* The else branches of the condition opened at i: none or one.
ElsesOf(s, i) ==
    {j \in (i+1)..EndOf(s, i) : s[j] = "else" /\ Depth(s, j) = Depth(s, i)}

\* The position that opened what the "else" or "end" at j belongs to.
OpenerOf(s, j) ==
    LET depth == IF s[j] = "end" THEN Depth(s, j) + 1 ELSE Depth(s, j)
    IN  Max({i \in 1..(j-1) : s[i] \in Openers /\ Depth(s, i) = depth})

\* The first position from i on that is not in a function declared there:
\* a declaration runs nothing where it stands.
Skip(s, i) ==
    Min({j \in i..Len(s) :
            \A k \in i..j : s[k] = "func" => EndOf(s, k) < j})

\* The position that runs after the one at i when the condition at i, if it
\* holds one, has the value c.  0 is the end of the function.
Step(s, i, c) ==
    CASE s[i] \in {"func", "stmt", "decl", "loop"} -> Skip(s, i + 1)
      [] s[i] = "return" -> 0
      [] s[i] = "if" /\ c -> Skip(s, i + 1)
      [] s[i] = "if" /\ ~c ->
            IF ElsesOf(s, i) = {} THEN EndOf(s, i)
                                  ELSE Skip(s, Min(ElsesOf(s, i)) + 1)
      [] s[i] = "while" /\ c -> Skip(s, i + 1)
      [] s[i] = "while" /\ ~c -> Skip(s, EndOf(s, i) + 1)
      [] s[i] = "else" -> Skip(s, EndOf(s, OpenerOf(s, i)) + 1)
      [] s[i] = "end" ->
            LET o == OpenerOf(s, i)
            IN  CASE s[o] = "func"  -> 0
                  [] s[o] = "if"    -> Skip(s, i + 1)
                  [] s[o] = "while" -> o
                  [] s[o] = "loop"  -> Skip(s, o + 1)
=============================================================================
