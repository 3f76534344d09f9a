------------------------------- MODULE Unescape -------------------------------
(***************************************************************************)
(* Escape sequences of strings (src/src/unescape.cpp, the string rule of   *)
(* Language.l): unescape() rewrites the text in place, one pointer reading *)
(* ahead of another one that writes.                                       *)
(*                                                                         *)
(* A character is its code.  Each step is one turn of the loop.            *)
(***************************************************************************)
EXTENDS Integers, Sequences

CONSTANTS
    Chars,       \* the characters of strings, the zero that ends them excluded
    MaxLength    \* bound on the length of a string

Nul == 0
Backslash == 92
Zero == 48
Codes == 1..255

ASSUME CharsAssumption == Chars \subseteq Codes
ASSUME LengthAssumption == MaxLength \in Nat

VARIABLES
    source,      \* the string as it was scanned
    data,        \* the memory of the string, its end included
    current,     \* the position read next
    unescaped,   \* the position written next
    done,        \* the loop has ended
    strayed      \* history: a position behind the end was read

unescapeVars == <<source, data, current, unescaped, done, strayed>>

IsOctal(c) == c \in Zero..(Zero + 7)
DigitValue(c) == c - Zero

\* \a, \b, \f, \n, \r, \t and \v; any other character stands for itself.
Letter(c) == CASE c = 97 -> 7 [] c = 98 -> 8 [] c = 102 -> 12 [] c = 110 -> 10
               [] c = 114 -> 13 [] c = 116 -> 9 [] c = 118 -> 11
               [] c \notin {97, 98, 102, 110, 114, 116, 118} -> c

\* ends[i]: no escape sequence is under way after position i of s.
Splits(s, ends) ==
    /\ ends[0] /\ ends[Len(s)]
    /\ \A i \in 1..Len(s) : ends[i] = (IF ends[i - 1] THEN s[i] # Backslash ELSE TRUE)

\* The strings of the scanner: no quotation mark needs a name here, and a
\* backslash is followed by another character.
WellFormed(s) == \E ends \in [0..Len(s) -> BOOLEAN] : Splits(s, ends)

Strings == {s \in UNION {[1..n -> Chars] : n \in 0..MaxLength} : WellFormed(s)}

UnescapeInit ==
    /\ source \in Strings
    /\ data = Append(source, Nul)
    /\ current = 1
    /\ unescaped = 1
    /\ done = FALSE
    /\ strayed = FALSE

\* What is read behind the end may be anything; a zero is as good as any.
At(i) == IF i \in DOMAIN data THEN data[i] ELSE Nul

\* Mistaken: an octal number takes the digits that follow, however many.
OctalEndLong(i) ==
    CHOOSE j \in i..Len(data) : (\A k \in i..j : IsOctal(At(k))) /\ ~ IsOctal(At(j + 1))

\* The last of the at most three digits of the octal number at i.
OctalEnd(i) == IF ~ IsOctal(At(i + 1)) THEN i ELSE IF ~ IsOctal(At(i + 2)) THEN i + 1 ELSE i + 2

\* Its value, of which a char keeps eight bits.
OctalValue(i, j) ==
    (IF j = i THEN DigitValue(At(i))
     ELSE IF j = i + 1 THEN 8 * DigitValue(At(i)) + DigitValue(At(j))
     ELSE 64 * DigitValue(At(i)) + 8 * DigitValue(At(i + 1)) + DigitValue(At(j))) % 256

Turn(c, next) ==
    /\ data' = [data EXCEPT ![unescaped] = c]
    /\ unescaped' = unescaped + 1
    /\ current' = next
    /\ strayed' = (strayed \/ next > Len(data))
    /\ UNCHANGED <<source, done>>

Plain ==
    /\ ~ done /\ At(current) \notin {Nul, Backslash}
    /\ Turn(At(current), current + 1)

Octal ==
    LET i == current + 1
    IN  /\ ~ done /\ At(current) = Backslash /\ IsOctal(At(i))
        /\ Turn(OctalValue(i, OctalEnd(i)), OctalEnd(i) + 1)

\* A backslash at the end steps over the zero: Letter(Nul) is copied and the loop
\* goes on behind it.
Escape ==
    /\ ~ done /\ At(current) = Backslash /\ ~ IsOctal(At(current + 1))
    /\ Turn(Letter(At(current + 1)), current + 2)

Finish ==
    /\ ~ done /\ At(current) = Nul
    /\ data' = [data EXCEPT ![unescaped] = Nul]
    /\ done' = TRUE
    /\ UNCHANGED <<source, current, unescaped, strayed>>

UnescapeNext == Plain \/ Octal \/ Escape \/ Finish

UnescapeSpec == UnescapeInit /\ [][UnescapeNext]_unescapeVars
-----------------------------------------------------------------------------
(* Properties *)

\* Type invariant, and what makes rewriting in place sound: the writer is never
\* ahead of the reader, and what is still to be read is as it was scanned.
UnescapeTypeOK ==
    /\ source \in Seq(Chars)
    /\ data \in Seq(0..255) /\ Len(data) = Len(source) + 1
    /\ current \in 1..(Len(source) + 1)
    /\ unescaped \in 1..current
    /\ done \in BOOLEAN /\ strayed \in BOOLEAN
    /\ ~ done => \A i \in current..Len(data) : data[i] = Append(source, Nul)[i]

\* No position behind the end of the string is read: the scanner passes no string
\* that ends in a lone backslash (Language.l:141).
StaysInside == ~ strayed

\* Reference: the characters of s from position i on, the escape sequences taken
\* from the left.  decode[i] is defined from the later positions.
DigitsAt(s, i) ==
    IF i < Len(s) /\ IsOctal(s[i + 1]) THEN IF i + 1 < Len(s) /\ IsOctal(s[i + 2]) THEN 3 ELSE 2 ELSE 1
Number(s, i) ==
    CASE DigitsAt(s, i) = 1 -> DigitValue(s[i])
      [] DigitsAt(s, i) = 2 -> 8 * DigitValue(s[i]) + DigitValue(s[i + 1])
      [] DigitsAt(s, i) = 3 -> 64 * DigitValue(s[i]) + 8 * DigitValue(s[i + 1]) + DigitValue(s[i + 2])
Decoding(s) ==
    LET decode[i \in 1..(Len(s) + 4)] ==
            IF i > Len(s) THEN <<>>
            ELSE IF s[i] # Backslash THEN <<s[i]>> \o decode[i + 1]
            ELSE IF i < Len(s) /\ IsOctal(s[i + 1])
                 THEN <<Number(s, i + 1) % 256>> \o decode[i + 1 + DigitsAt(s, i + 1)]
            ELSE <<Letter(s[i + 1])>> \o decode[i + 2]
    IN  decode
Decoded(s) == Decoding(s)[1]

\* At the end the memory holds the decoded string and the zero that ends it.
DecodesInPlace ==
    done => SubSeq(data, 1, unescaped) = Append(Decoded(source), Nul)

\* The type invariant, and strings decoded where they stand, from nothing but
\* themselves (unescape.cpp 9-75).
UnescapeInv == UnescapeTypeOK /\ StaysInside /\ DecodesInPlace

=============================================================================
