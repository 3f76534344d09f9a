------------------------------ MODULE Structured ------------------------------
(***************************************************************************)
(* What code generation promises of a function: running it visits the      *)
(* statements of its source in the order of structured control flow, for   *)
(* every outcome of the conditions.  Execution.tla implements this module. *)
(***************************************************************************)
EXTENDS Source

VARIABLES
    src,   \* the program
    at,    \* the position of the statement that runs, 0 when none does
    cond   \* the value of the last condition evaluated in this run

vars == <<src, at, cond>>

Init == src = <<>> /\ at = 0 /\ cond = FALSE

Write ==
    /\ at = 0
    /\ \E t \in Tokens : src' = Append(src, t)
    /\ UNCHANGED <<at, cond>>

Call ==
    /\ at = 0
    /\ at' \in {f \in DOMAIN src : src[f] = "func" /\ Closed(src, f)}
    /\ UNCHANGED <<src, cond>>

Run ==
    /\ at # 0
    /\ \E c \in BOOLEAN :
        /\ at' = Step(src, at, c)
        /\ cond' = IF at' = 0 THEN FALSE
                   ELSE IF src[at] \in {"if", "while"} THEN c ELSE cond
    /\ UNCHANGED src

Next == Write \/ Call \/ Run

Spec == Init /\ [][Next]_vars
=============================================================================
