--------------------------------- MODULE Grid ---------------------------------
(***************************************************************************)
(* What an array or a matrix promises: each position keeps the value that  *)
(* was put there last, and a value that fits the type of the elements is   *)
(* put there unchanged.  Arrays.tla implements this module.                *)
(***************************************************************************)
EXTENDS Integers

VARIABLES
    grid,   \* the values at the positions <<line, column>>, empty at first
    half,   \* the elements hold the integers of -half..half-1
    access  \* the last access: [op, pos, value], what it asked for or returned

vars == <<grid, half, access>>

Fits(v) == -half <= v /\ v < half

NoAccess == [op |-> "none", pos |-> <<0, 0>>, value |-> 0]

Init == grid = <<>> /\ half = 0 /\ access = NoAccess

Declare ==
    /\ DOMAIN grid = {}
    /\ DOMAIN grid' # {}
    /\ \A p \in DOMAIN grid' : grid'[p] \in Int
    /\ UNCHANGED access

Update ==
    \E p \in DOMAIN grid :
        /\ access' = [op |-> "update", pos |-> p, value |-> access'.value]
        /\ Fits(access'.value) => grid'[p] = access'.value
        /\ Fits(grid'[p])
        /\ DOMAIN grid' = DOMAIN grid
        /\ \A q \in DOMAIN grid \ {p} : grid'[q] = grid[q]
        /\ UNCHANGED half

Load ==
    \E p \in DOMAIN grid :
        /\ access' = [op |-> "load", pos |-> p, value |-> grid[p]]
        /\ UNCHANGED <<grid, half>>

Next == Declare \/ Update \/ Load

Spec == Init /\ [][Next]_vars
=============================================================================
