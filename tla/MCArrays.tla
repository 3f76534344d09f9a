------------------------------ MODULE MCArrays ------------------------------
(* Arrays for TLC, with two integer types: -8..7 and -32..31. *)
EXTENDS Arrays

Literal(i) == [kind |-> "literal", value |-> i, type |-> LiteralType(i)]
Variable(i, t) == [kind |-> "variable", value |-> i, type |-> t]

MCNodes == {Literal(1), Literal(9)}
MCOneNode == {Literal(1)}
MCNodesWithConstant == {Literal(1), [kind |-> "constant", value |-> 2, type |-> 8]}
MCNewValues == {Variable(-9, 32)}
=============================================================================
