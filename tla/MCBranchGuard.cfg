CONSTANTS
    Alphabet = {"func", "stmt", "return", "if", "end"}
    HasParams = {FALSE}
    MaxTokens = 8
    MaxBlocks = 20
SPECIFICATION Spec
INVARIANTS NoBranchAfterTerminator
CHECK_DEADLOCK FALSE
