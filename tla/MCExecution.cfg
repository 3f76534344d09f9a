CONSTANTS
    Alphabet = {"func", "stmt", "decl", "return", "if", "else", "while", "loop", "end"}
    HasParams = {FALSE}
    MaxTokens = 8
    MaxBlocks = 20
SPECIFICATION ESpec
INVARIANTS ExecTypeOK
PROPERTIES RunsTheSource LoopFreeReturns
CHECK_DEADLOCK FALSE
