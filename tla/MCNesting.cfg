CONSTANTS
    Alphabet = {"func", "stmt", "return", "if", "else", "while", "end"}
    HasParams = {FALSE}
    MaxTokens = 10
    MaxBlocks = 30
SPECIFICATION ESpec
PROPERTIES RunsTheSource
CHECK_DEADLOCK FALSE
