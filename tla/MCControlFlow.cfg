CONSTANTS
    Alphabet = {"func", "stmt", "decl", "return", "if", "else", "while", "loop", "end"}
    HasParams = {TRUE, FALSE}
    MaxTokens = 8
    MaxBlocks = 20
SPECIFICATION Spec
INVARIANTS TypeOK FinishedWellFormed BranchesStayInside AllocasInEntry IInv
PROPERTY FinishedIsFrozen
CHECK_DEADLOCK FALSE
