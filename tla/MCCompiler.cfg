CONSTANT Parts = {"symbols", "values", "driver", "events", "unescape"}
CONSTANTS
    Variables <- MCVariables
    Functions <- MCFunctions
    Exprs <- MCExprs
    ParamLists <- MCParamLists
    ExprLists <- MCExprLists
    Types <- MCTypes
    MaxScopes = 2
    MaxSymbols = 4
    MaxErrors = 0
\* Three widths, so that one is wider than that a shift is widened to; 2100 needs
\* the widest.  Products of such values are beyond TLC's integers.
CONSTANTS
    Ladder = {6, 12, 24}
    Literals = {1, 8, 13, 2100}
    VariableValues <- MCVariableValues
    Floats = {1001, 1002}
    Operators = {"+", "-", "/", "%", "&", "|", "^", "<<", ">>", "~", "==", "<"}
    MaxNodes = 5
\* Command lines of up to four words.
CONSTANTS
    Words = {"-O", "-O2", "-a", "-o", "avr328p", "esp32", "in.rob", "out.o"}
    LevelOf <- MCLevelOf
    TargetWords = {"-a"}
    OutputWords = {"-o"}
    ShortWords = {"-O", "-a", "-o"}
    Readable = {"in.rob"}
    Writable = {"out.o"}
    Supported = {"avr328p", "stm32f1", "esp32"}
    Built = {"avr328p", "stm32f1", "host"}
    MaxArgs = 4
    MaxFound = 3
    StatusRange = 3
CONSTANTS
    Events = {"p2_e1", "p3_e2"}
    FunctionNames = {"f", "g"}
    MaxTop = 4
\* 0, 7 and 8 (the last octal digit and the first that is none), \, n and x.
CONSTANTS
    Chars = {48, 55, 56, 92, 110, 120}
    MaxLength = 5
SPECIFICATION CompilerSpec
INVARIANTS NamesInv  ValuesInv DriverInv EventsInv UnescapeInv
PROPERTIES BindingStable Ends
CHECK_DEADLOCK FALSE
