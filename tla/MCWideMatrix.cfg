CONSTANTS
    Types = {8, 32}
    Nodes <- MCOneNode
    NewValues <- MCNewValues
    Counts = {3, 4}
    Garbage = {0}
    MaxElements = 12
SPECIFICATION Spec
INVARIANTS NoStrayAccess
CHECK_DEADLOCK FALSE
