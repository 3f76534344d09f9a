CONSTANTS
    Types = {8, 32}
    Nodes <- MCNodes
    NewValues <- MCNewValues
    Counts = {1, 2}
    Garbage = {0}
    MaxElements = 6
SPECIFICATION Spec
INVARIANTS TypeOK NoStrayAccess IInv
PROPERTIES LinesInPlace IsGrid
CHECK_DEADLOCK FALSE
