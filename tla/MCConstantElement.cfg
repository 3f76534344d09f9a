CONSTANTS
    Types = {8, 32}
    Nodes <- MCNodesWithConstant
    NewValues <- MCNewValues
    Counts = {1, 2}
    Garbage = {0}
    MaxElements = 4
SPECIFICATION Spec
INVARIANTS NeverCrashes
CHECK_DEADLOCK FALSE
