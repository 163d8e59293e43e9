SPECIFICATION Spec
CONSTANTS
    MaxBlocks = 9
    MaxSegments = 2
INVARIANTS JumpsLeaveInnermost FunctionIsComplete DominatorsFirst ConstructsTogether PhisNamePredecessors
CHECK_DEADLOCK FALSE
