SPECIFICATION Spec
CONSTANTS
    MaxNesting = 4
    MaxStray = 1
    Padding <- MCZeroPadding
INVARIANTS CountersAgree
PROPERTIES ImplementsConditionalGroups
CHECK_DEADLOCK FALSE
