SPECIFICATION Spec
CONSTANTS
    Tables <- MCTables
    Sources <- MCSources
    Length = 4
INVARIANTS NoRecursiveExpansion
CHECK_DEADLOCK FALSE
