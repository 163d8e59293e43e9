SPECIFICATION Spec
CONSTANTS
    Tables <- MCTables
    Sources <- MCSources
    Length = 4
INVARIANTS BusyIsOnStack PrescanStaysInside ExpandsAsDefined
PROPERTIES PreprocessingEnds
CHECK_DEADLOCK FALSE
