SPECIFICATION Spec
CONSTANTS
    main = main
    f = f
    g = g
    NoFunction = NoFunction
    Functions <- MCFunctions
    Entry = main
    Main = main
    MaxUnits = 2
    MaxCalls = 3
INVARIANTS PathIsStack RecursionIsFound DeadBodiesGo MissingBodiesFound
PROPERTIES LiveBodiesStay ChecksEnd
CHECK_DEADLOCK FALSE
