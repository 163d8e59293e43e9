SPECIFICATION Spec
CONSTANTS
    main = main
    f = f
    g = g
    NoFunction = NoFunction
    Functions <- MCFunctions
    Entry = f
    Main = main
    MaxUnits = 1
    MaxCalls = 1
INVARIANT LinkedStageIsComplete
CHECK_DEADLOCK FALSE
