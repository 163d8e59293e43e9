SPECIFICATION Spec
CONSTANTS
    main = main
    f = f
    g = g
    h = h
    ubo = ubo
    texture = texture
    Programs <- MovedPrograms
    Ids <- MCIds
    Functions <- MCFunctions
    Entry = main
    ResourceTypes <- MCTypes
    BindingEnd = 5
    LocationEnd = 7
    SetEnd = 2
    MaxCalls = 1
INVARIANTS OpenSlotsAreOpen
CHECK_DEADLOCK FALSE
