SPECIFICATION Spec
CONSTANTS
    main = main
    f = f
    g = g
    h = h
    ubo = ubo
    texture = texture
    Programs <- MCPrograms
    Ids <- MCIds
    Functions <- MCFunctions
    Entry = main
    ResourceTypes <- MCTypes
    BindingEnd = 5
    LocationEnd = 7
    SetEnd = 2
    MaxCalls = 2
INVARIANTS TypeOK LiveIsReached MappedOnce AutomaticMappingsApart
PROPERTIES ImplementsOpenBindings
CHECK_DEADLOCK FALSE
