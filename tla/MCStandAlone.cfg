SPECIFICATION ToolSpec
CONSTANTS
    m = m
    w1 = w1
    w2 = w2
    k1 = k1
    hlsl = hlsl
    f1 = f1
    f2 = f2
    f3 = f3
    NoThread = NoThread
    NoItem = NoItem
    MaxInit = 2
    Main = m
    Threads <- MCThreads
    Clients <- MCClients
    Keys <- MCKeys
    Unbuildable <- MCUnbuildable
    Items <- MCItems
    KeyOf <- MCKeyOf
    Script <- MCScript
INVARIANTS EachItemOnce PrintsAllResults StrandedOnlyIfAllGaveUp CleanExit
PROPERTIES ToolTerminates EveryItemPrinted
