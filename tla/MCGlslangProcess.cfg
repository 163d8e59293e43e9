SPECIFICATION Spec
CONSTANTS
    m = m
    w1 = w1
    w2 = w2
    k1 = k1
    k2 = k2
    hlsl = hlsl
    NoThread = NoThread
    MaxInit = 2
    Threads <- MCThreads
    Clients <- MCClients
    Keys <- MCKeys
    Unbuildable <- MCUnbuildable
INVARIANTS OneBuilder UsedStateIsLive ReadWithoutLock PoolIntact TornDown
PROPERTIES TablesNeverRebuilt ImplementsOnceCache
