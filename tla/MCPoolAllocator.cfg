SPECIFICATION PoolSpec
CONSTANTS
    p1 = p1
    p2 = p2
    p3 = p3
    p4 = p4
    Pages <- MCPages
    Sizes <- MCSizes
    PageSize = 8
    HeaderSkip = 2
    Alignment = 2
    MaxCalls = 5
    MaxStack = 3
INVARIANTS PagesOnce BlocksDisjoint BlocksProtected NoPageKept
SYMMETRY MCSymmetry
