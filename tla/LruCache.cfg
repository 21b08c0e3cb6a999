SPECIFICATION CacheSpec
CONSTANTS
    Keys = {k1, k2, k3, k4}
    Vals = {v1, v2}
    Capacity = 3
    Nodes = {n1, n2, n3, n4}
    Null = Null
    Miss = Miss
    StatWrap = 3
INVARIANTS
    WellFormed
    HotStays
PROPERTIES
    ImplementsAbstractLru
SYMMETRY Symmetry
