SPECIFICATION CacheSpec
CONSTANTS
    f1 = f1
    f2 = f2
    f3 = f3
    f4 = f4
    t1 = t1
    p1 = p1
    p2 = p2
    p3 = p3
    p4 = p4
    Funcs <- MCFuncs
    RowTypes <- MCRowTypes
    TypesOf <- MCTypesOf
    Versions <- MCVersions
    CacheSize = 3
    Ptrs <- MCPtrs
    Null = Null
    Free = Free
SYMMETRY MCSymmetry
INVARIANTS
    CacheTypeOK
    SlotsOwnHeap
PROPERTIES
    LruSpec
