\* Two set-returning functions whose rows are fetched in turn.
SPECIFICATION SetFairSpec
CONSTANTS
    f1 = f1
    f2 = f2
    p1 = p1
    p2 = p2
    n1 = n1
    n2 = n2
    Funcs <- MCFuncs
    RowTypes = {}
    TypesOf <- MCTypesOf
    Versions <- MCVersions
    CacheSize = 1
    Ptrs <- MCPtrs
    Null = Null
    Free = Free
    Nodes <- MCNodes
    FuncOf <- MCFuncOf
    Nobody = Nobody
    MaxRows = 2
    MaxEvals = 2
INVARIANTS
    SetTypeOK
PROPERTIES
    EveryRowOnce
    EvaluationEnds
