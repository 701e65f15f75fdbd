\* Calls nested two deep, with a cache of one; errors and refused connections anywhere.
SPECIFICATION FairSpec
CONSTANTS
    f1 = f1
    f2 = f2
    f3 = f3
    p1 = p1
    p2 = p2
    p3 = p3
    Funcs <- FewFuncs
    RowTypes = {}
    TypesOf <- FewTypesOf
    Versions <- MCVersions
    CacheSize = 1
    Ptrs <- FewPtrs
    Null = Null
    Free = Free
    Contexts <- MCContexts
    NoContext = NoContext
    Refusals = TRUE
    Handlers = TRUE
    MaxDepth = 2
INVARIANTS
    CallTypeOK
    SubxactsBalanced
    ContextOfTop
PROPERTIES
    ChangeFlagged
    CallsEnd
