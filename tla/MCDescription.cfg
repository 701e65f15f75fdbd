\* The description of a call while its SQL makes other calls.
SPECIFICATION Spec
CONSTANTS
    f1 = f1
    f2 = f2
    f3 = f3
    p1 = p1
    p2 = p2
    p3 = p3
    Funcs <- MCFuncs
    RowTypes = {}
    TypesOf <- MCTypesOf
    Versions <- MCVersions
    CacheSize = 2
    Ptrs <- MCPtrs
    Null = Null
    Free = Free
    Contexts <- MCContexts
    NoContext = NoContext
    Refusals = FALSE
    Handlers = FALSE
    MaxDepth = 2
INVARIANTS
    DescriptionKept
