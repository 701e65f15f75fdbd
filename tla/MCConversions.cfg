\* Values of every type, as arguments, as results and as results of SQL.
SPECIFICATION Spec
CONSTANTS
    Garbage = Garbage
    ArgTypes <- MCArgTypes
    ResultTypes <- MCResultTypes
    ColumnTypes <- MCColumnTypes
    ValuesOf <- MCValuesOf
    MaxSends = 6
CHECK_DEADLOCK FALSE
INVARIANTS
    MemoryTypeOK
    NoWildAccess
    NothingLeaks
    ReceivedAsPassed
    ReturnedAsPassed
