\* Log lines and answers of calls that share event loops.
SPECIFICATION FairSpec
CONSTANTS
    Sessions = {1, 2}
    Loops = {1, 2}
    MaxConns = 3
    Home <- MCHome
    MaxLines = 1
CHECK_DEADLOCK FALSE
INVARIANTS
    ServerTypeOK
    OneHandlerPerLoop
    OwnInOrder
    OwnComplete
PROPERTIES
    AllAnswered
