\* Pieces of whole fields, cut in two only where decode() is prepared for it.
SPECIFICATION FairSpec
CONSTANTS
    Sessions <- MCSessions
    CutAnywhere = FALSE
\* The connection waits for ever after the last request.
CHECK_DEADLOCK FALSE
INVARIANTS
    DecoderTypeOK
    InSync
    StaysOpen
    CalledAsSent
PROPERTIES
    AllDelivered
