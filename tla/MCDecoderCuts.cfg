\* Pieces cut anywhere.
SPECIFICATION Spec
CONSTANTS
    Sessions <- MCSessions
    CutAnywhere = TRUE
CHECK_DEADLOCK FALSE
INVARIANTS
    StaysOpen
