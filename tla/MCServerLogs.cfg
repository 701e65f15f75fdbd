\* A log line of one session that another one reads.
SPECIFICATION Spec
CONSTANTS
    Sessions = {1, 2}
    Loops = {1, 2}
    MaxConns = 3
    Home <- MCHome
    MaxLines = 1
CHECK_DEADLOCK FALSE
PROPERTIES
    LogsToCaller
