\* A text that is not ASCII, and an array without elements.
SPECIFICATION FairSpec
CONSTANTS
    Name <- MCName
    Outcomes <- Unusual
    LogLines <- MCLogLines
    MaxLogs = 0
CHECK_DEADLOCK FALSE
PROPERTIES
    Answered
