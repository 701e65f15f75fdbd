\* What the test functions of the repository return and throw.
SPECIFICATION FairSpec
CONSTANTS
    Name <- MCName
    Outcomes <- Usual
    LogLines <- MCLogLines
    MaxLogs = 2
\* After its call the backend is gone.
CHECK_DEADLOCK FALSE
INVARIANTS
    ChannelTypeOK
    ReceivedAsSent
PROPERTIES
    Answered
