\* A main window without a connection has no means to connect again.
SPECIFICATION FairSpec
CHECK_DEADLOCK FALSE
CONSTANTS
    MaxRequests = 4
    MaxInFlight = 1
    MaxChunks = 1
INVARIANT TypeOK
INVARIANT AnswersInStep
INVARIANT LoginGenuine
PROPERTY RequestsEnd
