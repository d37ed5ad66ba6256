\* Two messages and a download or a list of at most one row; sockets that hold one
\* item.  The system stops when the commands are used up, and CommandsEnd says that
\* it does not before.
SPECIFICATION FairSpec
CONSTANTS
    u1 = u1
    u2 = u2
    Nobody = Nobody
    Slots   <- MCSlots
    Members <- MCMembers
    Capacity     = 1
    FileChunks   = 2
    Rows         = 1
    MaxMessages  = 2
    MaxReads     = 1
INVARIANTS
    TypeOK
    ReadersInStep
    OneOrder
    HistoryAgrees
PROPERTY
    CommandsEnd
CHECK_DEADLOCK FALSE
