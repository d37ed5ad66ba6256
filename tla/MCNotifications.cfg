\* Up to four notifications, so that a rewrite has rows of both accounts.
SPECIFICATION Spec
CONSTANTS
    a1 = a1
    a2 = a2
    t1 = t1
    t2 = t2
    NoThread = NoThread
    NoAccount = NoAccount
    Accounts <- MCAccounts
    Threads  <- MCThreads
    MaxRows  = 4
INVARIANTS
    TypeOK
    IdsIncrease
    AcknowledgedStaysRead
PROPERTY
    ImplementsBoard
