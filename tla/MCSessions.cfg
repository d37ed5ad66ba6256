\* Three connections at a time over two slots, one command line in flight each.
SPECIFICATION Spec
CONSTANTS
    a1 = a1
    a2 = a2
    a3 = a3
    n1 = n1
    n2 = n2
    p1 = p1
    f1 = f1
    f2 = f2
    f3 = f3
    NoFd = NoFd
    NoName = NoName
    NoUser = NoUser
    Accounts     <- MCAccounts
    Nicknames    <- MCNicknames
    Passwords    <- MCPasswords
    InitialUsers <- MCInitialUsers
    Fds          <- MCFds
    MaxUsers     = 2
    Racing       = TRUE
    MaxClients   = 2
    MaxSent      = 1
INVARIANTS
    TypeOK
    OneSessionPerAccount
    SlotsMatchConnections
    OpenDescriptorsOwned
    SessionsAuthenticated
    PushesReachTheirAccount
