\* Three connections at a time for one slot; a nickname that is an account too.
SPECIFICATION FairSpec
CONSTANTS
    a1 = a1
    a2 = a2
    a3 = a3
    n1 = n1
    n2 = n2
    p1 = p1
    f1 = f1
    f2 = f2
    f3 = f3
    NoFd = NoFd
    NoName = NoName
    NoUser = NoUser
    Accounts     <- MCAccountsLive
    Nicknames    <- MCNicknamesLive
    Passwords    <- MCPasswords
    InitialUsers <- MCInitialUsers
    Fds          <- MCFds
    MaxUsers     = 3
    Racing       = FALSE
    MaxClients   = 1
    MaxSent      = 1
INVARIANT
    NamesUnique
PROPERTIES
    DeadPeersReleased
    NameNeverTakenOver
