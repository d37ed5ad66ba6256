\* The claim of docs/backend_protocol.md, refuted: an account is registered
\* again during a scan of friends.db.
SPECIFICATION Spec
CONSTANTS
    a1 = a1
    a2 = a2
    n1 = n1
    n2 = n2
    n3 = n3
    p1 = p1
    Null = Null
    Accounts    <- MCAccounts
    Nicknames   <- MCNicknames
    Passwords   <- MCPasswords
    InitialUsers <- MCInitialUsers
    Friendships <- MCFriendships
    MaxUsers    = 3
INVARIANT RegisteredOnce
