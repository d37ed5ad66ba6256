\* Two accounts that ask, reply and create groups at the same time.
SPECIFICATION Spec
CONSTANTS
    a1 = a1
    a2 = a2
    a3 = a3
    NoOne = NoOne
    Accounts   <- MCTwo
    MaxRows    = 2
    MaxGroups  = 2
    MaxNamed   = 1
    MaxMisread = 2
SYMMETRY MCSymmetryOfTwo
INVARIANTS
    TypeOK
    RowsUnique
    FriendshipsByConsent
    MembersAreFriends
    CreatedGroupsComplete
