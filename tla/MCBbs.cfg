\* Attachments of two posts, which may have the same id, and of one reply; three
\* posts and two replies without attachments.
SPECIFICATION Spec
CONSTANTS
    alice = alice
    bob = bob
    x = x
    y = y
    NoPath = NoPath
    Authors    <- MCAuthors
    Filenames  <- MCFilenames
    MaxPosts   = 3
    MaxReplies = 2
CONSTRAINT MCBound
SYMMETRY MCSymmetry
INVARIANTS
    TypeOK
    OneAttachment
    RecordedBlobsComplete
    AnnouncementsStored
    RepliesReferToPosts
    AuthorsNeverRepeatAnId
PROPERTIES
    OnlyCrashesOrphan
    DenotationStable
