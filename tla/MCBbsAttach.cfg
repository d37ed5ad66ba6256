\* The claim of docs/backend_protocol.md, refuted: two posts with one id.
SPECIFICATION Spec
CONSTANTS
    alice = alice
    bob = bob
    x = x
    y = y
    NoPath = NoPath
    Authors    <- MCAuthors
    Filenames  <- MCFilenames
    MaxPosts   = 2
    MaxReplies = 1
INVARIANT OnlyAuthorsAttach
