\* Two users, two paths, two uploads.
SPECIFICATION Spec
CONSTANTS
    u1 = u1
    u2 = u2
    x = x
    NoPath = NoPath
    Users     <- MCUsers
    Filenames <- MCFilenames
    Sizes     <- MCSizes
    MaxUploads = 2
SYMMETRY MCSymmetry
INVARIANTS
    TypeOK
    StreamInStep
    RecordedFilesWhole
    ListedDownloadsWhole
    SnapshotComplete
