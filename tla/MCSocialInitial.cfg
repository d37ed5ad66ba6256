\* The claim of docs/backend_protocol.md, refuted: a second PRIVATE_START to
\* somebody who is not a friend is delivered as the first one was.
SPECIFICATION Spec
CONSTANTS
    a1 = a1
    a2 = a2
    a3 = a3
    NoOne = NoOne
    Accounts   <- MCTwo
    MaxRows    = 1
    MaxGroups  = 1
    MaxNamed   = 1
    MaxMisread = 0
SYMMETRY MCSymmetryOfTwo
INVARIANT OneInitialMessage
