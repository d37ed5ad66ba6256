\* The claim of web/README.md, refuted: a session that has had Limit events.
SPECIFICATION Spec
CONSTANTS
    p1 = p1
    p2 = p2
    Polls <- MCPolls
    Limit     = 2
    MaxEvents = 4
INVARIANT NewEventsHandedOut
