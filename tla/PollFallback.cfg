SPECIFICATION TalkSpec
CONSTANTS
    Clients = {a, b}
    Guests = {}
    MaxCommits = 2
    MaxSeq = 1
    MaxApplied = 3
    Ttl = 1
    None = None
    MaxKeys = 2
    MaxTime = 1
    MaxOut = 1
    Rotating = {a}
    Polling = {b}
INVARIANTS
    FallbackFindsPublished
CHECK_DEADLOCK FALSE
