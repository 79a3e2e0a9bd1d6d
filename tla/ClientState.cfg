SPECIFICATION Spec
CONSTANTS
    r1 = r1
    r2 = r2
    r3 = r3
    Procs = {a, b}
    Requests = {r1, r2, r3}
    Proven = {r1, r2}
    CreatedAt <- MCCreatedAt
    Recipients = {u, v}
    MaxAge = 0
    MaxSkew = 1
    None = None
    Empty = Empty
    Torn = Torn
    MaxRuns = 4
    MaxSends = 2
    MaxKeys = 2
    MaxTime = 1
SYMMETRY Symmetry
INVARIANTS
    TypeOK
    GrantsMatchIds
    
    SealedStateOpens
    ReplayRejected
CHECK_DEADLOCK FALSE
