SPECIFICATION MCSpec
CONSTANTS
    h1 = h1
    h2 = h2
    alice = alice
    bob = bob
    d1 = d1
    d2 = d2
    k1 = k1
    k2 = k2
    Handlers = {h1, h2}
    Users = {alice, bob}
    Unknown = Unknown
    Keys = {k1, k2}
    Data = {d1, d2}
    Size <- MCSize
    HashOf <- MCHashOf
    Requests <- MCRequests
    None = None
    Malformed = Malformed
    Window = 1
    MaxRequests = 2
    MaxBytes = 5
    StepRequests = 1
    StepBytes = 3
    RepStep = 2
    MaxScore = 1
    MaxDebt = 1
    DefaultTtl = 1
    MaxTtl = 2
    MaxItemBytes = 3
    MaxBody = 3
    MaxTime = 2
    MaxLogs = 4
    MaxItems = 1
SYMMETRY HandlerSymmetry
INVARIANTS
    RequestOvershootBounded
    ByteOvershootBounded
    CheapRequestsBounded
    ReputationEarned
    AcknowledgedIsDurable
    AuditedIsStored
    AcceptedUnderLiveGrant
PROPERTIES
    StoredEntriesImmutable
CHECK_DEADLOCK FALSE
