SPECIFICATION Spec
CONSTANTS
    Peers = {p}
    Configured = {p}
    None = None
    Damaged = Damaged
    Second = 2
    Minute = 60
    ban_duration = 10
    probation_duration = 8
    score_recovery_per_minute = 30
    ProbationDebt = 35
    BanDebt = 70
    ClearDebt = 25
    invalid_payload_ban_threshold = 2
    inconsistent_response_ban_threshold = 4
    TickSteps = {1, 4}
    MaxTime = 10
    MaxReports = 4
    MaxRestarts = 3
INVARIANTS
    TypeOK
    BannedNotExplicit
    ProbationIsDeserved
    BanErosionBounded
    SnapshotIsCurrent
CHECK_DEADLOCK FALSE
