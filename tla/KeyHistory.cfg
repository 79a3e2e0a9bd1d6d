SPECIFICATION HistorySpec
CONSTANTS
    Sites = {s1, s2}
    Absent = Absent
    MaxAge = 0
    MaxFresh = 5
    MaxLen = 4
    MaxTime = 1
SYMMETRY Symmetry
INVARIANTS
    HistoryTypeOK
    RevocationsJustified
    RotatedOutOfUse
CHECK_DEADLOCK FALSE
