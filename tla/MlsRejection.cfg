SPECIFICATION Spec
CONSTANTS
    r1 = r1
    r2 = r2
    m1 = m1
    s1 = s1
    s2 = s2
    x1 = x1
    Replicas = {r1, r2}
    Committers = {r1, r2}
    Members = {m1}
    Suites = {s1, s2}
    FirstSuite = s1
    Secrets = {x1}
    Seed = Seed
    Foreign <- ForeignCommits
    None = None
    MaxEpoch = 3
PROPERTIES
    RejectionKeepsEpoch
