SPECIFICATION LogSpec
CONSTANTS
    Holders = {s1, s2}
    Entries <- MCEntries
    Encoding <- MCEncoding
    None = None
    MaxEntries = 5
    MaxKinds = 2
SYMMETRY Symmetry
INVARIANTS
    LogTypeOK
    RootIsCanonical
    VerdictsAgree
