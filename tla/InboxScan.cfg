SPECIFICATION FairScanSpec
CONSTANTS
    Limit = 2
    PageBytes = 2
    MaxItemBytes = 2
    Sizes = {1, 2}
    Ttls = {1, 3}
    NoCursor = NoCursor
    MaxTime = 2
    MaxItems = 3
INVARIANTS
    ScanComplete
PROPERTIES
    RefinesMailbox
    
