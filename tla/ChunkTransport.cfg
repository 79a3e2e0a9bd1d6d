SPECIFICATION FairSpec
CONSTANTS
    x = x
    y = y
    i = i
    j = j
    Payloads <- TwoPayloads
    Inboxes <- TwoInboxes
    Blank = Blank
    None = None
    max_retries = 1
    MaxPublished = 1
    MaxHeard = 2
INVARIANTS
    TypeOK
    
    AckedIsAnnounced
    
PROPERTIES
    CallsReturn
