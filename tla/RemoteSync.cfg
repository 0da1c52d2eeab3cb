SPECIFICATION FairSpec
CONSTANTS
    Opened = 1
    MaxFacts <- Facts
    FeedCap = 1
    WireCap = 1
    QueueCap = 2
    MaxOutages = 1
    MaxGestures = 1
INVARIANTS
    SyncTypeOK
    

    
    
CHECK_DEADLOCK FALSE
