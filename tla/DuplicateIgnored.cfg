SPECIFICATION Spec
CONSTANTS
    Opened = 1
    MaxFacts <- Facts
    FeedCap = 1
    WireCap = 1
    QueueCap = 2
    MaxOutages = 1
    MaxGestures = 0
INVARIANTS
    DuplicateWasApplied
CHECK_DEADLOCK FALSE
