SPECIFICATION FairSpec
CONSTANTS
    r1 = r1
    r2 = r2
    Runtimes = {r1, r2}
    InitialRuntime = r1
    LiveRuntimes = {}
    ForcedRuntimes = {r1}
    Switches = {s1, s2}
    NoSwitch = NoSwitch
    SourceBinding = b0
    Workers = {w1}
    NoOwner = NoOwner
    Orphan = Orphan
    Canceller = Canceller
    Policies = {"wait"}
    MaxCrashes = 0
    MaxStalls = 0
    MaxTurns = 0
    MaxCancels = 0
PROPERTIES
    EventuallyTerminal
CHECK_DEADLOCK FALSE
