SPECIFICATION Spec
CONSTANTS
    r1 = r1
    r2 = r2
    Runtimes = {r1, r2}
    InitialRuntime = r1
    LiveRuntimes = {r2}
    ForcedRuntimes = {}
    Switches = {s1}
    NoSwitch = NoSwitch
    SourceBinding = b0
    Workers = {w1}
    NoOwner = NoOwner
    Orphan = Orphan
    Canceller = Canceller
    Policies = {"wait"}
    MaxCrashes = 1
    MaxStalls = 0
    MaxTurns = 0
    MaxCancels = 0
PROPERTIES
    CommitIsWhole
CHECK_DEADLOCK FALSE
