SPECIFICATION Spec
CONSTANTS
    r1 = r1
    r2 = r2
    Runtimes = {r1, r2}
    InitialRuntime = r1
    LiveRuntimes = {}
    ForcedRuntimes = {}
    Switches = {s1, s2}
    NoSwitch = NoSwitch
    SourceBinding = b0
    Workers = {w1}
    NoOwner = NoOwner
    Orphan = Orphan
    Canceller = Canceller
    Policies = {"wait"}
    MaxCrashes = 1
    MaxStalls = 0
    MaxTurns = 1
    MaxCancels = 0
SYMMETRY SwitchSymmetry
INVARIANTS
    SwitchTypeOK
    ClosedIsExplained
PROPERTIES
    CommitIsWhole
    
    ImplementsSelection
CHECK_DEADLOCK FALSE
