SPECIFICATION FairSpec
CONSTANTS
    k1 = k1
    k2 = k2
    r1 = r1
    r2 = r2
    loose = loose
    NoKey = NoKey
    NoSwitch = NoSwitch
    NoRequester = NoRequester
    InitialRuntime = r1
    Resolve <- AdapterResolve
    Requesters = {k1}
    Keys = {k1}
    Runtimes = {r1, r2, loose}
    Switches = {s1, s2, s3}
    Text <- OwnText
    Wanted <- FirstLoose
    EditKeys = {}
    Executions = {}
    Workers = {w1}
    MaxExits = 1
    MaxTransient = 1
    MaxFaults = 0
    MaxCrashes = 0
    MaxTurns = 0
    MaxSelections = 1
    MaxInterrupts = 0
    MaxTimeline = 1
INVARIANTS
    SlotIsClaimed
    DivergenceIsDriven
    
PROPERTIES
    EventuallyFinal
