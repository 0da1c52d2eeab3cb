SPECIFICATION FairSpec
CONSTANTS
    k1 = k1
    k2 = k2
    r1 = r1
    r2 = r2
    loose = loose
    NoKey = NoKey
    NoSwitch = NoSwitch
    NoRequester = NoRequester
    InitialRuntime = r1
    Resolve <- AdapterResolve
    Requesters = {k1}
    Keys = {k1}
    Runtimes = {r1}
    Switches = {}
    Text <- OwnText
    Wanted <- AllInitial
    EditKeys = {}
    Executions = {k1}
    Workers = {w1}
    MaxExits = 1
    MaxTransient = 1
    MaxFaults = 0
    MaxCrashes = 1
    MaxTurns = 1
    MaxSelections = 0
    MaxInterrupts = 0
    MaxTimeline = 2
INVARIANTS
    OneTurn
PROPERTIES
    GateReopens
    SessionSettles
    EventuallyFinal
