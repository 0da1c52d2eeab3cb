SPECIFICATION Spec
CONSTANTS
    k1 = k1
    k2 = k2
    r1 = r1
    r2 = r2
    loose = loose
    NoKey = NoKey
    NoSwitch = NoSwitch
    NoRequester = NoRequester
    InitialRuntime = r1
    Resolve <- AdapterResolve
    Requesters = {k1, k2}
    Keys = {k1, k2}
    Runtimes = {r1}
    Switches = {s1}
    Text <- OwnText
    Wanted <- AllInitial
    EditKeys = {k2}
    Executions = {k1}
    Workers = {w1, w2}
    MaxExits = 1
    MaxTransient = 1
    MaxFaults = 0
    MaxCrashes = 0
    MaxTurns = 0
    MaxSelections = 0
    MaxInterrupts = 1
    MaxTimeline = 2
SYMMETRY WorkerSymmetry
INVARIANTS
    ShownOnce
    StoppedIsNotSent
    CompletedRangeIsOwn
PROPERTIES
    FinalStays
