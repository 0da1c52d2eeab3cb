SPECIFICATION Spec
CONSTANTS
    k1 = k1
    k2 = k2
    r1 = r1
    r2 = r2
    loose = loose
    NoKey = NoKey
    NoSwitch = NoSwitch
    NoRequester = NoRequester
    InitialRuntime = r1
    Resolve <- AdapterResolve
    Requesters = {k1, k2}
    Keys = {k1, k2}
    Runtimes = {r1}
    Switches = {}
    Text <- OwnText
    Wanted <- AllInitial
    EditKeys = {}
    Executions = {}
    Workers = {w1, w2}
    MaxExits = 1
    MaxTransient = 0
    MaxFaults = 1
    MaxCrashes = 1
    MaxTurns = 0
    MaxSelections = 0
    MaxInterrupts = 0
    MaxTimeline = 2
SYMMETRY Symmetry
INVARIANTS
    TypeOK
    AtMostOnce
    OneDriver
    QueueIsDriven
    NotSentNotReceived
PROPERTIES
    InOrder
    ImplementsLedger
