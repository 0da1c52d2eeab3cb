SPECIFICATION FairSpec
CONSTANTS
    r1 = r1
    r2 = r2
    Runtimes = {r1, r2}
    InitialRuntime = r1
    LiveRuntimes = {r2}
    ForcedRuntimes = {r1}
    Switches = {s1}
    NoSwitch = NoSwitch
    SourceBinding = b0
    Workers = {w1}
    NoOwner = NoOwner
    Orphan = Orphan
    Canceller = Canceller
    Policies = {"wait", "cancel", "reject"}
    MaxCrashes = 1
    MaxStalls = 1
    MaxTurns = 1
    MaxCancels = 1
INVARIANTS
    
    CurrentIsUsable
    CommittedWasPrepared
PROPERTIES
    TerminalIsFinal
    EventuallyTerminal
CHECK_DEADLOCK FALSE
