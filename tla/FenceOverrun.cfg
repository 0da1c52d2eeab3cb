SPECIFICATION Spec
CONSTANTS
    Processes = {1, 2, 3, 4}
    MaxAttaches = 1
    MaxTurns = 1
    MaxSwitches = 1
    MaxFaults = 1
INVARIANTS
    CommitFitsFence
