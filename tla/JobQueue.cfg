SPECIFICATION Spec
CONSTANTS
    j1 = j1
    j2 = j2
    w1 = w1
    w2 = w2
    Jobs = {j1, j2}
    Workers = {w1, w2}
    NoJob = NoJob
    JobPriority <- MCPriority
    MaxRetries <- MCMaxRetries0
    Registered = {j1, j2}
    MaxFaults = 1
    MaxStops = 0
SYMMETRY Symmetry
INVARIANTS
    OnePlace
    SuccessIsFinal
    StatusTruthful
    JobInv
PROPERTIES
    NoSilentLoss
    NoPriorityInversion
    ImplementsLifecycle
