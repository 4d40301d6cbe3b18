SPECIFICATION LiveSpec
CONSTANTS
    j1 = j1
    j2 = j2
    w1 = w1
    w2 = w2
    Jobs = {j1, j2}
    Workers = {w1, w2}
    NoJob = NoJob
    JobPriority <- MCSamePriority
    MaxRetries <- MCMaxRetries
    Registered = {j1}
    MaxFaults = 0
    MaxStops = 1
PROPERTIES
    EveryJobSettles
