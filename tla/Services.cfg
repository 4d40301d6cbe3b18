SPECIFICATION ServicesSpec
CONSTANTS
    N = 4
    Unroutable = {}
    NoCompensate = {2}
    NeedsId = {1, 3}
    Timeouts = TRUE
    Refusals = TRUE
    MaxFaults = 2
    \* every configuration of the two mains
    Setups <- MCSetups
    MaxJobs = 2
    \* three starts, two connections, three migrations of which one is not
    \* simple and one may be repeated; one fault
    Runs = {1, 2, 3}
    Others = {1}
    Versions = {1, 2, 3}
    Skipped = {2}
    Repeatable = {1}
    MaxMishaps = 1
    \* two processes under one name; ten and thirty-five seconds
    Procs = {1, 2}
    Interval = 2
    Ttl = 7
    Names <- MCNames
    Configs <- MCConfigs
    Sagas <- MCSagas
CHECK_DEADLOCK FALSE
INVARIANTS
    SagaTellsTruth
    
    MigratedInOrder
    EntriesFollowProcesses
    GroupStartsAndEnds
PROPERTIES
    RequestsInTurn
    
