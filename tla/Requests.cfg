SPECIFICATION RequestsSpec
CONSTANTS
    Calls <- MCCalls
    Client <- MCClient
    MaxRequests = 2
    WindowSecs = 2
    MaxWait = 1
    Horizon = 4
    Accounts <- MCAccounts
    ApiKeyUsers <- MCApiKeyUsers
    TokenRows <- MCTokenRows
    Rules <- MCRules
    AccessTtl = 1
    RefreshTtl = 3
    Leeway = 1
    MaxTokens = 3
    TokenHorizon = 3
    Endpoints <- MCEndpoints
    MaxWrites = 2
    Reqs <- MCReqs
    FileRows = {"row"}
    MaxParts = 2
    MaxStops = 1
    AppServices = {"db"}
    AppRows <- MCAppRows
    Alerts <- MCAlerts
    Prints = {"slow"}
    AppRequests = 3
    AppFaults = 2
CHECK_DEADLOCK FALSE
INVARIANTS
    WindowKept
    
    HooksAndEffectsInTurn
    
    

    
