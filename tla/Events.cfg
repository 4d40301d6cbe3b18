SPECIFICATION LiveSpec
CONSTANTS
    write = write
    triggered = triggered
    Sources = {write, triggered}
    Inbound = {triggered}
    Calls <- MCCalls
    Subscribers <- MCSubscribers
    HasDispatcher = TRUE
    Retries = 2
    Processes = 1
    MaxFaults = 1
CHECK_DEADLOCK FALSE
INVARIANTS
    EmitsAccountedFor
    
PROPERTIES
    EventsArrive
