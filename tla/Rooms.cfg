SPECIFICATION LiveSpec
CONSTANTS
    s1 = s1
    s2 = s2
    lobby = lobby
    Sessions = {s1, s2}
    RoomNames = {lobby}
    Subscriber = Subscriber
    Nobody = Nobody
    NoRoom = NoRoom
    ChannelFiles <- MCFiles
    Tokens <- MCTokens
    ClientTimeout = 1
    MaxFrames = 2
    MaxPublished = 1
    MaxFaults = 1
CHECK_DEADLOCK FALSE
INVARIANTS
    RoomsAgree
PROPERTIES
    OnlyToMembers
    EverySessionEnds
    BroadcastsArrive
