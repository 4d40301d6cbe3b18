SPECIFICATION Spec
CONSTANTS
    posts = posts
    users = users
    list = list
    get = get
    p1 = p1
    p2 = p2
    w1 = w1
    w2 = w2
    NoList = NoList
    NoEntry = NoEntry
    Resources = {posts}
    Keys = {list, get}
    Owner <- MCOwner
    Endpoint <- MCEndpoint
    Lists = {list}
    Includes <- MCNoIncludes
    InvalidateOn <- MCMixed
    Handlers = {"update", "delete", "bulk_delete"}
    Readers = {p1}
    Writers = {w1, w2}
    BulkItems = 2
    MaxWrites = 2
    MaxFaults = 1
SYMMETRY Symmetry
INVARIANTS
    SnapshotCovers
    EventsSeeFreshCache
