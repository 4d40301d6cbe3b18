SPECIFICATION Spec
CONSTANTS
    posts = posts
    users = users
    list = list
    get = get
    p1 = p1
    p2 = p2
    w1 = w1
    w2 = w2
    NoList = NoList
    NoEntry = NoEntry
    Resources = {posts}
    Keys = {list, get}
    Owner <- MCOwner
    Endpoint <- MCEndpoint
    Lists = {list}
    Includes <- MCNoIncludes
    InvalidateOn <- MCDocumented
    Handlers = {"create", "update", "delete", "bulk_create", "bulk_delete"}
    Readers = {p1}
    Writers = {w1}
    BulkItems = 1
    MaxWrites = 1
    MaxFaults = 0
SYMMETRY Symmetry
INVARIANTS
    ListedActionsInvalidate
