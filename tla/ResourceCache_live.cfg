SPECIFICATION LiveSpec
CONSTANTS
    posts = posts
    users = users
    list = list
    get = get
    p1 = p1
    p2 = p2
    w1 = w1
    w2 = w2
    NoList = NoList
    NoEntry = NoEntry
    Resources = {posts, users}
    Keys = {list}
    Owner <- MCListOwner
    Endpoint <- MCListEndpoint
    Lists = {list}
    Includes <- MCListIncludes
    InvalidateOn <- MCDefault
    Handlers = {"create", "plain_create", "plain_update", "bulk_create"}
    Readers = {p1, p2}
    Writers = {w1}
    BulkItems = 1
    MaxWrites = 2
    MaxFaults = 0
PROPERTIES
    StaleHeals
