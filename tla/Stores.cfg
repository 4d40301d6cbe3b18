SPECIFICATION Spec
CONSTANTS
    Ids = {1, 2, 3}
    Values = {0, 1}
    Writers = {w1, w2}
    Readers = {r1}
    Engines = {"postgres", "generated", "sqlite", "mysql", "mongodb"}
    Listings <- MCListings
    Stocks <- MCStocks
    Limit = 1
    MaxWrites = 2
CHECK_DEADLOCK FALSE
INVARIANTS
    WalksComplete
    AnswersTrue
PROPERTIES
    ImplementsTable
