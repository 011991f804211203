SPECIFICATION FairMCSpec
CONSTANTS
    Null = Null
    Conn = {c1, c2}
    Pair = {p, q}
    Primary = {p}
    Saves = TRUE
    Stream = TRUE
    MayRaise = TRUE
    MaxCosts = 4
    MaxDepth = 3
    Scenarios = {"saves", "stream", "overlap", "queue", "refused", "bulk"}
INVARIANTS NothingStarved PricedFromCommitted CostsArriveInOrder QueueIsServed
PROPERTIES MatrixCatchesUp
CHECK_DEADLOCK FALSE
