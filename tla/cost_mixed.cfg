SPECIFICATION MCSpec
CONSTANTS
    Null = Null
    Conn = {c1, c2}
    Pair = {p, q}
    Primary = {p, q}
    Saves = TRUE
    Stream = TRUE
    MayRaise = FALSE
    MaxCosts = 2
    MaxDepth = 1
    Scenarios = {"mixed"}
INVARIANTS CostsArePriced
CHECK_DEADLOCK FALSE
