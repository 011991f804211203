SPECIFICATION FairMCSpec
CONSTANTS
    Null = Null
    Key = {matrix, current}
    Reader = {r1, r2}
    TTL = 3
    Fallback <- Fallbacks
    Atomic = TRUE
    MayFail = TRUE
    MaxSaves = 3
    Customer = {c}
    Country = country
    Currency = currency
    WhenUndated = TRUE
    Product = {1, 2}
    DatedList <- DatedLists
    SharedList <- ReaderLists
    OwnedList <- OwnedLists
    kit = kit
    CentScale = 2
    RateScale = 20
    Scenarios = {"saved", "settled", "dated", "shared", "promo", "owned", "configured"}
INVARIANTS OldForAMinute
INVARIANTS  BundleIsSumOfParts ExtrasInAnyOrder
PROPERTIES SettingsSettle
CHECK_DEADLOCK FALSE
