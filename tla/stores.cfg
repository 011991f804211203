SPECIFICATION MCSpec
CONSTANTS
    Null = Null
    Callers = {p1, p2}
    Settings <- SomeSettings
    MaxCalls = 4
    SaleChannel = {sc1, sc2}
    Slot = {market, tier}
    Price = {a, b, d}
    Attr = {x}
    Catalogues <- SomeCatalogues
    BatchSize = 2
    MaxLists = 2
    MaxRuns = 2
    MaxEdits = 1
    sc1 = sc1
    sc2 = sc2
    market = market
    tier = tier
    a = a
    b = b
    d = d
    x = x
    Sku = {s1, s2}
    Country = {de, pl}
    Floored = {de}
    MaxItems = 2
    Scenarios = {"upsert", "migration", "batch"}
INVARIANTS UpsertKeepsRows  BatchKeepsPromises
PROPERTIES BulkNeverReverts ErrorsChangeNothing
SYMMETRY CallersAndSkusAlike
CHECK_DEADLOCK FALSE
