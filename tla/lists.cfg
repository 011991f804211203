SPECIFICATION MCSpec
CONSTANTS
    Null = Null
    SaleChannel = {"csv", "own", "gen"}
    CountryOf <- Countries
    CustomerOf <- Customers
    Source = "csv"
    Generated = {"gen"}
    Currency = {pln}
    Customer = {"someone"}
    Importers = {i1, i2}
    Batches = 2
    Keep <- KeepOne
    MaxLists = 3
    CentScale = 1
    RateScale = 10
    Sku = {"a", "b"}
    Attr = {"x"}
    TaxClass = {"std", "red"}
    Home = home
    Abroad = abroad
    Rate = {1, 2}
    InitialRate <- RatesAtStart
    Files <- SomeFiles
    BatchSize = 2
    MapOf <- OnlyA
    EditTo = {10}
    MaxEdits = 1
    MaxRateChanges = 1
    Scenarios = {"generated", "customers", "collected", "edited", "killed"}
INVARIANTS ReadyListIsWhole StoresAgree
PROPERTIES SparesShown 
CHECK_DEADLOCK FALSE
SYMMETRY ImportersAlike
