SPECIFICATION FairSpec
CONSTANTS
    Null = Null
    CentScale = 1
    RateScale = 10
    Country = {c1}
    Currency = {u1}
    CostCurrency = u1
    OtherCurrencies = {u1}
    Rates = {1}
    EditAmounts = {13}
    SpecialAmounts = {10}
    Costs = {10}
    EditSources = {"admin_edit"}
    StoredSources = {}
    EditScopes <- WholeChannel
    WebProcs = {p1}
    TaskProcs = {p2}
    FromNetToGross = FALSE
    BoundsConfig <- MapOnly
    Markup = 2
    Rounding = "none"
    Policy <- NoPolicy
    RatesRemoved = TRUE
    MayCrash = FALSE
PROPERTIES RecalculationCompletes
