SPECIFICATION Spec
CONSTANTS
    Null = Null
    CentScale = 1
    RateScale = 10
    Country = {c1}
    Currency = {u1, u2}
    CostCurrency = u1
    OtherCurrencies = {}
    Rates = {1, 3}
    EditAmounts = {11}
    SpecialAmounts = {10}
    Costs = {10, 14}
    EditSources = {"admin_edit", "pricefighter"}
    StoredSources = {}
    EditScopes <- AllScopes
    WebProcs = {p1}
    TaskProcs = {p1}
    FromNetToGross = TRUE
    BoundsConfig <- MapAndMargin
    Markup = 2
    Rounding = "none"
    Policy <- NoPolicy
    RatesRemoved = FALSE
    MayCrash = FALSE
INVARIANTS HistoryCurrent RatesSettled BaselineSettled
PROPERTIES LabelsFollowPrecedence TombstoneRespected
