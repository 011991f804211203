SPECIFICATION Spec
CONSTANTS
    Null = Null
    CentScale = 1
    RateScale = 10
    Country = {c1, c2}
    Currency = {u1}
    CostCurrency = u1
    OtherCurrencies = {u1}
    Rates = {1, 3}
    EditAmounts = {11}
    SpecialAmounts = {10}
    Costs = {10}
    EditSources = {"pricefighter"}
    StoredSources = {"baseline"}
    EditScopes <- WholeChannel
    WebProcs = {p1}
    TaskProcs = {p1}
    FromNetToGross = FALSE
    BoundsConfig <- MapAndMargin
    Markup = 2
    Rounding = "none"
    Policy <- SeededPolicy
    RatesRemoved = FALSE
    MayCrash = FALSE
INVARIANTS RatesSettled
PROPERTIES RecalculationStaysInCountry
