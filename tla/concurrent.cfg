SPECIFICATION Spec
CONSTANTS
    Null = Null
    CentScale = 1
    RateScale = 10
    Country = {c1}
    Currency = {u1}
    CostCurrency = u1
    OtherCurrencies = {u1}
    Rates = {1, 3}
    EditAmounts = {11}
    SpecialAmounts = {10}
    Costs = {10}
    EditSources = {"admin_edit"}
    StoredSources = {}
    EditScopes <- WholeChannel
    WebProcs = {p1, p2}
    TaskProcs = {p1, p2}
    FromNetToGross = TRUE
    BoundsConfig <- MapAndMargin
    Markup = 2
    Rounding = "none"
    Policy <- NoPolicy
    RatesRemoved = FALSE
    MayCrash = TRUE
INVARIANTS TypeOK FloorRespected NoTornPair
PROPERTIES PromoSurvivesBaseline
VIEW WithoutHistory
SYMMETRY ProcsAlike
