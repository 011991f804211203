SPECIFICATION Spec
CONSTANTS
    Null = Null
    CentScale = 2
    RateScale = 20
    MaxAmount = 420
    TryRates = {0, 1, 5, 20}
    TryMarkups = {0, 3, 7}
    Limits = {Null, 4, 24}
    TryCosts = {Null, 16, 20}
    CostRates = {Null, 2, 6}
    CallAmounts = {16, 20, 24}
    CallRates = {2, 6}
    CallFloors = {Null, 21, 24}
INVARIANTS ConversionsStayClose GuardNeverBends SecondPassAgrees PreviewPredictsSave
PROPERTIES BaselineFollowsCost MoreSpecificRowDecides
