SPECIFICATION Spec
CONSTANTS
    None = None
    Today = 1
    Units <- FlowUnits
    Parameters <- FlowParameters
    ParametersOf <- FlowOf
    Rank <- FlowRank
    Bands <- FlowBands
    Histories <- FlowHistories
    AsOfDays <- AnyDay
    Forms <- OneForm
INVARIANTS
    NormalIsInNormalBand
