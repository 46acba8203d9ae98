SPECIFICATION Spec
CONSTANTS
    None = None
    Today = 2
    Units <- TrainUnits
    Parameters <- TrainParameters
    ParametersOf <- TrainOf
    Rank <- TrainRank
    Bands <- TrainBands
    Histories <- TrainHistories
    AsOfDays <- AnyDay
    Forms <- AllForms
INVARIANTS
    ScoreOfTheDay
