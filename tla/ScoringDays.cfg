SPECIFICATION Spec
CONSTANTS
    None = None
    Today = 3
    Units <- TrainUnits
    Parameters <- TrainParameters
    ParametersOf <- TrainOf
    Rank <- TrainRank
    Bands <- TrainBands
    Histories <- TrainHistories
    AsOfDays <- AnyDay
    Forms <- OneForm
INVARIANTS
    ScoringTypeOK
    ScoreOfTheDay
    NoFabricatedScore
    DeltaIsDayOverDay
    ToolsAgree
