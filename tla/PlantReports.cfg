SPECIFICATION PlantSpec
CONSTANTS
    None = None
    Today = 30
    MaxRaw = 21
    Units <- FixtureUnits
    Parameters <- MCParameters
    ParametersOf <- FixtureCodes
    Rank <- MCRank
    Bands <- FixtureBands
    Histories <- MCHistories
    AsOfDays <- MCAsOfDays
    Forms <- OneForm
    Dates <- MCDates
    Codes <- MCCodes
    Flow <- FixtureFlow
    Limits <- FixtureLimits
    Tables <- MCTables
    MaxAnswers = 2
CHECK_DEADLOCK FALSE
INVARIANTS
    NothingDroppedUnsaid
    PointsCoverWindow
    BlindSpotsShown
    RawAgreesWithScore
    AlertsAgreeWithScores
    NamesCanBeFollowed
    AlertsAgreeWithCompliance
    ConformanceIsComplete
