CONSTANTS
    SubOrder <- MCSubOrder
    Shapes <- MCCandidates
    AmountsToMove = {0, 2, 100}
    AmountsToPool = {2, 100}
    RowKeys <- MCRowKeys
    RowValues <- MCRowValues
    Offers <- MCOffers
    Target <- MCTarget
    TopN = 1
    MinScore = 40
    Scans = {1, 2}
    Services = {"All", "AKS"}
    Shells <- MCShells
    TooOld = {"powershell"}
    RowsPerScan = 2
    World <- MCWorld
    PresetRegions <- MCPresetRegions
    MaxPage = 2
    MaxEvents = 2
    MaxLoads = 8
SPECIFICATION DashboardSpec
INVARIANTS
    DonorsKeepBuffer
    ServedInOrder
    PlanAgreesWithSimulation
    ReasonsAreTrue
    ReportsAgree
    AnswersMatchTheStore
    AnswersSayWhatTheyAre
    
PROPERTIES
    BetterNeverScoresLower
    PageComesToRest
CHECK_DEADLOCK FALSE
