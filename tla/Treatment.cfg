SPECIFICATION Spec
CONSTANTS
    Budget = 15
    TopK = 2
    TopTests = 1
    MaxHits = 4
    MaxFiles = 2
    Header = 1
    Heading = 2
    NameLine = 3
    Jobs <- AllJobs
    HelperTexts = {"helper 1", "helper 2"}
    Overwrite = FALSE
    MaxAttempts = 2
INVARIANTS
    TypeOK
    TreatmentIsTheConditions
    RecordsTellTheTreatment
    OpenNetworkIsRecorded
    ContextIsRankedAndBounded
CHECK_DEADLOCK FALSE
