SPECIFICATION FairSpec
CONSTANTS
    Tracked = {"src.py", ".gitignore"}
    BaseUntracked = {"build.py"}
    Fresh = {"new.log"}
    Ephemeral = {"pkg/m.pyc"}
    Excluded = {"pkg/m.pyc"}
    IgnoreFile = ".gitignore"
    Hides <- LogsHidden
    InContainer = TRUE
    Conditions <- AllConditions
    Commands <- AllCommands
    Edits <- ContainerEdits
    MaxTurns = 4
    MaxBlocksPerMsg = 1
    RevisionBudget = 1
INVARIANTS
    TypeOK
    EvidenceBeforeProgress
    SubmissionEarned
    StatusTellsSubmission
    NoUnstagedEditBeforePatch
    PatchCarriesTheTree
PROPERTIES
    ImplementsWorkflow
    LoopEnds
