SPECIFICATION Spec
CONSTANTS
    Tracked = {"src.py", ".gitignore"}
    BaseUntracked = {}
    Fresh = {}
    Ephemeral = {}
    Excluded = {}
    IgnoreFile = ".gitignore"
    Hides <- LogsHidden
    InContainer = FALSE
    Conditions <- OnlyC4
    Commands <- StagingCommands
    Edits <- SourceEdits
    MaxTurns = 2
    MaxBlocksPerMsg = 2
    RevisionBudget = 1
INVARIANT
    EarlyEditsReverted
