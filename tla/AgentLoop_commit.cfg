SPECIFICATION Spec
CONSTANTS
    Tracked = {"src.py", ".gitignore"}
    BaseUntracked = {}
    Fresh = {}
    Ephemeral = {}
    Excluded = {}
    IgnoreFile = ".gitignore"
    Hides <- LogsHidden
    InContainer = TRUE
    Conditions <- AllConditions
    Commands <- CommitCommands
    Edits <- SourceEdits
    MaxTurns = 4
    MaxBlocksPerMsg = 1
    RevisionBudget = 1
INVARIANT
    PatchIsAgainstBase
