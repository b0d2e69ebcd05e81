SPECIFICATION Spec
CONSTANTS
    Tracked = {"src.py", ".gitignore"}
    BaseUntracked = {"build.py"}
    Fresh = {}
    Ephemeral = {}
    Excluded = {}
    IgnoreFile = ".gitignore"
    Hides <- LogsHidden
    InContainer = TRUE
    Conditions <- OnlyC4
    Commands <- ReadCommands
    Edits <- SourceEdits
    MaxTurns = 3
    MaxBlocksPerMsg = 1
    RevisionBudget = 1
PROPERTY
    RejectedEditWasMade
