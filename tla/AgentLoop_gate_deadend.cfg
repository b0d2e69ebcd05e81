SPECIFICATION Spec
CONSTANTS
    Tracked = {"src.py", ".gitignore"}
    BaseUntracked = {}
    Fresh = {}
    Ephemeral = {}
    Excluded = {}
    IgnoreFile = ".gitignore"
    Hides <- LogsHidden
    InContainer = TRUE
    Conditions <- OnlyC6
    Commands <- PlainCommands
    Edits <- SourceEdits
    MaxTurns = 3
    MaxBlocksPerMsg = 1
    RevisionBudget = 1
PROPERTY
    FeedbackCanBeActedOn
