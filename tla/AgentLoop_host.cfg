SPECIFICATION Spec
CONSTANTS
    Tracked = {"src.py", ".gitignore"}
    BaseUntracked = {}
    Fresh = {"new.log"}
    Ephemeral = {"pkg/m.pyc", "m.pyc"}
    Excluded = {"pkg/m.pyc"}
    IgnoreFile = ".gitignore"
    Hides <- HostRules
    InContainer = FALSE
    Conditions <- AllConditions
    Commands <- HostCommands
    Edits <- HostEdits
    MaxTurns = 3
    MaxBlocksPerMsg = 2
    RevisionBudget = 1
INVARIANTS
    PatchCarriesTheTree
