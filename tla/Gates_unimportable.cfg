SPECIFICATION Spec
CONSTANTS
    Modules <- MCModules
    Tests <- MCTests
    TestNamed <- MCTestNamed
    Uses <- MCUses
    TestsFor <- MCTestsFor
    Covers <- MCCovers
    Installed = {"ruff", "mypy", "bandit"}
    ImportCap = 1
    RevisionBudget = 1
    Versions = {"v1", "v2"}
    Named <- MCNamed
    Shipped = {5}
    Quoted = {}
    Bases <- MCBases
    Edits <- MCEdits
    Moves <- MCMoves
    Tunable = {"ruff"}
    MaxEdits = 3
INVARIANT ChangedModulesImport
CHECK_DEADLOCK FALSE
