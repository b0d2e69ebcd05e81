SPECIFICATION Spec
CONSTANTS
    c1 = c1
    c2 = c2
    p1 = p1
    p2 = p2
    Cells = {c1, c2}
    Dirs = {c1, c2}
    DirOf <- OwnDir
    UseContainer = TRUE
    DockerEval = TRUE
    Helpers <- AnyHelper
    Patches = {p1, p2}
    MaxFaults = 2
    MaxWorkers = 2
    MaxInfraRetries = 1
    Resume = TRUE
    MaxLaunches = 2
SYMMETRY CellsAndPatches
INVARIANTS
    InfraNeverAnalysed
    ContainersRemoved
    HelperRunsAreWhole
    RowsTellTheDisk
PROPERTIES
    NoResultOverwritten
