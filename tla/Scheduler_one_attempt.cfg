SPECIFICATION Spec
CONSTANTS
    c1 = c1
    c2 = c2
    p1 = p1
    p2 = p2
    Cells = {c1}
    Dirs = {c1}
    DirOf <- OwnDir
    UseContainer = FALSE
    DockerEval = FALSE
    Helpers <- NoHelper
    Patches = {p1, p2}
    MaxFaults = 2
    MaxWorkers = 1
    MaxInfraRetries = 1
    Resume = TRUE
    MaxLaunches = 2
INVARIANTS
    StreamsAreOfOneAttempt
