SPECIFICATION Spec
CONSTANTS
    Paths <- Two
    Cells <- TwoByTwo
    Baseline = "C0"
    WorldsOf <- RichFirst
    GoldOf <- Gold
    PatchesOf <- FirstPatches
    m1 = m1
    m2 = m2
    Versions = {m1, m2}
    NoVersion = NoVersion
    Resume = TRUE
    MaxFaults = 1
    MaxLaunches = 2
SYMMETRY Models
INVARIANTS
    CohortIsHomogeneous
    ResolvedIsClean
    ContrastIsPaired
    CardIsRecomputable
CHECK_DEADLOCK FALSE
