SPECIFICATION Spec
CONSTANTS
    Path <- OddPaths
    Tracked <- OddTracked
    Ignored <- None
    IgnoreRules <- None
    SupportMount <- None
    LegacyHelper <- None
    CacheNamed <- None
    CacheGlobbed <- None
    Quoted <- WithBlank
INVARIANTS
    PatchIsTheAgentsWork
