SPECIFICATION Spec
CONSTANTS
    Path <- OddPaths
    Tracked <- OddTracked
    Ignored <- None
    IgnoreRules <- None
    SupportMount <- None
    LegacyHelper <- None
    CacheNamed <- LookLikeCaches
    CacheGlobbed <- None
    Quoted <- None
INVARIANTS
    PatchIsTheAgentsWork
