SPECIFICATION Spec
CONSTANTS
    Path <- PlainPaths
    Tracked <- TrackedPaths
    Ignored <- IgnoredPaths
    IgnoreRules <- RulePaths
    SupportMount <- MountPaths
    LegacyHelper <- None
    CacheNamed <- Caches
    CacheGlobbed <- Caches
    Quoted <- None
INVARIANTS
    PatchIsOnlyTheAgentsWork
