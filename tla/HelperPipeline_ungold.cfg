SPECIFICATION Spec
CONSTANTS
    Candidates <- Kinds
    OnBase <- KindsOnBase
    OnGold <- KindsOnGold
    Traceable <- KindsTraceable
    Forbidden <- KindsForbidden
    K = 2
    GoldPatches <- AnyGold
    MaxCalls = 2
    MaxFaults = 2
INVARIANTS
    ConfirmatoryPassesGold
