SPECIFICATION Spec
CONSTANTS
    c1 = c1
    c2 = c2
    s1 = s1
    s2 = s2
    Clients <- TwoClients
    Stores <- TwoStores
    Remotes <- AnyRoot
    Refreshing <- AnyRefresh
    Files = 2
    Empty <- SecondGeneration
    LastGeneration = 1
    MaxRewrites = 2
    MaxSwitches = 1
    MaxCalls <- OneAfterSwitch
SYMMETRY ClientSymmetry
INVARIANTS
    ReturnedCurrent
    EntryIsItsFingerprint
    EntryIsSnapshot
