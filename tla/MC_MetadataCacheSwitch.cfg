SPECIFICATION Spec
CONSTANTS
    c1 = c1
    c2 = c2
    s1 = s1
    s2 = s2
    Clients <- OneClient
    Stores <- TwoStores
    Remotes <- RemoteRoot
    Refreshing <- NoRefresh
    Files = 1
    Empty <- NoGeneration
    LastGeneration = 0
    MaxRewrites = 0
    MaxSwitches = 2
    MaxCalls <- OneAfterSwitch
SYMMETRY ClientSymmetry
INVARIANTS
    KeptUnderItsKey
