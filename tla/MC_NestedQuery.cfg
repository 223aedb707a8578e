SPECIFICATION FairSpec
CONSTANTS
    q1 = q1
    q2 = q2
    q3 = q3
    c1 = c1
    c2 = c2
    Queries <- ThreeQueries
    Callers <- TwoCallers
    CallerOf <- Shared
INVARIANTS
    BorrowedExists
PROPERTIES
    InterruptEnds
