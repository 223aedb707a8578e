SPECIFICATION Spec
CONSTANTS
    w1 = w1
    w2 = w2
    a = a
    b = b
    Workers <- MCWorkers
    Shards <- TwoShards
    Rows <- Growing
    Limit = 2
    MaxTracked = 1
    IndexOnVisit = 2
    MinRequests = 3
    LastVersion = 1
SYMMETRY MCSymmetry
INVARIANTS
    BudgetKept
    PublishedIndexExact
    AnswersCurrent
    LoadingHasLoader
