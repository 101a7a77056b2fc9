SPECIFICATION Spec
CONSTANTS
    p1 = p1
    p2 = p2
    f1 = f1
    w1 = w1
    w2 = w2
    a1 = a1
    a2 = a2
    None = None
    PcmKeys = {p1, p2}
    RawKeys = {}
    Files = {f1}
    Workers = {w1, w2}
    Assets = {a1, a2}
    MaxBytes = 2
    QueueCap = 1
    Retention = 1
    MaxTime = 2
SYMMETRY Symmetry
INVARIANTS
    BudgetKept
    AccountsMatch
    SingleProducer
    UsagePresent
    MarksAreOwned
    CloseCancelsBuilds
    CloseFreesAll
