SPECIFICATION Spec
CONSTANTS
    p1 = p1
    r1 = r1
    f1 = f1
    f2 = f2
    w1 = w1
    a1 = a1
    a2 = a2
    None = None
    PcmKeys = {p1}
    RawKeys = {r1}
    Files = {f1, f2}
    Workers = {w1}
    Assets = {a1, a2}
    MaxBytes = 2
    QueueCap = 1
    Retention = 1
    MaxTime = 1
SYMMETRY Symmetry
INVARIANTS
    TypeOK
    LeaseSafe
