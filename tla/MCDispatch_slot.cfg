\* One worker that never crashes, one series.
SPECIFICATION Spec
SYMMETRY MCIdSymmetry
CONSTANTS
    a1 = a1
    p1 = p1
    p2 = p2
    b1 = b1
    b2 = b2
    c1 = c1
    c2 = c2
    series = series
    None = None
    Proc = {p1}
    SchedProc = {p1}
    OneTime = {}
    Parent = {series}
    Child = {c1, c2}
    ParentOf <- MCParentOf
    Account <- MCAccount
    Immediate = {}
    MaxRetries = 0
    RateAge = 1
    StaleAge = 1
    MaxCrash = 0
INVARIANTS
    OneOccurrencePerSlot
