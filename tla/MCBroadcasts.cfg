\* Two workers.  Two one-time broadcasts with both as schedulers, as after a Redis outage;
\* a series with room for two occurrences with one of them, and a crash.
SPECIFICATION BroadcastsSpec
SYMMETRY MCSymmetry
CONSTANTS
    a1 = a1
    p1 = p1
    p2 = p2
    b1 = b1
    b2 = b2
    c1 = c1
    c2 = c2
    series = series
    None = None
    Proc = {p1, p2}
    SchedProc = {p1, p2}
    OneTime = {b1, b2}
    Parent = {series}
    Child = {c1, c2}
    ParentOf <- MCParentOf
    Account <- MCAccount
    Immediate = {b1, b2}
    MaxRetries = 1
    RateAge = 1
    StaleAge = 1
    MaxCrash = 1
INVARIANTS
    SoleRunner
    TerminalIsQuiet
    FailedMeansUnlogged
    RunDiscipline
    PauseStopsSeries
PROPERTIES
    ImplementsLifecycle
