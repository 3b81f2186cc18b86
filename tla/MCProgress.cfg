\* One worker, a one-time broadcast and a series that share an account, with claims left
\* behind by exceptions and skipped series; of the payments one process of each kind, one
\* crash or failed call, and two requests where they may race.
SPECIFICATION ProgressSpec
CONSTANTS
    a1 = a1
    p1 = p1
    p2 = p2
    b1 = b1
    b2 = b2
    c1 = c1
    c2 = c2
    series = series
    None = None
    Proc = {p1}
    SchedProc = {p1}
    OneTime = {b1}
    Parent = {series}
    Child = {c1}
    ParentOf <- MCParentOf
    Account <- MCAccount
    Immediate = {}
    MaxRetries = 0
    RateAge = 1
    StaleAge = 1
    MaxCrash = 0
    d1 = d1
    Deposit = {d1, d2}
    t1 = t1
    i1 = i1
    Payer = {t1}
    Watcher = {w1}
    Clerk = {k1, k2}
    PageSize = 1
    MaxRefs = 1
    UsdtFaults = 1
    Nobody = nobody
    Invoice = {i1, i2}
    Hook = {h1}
    Job = {j1}
    InvoiceFaults = 1
    NoInvoice = noInvoice
INVARIANTS
    OneKeyPerDeposit
    DepositPaysOnce
    KeyClaimedOnce
    FulfilledOnce
PROPERTIES
    DueIsDispatched
    SeriesReleased
    DepositRecorded
    LegacyServed
CHECK_DEADLOCK FALSE
