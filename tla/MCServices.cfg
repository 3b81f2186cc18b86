\* Three recipients in batches of two, two attempts each, one retry, one crash; two
\* wallets and one charge; one referrer, three commissions, two payouts; two turns, or
\* one turn and another request; two users; one phone, one token, three requests; one
\* account, connected in one process and signed in by one worker.
SPECIFICATION ServicesSpec
CONSTANTS
    Recipient = {r1, r2, r3}
    MaxAttempts = 2
    BatchSize = 2
    Threshold = 2
    RetryLimit = 1
    MaxCrash = 1
    Holder = {seller, buyer}
    Seller = seller
    Charge = {x1}
    Update = {a1, a2}
    TopUp = 2
    Price = 2
    CheckIn = 1
    MaxDay = 2
    MaxStars = 1
    StarsFaults = 1
    NoCharge = noCharge
    Referrer = {f1}
    Commissioned = {c1, c2, c3}
    Payout = {p1, p2}
    Admin = {b1, b2}
    Amounts = {1, 2}
    MinPayouts = {1, 2}
    NoPayout = noPayout
    t1 = t1
    Turn = {t1, t2}
    Caller = {q1}
    Estimate = 2
    Usages = {1, 5}
    LegacyCost = 1
    PackSize = 2
    FreePool = 3
    PaidPool = 4
    ResetTokens = 1
    RefillInterval = 1
    TrialEnd = 1
    HistoryPage = 4
    HistoryKept = 2
    MaxHour = 1
    User = {u1, u2}
    Login = {l1, l2, l3}
    SessionDays = 2
    MaxToday = 3
    NoUser = noUser
    Phone = {h1}
    Form = {g1}
    Visit = {v1, v2, v3}
    MaxGuesses = 2
    MaxCodes = 2
    NoForm = noForm
    Restarts = 1
    Worker = {w1}
    Request = {s1}
    Key = {k1, k2, k3}
    NoKey = noKey
    MaxSent = 3
INVARIANTS
    ServicesTypeOK
    RecordIsTruth
    ReachBound
    ChargeGrantedOnce
    WalletBalanced
    LedgerBalanced
    StreamCharged
    SoleSession
    ProofAdmitsOnce
    BusyIsWorked
    SignInResumes
PROPERTIES
    KeepsContract
\* A settled broadcast may stay settled, and the other parts come to an end.
CHECK_DEADLOCK FALSE
