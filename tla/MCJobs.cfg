\* Three workers of two overlapping containers; two links and a selection that share
\* a limit of one; two tasks, two workers and one schedule; one crash or error; three chat
\* sockets, two updates, two of the dispatcher's workers; two messages of one sender.
SPECIFICATION JobsSpec
CONSTANTS
    Proc = {w1, w2, w3}
    None = none
    RedisFails = TRUE
    TTL = 6
    Drivers = {"asyncpg", "aiosqlite"}
    i1 = i1
    a1 = a1
    Item = {i1, i2}
    JoinAccount = {a1}
    AccountOfItem <- MCAccountOfItem
    JoinSched = {s1}
    Caller = {c1}
    HourlyLimit = 1
    QueueLimit = 1
    DirectLimit = 1
    MaxTargets = 2
    JoinFaults = 1
    NoItem = noItem
    r1 = r1
    k1 = k1
    Task = {k1, k2}
    Schedule = {h1}
    Runner = {r1, r2}
    MaxTries = 1
    Interval = 2
    MaxNow = 3
    TaskFaults = 1
    NoTask = noTask
    d1 = d1
    u1 = u1
    c1 = c1
    c2 = c2
    Socket = {c1, c2, c3}
    Update = {u1, u2}
    Quiet = {u2}
    Drain = {d1, d2}
    QueueMax = 1
    PushMax = 2
    NoUpdate = noUpdate
    NoSocket = noSocket
    p1 = p1
    p2 = p2
    m1 = m1
    x1 = x1
    Process = {p1, p2}
    Winner = p1
    Handler = {h1, h2}
    Message = {m1, m2}
    Sender = {x1}
    SenderOf <- MCSenderOf
    MaxPerDay = 1
    ReplyFaults = 1
    NoProcess = noProcess
    NoMessage = noMessage
INVARIANTS
    JobsTypeOK
    AtMostOneScheduler
    JoinedOnce
    DailyBudget
    FloodRespected
    PauseStopsQueue
    IntervalKept
    UpdateReachesAll
    RepliesBounded
PROPERTIES
    DeadKeyExpires
    CancelSticks
    TaskEnds
    UpdateHandled
CHECK_DEADLOCK FALSE
