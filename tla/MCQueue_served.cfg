\* PostgreSQL; one link of one account, and one scheduler.
SPECIFICATION JoinFairSpec
CONSTANTS
    Drivers = {"asyncpg"}
    Item = {i1}
    JoinAccount = {a1}
    AccountOfItem <- MCAccountOfItem
    a1 = a1
    JoinSched = {s1}
    Caller = {}
    HourlyLimit = 1
    QueueLimit = 1
    DirectLimit = 1
    MaxTargets = 1
    JoinFaults = 0
    NoItem = noItem
PROPERTIES
    QueueServed
CHECK_DEADLOCK FALSE
