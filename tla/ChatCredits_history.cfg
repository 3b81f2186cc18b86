\* Two questions asked in a session; a page of the history holds two rows, as 200
\* rows of a long one.
SPECIFICATION CreditSpec
CONSTANTS
    Turn = {t1, t2}
    Caller = {}
    Estimate = 2
    Usages = {1}
    LegacyCost = 1
    PackSize = 1
    FreePool = 8
    PaidPool = 8
    ResetTokens = 1
    RefillInterval = 2
    TrialEnd = 2
    HistoryPage = 2
    HistoryKept = 2
    MaxHour = 0
PROPERTIES
    HistoryRecent
CHECK_DEADLOCK FALSE
