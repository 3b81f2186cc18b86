\* One recipient after the other, one attempt each; nothing crashes.
SPECIFICATION Spec
SYMMETRY MCSymmetry
CONSTANTS
    Recipient = {r1, r2}
    MaxAttempts = 1
    BatchSize = 1
    Threshold = 2
    RetryLimit = 1
    MaxCrash = 0
INVARIANTS
    FailedMeansNobodyConfirmed
\* A settled broadcast may stay settled.
CHECK_DEADLOCK FALSE
