\* One process; a sign-in and a delivery of the account at once.
SPECIFICATION SignSpec
CONSTANTS
    Worker = {w1}
    Request = {q1, q2}
    Key = {k1, k2}
    NoKey = noKey
    MaxSent = 1
PROPERTIES
    OnlyInvalidCleared
CHECK_DEADLOCK FALSE
