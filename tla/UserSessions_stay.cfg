\* One user whose session lasts two days.
SPECIFICATION SessionSpec
CONSTANTS
    User = {u1}
    Login = {l1, l2}
    SessionDays = 2
    MaxToday = 3
    NoUser = noUser
INVARIANTS
    ActiveStays
CHECK_DEADLOCK FALSE
