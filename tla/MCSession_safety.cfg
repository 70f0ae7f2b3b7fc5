SPECIFICATION SessionSpec
CONSTANTS
    Tokens = {t1}
    Second = 2
    Lifetime = 3
    MaxTime = 9
    MaxFaults = 1
    Names = {ann}
    Roles = {"analyst", "admin"}
    Registrations = {r1, r2}
    Scripts = {r2}
    MaxChanges = 1
INVARIANT CreatedByOne
PROPERTY RejectedUntilLastSecond
PROPERTY WrongForALifetime
CHECK_DEADLOCK FALSE
