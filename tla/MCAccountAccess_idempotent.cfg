SPECIFICATION Spec
CONSTANTS
    Users = {alice, root}
    Admins = {root}
    Accounts = {a1, a2}
    Scans = {s1}
    Unknown = Unknown
    NoJob = NoJob
    Ops = {o1, o2, o3}
    MaxErrors = 0
INVARIANT GrantIsIdempotent
CHECK_DEADLOCK FALSE
