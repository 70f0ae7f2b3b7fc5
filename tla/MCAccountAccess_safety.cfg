SPECIFICATION Spec
CONSTANTS
    Users = {alice, root}
    Admins = {root}
    Accounts = {a1, a2}
    Scans = {s1}
    Unknown = Unknown
    NoJob = NoJob
    Ops = {o1, o2, o3, o4}
    MaxErrors = 1
SYMMETRY Symmetry
INVARIANT RevocationSticks
PROPERTY ScanSeenByItsAccount
PROPERTY ImplementsAccessControl
CHECK_DEADLOCK FALSE
