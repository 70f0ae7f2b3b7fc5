SPECIFICATION Spec
CONSTANTS
    Users = {u1, u2}
    Calls = {c1, c2, c3}
    Limit = 2
    Window = 2
    MaxTime = 4
    MaxFaults = 1
SYMMETRY Symmetry
INVARIANT AtMostLimit
INVARIANT RefusedOnlyWhenFull
INVARIANT KeysExpire
CHECK_DEADLOCK FALSE
