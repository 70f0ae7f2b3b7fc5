SPECIFICATION FairSpec
CONSTANTS
    Requests = {r1, r2, r3}
    Paths = {p1}
    UnknownPath = UnknownPath
    Models = {m1, m2}
    NoModel = NoModel
    Summaries = {s1, s2}
    NotValid = NotValid
    NoRow = NoRow
    MaxFaults = 1
INVARIANT TraceableToItsModel
PROPERTY RequestsEnd
CHECK_DEADLOCK FALSE
