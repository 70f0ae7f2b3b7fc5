SPECIFICATION Spec
CONSTANTS
    Clients = {ann, bob}
    Actors = {ann, bob}
    Anyone = anyone
    Ceiling = 1
    Limits = {1, 2}
    Scans = {s1, s2}
    Omitted = omitted
    Missing = missing
    MaxFaults = 1
SYMMETRY Symmetry
INVARIANTS
    ReportIsOfOneScan
    SeesOwnScan
    AnswersAreTrue
    PagesMissNothing
