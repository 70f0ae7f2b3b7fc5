SPECIFICATION Spec
CONSTANTS
    Internet = "internet"
    Resources <- Account
    TypeOf <- Types
    Public <- Exposed
    RoleOf <- Profiles
    Accounts <- SomeAccounts
    JewelChoices <- Declared
    MaxDepth = 3
    MaxPaths = 2
    MinConfidence = 7
    Removals <- SomeRemovals
    MaxRemovals = 2
INVARIANTS
    PathsAreBacked
    ShortestIsFound
    AssessmentIsEvidenced
    GraphShowsThePaths
    SimulationIsSound
