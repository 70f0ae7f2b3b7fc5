SPECIFICATION Spec
CONSTANTS
    Resources <- All
    Internet = "internet"
    None = "none"
    Conditions = {"mfa"}
    AliasOf <- Nicknames
    Config <- Settled
    Accounts <- SomeAccounts
    Volatile = {"role", "vm", "shut", "wide", "key"}
    MaxEvents = 2
    Parts <- SomeParts
    Actions <- SomeActions
    Patterns <- SomePatterns
    Lower <- InLower
    Matching <- SomeMatching
    Dangerous = {"iam:passrole"}
    PoliciesOf <- SomePolicies
    TrustsOf <- SomeTrusts
    Ours = "ours"
    RoleOf <- Profiles
    JewelChoices <- Declared
    MaxDepth = 3
    MaxPaths = 2
    MinConfidence = 7
INVARIANTS
    MissingIsExplained
    ConnectedAsAllowed
    ReportedIsReal
    ReachableIsReported
    OnlyRolesRankHigh
