SPECIFICATION IamSpec
CONSTANTS
    Actions <- SomeActions
    Resources <- SomeArns
    Patterns <- SomePatterns
    Lower <- InLower
    Matching <- SomeMatching
    Conditions = {"mfa"}
    Dangerous = {"iam:passrole"}
    Roles = {"one", "two"}
    ArnOf <- Arns
    Internet = "internet"
    Policies <- AllPolicies
    Trusts <- SomeTrusts
    MaxStatements = 2
INVARIANTS
    PassRoleIsEffective
    DangerIsFlagged
    DifferenceIsMisread
