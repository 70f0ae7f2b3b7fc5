--------------------------- MODULE MCIamAnalyzer ---------------------------
(* Instances of IamAnalyzer for TLC: two roles and two actions.            *)
EXTENDS IamAnalyzer, TLC

(* The name of one role is written in upper and lower case.                *)
SomeActions == {"iam:passrole", "s3:getobject"}
SomeArns == {"arn:app-One", "arn:app-two"}
SomePatterns ==
    SomeActions \cup SomeArns \cup {"*", "iam:*", "IAM:PassRole", "arn:app-*", "arn:app-one"}
InLower ==
    ("arn:app-One" :> "arn:app-one") @@ ("IAM:PassRole" :> "iam:passrole")
        @@ [x \in SomePatterns |-> x]
SomeMatching ==
    {<<x, x>> : x \in SomePatterns}
        \cup {<<"*", x>> : x \in SomePatterns}
        \cup {<<"iam:*", "iam:passrole">>}
        \cup {<<"arn:app-*", x>> : x \in SomeArns \cup {"arn:app-one"}}
Arns == [one |-> "arn:app-One", two |-> "arn:app-two"]

S(effect, action, resource) ==
    [effect |-> effect, action |-> {action}, notAction |-> {},
     resource |-> {resource}, notResource |-> {}, conditions |-> {}]

PlainPolicies ==
    {S("Allow", "*", "*"), S("Allow", "IAM:PassRole", "arn:app-two"),
     S("Allow", "s3:getobject", "*"), S("Allow", "iam:passrole", "arn:app-*"),
     S("Deny", "iam:passrole", "*")}
CasePolicies == {S(e, "*", "arn:app-one") : e \in {"Allow", "Deny"}}
ConditionedPolicies ==
    {[S("Allow", "iam:*", "*") EXCEPT !.conditions = {"mfa"}],
     [S("Deny", "*", "arn:app-One") EXCEPT !.conditions = {"mfa"}]}
NotPolicies ==
    {[S(e, "", "*") EXCEPT !.action = {}, !.notAction = {"iam:*"}] : e \in {"Allow", "Deny"}}
AllPolicies == PlainPolicies \cup CasePolicies \cup ConditionedPolicies \cup NotPolicies

P(kind, name, account) == [kind |-> kind, name |-> name, account |-> account]
T(effect, aws, services) ==
    [effect |-> effect, aws |-> aws, services |-> services, bare |-> FALSE, conditions |-> {}]
SomeTrusts ==
    {[T("Allow", {}, <<>>) EXCEPT !.bare = TRUE], T("Deny", {P("any", "", "")}, <<"ec2">>),
     T("Allow", {P("any", "", ""), P("number", "1234", ""), P("root", "", "theirs"),
                 P("role", "one", "ours")}, <<"ec2", "ssm">>)}
=============================================================================
