----------------------------- MODULE MCPipeline -----------------------------
(* Instances of Pipeline for TLC: an account with all but IAM groups.      *)
EXTENDS Pipeline

Nothing ==
    [type |-> "ROLE", address |-> FALSE, policy |-> {}, acl |-> FALSE, block |-> {},
     groups |-> {}, ingress |-> {}, egress |-> {}, role |-> "none", key |-> <<>>,
     part |-> "none"]

R(port, ranges, groups) == [port |-> port, ranges |-> ranges, groups |-> groups]
G(effect, principal, conditions) ==
    [effect |-> effect, principal |-> principal, conditions |-> conditions]

(* "web" lets everyone in and, of "all" protocols, only a range out;       *)
(* "data" shuts the database from its public address; "job" is a function  *)
(* that a Deny closes, "shut" and "part" are buckets closed by settings.   *)
Settled ==
    [role |-> Nothing,
     ops |-> Nothing,
     boss |-> Nothing,
     key |-> [Nothing EXCEPT !.type = "KMS_KEY"],
     user |-> [Nothing EXCEPT !.type = "USER"],
     vpc |-> [Nothing EXCEPT !.type = "VPC"],
     net |-> [Nothing EXCEPT !.type = "SUBNET", !.address = TRUE, !.part = "vpc"],
     web |-> [Nothing EXCEPT !.type = "SECURITY_GROUP",
                !.ingress = {R("sensitive", {"everyone"}, {}), R("other", {"everyone6"}, {"web"})},
                !.egress = {R("all", {"some"}, {}), R("other", {}, {"web"})}],
     app |-> [Nothing EXCEPT !.type = "SECURITY_GROUP",
                !.egress = {R("other", {"some"}, {"data"})}],
     data |-> [Nothing EXCEPT !.type = "SECURITY_GROUP",
                !.ingress = {R("sensitive", {}, {"web"}), R("other", {"some"}, {"app"})}],
     vm |-> [Nothing EXCEPT !.type = "EC2", !.address = TRUE, !.groups = {"web"},
                            !.role = "profile", !.part = "net"],
     disk |-> [Nothing EXCEPT !.type = "VOLUME", !.part = "vm", !.key = <<"arn", "key">>],
     fn |-> [Nothing EXCEPT !.type = "LAMBDA", !.policy = {G("Allow", "everyone", {})},
                            !.groups = {"app"}, !.role = "role", !.key = <<"key">>],
     job |-> [Nothing EXCEPT !.type = "LAMBDA", !.role = "boss",
                !.policy = {G("Deny", "everyone", {}), G("Allow", "listed", {"mfa"})}],
     db |-> [Nothing EXCEPT !.type = "RDS", !.address = TRUE, !.groups = {"data"},
                            !.key = <<"arn", "key">>],
     secret |-> [Nothing EXCEPT !.type = "SECRET", !.key = <<"alias", "nick">>],
     shut |-> [Nothing EXCEPT !.type = "S3", !.acl = TRUE, !.block = Settings],
     part |-> [Nothing EXCEPT !.type = "S3", !.acl = TRUE, !.key = <<"alias", "nick">>,
                !.policy = {G("Allow", "listed", {"mfa"})},
                !.block = {"IgnorePublicAcls", "RestrictPublicBuckets"}],
     wide |-> [Nothing EXCEPT !.type = "S3", !.policy = {G("Allow", "everyone", {})},
                              !.key = <<"key">>]]

All == DOMAIN Settled
Nicknames == [nick |-> "key"]

(* An account with everything but a bucket, and one without an instance.   *)
SomeAccounts == {All \ {"shut", "part"}, All \ {"vm", "disk", "wide"}}

(* A normalizer that raises has done this much of what was collected.     *)
SomeParts == {{"role", "vm", "net", "vpc", "fn", "wide"}}

(* "ops", the role of the instance, may pass any role but "boss", and      *)
(* assume "role" as one of the account that it trusts; "role", that of the *)
(* function, may pass "ops" by a pattern, and "boss" on a condition;       *)
(* "boss" trusts everybody in the way that is not seen, and a role of      *)
(* another account that is named like the function's.                      *)
S(effect, action, resource) ==
    [effect |-> effect, action |-> {action}, notAction |-> {},
     resource |-> {resource}, notResource |-> {}, conditions |-> {}]
SomePolicies ==
    [ops |-> {S("Allow", "iam:passrole", "*"), S("Deny", "iam:passrole", "boss"),
              S("Allow", "sts:assumerole", "role")},
     role |-> {S("Allow", "iam:passrole", "op*"),
               [S("Allow", "iam:passrole", "boss") EXCEPT !.conditions = {"mfa"}]},
     boss |-> {}]
P(kind, name, owner) == [kind |-> kind, name |-> name, account |-> owner]
T(aws, services) ==
    [effect |-> "Allow", aws |-> aws, services |-> services, bare |-> FALSE, conditions |-> {}]
SomeTrusts ==
    [ops |-> {T({P("user", "user", "ours")}, <<"ec2">>)},
     role |-> {T({P("root", "root", "ours")}, <<"lambda">>)},
     boss |-> {[T({}, <<>>) EXCEPT !.bare = TRUE], T({P("role", "role", "theirs")}, <<>>)}]

SomeActions == {"iam:passrole", "sts:assumerole"}
SomePatterns == SomeActions \cup All \cup {"*", "op*"}
InLower == [x \in SomePatterns |-> x]
SomeMatching ==
    {<<x, x>> : x \in SomePatterns} \cup ({"*"} \X SomePatterns) \cup {<<"op*", "ops">>}

Profiles == [profile |-> "ops"]
Declared == {{}, {"boss", "role", "db"}}
=============================================================================
