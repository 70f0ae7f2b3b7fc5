--------------------------- MODULE MCScanAnalysis ---------------------------
(* Instances of ScanAnalysis for TLC: an account with an instance, a       *)
(* function, two roles, a database, a bucket and a key.                    *)
EXTENDS ScanAnalysis, TLC

Account == {"ec2", "fn", "roleA", "roleB", "db", "bucket", "key"}
Types == [ec2 |-> "EC2", fn |-> "LAMBDA", roleA |-> "ROLE", roleB |-> "ROLE",
          db |-> "RDS", bucket |-> "S3", key |-> "KMS_KEY"]
Exposed == {"ec2", "bucket"}
Profiles == [profile |-> "roleA"]

Rel(by, s, t, type, confidence, tags) ==
    [by |-> by, source |-> s, target |-> t, type |-> type,
     confidence |-> confidence, tags |-> tags]

Exposure == Rel("provider", "internet", "ec2", "EXPOSED_TO", 10, {})
ExposedDb == Rel("provider", "internet", "db", "EXPOSED_TO", 10, {})
RunsAs == Rel("provider", "ec2", "profile", "RUNS_AS", 8, {})
PassesRole == Rel("iam", "roleA", "roleB", "CAN_PASS_ROLE", 6, {})
Assumes == Rel("iam", "roleA", "roleB", "CAN_ASSUME", 10, {"Condition"})
AnyoneAssumes == Rel("iam", "internet", "roleA", "CAN_ASSUME", 7, {})
ServiceTrust == Rel("iam", "service", "roleA", "TRUSTS", 6, {"account"})
OpenBucket == Rel("network", "internet", "bucket", "EXPOSED_TO", 10, {})
Ec2ToDb == Rel("network", "ec2", "db", "CONNECTED_TO", 10, {})
Ec2ToDbDoubtful == Rel("network", "ec2", "db", "CONNECTED_TO", 5, {})
Ec2ToFn == Rel("network", "ec2", "fn", "CONNECTED_TO", 10, {})
FnToDb == Rel("network", "fn", "db", "CONNECTED_TO", 10, {})

(* What the identity side of the account, and its network side, give.      *)
Identity == {Exposure, RunsAs, PassesRole, Assumes, AnyoneAssumes, ServiceTrust,
             OpenBucket}
Network == {Exposure, ExposedDb, Ec2ToDb, Ec2ToDbDoubtful, Ec2ToFn, FnToDb}

SomeAccounts == {Identity, Network}

Declared == {{"roleB"}, {}}

RemovalOf(r) == [source |-> r.source, target |-> r.target, type |-> r.type]
SomeRemovals == {RemovalOf(r) : r \in {Ec2ToDb, Exposure, ExposedDb, FnToDb}}
=============================================================================
