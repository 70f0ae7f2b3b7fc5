-------------------------- MODULE NetworkAnalyzer --------------------------
(***************************************************************************)
(* NetworkAnalyzer.analyze (engine/network/analyzer.py), over the assets   *)
(* of a scan.  An asset is a record [id, public, block, policy, acl]: the  *)
(* flag the provider gives it and, of a bucket, what could be read of its  *)
(* access block, policy and ACL.  The rules of groups are in Config.       *)
(***************************************************************************)
EXTENDS AwsAccount

Rel(source, target, type, confidence) ==
    [source |-> source, target |-> target, type |-> type, confidence |-> confidence]

IdsOf(assets) == {a.id : a \in assets} \ {Internet}
Groups(assets) == {g \in IdsOf(assets) : Type(g) = "SECURITY_GROUP"}
-----------------------------------------------------------------------------
(* _analyze_security_group.                                                *)
GroupFindings(assets) ==
    UNION {{[id |-> g, severity |-> IF rule.port = "other" THEN "medium" ELSE "critical"] :
                rule \in {r \in Config[g].ingress : r.ranges \cap {"everyone", "everyone6"} # {}}} :
             g \in Groups(assets)}

IsGrantedBucket(a) ==
    /\ a.id # Internet /\ Type(a.id) = "S3"
    /\ a.acl \/ \E s \in a.policy : s.effect = "Allow" /\ s.principal = "everyone"

(* _analyze_s3_bucket: only all four settings of the access block, read as *)
(* such, outweigh a policy or an ACL for everyone; Deny statements,        *)
(* conditions and "*" in a list are not looked at.                         *)
IsPublicBucket(a) ==
    /\ a.id # Internet /\ Type(a.id) = "S3"
    /\ a.block # Settings
    /\ a.acl \/ \E s \in a.policy : s.effect = "Allow" /\ s.principal = "everyone"

BucketFindings(assets) ==
    {[id |-> a.id, severity |-> "critical"] : a \in {b \in assets : IsPublicBucket(b)}}

BucketEdges(assets) ==
    {Rel(Internet, a.id, "EXPOSED_TO", 10) : a \in {b \in assets : IsPublicBucket(b)}}

(* sg_to_resources.                                                        *)
Using(assets, g) ==
    {i \in IdsOf(assets) : Type(i) \in {"EC2", "RDS", "LAMBDA"} /\ g \in Config[i].groups}

(* _is_allow_all_egress: the protocol -1 to whatever range, or 0.0.0.0/0.  *)
IsAllowAllEgress(rule) == rule.port = "all" \/ "everyone" \in rule.ranges

EgressOfAllOnly(assets, from, to) ==
    IF \/ from \notin Groups(assets)
       \/ Config[from].egress = {}
       \/ \E rule \in Config[from].egress : IsAllowAllEgress(rule)
    THEN 10 ELSE 5

(* _egress_confidence: the ports do not matter.                            *)
EgressConfidence(assets, from, to) ==
    IF \/ from \notin Groups(assets)
       \/ Config[from].egress = {}
       \/ \E rule \in Config[from].egress : IsAllowAllEgress(rule) \/ to \in rule.groups
    THEN 10 ELSE 5

(* The group to has an inbound rule whose source is the group from.        *)
Names(from, to) == \E rule \in Config[to].ingress : from \in rule.groups

(* _derive_sg_to_sg_connectivity.                                          *)
GroupEdges(assets) ==
    LET rules == {p \in Resources \X Groups(assets) : Names(p[1], p[2])}
        edges(from, to) ==
            {Rel(i, j, "CONNECTED_TO", EgressConfidence(assets, from, to)) :
                i \in Using(assets, from), j \in Using(assets, to)}
    IN  {e \in UNION {edges(p[1], p[2]) : p \in rules} : e.source # e.target}

NetworkFindings(assets) == GroupFindings(assets) \cup BucketFindings(assets)
NetworkEdges(assets) == BucketEdges(assets) \cup GroupEdges(assets)
=============================================================================
