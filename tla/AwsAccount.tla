----------------------------- MODULE AwsAccount -----------------------------
(***************************************************************************)
(* What the resources of an account are configured to be, and what AWS     *)
(* lets pass between them and from everybody on the Internet.  Nothing     *)
(* here is the program's reading of it: that is in NetworkAnalyzer and     *)
(* Discovery.                                                              *)
(***************************************************************************)
EXTENDS SequencesExt

CONSTANTS
    Resources,
    Internet,   \* "aws:internet"
    None,       \* no resource
    Conditions, \* of the statements of policies
    AliasOf,    \* the key behind each name that is the alias of one
    Config      \* [Resources -> Configuration]

Types == {"ROLE", "USER", "GROUP", "VPC", "SUBNET", "SECURITY_GROUP", "EC2", "S3",
          "LAMBDA", "RDS", "SECRET", "KMS_KEY", "VOLUME"}

(* A rule of a security group: one sensitive port, one other or all, and   *)
(* the other side: everyone by IPv4 or IPv6, some narrower range, groups.  *)
Rule ==
    [port : {"sensitive", "other", "all"}, ranges : SUBSET {"everyone", "everyone6", "some"},
     groups : SUBSET Resources]

(* A statement of the policy of a bucket or a function: its Principal is   *)
(* "*" or {"AWS": "*"}, a list that holds "*", or others.                  *)
Grant ==
    [effect : {"Allow", "Deny"}, principal : {"everyone", "listed", "others"},
     conditions : SUBSET Conditions]

Settings == {"BlockPublicAcls", "BlockPublicPolicy", "IgnorePublicAcls",
             "RestrictPublicBuckets"}

(* address: an instance has a public one, a database is accessible by one, *)
(* a subnet hands them out.  acl: a bucket's names all users.  key: the    *)
(* reference to a key, by its parts between slashes.                       *)
Configuration ==
    [type : Types, address : BOOLEAN, policy : SUBSET Grant, acl : BOOLEAN,
     block : SUBSET Settings, groups : SUBSET Resources,
     ingress : SUBSET Rule, egress : SUBSET Rule,
     role : Resources \cup {"profile", None},
     key : Seq(Resources \cup DOMAIN AliasOf \cup {"arn", "alias"}),
     part : Resources \cup {None}]

Type(id) == Config[id].type

(* The key that a reference means.                                         *)
KeyBehind(ref) == IF Last(ref) \in DOMAIN AliasOf THEN AliasOf[Last(ref)] ELSE Last(ref)

(* The fields a resource of another type would have are empty: an instance *)
(* runs as a profile, a function as a role, a subnet is part of a VPC, an  *)
(* instance of a subnet, and a volume of the instance it is attached to.   *)
FieldsFit(r) ==
    LET c == Config[r]
    IN  /\ c.address => c.type \in {"SUBNET", "EC2", "RDS"}
        /\ c.policy # {} => c.type \in {"S3", "LAMBDA"}
        /\ c.acl \/ c.block # {} => c.type = "S3"
        /\ c.groups # {} => c.type \in {"EC2", "RDS", "LAMBDA"}
        /\ \A g \in c.groups : Type(g) = "SECURITY_GROUP"
        /\ c.role # None =>
             \/ c.type = "EC2" /\ c.role = "profile"
             \/ c.type = "LAMBDA" /\ c.role \in Resources /\ Type(c.role) = "ROLE"
        /\ c.key # <<>> =>
             /\ c.type \in {"S3", "LAMBDA", "RDS", "SECRET", "VOLUME"}
             /\ KeyBehind(c.key) \in Resources /\ Type(KeyBehind(c.key)) = "KMS_KEY"
        /\ c.part # None =>
             <<c.type, Type(c.part)>> \in {<<"SUBNET", "VPC">>, <<"EC2", "SUBNET">>,
                                            <<"VOLUME", "EC2">>}

ASSUME AccountAssumption ==
    /\ Config \in [Resources -> Configuration]
    /\ \A r \in Resources : FieldsFit(r)
    /\ {Internet, None, "profile"} \cap Resources = {}
    /\ Internet # None /\ "profile" \notin {Internet, None}
    /\ IsFiniteSet(DOMAIN AliasOf)
    /\ DOMAIN AliasOf \cap (Resources \cup {Internet, None, "profile"}) = {}
    /\ \A a \in DOMAIN AliasOf : AliasOf[a] \in Resources
-----------------------------------------------------------------------------
(* How a request comes: under which conditions, and which of the ranges    *)
(* that do not hold every address hold the other side's.                   *)
Context == [met : SUBSET Conditions, near : SUBSET {"everyone6", "some"}]

GroupsOf(x) == IF x \in Resources THEN Config[x].groups ELSE {}

Covers(rule, x, ctx) ==
    \/ rule.groups \cap GroupsOf(x) # {}
    \/ rule.ranges \cap ({"everyone"} \cup ctx.near) # {}

Shares(out, in) == out.port = in.port \/ "all" \in {out.port, in.port}

(* Traffic leaves by a rule of any of the groups of x, of which an empty   *)
(* list lets nothing out, and enters by one of the group h of y.           *)
Reaches(x, y, h, ctx) ==
    /\ h \in GroupsOf(y)
    /\ \E g \in GroupsOf(x) : \E out \in Config[g].egress, in \in Config[h].ingress :
          Shares(out, in) /\ Covers(out, y, ctx) /\ Covers(in, x, ctx)

Covered(r, effect, ctx) ==
    \E s \in Config[r].policy :
        s.effect = effect /\ s.principal # "others" /\ s.conditions \subseteq ctx.met

(* Open to everybody on the Internet.                                      *)
Opens(r, ctx) ==
    LET c == Config[r]
    IN  \/ /\ c.type = "LAMBDA"
           /\ Covered(r, "Allow", ctx) /\ ~ Covered(r, "Deny", ctx)
        \/ /\ c.type = "S3" /\ ~ Covered(r, "Deny", ctx)
           /\ \/ Covered(r, "Allow", ctx) /\ "RestrictPublicBuckets" \notin c.block
              \/ c.acl /\ "IgnorePublicAcls" \notin c.block
        \/ /\ c.type \in {"EC2", "RDS"} /\ c.address
           /\ \E g \in c.groups : \E in \in Config[g].ingress : Covers(in, Internet, ctx)
=============================================================================
