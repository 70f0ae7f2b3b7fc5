------------------------------ MODULE IamRules ------------------------------
(***************************************************************************)
(* What IAMAnalyzer (engine/iam/analyzer.py) makes of one role r, of its   *)
(* policy statements and of its trust statements, in a scan that has the   *)
(* given roles.  A principal is a record [kind, name, account]; a trust    *)
(* statement has its effect, its conditions, the principals under AWS and  *)
(* the services, in order; bare says that its Principal is the string "*"  *)
(* and has neither.                                                        *)
(***************************************************************************)
EXTENDS PolicyEval, Integers, Sequences

CONSTANTS
    ArnOf,          \* the ARN of each role
    Internet        \* "aws:internet"

PassRole == "iam:passrole"
-----------------------------------------------------------------------------
Allowing(statements) == {s \in statements : s.effect = "Allow"}

Finding(r, category, severity, action) ==
    [role |-> r, category |-> category, severity |-> severity, action |-> action]

WildcardFindings(r, s) ==
    IF ~ IsWildcardAction(s) THEN {}
    ELSE IF IsWildcardResource(s)
         THEN {Finding(r, "wildcard_action_and_resource", "critical", "*")}
         ELSE {Finding(r, "wildcard_action", "high", "*")}

(* _analyze_policies.                                                      *)
PolicyFindings(r, statements) ==
    UNION {WildcardFindings(r, s)
             \cup {Finding(r, "dangerous_action", "high", a) :
                        a \in FindDangerousActions(s)} : s \in Allowing(statements)}

(* _principal_to_asset_id: the id of a role or user has no account; what   *)
(* is none of these, as the number of an account, stays as it is.          *)
AssetOf(p) ==
    CASE p.kind = "any" -> Internet
      [] p.kind = "root" -> p.account
      [] p.kind \in {"role", "user", "number"} -> p.name

Rel(source, target, type, confidence) ==
    [source |-> source, target |-> target, type |-> type, confidence |-> confidence]

AssumeConfidence(roles, p) ==
    IF AssetOf(p) \in roles \/ p.kind = "root" THEN 10 ELSE 7

(* _analyze_trust_policy: a bare Principal yields nothing, of several      *)
(* services the first is taken, and conditions are not looked at.          *)
TrustEdges(roles, r, trusts) ==
    UNION {{Rel(AssetOf(p), r, "CAN_ASSUME", AssumeConfidence(roles, p)) : p \in t.aws}
             \cup (IF t.services = <<>> THEN {}
                   ELSE {Rel(Head(t.services), r, "TRUSTS", 6)}) :
                t \in {u \in Allowing(trusts) : ~ u.bare}}

PassableNotAll(roles, r, s) == {q \in roles \ {r} : ArnOf[q] \in ResourcesOf(s)}

(* _find_pass_role_edges: a statement names a role by its whole ARN, or    *)
(* all roles by "*".                                                       *)
Passable(roles, r, s) ==
    {q \in roles \ {r} : IsWildcardResource(s) \/ ArnOf[q] \in ResourcesOf(s)}

PassConfidence(s) == IF IsWildcardResource(s) THEN 6 ELSE 9

PassEdges(roles, r, statements) ==
    UNION {{Rel(r, q, "CAN_PASS_ROLE", PassConfidence(s)) : q \in Passable(roles, r, s)} :
             s \in {u \in Allowing(statements) : MatchesAny(ActionsOf(u), PassRole)}}
=============================================================================
