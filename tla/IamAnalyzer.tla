---------------------------- MODULE IamAnalyzer ----------------------------
(***************************************************************************)
(* IAMAnalyzer.analyze (engine/iam/analyzer.py) over an account whose      *)
(* owner attaches policies and trusts, one after another, until a scan     *)
(* reads them; the analyzer then takes the roles one by one, in the order  *)
(* AWS lists them.                                                         *)
(***************************************************************************)
EXTENDS IamRules, FiniteSets

CONSTANTS
    Roles,          \* the roles of the account, by their asset ids
    Policies,       \* the statements that may be attached
    Trusts,         \* the trust statements that may be set
    MaxStatements   \* the bound on the statements of a role

(* AWS takes no statement without a key for actions and one for resources; *)
(* the ARN of a role has no wildcard, and no other ARN one that matches it. *)
ASSUME IamAssumption ==
    /\ ArnOf \in [Roles -> Resources]
    /\ \A r, s \in Roles : ArnOf[r] = ArnOf[s] => r = s
    /\ Policies \subseteq Statement
    /\ \A s \in Policies : ActionsOf(s) # {} /\ ResourcesOf(s) # {}
    /\ \A x \in Resources, r \in Roles : <<x, ArnOf[r]>> \in Matching => x = ArnOf[r]
    /\ PassRole \in Actions
    /\ MaxStatements \in Nat

VARIABLES
    policies,   \* the policy statements of each role
    trust,      \* its trust statements
    todo,       \* the roles the analyzer has not taken yet
    findings,   \* IAMFindings
    rels        \* the relationships emitted

iamVars == <<policies, trust, todo, findings, rels>>

IamInit ==
    /\ policies = [r \in Roles |-> {}]
    /\ trust = [r \in Roles |-> {}]
    /\ todo = Roles
    /\ findings = {}
    /\ rels = {}

SizeOf(r) == Cardinality(policies[r]) + Cardinality(trust[r])
Room(r) == SizeOf(r) < MaxStatements

Attach(r, s) ==
    /\ todo = Roles /\ Room(r)
    /\ policies' = [policies EXCEPT ![r] = @ \cup {s}]
    /\ UNCHANGED <<trust, todo, findings, rels>>

Trust(r, t) ==
    /\ todo = Roles /\ Room(r)
    /\ trust' = [trust EXCEPT ![r] = @ \cup {t}]
    /\ UNCHANGED <<policies, todo, findings, rels>>
-----------------------------------------------------------------------------
AnalyzeRole(r) ==
    /\ r \in todo
    /\ findings' = findings \cup PolicyFindings(r, policies[r])
    /\ rels' = rels \cup TrustEdges(Roles, r, trust[r])
                  \cup PassEdges(Roles, r, policies[r])
    /\ todo' = todo \ {r}
    /\ UNCHANGED <<policies, trust>>

Done == todo = {} /\ UNCHANGED iamVars

IamNext ==
    \/ \E r \in Roles, s \in Policies : Attach(r, s)
    \/ \E r \in Roles, t \in Trusts : Trust(r, t)
    \/ \E r \in Roles : AnalyzeRole(r)
    \/ Done

IamSpec == IamInit /\ [][IamNext]_iamVars
-----------------------------------------------------------------------------
Taken == Roles \ todo
Met == SUBSET Conditions

(* The patterns of a statement about resources name them whole.            *)
NamesWhole(s) == s.resource \subseteq Resources \cup {"*"}

(* Whatever conditions hold: a role that is said to be able to pass        *)
(* another may do so in AWS, but for a Deny, a condition that does not     *)
(* hold or a Not key; and one that is not may not, but by a Not key or a   *)
(* pattern that is not a whole ARN.                                        *)
PassRoleIsEffective ==
    \A r \in Taken : \A q \in Roles \ {r}, met \in Met :
        LET edge == \E e \in rels : /\ e.source = r /\ e.target = q
                                   /\ e.type = "CAN_PASS_ROLE"
            allowed == AwsAllows(met, policies[r], PassRole, ArnOf[q])
        IN  /\ edge /\ ~ allowed =>
                 \E s \in policies[r] :
                     s.effect = "Deny" \/ HasNotKey(s) \/ ~ s.conditions \subseteq met
            /\ allowed /\ ~ edge =>
                 \E s \in policies[r] :
                     s.effect = "Allow" /\ (HasNotKey(s) \/ ~ NamesWhole(s))

(* Nothing dangerous goes unnoticed: an action of the list that AWS lets a *)
(* role perform on anything, where any conditions hold, is a finding of    *)
(* its own or by the wildcard "*"; but where all that allows it is         *)
(* statements that allow everything but some other actions (NotAction).    *)
DangerIsFlagged ==
    \A r \in Taken, d \in Dangerous, met \in Met, x \in Resources :
        AwsAllows(met, policies[r], d, x) =>
            \/ \E f \in findings : /\ f.role = r
                                  /\ f.category = "dangerous_action"
                                  /\ f.action \in {d, "*"}
            \/ \A s \in policies[r] :
                  s.effect = "Allow" /\ Applies(met, s, d, x) => s.action = {}

(* Policies and a boundary, by one statement or none, or no boundary.      *)
Boundaries == {{}, {{}}} \cup {{{s}} : s \in Policies}

(* Wherever evaluate() and AWS differ a statement that is read otherwise   *)
(* explains it, and in the direction in which it is: what is allowed too   *)
(* much comes of an Allow that is taken too widely or a Deny too narrowly, *)
(* in the policies or the boundary, and what is denied of the opposite.    *)
DifferenceIsMisread ==
    \A r \in Roles, boundary \in Boundaries, met \in Met,
       action \in Actions, x \in Resources :
        LET read == Evaluate(policies[r], boundary, action, x)
            meant == AwsEvaluates(met, policies[r], boundary, action, x)
            misread(wide, narrow) ==
                \E document \in {policies[r]} \cup boundary : \E s \in document :
                    \/ s.effect = wide /\ TooWide(met, s, action, x)
                    \/ s.effect = narrow /\ TooNarrow(s, action, x)
        IN  /\ read /\ ~ meant => misread("Allow", "Deny")
            /\ meant /\ ~ read => misread("Deny", "Allow")
-----------------------------------------------------------------------------
(***************************************************************************)
(* The inductive invariant behind these properties.                        *)
(***************************************************************************)
IamTypeOK ==
    /\ policies \in [Roles -> SUBSET Policies]
    /\ trust \in [Roles -> SUBSET Trusts]
    /\ todo \subseteq Roles

(* What the analyzer has said is what it says of the roles it has taken,   *)
(* whose policies and trusts have not changed since.                       *)
AnalyzedInv ==
    /\ findings = UNION {PolicyFindings(r, policies[r]) : r \in Taken}
    /\ rels = UNION {TrustEdges(Roles, r, trust[r]) \cup PassEdges(Roles, r, policies[r]) :
                        r \in Taken}
=============================================================================
