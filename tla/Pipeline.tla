------------------------------ MODULE Pipeline ------------------------------
(***************************************************************************)
(* ScanService.run_scan (backend/scan_service.py) from the account to the  *)
(* scored paths: Discovery, the IAM analyzer, the network analyzer, the    *)
(* instance profiles, the graph, the paths and their scores, each over     *)
(* what the one before it left, while collectors fail and the account      *)
(* changes.  The properties compare what is reported with the account.     *)
(***************************************************************************)
EXTENDS Discovery

CONSTANTS
    Actions, Patterns, Lower, Matching, Dangerous,  \* of PolicyEval
    PoliciesOf,     \* the policy statements of each role
    TrustsOf,       \* its trust statements
    Ours,           \* the account that is scanned
    RoleOf,         \* the role of each instance profile
    JewelChoices,   \* the crown jewels a request may declare
    MaxDepth, MaxPaths, MinConfidence           \* of AttackGraph

Roles == {r \in Resources : Type(r) = "ROLE"}

(* An ARN names one resource: the ids stand for the ARNs.                  *)
Iam == INSTANCE IamRules WITH ArnOf <- [r \in Resources |-> r]

AssumeRole == "sts:assumerole"

Nodes == Resources \cup {Internet, "profile"} \cup DOMAIN AliasOf

(* The ids of services and of accounts are those of no resource, those of  *)
(* roles and users are of no other; a whole ARN matches only itself, and   *)
(* AWS takes no statement without an action or a resource.                 *)
ASSUME PipelineAssumption ==
    /\ DOMAIN PoliciesOf = Roles
    /\ \A r \in Roles : \A s \in PoliciesOf[r] :
         /\ s.effect \in {"Allow", "Deny"} /\ s.conditions \subseteq Conditions
         /\ s.action \cup s.notAction # {} /\ s.resource \cup s.notResource # {}
    /\ \A p \in Matching : p[1] \in Resources => p[2] = p[1]
    /\ DOMAIN TrustsOf = Roles
    /\ \A r \in Roles : \A t \in TrustsOf[r] :
         /\ t.effect \in {"Allow", "Deny"} /\ t.conditions \subseteq Conditions
         /\ t.services # <<>> => Head(t.services) \notin Nodes
         /\ \A p \in t.aws :
              /\ p.kind \in {"any", "root", "number", "role", "user"}
              /\ p.kind = "root" => p.account \notin Nodes
              /\ p.kind = "number" => p.name \notin Nodes
              /\ p.kind \in {"role", "user"} /\ p.name \in Nodes =>
                   p.name \in Resources /\ Type(p.name) \in {"ROLE", "USER"}
    /\ DOMAIN RoleOf \cap (Resources \cup {Internet, None} \cup DOMAIN AliasOf) = {}
    /\ \A p \in DOMAIN RoleOf : RoleOf[p] \in Roles
    /\ Iam!PolicyAssumption /\ {Iam!PassRole, AssumeRole} \subseteq Actions
    /\ MaxDepth \in Nat /\ MaxPaths \in Nat \ {0} /\ MinConfidence \in 0..10

(* Paths start at entries, and nothing asks of another node whether it is  *)
(* one: all that is flagged is decided by Entries below.                   *)
Graph == INSTANCE AttackGraph WITH
            TypeOf <- [r \in Resources |-> Type(r)], Public <- Resources

VARIABLES
    iamRels,    \* what the IAM analyzer returned
    record      \* the ScanRecord: profile map, graph, crown jewels and paths

vars == <<discoveryVars, iamRels, record>>

NoRecord == [stage |-> "none", paths |-> {}]

Init ==
    /\ DiscoveryInit
    /\ iamRels = {}
    /\ record = NoRecord
-----------------------------------------------------------------------------
IamEdges ==
    LET roles == Ids \cap Roles
    IN  UNION {Iam!TrustEdges(roles, r, TrustsOf[r])
                 \cup Iam!PassEdges(roles, r, PoliciesOf[r]) : r \in roles}

(* The analyzers, one after the other, of the same assets.                 *)
Analyze ==
    /\ AnalyzeNetwork
    /\ iamRels' = IamEdges
    /\ UNCHANGED record

(* What the score looks for in the evidence: a service's trust may well    *)
(* name an account in its conditions; conditions are left out, which is    *)
(* what scores highest.                                                    *)
Evidenced(e) ==
    [source |-> e.source, target |-> e.target, type |-> e.type,
     confidence |-> e.confidence, tags |-> IF e.type = "TRUSTS" THEN {"account"} ELSE {}]

Evidence(mapped) == {Graph!Resolve(Evidenced(e), mapped) : e \in rels \cup iamRels}

AllIds == {a.id : a \in ToSet(assets)}

(* entry_nodes: the Internet, if it is an asset, and what is flagged.      *)
Entries == {a.id : a \in {b \in ToSet(assets) : b.public \/ b.id = Internet}}

(* The profiles are listed, or not, and the graph is built: in the order   *)
(* in which AWS lists roles, groups and rules, which is any.               *)
BuildGraph(mapped) ==
    /\ step = Ended /\ record.stage = "none"
    /\ \E g \in Graph!BuildsOf(Evidence(mapped)) :
          record' = [stage |-> "built", mapped |-> mapped, graph |-> g, paths |-> {}]
    /\ UNCHANGED <<discoveryVars, iamRels>>

(* The scored paths that run_scan may report of a graph.                   *)
Reports(graph, jewels) ==
    {{Graph!Assess(AllIds, graph, p, jewels) : p \in P} :
        P \in Graph!FindPaths(graph, Entries, Graph!Targets(AllIds, jewels))}

(* The rest follows from the graph; the record is saved with its paths.    *)
SaveRecord(jewels) ==
    /\ record.stage = "built"
    /\ \E paths \in Reports(record.graph, jewels) :
          record' = [stage |-> "saved", mapped |-> record.mapped, jewels |-> jewels,
                     paths |-> paths]
    /\ UNCHANGED <<discoveryVars, iamRels>>

Terminated == (step = Raised \/ record.stage = "saved") /\ UNCHANGED vars

Next ==
    \/ DiscoveryStep /\ UNCHANGED <<iamRels, record>>
    \/ Analyze
    \/ \E mapped \in BOOLEAN : BuildGraph(mapped)
    \/ \E jewels \in JewelChoices : SaveRecord(jewels)
    \/ Terminated

Spec == Init /\ [][Next]_vars
-----------------------------------------------------------------------------
(***************************************************************************)
(* What is so in the account, whatever a scan has seen of it: the hops an  *)
(* attacker can take when asking in a context, each with what else it goes *)
(* through.                                                                *)
(***************************************************************************)
Step(x, y, via) == [source |-> x, target |-> y, via |-> via]

ExposureSteps(ctx) == {Step(Internet, r, {}) : r \in {q \in Resources : Opens(q, ctx)}}

StepsBetween(x, y, ctx) ==
    {Step(x, y, {h}) : h \in {g \in Config[y].groups : Reaches(x, y, g, ctx)}}
RuleSteps(ctx) == UNION {StepsBetween(x, y, ctx) : x, y \in Resources}

StepsToGroups(x) == {Step(x, g, {}) : g \in Config[x].groups}
GroupSteps == UNION {StepsToGroups(x) : x \in {r \in Resources : Type(r) # "LAMBDA"}}

PartSteps ==
    {Step(Config[x].part, x, {}) :
        x \in {r \in Resources : Type(r) # "VOLUME" /\ Config[r].part # None}}

KeyStep(r) ==
    Step(Encrypted(r), KeyBehind(Config[r].key), IF Type(r) = "VOLUME" THEN {r} ELSE {})
KeySteps ==
    {KeyStep(r) : r \in {q \in Resources : Config[q].key # <<>> /\ Encrypted(q) # None}}

RoleUsed(x) ==
    IF Config[x].role \in DOMAIN RoleOf THEN RoleOf[Config[x].role] ELSE Config[x].role
ServiceSteps ==
    {Step(x, RoleUsed(x), {Config[x].role} \cap DOMAIN RoleOf) :
        x \in {r \in Resources : RoleUsed(r) \in Resources}}

(* The policies of users are not in the model.                             *)
OwnPolicies(x) == IF x \in Roles THEN PoliciesOf[x] ELSE {}
IsPrincipal(x) == x = Internet \/ (x \in Resources /\ Type(x) \in {"ROLE", "USER"})
IsAccount(p) ==
    (p.kind = "root" /\ p.account = Ours) \/ (p.kind = "number" /\ p.name = Ours)
IsItself(p, x) == p.kind \in {"role", "user"} /\ p.name = x /\ p.account = Ours

(* A trust statement covers everybody by "*", a role or user by its ARN    *)
(* and those of an account together.                                       *)
TrustCovers(t, x) ==
    \/ t.bare
    \/ \E p \in t.aws : p.kind = "any" \/ IsItself(p, x) \/ (IsAccount(p) /\ x # Internet)

(* Who is trusted only as one of the account must be allowed by policies   *)
(* of its own; and no Deny of either side may apply.                       *)
Assumes(x, y, ctx) ==
    LET met == {t \in TrustsOf[y] : t.conditions \subseteq ctx.met}
    IN  /\ IsPrincipal(x)
        /\ \E t \in met :
             /\ t.effect = "Allow"
             /\ \/ t.bare
                \/ \E p \in t.aws :
                      \/ p.kind = "any" \/ IsItself(p, x)
                      \/ /\ IsAccount(p)
                         /\ Iam!AwsAllows(ctx.met, OwnPolicies(x), AssumeRole, y)
        /\ \A t \in met : TrustCovers(t, x) => t.effect = "Allow"
        /\ \A s \in OwnPolicies(x) :
              Iam!Applies(ctx.met, s, AssumeRole, y) => s.effect = "Allow"

Passes(x, y, ctx) ==
    x \in Roles /\ x # y /\ Iam!AwsAllows(ctx.met, PoliciesOf[x], Iam!PassRole, y)

PrincipalSteps(ctx) ==
    {Step(e[1], e[2], {}) :
        e \in {f \in (Resources \cup {Internet}) \X Roles :
                 Assumes(f[1], f[2], ctx) \/ Passes(f[1], f[2], ctx)}}

StepsIn(ctx) ==
    ExposureSteps(ctx) \cup RuleSteps(ctx) \cup GroupSteps \cup PartSteps \cup KeySteps
      \cup ServiceSteps \cup PrincipalSteps(ctx)

(* What some context allows, and the hops that all do.                     *)
AccountSteps ==
    {s \in UNION {StepsIn(ctx) : ctx \in Context} : s.source # s.target}
HopsIn(ctx) == {<<s.source, s.target>> : s \in StepsIn(ctx)}
SureHops ==
    {hop \in UNION {HopsIn(ctx) : ctx \in Context} : \A ctx \in Context : hop \in HopsIn(ctx)}
SurelyOpen == {r \in Resources : \A ctx \in Context : Opens(r, ctx)}
-----------------------------------------------------------------------------
(***************************************************************************)
(* Where the scan says more than is so.                                    *)
(***************************************************************************)
Unread(r, detail) == <<r, detail>> \in lost

(* Of a policy with a statement about everyone the effects and conditions  *)
(* are not weighed up.                                                     *)
IsWeighed(r) ==
    \E s \in Config[r].policy : s.principal # "others" /\ (s.effect = "Deny" \/ s.conditions # {})

(* Two of the four settings shut a bucket, each for what it is about.      *)
IsShutInPart(r) ==
    /\ Config[r].block \cap {"IgnorePublicAcls", "RestrictPublicBuckets"} # {}
    /\ Config[r].block # Settings \/ Unread(r, "block")

HasGrant(r, effects) ==
    \E s \in Config[r].policy : s.principal = "everyone" /\ s.effect \in effects

(* A public address counts whatever the groups let in.                     *)
MistakenForOpen(r) ==
    \/ Type(r) = "LAMBDA" /\ HasGrant(r, {"Allow", "Deny"}) /\ IsWeighed(r)
    \/ /\ Type(r) = "S3" /\ (HasGrant(r, {"Allow"}) \/ Config[r].acl)
       /\ IsWeighed(r) \/ IsShutInPart(r)
    \/ /\ Config[r].address
       /\ \A g \in Config[r].groups : \A in \in Config[g].ingress : "everyone" \notin in.ranges

StartsWell(r) ==
    \/ r = Internet
    \/ r \in SurelyOpen
    \/ MistakenForOpen(r)
    \/ Type(r) = "SUBNET" /\ Config[r].address
    \/ Type(r) = "S3" /\ (Config[r].block # Settings \/ Unread(r, "block"))

IsDoubted(x, y, e) ==
    /\ e.confidence = 5
    /\ \E g \in GroupsOf(x), h \in GroupsOf(y) : Names(g, h)

(* A role or user of another account has the name of x; or the trust has a *)
(* Deny or a condition, which are not weighed up.                          *)
IsMistrusted(x, y) ==
    \E t \in TrustsOf[y] :
        \/ t.effect = "Deny" \/ t.conditions # {}
        \/ \E p \in t.aws : p.kind \in {"role", "user"} /\ p.name = x /\ p.account # Ours

(* The alias by which the key of x is known.                               *)
IsNickname(x, y) ==
    /\ y \in DOMAIN AliasOf
    /\ \E r \in Resources :
          Encrypted(r) = x /\ Config[r].key # <<>> /\ y = Last(Config[r].key)

IsSimple(s) == s.effect = "Allow" /\ ~ Iam!HasNotKey(s) /\ s.conditions = {}

HopIsReal(x, y, e) ==
    \/ <<x, y>> \in SureHops
    \/ e.type = "EXPOSED_TO" /\ MistakenForOpen(y)
    \/ e.type = "CONNECTED_TO" /\ (IsDoubted(x, y, e) \/ TakenAsOpen(x, y))
    \/ e.type = "CAN_ASSUME" /\ IsMistrusted(x, y)
    \/ e.type \in {"CAN_ASSUME", "CAN_PASS_ROLE"} /\ \E s \in OwnPolicies(x) : ~ IsSimple(s)
    \/ e.type = "RUNS_AS" /\ x \in Resources /\ y = Config[x].role /\ y \notin Resources
    \/ e.type = "ENCRYPTED_BY" /\ IsNickname(x, y)

(* No false alarm: a reported path starts at something open, and each hop  *)
(* is there in the account, under whatever conditions, whatever failed or  *)
(* changed during the scan; but for what the definitions above name: Deny  *)
(* statements, conditions, Not keys and part of an access block that are   *)
(* not weighed up, a bucket whose block was not read, groups behind a      *)
(* public address, egress that is doubted or taken for open, a namesake in *)
(* another account, and the placeholders of the profile of an instance,    *)
(* where profiles could not be listed, and of the alias of a key.          *)
ReportedIsReal ==
    \A path \in record.paths :
        /\ StartsWell(path.nodes[1])
        /\ \A i \in DOMAIN path.steps :
              HopIsReal(path.nodes[i], path.nodes[i + 1], path.steps[i])
-----------------------------------------------------------------------------
(***************************************************************************)
(* Where it says less.                                                     *)
(***************************************************************************)
(* "*" in a list of principals is not seen to mean everyone.               *)
IsGranted(r) == HasGrant(r, {"Allow"}) \/ Config[r].acl \/ Config[r].address

(* A rule of h lets x in by a group, not by an address.                    *)
LetIn(x, h) == \E g \in GroupsOf(x) : Names(g, h)

(* Trusted as everybody, but not by the bare "*", or by name, not as one   *)
(* of the account.                                                         *)
IsNamed(x, y) ==
    \E t \in TrustsOf[y] :
        /\ t.effect = "Allow" /\ ~ t.bare
        /\ \E p \in t.aws : (p.kind = "any" /\ x = Internet) \/ IsItself(p, x)

(* By a statement without Not keys and patterns.                           *)
PassesPlainly(x, y) ==
    \E s \in OwnPolicies(x) :
        /\ s.effect = "Allow" /\ ~ Iam!HasNotKey(s)
        /\ s.resource \subseteq Resources \cup {"*"}
        /\ Iam!Applies(Conditions, s, Iam!PassRole, y)

UnnamedSteps(x, y) == {Step(x, y, {h}) : h \in {g \in Config[y].groups : ~ LetIn(x, g)}}

Overlooked ==
    {Step(Internet, r, {}) : r \in {q \in Resources \ Roles : ~ IsGranted(q)}}
      \cup (UNION {UnnamedSteps(x, y) : x, y \in Resources})
      \cup {KeyStep(r) : r \in {q \in Resources : /\ Config[q].key # <<>>
                                                  /\ Last(Config[q].key) \in DOMAIN AliasOf}}
      \cup {Step(e[1], e[2], {}) :
               e \in {f \in {q \in Resources \cup {Internet} : IsPrincipal(q)} \X Roles :
                        ~ IsNamed(f[1], f[2]) /\ ~ PassesPlainly(f[1], f[2])}}

IsReadWhole(r) ==
    /\ CollectedBy(r) \notin errors
    /\ \A d \in Details[CollectedBy(r)] : ~ Unread(r, d)

(* What the scan has seen whole: nobody touched it, its collector did not  *)
(* fail and its details were read; and the profiles, if they were listed.  *)
Whole ==
    {r \in Steady : IsReadWhole(r)} \cup (IF record.mapped THEN DOMAIN RoleOf ELSE {})

StepsWithin(seen) ==
    {s \in AccountSteps \ Overlooked :
        {s.source, s.target} \cup s.via \subseteq seen \cup {Internet}}

(* The Internet is an asset, and so an entry, only if something but a      *)
(* bucket is open.                                                         *)
Origins(seen) ==
    LET open == {r \in (seen \cap Resources) \ Roles :
                    Step(Internet, r, {}) \in AccountSteps \ Overlooked}
    IN  open \cup (IF \E r \in open : Type(r) # "S3" THEN {Internet} ELSE {})

(* No exposure is missed for a failure elsewhere: a target that under some *)
(* conditions can be reached within the depth through resources the scan   *)
(* has seen whole is reported, by a path at most as long, whatever else    *)
(* failed, changed or could not be read; but for steps of the four kinds   *)
(* of Overlooked.                                                          *)
ReachableIsReported ==
    record.stage = "saved" =>
        LET seen == Whole
            steps == [pair \in {<<s.source, s.target>> : s \in StepsWithin(seen)} |-> TRUE]
            targets == seen \cap Graph!Targets(AllIds, record.jewels)
        IN  \A e \in Origins(seen) : \A way \in Graph!WalksFrom(steps, e) :
                Last(way) \in targets \ {e} =>
                    \E path \in record.paths :
                        /\ Graph!Ends(path.nodes) = Graph!Ends(way)
                        /\ Graph!Hops(path.nodes) <= Graph!Hops(way)
-----------------------------------------------------------------------------
(* Only a path to a role, which must be a declared jewel, ranks HIGH or    *)
(* CRITICAL: no edge leads from a role to data, so a path to data has no   *)
(* escalation step and its score stays just below; and no path crosses the *)
(* edges the cross-account factor of the score looks at.                   *)
OnlyRolesRankHigh ==
    \A path \in record.paths :
        /\ path.severity \in {"HIGH", "CRITICAL"} =>
             Last(path.nodes) \in Roles \cap record.jewels
        /\ \A i \in DOMAIN path.steps : path.steps[i].type # "TRUSTS"
-----------------------------------------------------------------------------
(***************************************************************************)
(* The inductive invariant behind these three: what the scan says is so or *)
(* mistaken as named above, and it has what it has read.                   *)
(***************************************************************************)
AssetIsReal(a) ==
    a.id # Internet =>
        /\ a.public => StartsWell(a.id)
        /\ a.policy \subseteq Config[a.id].policy
        /\ a.acl => Config[a.id].acl
        /\ a.block # Config[a.id].block => Unread(a.id, "block")

(* An edge of the provider or of the network analyzer: none leaves a role. *)
EdgeIsReal(e) ==
    /\ e.type \notin {"TRUSTS", "CAN_ASSUME", "CAN_PASS_ROLE"}
    /\ e.source \notin Roles
    /\ IF e.type = "RUNS_AS"
       THEN /\ e.source \in Resources
            /\ e.target = Config[e.source].role /\ e.target # None
       ELSE /\ e.target \in Resources \cup DOMAIN AliasOf
            /\ e.type # "CONNECTED_TO" => HopIsReal(e.source, e.target, e)

(* One of the IAM analyzer: all lead to roles.                             *)
IamEdgeIsReal(e) ==
    /\ e.target \in Roles
    /\ \/ e.type = "TRUSTS" /\ e.source \notin Nodes
       \/ e.type = "CAN_ASSUME" /\ e.source \notin Nodes
       \/ e.type \in {"CAN_ASSUME", "CAN_PASS_ROLE"} /\ HopIsReal(e.source, e.target, e)

RealInv ==
    /\ \A a \in ToSet(assets) : AssetIsReal(a)
    /\ \A e \in rels : EdgeIsReal(e)
    /\ \A e \in iamRels : IamEdgeIsReal(e)

(* What the scan has read whole is there, with its edges; the Internet is, *)
(* if anything but a bucket is exposed; and in the end all the edges of    *)
(* the analyzers are.                                                      *)
SeenInv ==
    /\ \A r \in Steady : Type(r) \in CollectedTypes /\ IsReadWhole(r) =>
         /\ Type(r) # "VOLUME" => AssetOf(r, {}) \in ToSet(assets)
         /\ EdgesOf(r, {}) \subseteq rels
    /\ \A e \in rels :
         /\ e.source = Internet /\ Type(e.target) # "S3"
         /\ CollectedBy(e.target) \notin errors
         => HasInternet
    /\ step = Ended => NetworkEdges(ToSet(assets)) \subseteq rels /\ iamRels = IamEdges

(* The graph is one that may be built of what the analyzers left, and the  *)
(* paths are what the engine may find on such a graph.                     *)
RecordInv ==
    /\ record.stage \in {"none", "built", "saved"}
    /\ record.stage # "none" => step = Ended /\ record.mapped \in BOOLEAN
    /\ record.stage # "saved" => record.paths = {}
    /\ record.stage = "built" => record.graph \in Graph!BuildsOf(Evidence(record.mapped))
    /\ record.stage = "saved" =>
         \E g \in Graph!BuildsOf(Evidence(record.mapped)) :
            record.paths \in Reports(g, record.jewels)

PipelineInv == DiscoveryInv /\ RealInv /\ SeenInv /\ RecordInv
=============================================================================
