----------------------------- MODULE Discovery -----------------------------
(***************************************************************************)
(* AWSProvider.discover_assets and discover_relationships                  *)
(* (providers/aws/provider.py) over the collectors                         *)
(* (providers/aws/collectors.py), and the network analyzer, while the      *)
(* owner of the account creates and deletes resources.  A collector lists  *)
(* what there is and then reads the details, one call after another; what  *)
(* it has read is normalized at once, as far as the normalizer gets.       *)
(***************************************************************************)
EXTENDS NetworkAnalyzer, Integers, FiniteSets, Sequences

CONSTANTS
    Accounts,       \* the sets of resources a scan may start on
    Volatile,       \* the resources its owner may create or delete meanwhile
    MaxEvents,      \* the bound on the owner's changes and the failures
    Parts           \* the parts that a normalizer may do before it raises

(* What a resource is part of and its groups, which it holds until it      *)
(* goes, and besides its role and its key.                                 *)
Held(r) == Config[r].groups \cup ({Config[r].part} \ {None})
Named(r) ==
    Held(r) \cup ({Config[r].role} \cap Resources)
      \cup (IF Config[r].key = <<>> THEN {} ELSE {KeyBehind(Config[r].key)})

ASSUME DiscoveryAssumption ==
    /\ IsFiniteSet(Resources)
    /\ Accounts \subseteq SUBSET Resources
    /\ \A start \in Accounts : \A r \in start : Named(r) \subseteq start
    /\ Volatile \subseteq Resources
    /\ MaxEvents \in Nat
    /\ Parts \subseteq SUBSET Resources

VARIABLES
    exists,     \* the resources of the account
    step,       \* 0 before the collectors, then the place in Collectors
    listed,     \* what the collector at work has listed
    reading,    \* whether it has listed already
    assets,     \* scan.assets
    rels,       \* scan.relationships, without the repeated ones
    errors,     \* scan.errors: the collectors that failed
    findings,   \* of the network analyzer
    changed,    \* history: what the owner created or deleted since the start
    lost,       \* history: the details that were not read, <<resource, detail>>
    events      \* how many changes and failures there were

account == <<exists, changed>>
scan == <<assets, rels, errors, findings, lost>>
discoveryVars == <<account, step, listed, reading, scan, events>>

Collectors == <<"iam", "ec2", "s3", "lambda", "rds", "secrets_manager", "kms",
                "ebs_volumes">>
Collector == Collectors[step]
Analyzing == Len(Collectors) + 1
Ended == Analyzing + 1
Raised == -1
Collecting == step \in DOMAIN Collectors

ListedBy == [iam |-> {"ROLE", "USER", "GROUP"}, ec2 |-> {"EC2"}, s3 |-> {"S3"},
             lambda |-> {"LAMBDA"}, rds |-> {"RDS"}, secrets_manager |-> {"SECRET"},
             kms |-> {"KMS_KEY"}, ebs_volumes |-> {"VOLUME"}]

(* What is read of each resource by a call of its own, whose failure the   *)
(* collector survives, but for the policies of keys and secrets, which     *)
(* nothing uses.                                                           *)
Details == [iam |-> {}, ec2 |-> {}, s3 |-> {"policy", "acl", "block", "key"},
            lambda |-> {"policy"}, rds |-> {}, secrets_manager |-> {},
            kms |-> {"description"}, ebs_volumes |-> {}]

OfTypes(types) == {r \in exists : Type(r) \in types}

DiscoveryInit ==
    /\ exists \in Accounts
    /\ step = 0
    /\ listed = {}
    /\ reading = FALSE
    /\ assets = <<>>
    /\ rels = {}
    /\ errors = {}
    /\ findings = {}
    /\ changed = {}
    /\ lost = {}
    /\ events = 0
-----------------------------------------------------------------------------
(* The account, at any time: a resource comes after what it names, and     *)
(* goes with its volumes.                                                  *)
Volumes(r) == {v \in exists : Type(v) = "VOLUME" /\ Config[v].part = r}

Events(n) == events + n <= MaxEvents /\ events' = events + n

Create(r) ==
    /\ r \notin exists /\ Held(r) \subseteq exists
    /\ Named(r) \subseteq exists \cup changed
    /\ exists' = exists \cup {r}
    /\ changed' = changed \cup {r}

Delete(r) ==
    /\ r \in exists /\ \A user \in exists \ Volumes(r) : r \notin Held(user)
    /\ exists' = exists \ ({r} \cup Volumes(r))
    /\ changed' = changed \cup {r} \cup Volumes(r)

Change(r) ==
    /\ step \in DOMAIN Collectors
    /\ Events(1)
    /\ Create(r) \/ Delete(r)
    /\ UNCHANGED <<step, listed, reading, scan>>

(* sts:GetCallerIdentity is the one call whose failure ends the scan.      *)
Identify(answered) ==
    /\ step = 0
    /\ step' = IF answered THEN 1 ELSE Raised
    /\ UNCHANGED <<account, listed, reading, scan, events>>

List ==
    /\ Collecting /\ ~ reading
    /\ listed' = OfTypes(ListedBy[Collector])
    /\ reading' = TRUE
    /\ UNCHANGED <<account, step, scan, events>>

NextCollector == step' = step + 1 /\ listed' = {} /\ reading' = FALSE

(* collect_iam asks for the policies of each role it has listed.           *)
RoleIsGone ==
    Collector = "iam" /\ \E r \in listed \ exists : Type(r) = "ROLE"

(* A call raises, or a listed role is gone: what was collected is thrown   *)
(* away and the scan goes on.                                              *)
CollectorFails ==
    /\ Collecting
    /\ \/ Events(1)
       \/ RoleIsGone /\ UNCHANGED events
    /\ errors' = errors \cup {Collector}
    /\ NextCollector
    /\ UNCHANGED <<account, assets, rels, findings, lost>>
-----------------------------------------------------------------------------
(* The normalizers, of a resource r and of the details that were not read. *)
IsRead(r, detail, unread) == <<r, detail>> \notin unread

Policy(r, unread) == IF IsRead(r, "policy", unread) THEN Config[r].policy ELSE {}
Block(r, unread) == IF IsRead(r, "block", unread) THEN Config[r].block ELSE {}

(* A bucket counts as public until its access block says otherwise, and a  *)
(* function for any statement about everyone, whatever its effect.         *)
IsPublic(r, unread) ==
    CASE Type(r) = "S3" -> Block(r, unread) # Settings
      [] Type(r) = "LAMBDA" -> \E s \in Policy(r, unread) : s.principal = "everyone"
      [] OTHER -> Config[r].address

AssetOf(r, unread) ==
    [id |-> r, public |-> IsPublic(r, unread), block |-> Block(r, unread),
     policy |-> Policy(r, unread), acl |-> Config[r].acl /\ IsRead(r, "acl", unread)]

InternetAsset ==
    [id |-> Internet, public |-> FALSE, block |-> {}, policy |-> {}, acl |-> FALSE]

Exposure(r, unread) ==
    IF Type(r) \in {"EC2", "LAMBDA", "RDS"} /\ IsPublic(r, unread)
    THEN {Rel(Internet, r, "EXPOSED_TO", 10)} ELSE {}

(* _normalize_kms_key_ref: of an ARN and of an alias, too, the last part.  *)
NormalizeKmsKeyRef(ref) == Last(ref)

(* The key of a volume is said to encrypt the instance it is attached to.  *)
Encrypted(r) == IF Type(r) = "VOLUME" THEN Config[r].part ELSE r

EdgesOf(r, unread) ==
    Exposure(r, unread)
      \cup {Rel(r, g, "USES", 10) : g \in IF Type(r) = "LAMBDA" THEN {} ELSE Config[r].groups}
      \cup {Rel(r, role, "RUNS_AS", IF Type(r) = "EC2" THEN 8 ELSE 10) :
                role \in {Config[r].role} \ {None}}
      \cup {Rel(s, r, "CONTAINS", 10) :
                s \in IF Type(r) = "VOLUME" THEN {} ELSE {Config[r].part} \ {None}}
      \cup {Rel(Encrypted(r), NormalizeKmsKeyRef(ref), "ENCRYPTED_BY", 10) :
                ref \in IF IsRead(r, "key", unread) /\ Encrypted(r) # None
                        THEN {Config[r].key} \ {<<>>} ELSE {}}

Undescribed(unread) == {r \in listed : ~ IsRead(r, "description", unread)}

NetworkTypes == {"VPC", "SUBNET", "SECURITY_GROUP"}

NormalizedIfRead(unread) ==
    CASE Collector = "ec2" -> listed \cup OfTypes(NetworkTypes)
      [] Collector = "ebs_volumes" -> {}
      [] OTHER -> {r \in listed : \A d \in Details[Collector] : IsRead(r, d, unread)}

(* What becomes an asset; collect_ec2 lists networks and groups after the  *)
(* instances, and a volume is no asset.                                    *)
Normalized(unread) ==
    CASE Collector = "ec2" -> listed \cup OfTypes(NetworkTypes)
      [] Collector = "kms" -> listed \ Undescribed(unread)
      [] Collector = "ebs_volumes" -> {}
      [] OTHER -> listed

HasInternet == \E i \in DOMAIN assets : assets[i].id = Internet
FromInternet(edges) == \E e \in edges : e.source = Internet

AddsInternetWithEc2(edges) == Collector = "ec2" /\ FromInternet(rels \cup edges)

AddsInternet(edges) ==
    IF Collector = "ec2" THEN FromInternet(rels \cup edges)
    ELSE FromInternet(edges) /\ ~ HasInternet

(* The collector reads on; what is gone cannot be read.                    *)
Reading(unread) ==
    /\ Collecting /\ reading
    /\ ~ RoleIsGone
    /\ \A r \in listed \ exists : {r} \X Details[Collector] \subseteq unread

Failures(unread) == Cardinality({d \in unread : d[1] \in exists})

(* What is added of a reading: assets, some more, and edges.               *)
Adds(unread, new, more, edges) ==
    /\ assets' = assets \o SetToSeq({AssetOf(r, unread) : r \in new}) \o more
    /\ rels' = rels \cup edges
    /\ lost' = lost \cup unread
    /\ NextCollector
    /\ UNCHANGED <<account, findings>>

EdgesRead(of, unread) == UNION {EdgesOf(r, unread) : r \in of}

(* The answer is normalized.                                               *)
Read(unread) ==
    LET edges == EdgesRead(listed \cup Normalized(unread), unread)
    IN  /\ Reading(unread) /\ Events(Failures(unread))
        /\ Adds(unread, Normalized(unread),
                IF AddsInternet(edges) THEN <<InternetAsset>> ELSE <<>>, edges)
        /\ UNCHANGED errors

(* The normalizer raises: what it has done stays, of the one at hand the   *)
(* asset at most, and the Internet is not added.                           *)
NormalizerFails(unread, part, hand) ==
    /\ Reading(unread) /\ Events(Failures(unread) + 1)
    /\ part \subseteq listed \cup Normalized(unread)
    /\ Adds(unread, part \cap Normalized(unread), <<>>, EdgesRead(part \ {hand}, unread))
    /\ errors' = errors \cup {Collector}

AnalyzeNetwork ==
    /\ step = Analyzing
    /\ findings' = NetworkFindings(ToSet(assets))
    /\ rels' = rels \cup NetworkEdges(ToSet(assets))
    /\ step' = Ended
    /\ UNCHANGED <<account, listed, reading, assets, errors, lost, events>>

DiscoveryStep ==
    \/ \E r \in Volatile : Change(r)
    \/ \E answered \in BOOLEAN : Identify(answered)
    \/ List
    \/ CollectorFails
    \/ /\ Collecting
       /\ \E unread \in SUBSET (listed \X Details[Collector]) :
             \/ Read(unread)
             \/ \E part \in Parts : \E hand \in part \cup {None} :
                   NormalizerFails(unread, part, hand)
-----------------------------------------------------------------------------
Ids == IdsOf(ToSet(assets))

CollectedBy(r) ==
    IF Type(r) \in NetworkTypes THEN "ec2"
    ELSE CHOOSE c \in DOMAIN ListedBy : Type(r) \in ListedBy[c]

(* "partial-scan tolerance": a failing collector costs what it collects    *)
(* and nothing else.  What the account or an edge of the scan has and the  *)
(* scan has not is told by an error, was created or deleted meanwhile, or  *)
(* is a key that could not be described; and nothing is there twice, though *)
(* three normalizers may add the Internet.                                 *)
MissingIsExplained ==
    step = Ended =>
        /\ \A r \in (exists \cup UNION {{e.source, e.target} : e \in rels}) \cap Resources :
              \/ Type(r) = "VOLUME"
              \/ r \in Ids \cup changed
              \/ <<r, "description">> \in lost
              \/ CollectedBy(r) \in errors
        /\ IsInjective([i \in DOMAIN assets |-> assets[i].id])

(* AWS lets the users of g out to those of h by this rule of g, as far as  *)
(* an inbound rule of h is met.                                            *)
LetsThrough(out, in, h) ==
    Shares(out, in) /\ ("everyone" \in out.ranges \/ h \in out.groups)

Naming(g, h) == {in \in Config[h].ingress : g \in in.groups}

(* Where the analyzer is certain for a reason that is none: the groups of  *)
(* x were not collected or have no outbound rules at all, or a rule it     *)
(* takes for enough is for other ports or a narrow range.                  *)
TakenAsOpen(x, y) ==
    \E g \in GroupsOf(x), h \in GroupsOf(y) : \E in \in Naming(g, h) :
        \/ g \notin Ids \/ Config[g].egress = {}
        \/ \E out \in Config[g].egress :
              /\ out.port = "all" \/ "everyone" \in out.ranges \/ h \in out.groups
              /\ ~ LetsThrough(out, in, h)

(* What the groups let pass whatever is asked from wherever.               *)
Allowed ==
    {p \in Resources \X Resources :
        \A ctx \in Context : \E h \in GroupsOf(p[2]) : Reaches(p[1], p[2], h, ctx)}

IsJoined(x, y) ==
    \E e \in rels : /\ e.source = x /\ e.target = y
                    /\ e.type = "CONNECTED_TO" /\ e.confidence = 10

(* Connectivity that the scan is certain of is there in the account, where *)
(* nothing that TakenAsOpen names deceives it; and it is certain of what   *)
(* the rules of a group let through to one that names it.                  *)
ConnectedAsAllowed ==
    step = Ended =>
        /\ \A e \in rels :
              e.type = "CONNECTED_TO" /\ e.confidence = 10 =>
                <<e.source, e.target>> \in Allowed \/ TakenAsOpen(e.source, e.target)
        /\ \A x, y \in Ids : \A g \in GroupsOf(x), h \in GroupsOf(y) \cap Ids :
              /\ x # y
              /\ \E in \in Naming(g, h), out \in Config[g].egress : LetsThrough(out, in, h)
              => IsJoined(x, y)
-----------------------------------------------------------------------------
(***************************************************************************)
(* The inductive invariant behind these properties.                        *)
(***************************************************************************)
Asset == [id : Resources \cup {Internet}, public : BOOLEAN, block : SUBSET Settings,
          policy : SUBSET Grant, acl : BOOLEAN]

DiscoveryTypeOK ==
    /\ exists \subseteq Resources
    /\ changed \subseteq Resources
    /\ step \in Raised .. Ended
    /\ listed \subseteq Resources
    /\ reading \in BOOLEAN
    /\ assets \in Seq(Asset)

(* All there was at some time of the scan, and what nobody touched.        *)
Known == exists \cup changed
Steady == exists \ changed

AccountInv == \A r \in Known : Named(r) \subseteq Known

(* A list holds all of its types that was there when it was made.          *)
ListInv ==
    IF reading
    THEN /\ Collecting
         /\ listed \subseteq Known
         /\ \A r \in listed : Type(r) \in ListedBy[Collector]
         /\ \A r \in Steady : Type(r) \in ListedBy[Collector] => r \in listed
    ELSE listed = {}

(* The types whose resources the k-th collector makes assets of.           *)
TypesOf(k) == ListedBy[Collectors[k]] \cup IF Collectors[k] = "ec2" THEN NetworkTypes ELSE {}

CollectedTypes == UNION {TypesOf(k) : k \in {n \in DOMAIN Collectors : n < step}}

Explained(r) ==
    \/ Type(r) = "VOLUME"
    \/ r \in Ids
    \/ <<r, "description">> \in lost
    \/ CollectedBy(r) \in errors

(* Each collector adds resources of its own types, and the Internet is     *)
(* there at the earliest after the second.                                 *)
AssetsInv ==
    /\ \A i, j \in DOMAIN assets : assets[i].id = assets[j].id => i = j
    /\ \A a \in ToSet(assets) :
          \/ a.id = Internet /\ step > 2
          \/ a.id \in Known /\ Type(a.id) \in CollectedTypes
    /\ \A r \in Steady : Type(r) \in CollectedTypes => Explained(r)

EdgesInv ==
    /\ \A e \in rels : {e.source, e.target} \cap Resources \subseteq Known
    /\ {e \in rels : e.type = "CONNECTED_TO"} =
          IF step = Ended THEN GroupEdges(ToSet(assets)) ELSE {}

DiscoveryInv == DiscoveryTypeOK /\ AccountInv /\ ListInv /\ AssetsInv /\ EdgesInv
=============================================================================
