--------------------------- MODULE PipelineProofs ---------------------------
(***************************************************************************)
(* Proofs about Pipeline and Discovery, for every account, whatever fails  *)
(* and whatever its owner changes during the scan.                         *)
(***************************************************************************)
EXTENDS Pipeline, FiniteSetTheorems, SequenceTheorems, TLAPS

(*-------------------------------------------------------------------------*)
(* Lists of assets.                                                        *)

IdsDiffer(s) == \A i, j \in DOMAIN s : s[i].id = s[j].id => i = j

(* A list joined to one whose ids are all others.                          *)
LEMMA JoinedIs ==
    ASSUME NEW S, NEW s \in Seq(S), NEW t \in Seq(S), IdsDiffer(s), IdsDiffer(t),
           \A a \in ToSet(s), b \in ToSet(t) : a.id # b.id
    PROVE  /\ s \o t \in Seq(S)
           /\ ToSet(s \o t) = ToSet(s) \cup ToSet(t)
           /\ IdsDiffer(s \o t)
<1> DEFINE m == Len(s)
           n == Len(t)
           u == s \o t
<1>1. /\ m \in Nat /\ n \in Nat /\ DOMAIN s = 1..m /\ DOMAIN t = 1..n
      /\ u \in Seq(S) /\ DOMAIN u = 1..(m + n)
      /\ \A i \in 1..m : u[i] = s[i]
      /\ \A i \in 1..(m + n) : i > m => i - m \in 1..n /\ u[i] = t[i - m]
  OBVIOUS
<1> HIDE DEF m, n, u
<1>2. \A i \in 1..n : m + i \in 1..(m + n) /\ u[m + i] = t[i]
  <2>1. ASSUME NEW i \in 1..n PROVE m + i \in 1..(m + n) /\ m + i > m /\ (m + i) - m = i
    BY <1>1
  <2>2. QED
    BY <1>1, <2>1
<1>3. ToSet(u) = ToSet(s) \cup ToSet(t)
  <2>1. ASSUME NEW x \in ToSet(u) PROVE x \in ToSet(s) \cup ToSet(t)
    <3>1. PICK i \in 1..(m + n) : x = u[i]
      BY <1>1 DEF ToSet
    <3>2. CASE i > m
      BY <1>1, <3>1, <3>2 DEF ToSet
    <3>3. CASE i <= m
      <4>1. i \in 1..m
        BY <1>1, <3>1, <3>3
      <4>2. QED
        BY <1>1, <3>1, <4>1 DEF ToSet
    <3>4. QED
      BY <1>1, <3>1, <3>2, <3>3
  <2>2. ToSet(s) \subseteq ToSet(u)
    <3>1. ASSUME NEW i \in 1..m PROVE s[i] \in ToSet(u)
      <4>1. i \in 1..(m + n)
        BY <1>1, <3>1
      <4>2. QED
        BY <1>1, <4>1 DEF ToSet
    <3>2. QED
      BY <1>1, <3>1 DEF ToSet
  <2>3. ToSet(t) \subseteq ToSet(u)
    <3>1. ASSUME NEW i \in 1..n PROVE t[i] \in ToSet(u)
      BY <1>1, <1>2, <3>1 DEF ToSet
    <3>2. QED
      BY <1>1, <3>1 DEF ToSet
  <2>4. QED
    BY <2>1, <2>2, <2>3
<1>4. ASSUME NEW i \in 1..(m + n), NEW j \in 1..(m + n), u[i].id = u[j].id
      PROVE  i = j
  <2>1. CASE i <= m /\ j <= m
    <3>1. i \in 1..m /\ j \in 1..m
      BY <1>1, <2>1
    <3>2. QED
      BY <1>1, <1>4, <3>1 DEF IdsDiffer
  <2>2. CASE i > m /\ j > m
    <3>1. i - m \in 1..n /\ j - m \in 1..n /\ t[i - m].id = t[j - m].id
      BY <1>1, <1>4, <2>2
    <3>2. i - m = j - m
      BY <1>1, <3>1 DEF IdsDiffer
    <3>3. QED
      BY <1>1, <3>2
  <2>3. CASE i <= m /\ j > m
    <3>1. i \in 1..m /\ j - m \in 1..n
      BY <1>1, <2>3
    <3>2. u[i] \in ToSet(s) /\ u[j] \in ToSet(t)
      BY <1>1, <2>3, <3>1 DEF ToSet
    <3>3. QED
      BY <1>4, <3>2
  <2>4. CASE i > m /\ j <= m
    <3>1. j \in 1..m /\ i - m \in 1..n
      BY <1>1, <2>4
    <3>2. u[j] \in ToSet(s) /\ u[i] \in ToSet(t)
      BY <1>1, <2>4, <3>1 DEF ToSet
    <3>3. QED
      BY <1>4, <3>2
  <2>5. QED
    BY <1>1, <2>1, <2>2, <2>3, <2>4
<1>5. QED
  BY <1>1, <1>3, <1>4 DEF IdsDiffer, u

(* A finite set as a list: each element once.                              *)
LEMMA ListedIs ==
    ASSUME NEW S, IsFiniteSet(S)
    PROVE  /\ SetToSeq(S) \in Seq(S)
           /\ ToSet(SetToSeq(S)) = S
           /\ IsInjective(SetToSeq(S))
<1> DEFINE N == Cardinality(S)
<1>1. N \in Nat /\ ExistsBijection(1..N, S)
  BY FS_CardinalityType
<1>2. PICK f \in Bijection(1..N, S) : TRUE
  BY <1>1 DEF ExistsBijection
<1>3. f \in [1..N -> S] /\ IsInjective(f)
  BY <1>2 DEF Bijection, Injection, IsInjective
<1>4. SetToSeq(S) \in [1..N -> S] /\ IsInjective(SetToSeq(S))
  BY <1>3 DEF SetToSeq
<1> DEFINE s == SetToSeq(S)
<1> HIDE DEF s
<1>5. s \in [1..N -> S] /\ IsInjective(s)
  BY <1>4 DEF s
<1>6. s \in Seq(S)
  BY <1>1, <1>5
<1>7. ToSet(s) = S
  <2>1. s \in Injection(1..N, S)
    BY <1>5 DEF Injection, IsInjective
  <2>2. ToSet(s) \subseteq S
    BY <1>5 DEF ToSet
  <2>3. s \in Bijection(1..N, ToSet(s))
    BY <1>5 DEF Bijection, Injection, Surjection, IsInjective, ToSet
  <2>4. IsFiniteSet(1..N) /\ Cardinality(1..N) = N
    BY <1>1, FS_Interval
  <2>5. Cardinality(ToSet(s)) = N
    BY <2>3, <2>4, FS_Bijection DEF ExistsBijection
  <2>6. QED
    BY <2>2, <2>5, FS_Subset
<1>8. QED
  BY <1>5, <1>6, <1>7 DEF s

(*-------------------------------------------------------------------------*)
(* The collectors and what each is for.                                    *)

LEMMA Places ==
    /\ DOMAIN Collectors = 1..8 /\ Analyzing = 9 /\ Ended = 10 /\ Raised = -1
    /\ Collectors[1] = "iam" /\ Collectors[2] = "ec2" /\ Collectors[3] = "s3"
    /\ Collectors[4] = "lambda" /\ Collectors[5] = "rds"
    /\ Collectors[6] = "secrets_manager" /\ Collectors[7] = "kms"
    /\ Collectors[8] = "ebs_volumes"
BY DEF Collectors, Analyzing, Ended, Raised

(* The collector of each type.                                             *)
PlaceOf(t) ==
    CASE t \in {"ROLE", "USER", "GROUP"} -> 1
      [] t \in {"EC2", "VPC", "SUBNET", "SECURITY_GROUP"} -> 2
      [] t = "S3" -> 3
      [] t = "LAMBDA" -> 4
      [] t = "RDS" -> 5
      [] t = "SECRET" -> 6
      [] t = "KMS_KEY" -> 7
      [] t = "VOLUME" -> 8

LEMMA TypesOfIs ==
    /\ TypesOf(1) = {"ROLE", "USER", "GROUP"}
    /\ TypesOf(2) = {"EC2", "VPC", "SUBNET", "SECURITY_GROUP"}
    /\ TypesOf(3) = {"S3"} /\ TypesOf(4) = {"LAMBDA"} /\ TypesOf(5) = {"RDS"}
    /\ TypesOf(6) = {"SECRET"} /\ TypesOf(7) = {"KMS_KEY"} /\ TypesOf(8) = {"VOLUME"}
BY Places DEF TypesOf, ListedBy, NetworkTypes

LEMMA TypePlace ==
    ASSUME NEW t \in Types
    PROVE  /\ PlaceOf(t) \in 1..8 /\ t \in TypesOf(PlaceOf(t))
           /\ \A k \in 1..8 : t \in TypesOf(k) => k = PlaceOf(t)
<1>1. t \in {"ROLE", "USER", "GROUP", "VPC", "SUBNET", "SECURITY_GROUP", "EC2", "S3",
             "LAMBDA", "RDS", "SECRET", "KMS_KEY", "VOLUME"}
  BY DEF Types
<1>2. PlaceOf(t) \in 1..8 /\ t \in TypesOf(PlaceOf(t))
  BY <1>1, TypesOfIs DEF PlaceOf
<1>3. ASSUME NEW k \in 1..8, t \in TypesOf(k) PROVE k = PlaceOf(t)
  BY <1>3, TypesOfIs DEF PlaceOf
<1>4. QED
  BY <1>2, <1>3

LEMMA TypeIsType == \A r \in Resources : Type(r) \in Types
BY AccountAssumption DEF Type, Configuration

(* Which collector a resource is ascribed to.                              *)
LEMMA CollectedByIs ==
    ASSUME NEW r \in Resources, NEW k \in 1..8, Type(r) \in TypesOf(k)
    PROVE  CollectedBy(r) = Collectors[k]
<1> DEFINE type == Type(r)
<1>1. type \in Types
  BY TypeIsType
<1>2. CASE type \in NetworkTypes
  <2>1. k = 2
    BY <1>2, TypesOfIs DEF NetworkTypes
  <2>2. QED
    BY <1>2, <2>1, Places DEF CollectedBy
<1>3. CASE type \notin NetworkTypes
  <2>1. /\ DOMAIN ListedBy = {"iam", "ec2", "s3", "lambda", "rds", "secrets_manager",
                               "kms", "ebs_volumes"}
        /\ Collectors[k] \in DOMAIN ListedBy
    BY Places DEF ListedBy
  <2>2. type \in ListedBy[Collectors[k]]
    BY <1>3 DEF TypesOf
  <2>3. \A c \in DOMAIN ListedBy : type \in ListedBy[c] => c = Collectors[k]
    <3>1. ASSUME NEW m \in 1..8, type \in ListedBy[Collectors[m]] PROVE m = k
      BY <1>1, <3>1, TypePlace DEF TypesOf
    <3>2. \A c \in DOMAIN ListedBy : \E m \in 1..8 : c = Collectors[m]
      BY <2>1, Places
    <3>3. QED
      BY <3>1, <3>2
  <2>4. CollectedBy(r) = CHOOSE c \in DOMAIN ListedBy : type \in ListedBy[c]
    BY <1>3 DEF CollectedBy
  <2> HIDE DEF type
  <2>5. QED
    BY <2>1, <2>2, <2>3, <2>4
<1>4. QED
  BY <1>2, <1>3

LEMMA ConfigIs ==
    ASSUME NEW r \in Resources
    PROVE  /\ Config[r].groups \subseteq Resources
           /\ Config[r].role \in Resources \cup {"profile", None}
           /\ Config[r].part \in Resources \cup {None}
           /\ Config[r].key # <<>> => KeyBehind(Config[r].key) \in Resources
           /\ Held(r) \subseteq Resources /\ Named(r) \subseteq Resources
<1>1. Config[r] \in Configuration /\ FieldsFit(r)
  BY AccountAssumption
<1>2. Config[r].key # <<>> => KeyBehind(Config[r].key) \in Resources
  BY <1>1 DEF FieldsFit
<1>3. QED
  BY <1>1, <1>2 DEF Configuration, Held, Named

(* A reference to a key ends in the key it means or in the alias of one.   *)
LEMMA KeyIs ==
    ASSUME NEW r \in Resources, Config[r].key # <<>>
    PROVE  LET last == Last(Config[r].key)
           IN  /\ KeyBehind(Config[r].key) \in Named(r)
               /\ \/ last = KeyBehind(Config[r].key) /\ last \in Resources
                  \/ last \in DOMAIN AliasOf /\ last \notin Resources \cup {Internet}
BY ConfigIs, AccountAssumption DEF KeyBehind, Named

(* The ends of an edge are the resource and what it names; only exposure   *)
(* leads from the Internet.                                                *)
LEMMA EdgeOf ==
    ASSUME NEW r \in Resources, NEW unread, NEW e \in EdgesOf(r, unread)
    PROVE  /\ {e.source, e.target} \cap Resources \subseteq {r} \cup Named(r)
           /\ e.type # "CONNECTED_TO"
           /\ e.source = Internet => e.target = r /\ Type(r) \in {"EC2", "LAMBDA", "RDS"}
<1>1. CASE e \in Exposure(r, unread)
  <2>1. e = Rel(Internet, r, "EXPOSED_TO", 10) /\ Type(r) \in {"EC2", "LAMBDA", "RDS"}
    BY <1>1 DEF Exposure
  <2>2. QED
    BY <2>1, AccountAssumption DEF Rel
<1>2. CASE \E g \in Config[r].groups : e = Rel(r, g, "USES", 10)
  BY <1>2, AccountAssumption DEF Rel, Named, Held
<1>3. CASE \E role \in {Config[r].role} \ {None}, c \in {8, 10} : e = Rel(r, role, "RUNS_AS", c)
  BY <1>3, AccountAssumption DEF Rel, Named
<1>4. CASE \E s \in {Config[r].part} \ {None} : e = Rel(s, r, "CONTAINS", 10)
  BY <1>4, AccountAssumption, ConfigIs DEF Rel, Named, Held
<1>5. CASE /\ Config[r].key # <<>> /\ Encrypted(r) # None
           /\ e = Rel(Encrypted(r), Last(Config[r].key), "ENCRYPTED_BY", 10)
  <2>1. Encrypted(r) # None => Encrypted(r) \in Resources /\ Encrypted(r) \in {r} \cup Named(r)
    BY ConfigIs DEF Encrypted, Named, Held
  <2>2. {Last(Config[r].key)} \cap Resources \subseteq Named(r)
    BY <1>5, KeyIs
  <2>3. QED
    BY <1>5, <2>1, <2>2, AccountAssumption DEF Rel
<1>6. QED
  BY <1>1, <1>2, <1>3, <1>4, <1>5 DEF EdgesOf, NormalizeKmsKeyRef

(*-------------------------------------------------------------------------*)
(* The account.                                                            *)

LEMMA InitInv == DiscoveryInit => DiscoveryInv
<1> SUFFICES ASSUME DiscoveryInit PROVE DiscoveryInv
  OBVIOUS
<1> USE DEF DiscoveryInit
<1>1. DiscoveryTypeOK
  <2>1. exists \subseteq Resources
    BY DiscoveryAssumption
  <2>2. step \in Raised .. Ended
    BY Places
  <2>3. assets \in Seq(Asset)
    OBVIOUS
  <2>4. QED
    BY <2>1, <2>2, <2>3 DEF DiscoveryTypeOK
<1>2. AccountInv
  BY DiscoveryAssumption DEF AccountInv, Known
<1>3. ListInv
  BY DEF ListInv
<1>4. CollectedTypes = {}
  BY Places DEF CollectedTypes
<1>5. AssetsInv
  BY <1>4 DEF AssetsInv, ToSet
<1>6. EdgesInv
  BY Places DEF EdgesInv
<1>7. QED
  BY <1>1, <1>2, <1>3, <1>5, <1>6 DEF DiscoveryInv

(* More gets known of the account and less stays untouched; the scan keeps *)
(* what it has.                                                            *)
LEMMA AccountGrows ==
    ASSUME DiscoveryInv, Known \subseteq Known', Known' \subseteq Resources,
           Steady' \subseteq Steady, AccountInv',
           UNCHANGED <<step, listed, reading, assets, rels, errors, lost>>
    PROVE  DiscoveryInv'
<1> USE DEF DiscoveryInv
<1>1. DiscoveryTypeOK'
  BY DEF DiscoveryTypeOK, Known
<1>2. ListInv'
  BY DEF ListInv, Collecting, Collector
<1>3. CollectedTypes' = CollectedTypes /\ \A r : Explained(r)' <=> Explained(r)
  BY DEF CollectedTypes, Explained, Ids
<1>4. AssetsInv'
  BY <1>3 DEF AssetsInv
<1>5. EdgesInv'
  BY DEF EdgesInv
<1>6. QED
  BY <1>1, <1>2, <1>4, <1>5

LEMMA ChangeInv ==
    ASSUME DiscoveryInv, NEW r \in Volatile, Change(r)
    PROVE  DiscoveryInv'
<1>1. /\ UNCHANGED <<step, listed, reading, assets, rels, errors, lost>>
      /\ Create(r) \/ Delete(r)
      /\ r \in Resources
  BY DiscoveryAssumption DEF Change, scan
<1>2. exists \subseteq Resources /\ changed \subseteq Resources /\ AccountInv
  BY DEF DiscoveryInv, DiscoveryTypeOK
<1>3. CASE Create(r)
  <2>1. /\ Known' = Known \cup {r} /\ Steady' \subseteq Steady
        /\ Named(r) \subseteq Known
    BY <1>3 DEF Create, Known, Steady
  <2>2. AccountInv'
    BY <1>2, <2>1 DEF AccountInv
  <2>3. Known' \subseteq Resources
    BY <1>1, <1>2, <2>1 DEF Known
  <2>4. QED
    BY <1>1, <2>1, <2>2, <2>3, AccountGrows
<1>4. CASE Delete(r)
  <2>1. Known' = Known /\ Steady' \subseteq Steady
    BY <1>4 DEF Delete, Volumes, Known, Steady
  <2>2. AccountInv'
    BY <1>2, <2>1 DEF AccountInv
  <2>3. Known' \subseteq Resources
    BY <1>2, <2>1 DEF Known
  <2>4. QED
    BY <1>1, <2>1, <2>2, <2>3, AccountGrows
<1>5. QED
  BY <1>1, <1>3, <1>4

LEMMA IdentifyInv ==
    ASSUME DiscoveryInv, NEW answered \in BOOLEAN, Identify(answered)
    PROVE  DiscoveryInv'
<1> USE DEF DiscoveryInv
<1>1. /\ step = 0 /\ step' \in {1, -1}
      /\ UNCHANGED <<exists, changed, listed, reading, assets, rels, errors, lost>>
  BY Places DEF Identify, account, scan
<1>2. ~ reading
  BY <1>1, Places DEF ListInv, Collecting
<1>3. DiscoveryTypeOK'
  BY <1>1, Places DEF DiscoveryTypeOK
<1>4. AccountInv' /\ ListInv'
  BY <1>1, <1>2 DEF AccountInv, ListInv, Known
<1>5. CollectedTypes = {} /\ CollectedTypes' = {}
  BY <1>1, Places DEF CollectedTypes
<1>6. AssetsInv'
  <2>1. ToSet(assets) = {}
    BY <1>1, <1>5 DEF AssetsInv
  <2>2. ToSet(assets') = {}
    BY <1>1, <2>1
  <2>3. QED
    BY <1>1, <1>5, <2>2 DEF AssetsInv
<1>7. EdgesInv'
  BY <1>1, Places DEF EdgesInv, Known
<1>8. QED
  BY <1>3, <1>4, <1>6, <1>7

LEMMA ListKeepsInv ==
    ASSUME DiscoveryInv, List
    PROVE  DiscoveryInv'
<1> USE DEF DiscoveryInv
<1>1. /\ Collecting /\ reading' = TRUE
      /\ listed' = {r \in exists : Type(r) \in ListedBy[Collector]}
      /\ UNCHANGED <<exists, changed, step, assets, rels, errors, lost>>
  BY DEF List, OfTypes, account, scan
<1>2. DiscoveryTypeOK'
  BY <1>1 DEF DiscoveryTypeOK
<1>3. AccountInv' /\ EdgesInv'
  BY <1>1 DEF AccountInv, EdgesInv, Known
<1>4. ListInv'
  BY <1>1 DEF ListInv, Collecting, Collector, Known, Steady
<1>5. AssetsInv'
  <2>1. CollectedTypes' = CollectedTypes /\ \A r : Explained(r)' <=> Explained(r)
    BY <1>1 DEF CollectedTypes, Explained, Ids
  <2>2. QED
    BY <1>1, <2>1 DEF AssetsInv, Known, Steady
<1>6. QED
  BY <1>2, <1>3, <1>4, <1>5

(* The next collector follows, whatever became of this one.                *)
LEMMA NextTypes ==
    ASSUME DiscoveryTypeOK, Collecting, NextCollector
    PROVE  /\ step \in 1..8 /\ step' = step + 1 /\ step' \in Raised .. Ended
           /\ step' # Ended /\ step # Ended
           /\ CollectedTypes' = CollectedTypes \cup TypesOf(step)
<1>1. step \in 1..8 /\ step' = step + 1
  BY Places DEF Collecting, NextCollector
<1>2. step' \in Raised .. Ended /\ step' # Ended /\ step # Ended
  BY <1>1, Places
<1>3. {n \in 1..8 : n < step'} = {n \in 1..8 : n < step} \cup {step}
  BY <1>1
<1>4. CollectedTypes' = CollectedTypes \cup TypesOf(step)
  <2> DEFINE before == {n \in 1..8 : n < step}
  <2> HIDE DEF before
  <2>1. CollectedTypes = UNION {TypesOf(k) : k \in before}
    BY Places DEF CollectedTypes, before
  <2>2. CollectedTypes' = UNION {TypesOf(k) : k \in before \cup {step}}
    BY <1>3, Places DEF CollectedTypes, before
  <2>3. QED
    BY <2>1, <2>2
<1>5. QED
  BY <1>1, <1>2, <1>4

LEMMA CollectorFailsInv ==
    ASSUME DiscoveryInv, CollectorFails
    PROVE  DiscoveryInv'
<1> USE DEF DiscoveryInv
<1>1. /\ Collecting /\ NextCollector
      /\ errors' = errors \cup {Collectors[step]}
      /\ listed' = {} /\ reading' = FALSE
      /\ UNCHANGED <<exists, changed, assets, rels, lost>>
  BY DEF CollectorFails, NextCollector, account, Collector
<1>2. /\ step \in 1..8 /\ step' = step + 1 /\ step' \in Raised .. Ended
      /\ step' # Ended /\ step # Ended
      /\ CollectedTypes' = CollectedTypes \cup TypesOf(step)
  BY <1>1, NextTypes
<1>3. DiscoveryTypeOK'
  BY <1>1, <1>2 DEF DiscoveryTypeOK
<1>4. AccountInv' /\ ListInv'
  BY <1>1 DEF AccountInv, ListInv, Known
<1>5. EdgesInv'
  BY <1>1, <1>2 DEF EdgesInv, Known
<1>6. AssetsInv'
  <2>1. ASSUME NEW r \in Steady, Type(r) \in CollectedTypes' PROVE Explained(r)'
    <3>1. r \in Resources
      BY DEF Steady, DiscoveryTypeOK
    <3>2. CASE Type(r) \in CollectedTypes
      BY <1>1, <3>2 DEF AssetsInv, Explained, Ids
    <3>3. CASE Type(r) \in TypesOf(step)
      <4>1. CollectedBy(r) = Collectors[step]
        BY <1>2, <3>1, <3>3, CollectedByIs
      <4>2. QED
        BY <1>1, <4>1 DEF Explained
    <3>4. QED
      BY <1>2, <2>1, <3>2, <3>3
  <2>2. \A a \in ToSet(assets') : \/ a.id = Internet /\ step' > 2
                                  \/ a.id \in Known /\ Type(a.id) \in CollectedTypes'
    BY <1>1, <1>2 DEF AssetsInv
  <2>3. QED
    BY <1>1, <2>1, <2>2 DEF AssetsInv, Known, Steady
<1>7. QED
  BY <1>3, <1>4, <1>5, <1>6

LEMMA AnalyzeNetworkInv ==
    ASSUME DiscoveryInv, AnalyzeNetwork
    PROVE  DiscoveryInv'
<1> USE DEF DiscoveryInv
<1>1. /\ step = 9 /\ step' = 10
      /\ rels' = rels \cup NetworkEdges(ToSet(assets))
      /\ UNCHANGED <<exists, changed, listed, reading, assets, errors, lost>>
  BY Places DEF AnalyzeNetwork, account
<1>2. ~ reading
  BY <1>1, Places DEF ListInv, Collecting
<1>3. DiscoveryTypeOK'
  BY <1>1, Places DEF DiscoveryTypeOK
<1>4. AccountInv' /\ ListInv'
  BY <1>1, <1>2 DEF AccountInv, ListInv, Known
<1>5. CollectedTypes' = CollectedTypes
  BY <1>1, Places DEF CollectedTypes
<1>6. AssetsInv'
  <2>1. \A r : Explained(r)' <=> Explained(r)
    BY <1>1 DEF Explained, Ids
  <2>2. QED
    BY <1>1, <1>5, <2>1 DEF AssetsInv, Known, Steady
<1>7. IdsOf(ToSet(assets)) \subseteq Known
  BY DEF IdsOf, AssetsInv
<1>8. \A e \in BucketEdges(ToSet(assets)) :
         {e.source, e.target} \cap Resources \subseteq Known /\ e.type # "CONNECTED_TO"
  <2>1. ASSUME NEW a \in ToSet(assets), a.id # Internet
        PROVE  a.id \in Known
    BY <1>7, <2>1 DEF IdsOf
  <2>2. QED
    BY <2>1, AccountAssumption DEF BucketEdges, IsPublicBucket, Rel
<1>9. \A e \in GroupEdges(ToSet(assets)) :
         {e.source, e.target} \subseteq Known /\ e.type = "CONNECTED_TO"
  BY <1>7 DEF GroupEdges, Using, Rel
<1>10. EdgesInv'
  <2> DEFINE edges == GroupEdges(ToSet(assets))
             buckets == BucketEdges(ToSet(assets))
  <2>1. rels' = rels \cup buckets \cup edges
    BY <1>1 DEF NetworkEdges
  <2>2. {e \in rels : e.type = "CONNECTED_TO"} = {}
    BY <1>1, Places DEF EdgesInv
  <2>3. edges' = edges
    BY <1>1
  <2> HIDE DEF edges, buckets
  <2>4. {e \in rels' : e.type = "CONNECTED_TO"} = edges
    BY <1>8, <1>9, <2>1, <2>2 DEF edges, buckets
  <2>5. \A e \in rels' : {e.source, e.target} \cap Resources \subseteq Known
    BY <1>8, <1>9, <2>1 DEF EdgesInv, edges, buckets
  <2>6. QED
    BY <1>1, <2>3, <2>4, <2>5, Places DEF EdgesInv, Known, edges
<1>11. QED
  BY <1>3, <1>4, <1>6, <1>10

(* What the collector at work makes assets of: what it may, and all of it  *)
(* that nobody touched, but for volumes and keys it could not describe.    *)
LEMMA NormalizedIs ==
    ASSUME DiscoveryInv, Collecting, reading, NEW unread
    PROVE  /\ Normalized(unread) \subseteq Known
           /\ \A r \in listed \cup Normalized(unread) :
                 r \in Known /\ Type(r) \in TypesOf(step)
           /\ \A r \in Steady : Type(r) \in TypesOf(step) =>
                 \/ Type(r) = "VOLUME"
                 \/ r \in Normalized(unread)
                 \/ <<r, "description">> \in unread
<1> USE DEF DiscoveryInv
<1> DEFINE N == Normalized(unread)
<1>1. /\ listed \subseteq Known
      /\ \A r \in listed : Type(r) \in ListedBy[Collector]
      /\ \A r \in Steady : Type(r) \in ListedBy[Collector] => r \in listed
  BY DEF ListInv
<1>2. step \in 1..8 /\ Collector = Collectors[step]
  BY Places DEF Collecting, Collector
<1>3. ListedBy[Collector] \subseteq TypesOf(step)
  BY <1>2 DEF TypesOf
<1>4. CASE Collector = "ec2"
  <2>1. N = listed \cup {r \in exists : Type(r) \in NetworkTypes}
    BY <1>4 DEF Normalized, OfTypes
  <2>2. TypesOf(step) = ListedBy[Collector] \cup NetworkTypes
    BY <1>2, <1>4 DEF TypesOf
  <2> HIDE DEF N
  <2>3. QED
    BY <1>1, <2>1, <2>2 DEF Known, Steady, N
<1>5. CASE Collector # "ec2"
  <2>1. TypesOf(step) = ListedBy[Collector]
    BY <1>2, <1>5 DEF TypesOf
  <2>2. N \subseteq listed
    BY <1>5 DEF Normalized
  <2>3. CASE Collector = "ebs_volumes"
    <3>1. ListedBy[Collector] = {"VOLUME"}
      BY <2>3 DEF ListedBy
    <3>2. QED
      BY <1>1, <2>1, <2>2, <3>1
  <2>4. CASE Collector = "kms"
    <3>1. N = listed \ Undescribed(unread)
      BY <2>4 DEF Normalized
    <3>2. \A r \in listed \ N : <<r, "description">> \in unread
      BY <3>1 DEF Undescribed, IsRead
    <3> HIDE DEF N
    <3>3. QED
      BY <1>1, <2>1, <2>2, <3>2 DEF N
  <2>5. CASE Collector \notin {"ebs_volumes", "kms"}
    <3>1. N = listed
      BY <1>5, <2>5 DEF Normalized
    <3>2. QED
      BY <1>1, <2>1, <3>1
  <2>6. QED
    BY <2>3, <2>4, <2>5
<1>6. QED
  BY <1>4, <1>5

(* The assets of what is normalized.                                       *)
AssetsOf(N, unread) == {AssetOf(r, unread) : r \in N}

LEMMA AssetsOfAre ==
    ASSUME NEW N \in SUBSET Resources, NEW unread
    PROVE  /\ {a.id : a \in AssetsOf(N, unread)} = N
           /\ SetToSeq(AssetsOf(N, unread)) \in Seq(Asset)
           /\ ToSet(SetToSeq(AssetsOf(N, unread))) = AssetsOf(N, unread)
           /\ IdsDiffer(SetToSeq(AssetsOf(N, unread)))
<1> DEFINE new == AssetsOf(N, unread)
<1> USE DEF AssetsOf
<1>1. ASSUME NEW r \in N PROVE AssetOf(r, unread) \in Asset /\ AssetOf(r, unread).id = r
  <2>1. Config[r] \in Configuration
    BY AccountAssumption
  <2>2. /\ Config[r].address \in BOOLEAN /\ Config[r].acl \in BOOLEAN
        /\ Config[r].policy \in SUBSET Grant /\ Config[r].block \in SUBSET Settings
    BY <2>1 DEF Configuration
  <2>3. /\ Policy(r, unread) \in SUBSET Grant /\ Block(r, unread) \in SUBSET Settings
        /\ (Config[r].acl /\ IsRead(r, "acl", unread)) \in BOOLEAN
    BY <2>2 DEF Policy, Block
  <2>4. IsPublic(r, unread) \in BOOLEAN
    BY <2>2 DEF IsPublic
  <2>5. QED
    BY <2>3, <2>4 DEF AssetOf, Asset
<1>2. new \subseteq Asset /\ {a.id : a \in new} = N
  BY <1>1
<1>3. \A a, b \in new : a.id = b.id => a = b
  BY <1>1
<1>4. IsFiniteSet(new)
  <2>1. IsFiniteSet(N)
    BY DiscoveryAssumption, FS_Subset
  <2> DEFINE f == [r \in N |-> AssetOf(r, unread)]
  <2>2. f \in Surjection(N, new)
    BY DEF Surjection
  <2>3. QED
    BY <2>1, <2>2, FS_Surjection
<1> HIDE DEF new, AssetsOf
<1> DEFINE s == SetToSeq(new)
<1>5. s \in Seq(new) /\ ToSet(s) = new /\ IsInjective(s)
  BY <1>4, ListedIs
<1> HIDE DEF s
<1>6. s \in Seq(Asset)
  BY <1>2, <1>5
<1>7. IdsDiffer(s)
  <2>1. ASSUME NEW i \in DOMAIN s, NEW j \in DOMAIN s, s[i].id = s[j].id PROVE i = j
    <3>1. s[i] \in new /\ s[j] \in new
      BY <1>5
    <3>2. s[i] = s[j]
      BY <1>3, <2>1, <3>1
    <3>3. QED
      BY <1>5, <3>2 DEF IsInjective
  <2>2. QED
    BY <2>1 DEF IdsDiffer
<1>8. QED
  BY <1>2, <1>5, <1>6, <1>7 DEF s, new

(* No type has two collectors.                                             *)
LEMMA NotYetCollected ==
    ASSUME step \in 1..8, NEW r \in Resources, Type(r) \in TypesOf(step)
    PROVE  Type(r) \notin CollectedTypes
<1>1. SUFFICES ASSUME Type(r) \in CollectedTypes PROVE FALSE
  OBVIOUS
<1>2. PICK k \in 1..8 : k < step /\ Type(r) \in TypesOf(k)
  BY <1>1, Places DEF CollectedTypes
<1>3. k = PlaceOf(Type(r)) /\ step = PlaceOf(Type(r))
  BY <1>2, TypeIsType, TypePlace
<1>4. QED
  BY <1>2, <1>3

(* The Internet is added by the second collector or a later one, and when  *)
(* it is not there.                                                        *)
LEMMA InternetIsNew ==
    ASSUME DiscoveryInv, Collecting, reading, NEW unread,
           AddsInternet(EdgesRead(listed \cup Normalized(unread), unread))
    PROVE  /\ step \in 2..8
           /\ \A a \in ToSet(assets) : a.id # Internet
<1> DEFINE read == listed \cup Normalized(unread)
           edges == EdgesRead(read, unread)
<1>1. step \in 1..8 /\ Collector = Collectors[step]
  BY Places DEF Collecting, Collector
<1>2. \A a \in ToSet(assets) : a.id = Internet => step > 2
  BY AccountAssumption DEF DiscoveryInv, DiscoveryTypeOK, AssetsInv, Known
<1>3. CASE Collector = "ec2"
  <2>1. step \in {1, 2, 3, 4, 5, 6, 7, 8}
    BY <1>1
  <2>2. step = 2
    BY <1>1, <1>3, <2>1, Places
  <2>3. QED
    BY <1>2, <2>2
<1>4. CASE Collector # "ec2"
  <2>1. FromInternet(edges) /\ ~ HasInternet
    BY <1>4 DEF AddsInternet
  <2>2. PICK r \in read : \E e \in EdgesOf(r, unread) : e.source = Internet
    BY <2>1 DEF FromInternet, EdgesRead
  <2>3. r \in Resources /\ Type(r) \in TypesOf(step)
    BY NormalizedIs DEF DiscoveryInv, DiscoveryTypeOK, Known
  <2>4. Type(r) \in {"EC2", "LAMBDA", "RDS"}
    BY <2>2, <2>3, EdgeOf
  <2>5. step # 1
    BY <2>3, <2>4, TypesOfIs
  <2>6. \A a \in ToSet(assets) : a.id # Internet
    BY <2>1 DEF HasInternet, ToSet
  <2>7. QED
    BY <1>1, <2>5, <2>6
<1>5. QED
  BY <1>3, <1>4

(* What is normalized, as a whole or in part, adds to the scan, and what    *)
(* is left out is told by an error.                                        *)
LEMMA AddsInv ==
    ASSUME DiscoveryInv, Collecting, reading, NEW unread,
           NEW N \in SUBSET Normalized(unread),
           NEW of \in SUBSET (listed \cup Normalized(unread)), NEW net,
           Adds(unread, N, net, EdgesRead(of, unread)),
           \/ net = <<>>
           \/ /\ net = <<InternetAsset>> /\ step \in 2..8
              /\ \A a \in ToSet(assets) : a.id # Internet,
           errors \subseteq errors',
           \/ N = Normalized(unread)
           \/ Collector \in errors'
    PROVE  DiscoveryInv'
<1> USE DEF DiscoveryInv
<1> DEFINE edges == EdgesRead(of, unread)
           new == AssetsOf(N, unread)
           s == SetToSeq(new)
<1>1. /\ NextCollector
      /\ assets' = (assets \o s) \o net
      /\ rels' = rels \cup edges
      /\ lost' = lost \cup unread
      /\ listed' = {} /\ reading' = FALSE
      /\ UNCHANGED <<exists, changed>>
  BY DEF Adds, NextCollector, account, AssetsOf
<1>2. /\ step \in 1..8 /\ step' = step + 1 /\ step' \in Raised .. Ended
      /\ step' # Ended /\ step # Ended
      /\ CollectedTypes' = CollectedTypes \cup TypesOf(step)
  BY <1>1, NextTypes
<1>3. Known \subseteq Resources /\ Known' = Known /\ Steady' = Steady
  BY <1>1 DEF DiscoveryTypeOK, Known, Steady
<1>4. /\ N \subseteq Known
      /\ \A r \in of \cup N : r \in Known /\ Type(r) \in TypesOf(step)
  BY NormalizedIs
<1>5. ASSUME NEW r \in Steady, Type(r) \in TypesOf(step)
       PROVE  \/ Type(r) = "VOLUME" \/ r \in N \/ <<r, "description">> \in unread
              \/ CollectedBy(r) \in errors'
  <2>1. CASE N = Normalized(unread)
    BY <1>5, <2>1, NormalizedIs
  <2>2. CASE Collector \in errors'
    <3>1. r \in Resources
      BY <1>3 DEF Known, Steady
    <3>2. CollectedBy(r) = Collector
      BY <1>2, <1>5, <3>1, CollectedByIs DEF Collector
    <3>3. QED
      BY <2>2, <3>2
  <2>3. QED
    BY <2>1, <2>2
<1>6. /\ {a.id : a \in new} = N
      /\ s \in Seq(Asset) /\ ToSet(s) = new /\ IdsDiffer(s)
  <2>1. N \in SUBSET Resources
    BY <1>3, <1>4
  <2>2. QED
    BY <2>1, AssetsOfAre
<1>7. /\ assets \in Seq(Asset) /\ IdsDiffer(assets)
      /\ \A a \in ToSet(assets) : \/ a.id = Internet /\ step > 2
                                  \/ a.id \in Known /\ Type(a.id) \in CollectedTypes
  BY DEF DiscoveryTypeOK, AssetsInv, IdsDiffer
<1>8. EdgesInv'
  <2>1. ASSUME NEW e \in edges
        PROVE  {e.source, e.target} \cap Resources \subseteq Known /\ e.type # "CONNECTED_TO"
    <3>1. PICK r \in of : e \in EdgesOf(r, unread)
      BY DEF EdgesRead
    <3>2. r \in Known /\ r \in Resources /\ Named(r) \subseteq Known
      BY <1>3, <1>4 DEF AccountInv
    <3>3. QED
      BY <3>1, <3>2, EdgeOf
  <2> HIDE DEF edges
  <2>2. {e \in rels : e.type = "CONNECTED_TO"} = {}
    BY <1>2 DEF EdgesInv
  <2>3. QED
    BY <1>1, <1>2, <1>3, <2>1, <2>2 DEF EdgesInv
<1> HIDE DEF edges, new, s
<1>9. /\ assets \o s \in Seq(Asset)
      /\ ToSet(assets \o s) = ToSet(assets) \cup new
      /\ IdsDiffer(assets \o s)
  <2>1. ASSUME NEW a \in ToSet(assets), NEW b \in ToSet(s) PROVE a.id # b.id
    <3>1. b.id \in Resources /\ Type(b.id) \in TypesOf(step)
      BY <1>3, <1>4, <1>6
    <3>2. Type(b.id) \notin CollectedTypes
      BY <1>2, <3>1, NotYetCollected
    <3>3. QED
      BY <1>7, <3>1, <3>2, AccountAssumption
  <2>2. QED
    BY <1>6, <1>7, <2>1, JoinedIs
<1>10. /\ net \in Seq(Asset) /\ IdsDiffer(net)
       /\ \A b \in ToSet(net) : /\ b.id = Internet /\ step \in 2..8
                               /\ \A a \in ToSet(assets) : a.id # Internet
  <2>1. InternetAsset \in Asset /\ InternetAsset.id = Internet
    BY DEF InternetAsset, Asset
  <2>2. CASE net = <<InternetAsset>>
    BY <2>1, <2>2, AccountAssumption DEF IdsDiffer, ToSet
  <2>3. CASE net = <<>>
    BY <2>3 DEF IdsDiffer, ToSet
  <2>4. QED
    BY <2>2, <2>3
<1>11. /\ assets' \in Seq(Asset) /\ IdsDiffer(assets')
       /\ ToSet(assets') = (ToSet(assets) \cup new) \cup ToSet(net)
  <2>1. ASSUME NEW a \in ToSet(assets \o s), NEW b \in ToSet(net) PROVE a.id # b.id
    <3>1. b.id = Internet /\ \A x \in ToSet(assets) : x.id # Internet
      BY <1>10
    <3>2. \A x \in new : x.id # Internet
      BY <1>3, <1>4, <1>6, AccountAssumption
    <3>3. QED
      BY <1>9, <3>1, <3>2
  <2> DEFINE u == assets \o s
  <2>2. /\ u \in Seq(Asset) /\ IdsDiffer(u)
        /\ \A a \in ToSet(u), b \in ToSet(net) : a.id # b.id
    BY <1>9, <2>1
  <2> HIDE DEF u
  <2>3. /\ u \o net \in Seq(Asset) /\ IdsDiffer(u \o net)
        /\ ToSet(u \o net) = ToSet(u) \cup ToSet(net)
    BY <1>10, <2>2, JoinedIs
  <2>4. QED
    BY <1>1, <1>9, <2>3 DEF u
<1>12. DiscoveryTypeOK'
  BY <1>1, <1>2, <1>11 DEF DiscoveryTypeOK
<1>13. AccountInv' /\ ListInv'
  BY <1>1, <1>3 DEF AccountInv, ListInv
<1>14. AssetsInv'
  <2>1. ASSUME NEW a \in ToSet(assets')
        PROVE  \/ a.id = Internet /\ step' > 2
               \/ a.id \in Known /\ Type(a.id) \in CollectedTypes'
    <3>1. CASE a \in ToSet(assets)
      BY <1>2, <1>7, <3>1
    <3>2. CASE a \in new
      BY <1>2, <1>4, <1>6, <3>2
    <3>3. CASE a \in ToSet(net)
      BY <1>2, <1>10, <3>3
    <3>4. QED
      BY <1>11, <3>1, <3>2, <3>3
  <2>2. Ids' = ({a.id : a \in ToSet(assets)} \cup N \cup {a.id : a \in ToSet(net)}) \ {Internet}
    BY <1>6, <1>11 DEF Ids, IdsOf
  <2>3. Ids \cup N \subseteq Ids'
    <3>1. Internet \notin N
      BY <1>3, <1>4, AccountAssumption
    <3>2. QED
      BY <2>2, <3>1 DEF Ids, IdsOf
  <2>4. ASSUME NEW r \in Steady, Type(r) \in CollectedTypes' PROVE Explained(r)'
    <3>1. CASE Type(r) \in CollectedTypes
      <4>1. Explained(r)
        BY <3>1 DEF AssetsInv
      <4>2. QED
        BY <1>1, <2>3, <4>1 DEF Explained
    <3>2. CASE Type(r) \in TypesOf(step)
      BY <1>1, <1>5, <2>3, <3>2 DEF Explained
    <3>3. QED
      BY <1>2, <2>4, <3>1, <3>2
  <2>5. QED
    BY <1>3, <1>11, <2>1, <2>4 DEF AssetsInv, IdsDiffer
<1>15. QED
  BY <1>8, <1>12, <1>13, <1>14

LEMMA ReadInv ==
    ASSUME DiscoveryInv, Collecting, NEW unread, Read(unread)
    PROVE  DiscoveryInv'
<1> DEFINE edges == EdgesRead(listed \cup Normalized(unread), unread)
           net == IF AddsInternet(edges) THEN <<InternetAsset>> ELSE <<>>
<1>1. reading /\ Adds(unread, Normalized(unread), net, edges) /\ UNCHANGED errors
  BY DEF Read, Reading
<1>2. AddsInternet(edges) => step \in 2..8 /\ \A a \in ToSet(assets) : a.id # Internet
  BY <1>1, InternetIsNew
<1>3. QED
  BY <1>1, <1>2, AddsInv

LEMMA NormalizerFailsInv ==
    ASSUME DiscoveryInv, Collecting, NEW unread, NEW part, NEW hand,
           NormalizerFails(unread, part, hand)
    PROVE  DiscoveryInv'
<1>1. /\ reading
      /\ part \cap Normalized(unread) \subseteq Normalized(unread)
      /\ part \ {hand} \subseteq listed \cup Normalized(unread)
      /\ Adds(unread, part \cap Normalized(unread), <<>>, EdgesRead(part \ {hand}, unread))
      /\ errors \subseteq errors' /\ Collector \in errors'
  BY DEF NormalizerFails, Reading
<1>2. QED
  BY <1>1, AddsInv

LEMMA NextInv == DiscoveryInv /\ [Next]_vars => DiscoveryInv'
<1> SUFFICES ASSUME DiscoveryInv, [Next]_vars PROVE DiscoveryInv'
  OBVIOUS
<1>1. CASE DiscoveryStep
  <2>1. CASE \E r \in Volatile : Change(r)
    BY <2>1, ChangeInv
  <2>2. CASE \E answered \in BOOLEAN : Identify(answered)
    BY <2>2, IdentifyInv
  <2>3. CASE List
    BY <2>3, ListKeepsInv
  <2>4. CASE CollectorFails
    BY <2>4, CollectorFailsInv
  <2>5. ASSUME Collecting, NEW unread, Read(unread) PROVE DiscoveryInv'
    BY <2>5, ReadInv
  <2>6. ASSUME Collecting, NEW unread, NEW part, NEW hand, NormalizerFails(unread, part, hand)
        PROVE  DiscoveryInv'
    BY <2>6, NormalizerFailsInv
  <2>7. QED
    BY <1>1, <2>1, <2>2, <2>3, <2>4, <2>5, <2>6 DEF DiscoveryStep
<1>2. CASE AnalyzeNetwork
  BY <1>2, AnalyzeNetworkInv
<1>3. CASE UNCHANGED discoveryVars
  <2>1. UNCHANGED <<exists, changed, step, listed, reading, assets, rels, errors, lost>>
    BY <1>3 DEF discoveryVars, account, scan
  <2>2. Known' = Known /\ Steady' = Steady /\ Known \subseteq Resources /\ AccountInv'
    BY <2>1 DEF Known, Steady, AccountInv, DiscoveryInv, DiscoveryTypeOK
  <2>3. QED
    BY <2>1, <2>2, AccountGrows
<1>4. QED
  BY <1>1, <1>2, <1>3 DEF Next, Analyze, BuildGraph, SaveRecord, Terminated, vars

(* What is known of every state of a scan: the account as it was and as it *)
(* became, what the list of a collector holds, which resources have become *)
(* assets or are accounted for, and where the edges end.                   *)
THEOREM DiscoveryInvariant == Spec => []DiscoveryInv
<1>1. Init => DiscoveryInv
  BY InitInv DEF Init
<1>2. QED
  BY <1>1, NextInv, PTL DEF Spec

(*-------------------------------------------------------------------------*)
(* Partial scans.                                                          *)

LEMMA AllCollected == step = Ended => CollectedTypes = UNION {TypesOf(k) : k \in 1..8}
<1> SUFFICES ASSUME step = Ended PROVE CollectedTypes = UNION {TypesOf(k) : k \in 1..8}
  OBVIOUS
<1>1. {n \in 1..8 : n < step} = 1..8
  BY Places
<1>2. QED
  BY <1>1, Places DEF CollectedTypes

(* A failing collector costs what it collects and nothing else: whatever   *)
(* the account or an edge of the finished scan has and the scan has not is *)
(* told by an error, changed meanwhile, or is a key that could not be      *)
(* described; and no asset is there twice.                                 *)
THEOREM MissingAlwaysExplained == Spec => []MissingIsExplained
<1>1. DiscoveryInv => MissingIsExplained
  <2> SUFFICES ASSUME DiscoveryInv, step = Ended
               PROVE  /\ \A r \in (exists \cup UNION {{e.source, e.target} : e \in rels})
                                     \cap Resources :
                            r \in changed \/ Explained(r)
                      /\ IsInjective([i \in DOMAIN assets |-> assets[i].id])
    BY DEF MissingIsExplained, Explained
  <2> USE DEF DiscoveryInv
  <2>1. ASSUME NEW r \in (exists \cup UNION {{e.source, e.target} : e \in rels})
                            \cap Resources,
               r \notin changed
        PROVE  Explained(r)
    <3>1. r \in Steady
      BY <2>1 DEF EdgesInv, Known, Steady
    <3>2. Type(r) \in CollectedTypes
      BY <2>1, AllCollected, TypeIsType, TypePlace
    <3>3. QED
      BY <3>1, <3>2 DEF AssetsInv
  <2>2. IsInjective([i \in DOMAIN assets |-> assets[i].id])
    BY DEF AssetsInv, IsInjective
  <2>3. QED
    BY <2>1, <2>2
<1>2. QED
  BY <1>1, DiscoveryInvariant, PTL

(*-------------------------------------------------------------------------*)
(* Connectivity.                                                           *)

LEMMA GroupEdgesAre ==
    ASSUME NEW A, NEW e
    PROVE  e \in GroupEdges(A) <=>
             \E g \in Resources, h \in Groups(A), i, j \in IdsOf(A) :
                /\ Names(g, h)
                /\ i \in Using(A, g) /\ j \in Using(A, h) /\ i # j
                /\ e = Rel(i, j, "CONNECTED_TO", EgressConfidence(A, g, h))
<1>1. \A p \in Resources \X Groups(A) : p[1] \in Resources /\ p[2] \in Groups(A)
  OBVIOUS
<1>2. \A i, j, c : Rel(i, j, "CONNECTED_TO", c).source = i
                   /\ Rel(i, j, "CONNECTED_TO", c).target = j
  BY DEF Rel
<1>3. \A g : Using(A, g) \subseteq IdsOf(A)
  BY DEF Using
<1>4. ASSUME e \in GroupEdges(A)
      PROVE  \E p \in Resources \X Groups(A) :
                /\ Names(p[1], p[2])
                /\ \E i \in Using(A, p[1]), j \in Using(A, p[2]) :
                      /\ i # j
                      /\ e = Rel(i, j, "CONNECTED_TO", EgressConfidence(A, p[1], p[2]))
  <2>1. PICK p \in {q \in Resources \X Groups(A) : Names(q[1], q[2])} :
                e \in {Rel(i, j, "CONNECTED_TO", EgressConfidence(A, p[1], p[2])) :
                          i \in Using(A, p[1]), j \in Using(A, p[2])}
    BY <1>4 DEF GroupEdges
  <2>2. PICK i \in Using(A, p[1]), j \in Using(A, p[2]) :
                e = Rel(i, j, "CONNECTED_TO", EgressConfidence(A, p[1], p[2]))
    BY <2>1
  <2>3. i # j
    BY <1>2, <1>4, <2>2 DEF GroupEdges
  <2>4. QED
    BY <2>1, <2>2, <2>3
<1>5. ASSUME NEW g \in Resources, NEW h \in Groups(A), NEW i \in Using(A, g),
             NEW j \in Using(A, h), Names(g, h), i # j,
             e = Rel(i, j, "CONNECTED_TO", EgressConfidence(A, g, h))
      PROVE  e \in GroupEdges(A)
  <2> DEFINE p == <<g, h>>
  <2>1. p \in {q \in Resources \X Groups(A) : Names(q[1], q[2])}
        /\ p[1] = g /\ p[2] = h
    BY <1>5
  <2>2. e.source # e.target
    BY <1>2, <1>5
  <2> HIDE DEF p
  <2>3. QED
    BY <1>5, <2>1, <2>2 DEF GroupEdges
<1>6. QED
  BY <1>1, <1>3, <1>4, <1>5

LEMMA IdsAre ==
    DiscoveryTypeOK => /\ ToSet(assets) \subseteq Asset
                       /\ Ids = IdsOf(ToSet(assets)) /\ Ids \subseteq Resources
<1> SUFFICES ASSUME DiscoveryTypeOK
             PROVE  ToSet(assets) \subseteq Asset /\ Ids \subseteq Resources
  BY DEF Ids
<1>1. ToSet(assets) \subseteq Asset
  <2>1. assets \in Seq(Asset)
    BY DEF DiscoveryTypeOK
  <2> HIDE DEF Asset
  <2>2. QED
    BY <2>1 DEF ToSet
<1>2. \A a \in Asset : a.id \in Resources \cup {Internet}
  BY DEF Asset
<1> HIDE DEF Asset
<1>3. QED
  BY <1>1, <1>2 DEF Ids, IdsOf

(* What the analyzer makes of a group that names another: certain only of  *)
(* what is allowed or taken for open.                                      *)
LEMMA GroupEdgeIs ==
    ASSUME DiscoveryTypeOK, NEW e \in GroupEdges(ToSet(assets))
    PROVE  /\ e.source \in Resources /\ e.target \in Resources
           /\ Type(e.source) \in {"EC2", "RDS", "LAMBDA"}
           /\ e.type = "CONNECTED_TO" /\ e.confidence \in {5, 10}
           /\ \E g \in GroupsOf(e.source), h \in GroupsOf(e.target) : Names(g, h)
           /\ e.confidence = 10 =>
                <<e.source, e.target>> \in Allowed \/ TakenAsOpen(e.source, e.target)
<1> DEFINE A == ToSet(assets)
<1>1. Ids = IdsOf(A) /\ IdsOf(A) \subseteq Resources
  BY IdsAre
<1> HIDE DEF A
<1>2. PICK g \in Resources, h \in Groups(A), i \in IdsOf(A), j \in IdsOf(A) :
         /\ Names(g, h)
         /\ i \in Using(A, g) /\ j \in Using(A, h) /\ i # j
         /\ e = Rel(i, j, "CONNECTED_TO", EgressConfidence(A, g, h))
  BY GroupEdgesAre DEF A
<1>3. /\ e.source = i /\ e.target = j /\ i \in Resources /\ j \in Resources
      /\ e.type = "CONNECTED_TO" /\ e.confidence = EgressConfidence(A, g, h)
      /\ e.confidence \in {5, 10}
      /\ Type(i) \in {"EC2", "RDS", "LAMBDA"}
      /\ g \in GroupsOf(i) /\ h \in GroupsOf(j)
  BY <1>1, <1>2 DEF Rel, EgressConfidence, Using, GroupsOf
<1>4. PICK in \in Naming(g, h) : g \in in.groups /\ in \in Config[h].ingress
  BY <1>2 DEF Names, Naming
<1>5. ASSUME e.confidence = 10
      PROVE  <<i, j>> \in Allowed \/ TakenAsOpen(i, j)
  <2>1. CASE g \notin Groups(A) \/ Config[g].egress = {}
    <3>1. Type(g) = "SECURITY_GROUP"
      BY <1>3, AccountAssumption DEF FieldsFit, GroupsOf
    <3>2. g \notin Ids \/ Config[g].egress = {}
      BY <1>1, <2>1, <3>1 DEF Groups
    <3>3. QED
      BY <1>3, <1>4, <3>2 DEF TakenAsOpen
  <2>2. CASE ~ (g \notin Groups(A) \/ Config[g].egress = {})
    <3>1. PICK out \in Config[g].egress : IsAllowAllEgress(out) \/ h \in out.groups
      BY <1>3, <1>5, <2>2 DEF EgressConfidence
    <3>2. CASE LetsThrough(out, in, h)
      <4>1. ASSUME NEW ctx \in Context PROVE Reaches(i, j, h, ctx)
        <5>1. Covers(out, j, ctx) /\ Covers(in, i, ctx) /\ Shares(out, in)
          BY <1>3, <1>4, <3>2 DEF LetsThrough, Covers
        <5>2. QED
          BY <1>3, <1>4, <3>1, <5>1 DEF Reaches
      <4> DEFINE p == <<i, j>>
      <4>2. p \in Resources \X Resources /\ p[1] = i /\ p[2] = j
        BY <1>3
      <4> HIDE DEF p
      <4>3. p \in Allowed
        BY <1>3, <4>1, <4>2 DEF Allowed
      <4>4. QED
        BY <4>3 DEF p
    <3>3. CASE ~ LetsThrough(out, in, h)
      BY <1>3, <1>4, <3>1, <3>3 DEF TakenAsOpen, IsAllowAllEgress
    <3>4. QED
      BY <3>2, <3>3
  <2>3. QED
    BY <2>1, <2>2
<1>6. QED
  BY <1>2, <1>3, <1>5

(* Whatever is created, deleted or fails during the scan: what a finished  *)
(* scan is certain of between two resources the security groups let pass,  *)
(* but where it takes egress for open that is not; and where the rules of  *)
(* a group and of one that it names let each other's users pass, it is     *)
(* certain of it.                                                          *)
THEOREM AlwaysConnectedAsAllowed == Spec => []ConnectedAsAllowed
<1>1. DiscoveryInv => ConnectedAsAllowed
  <2> SUFFICES ASSUME DiscoveryInv, step = Ended
               PROVE  ConnectedAsAllowed
    BY DEF ConnectedAsAllowed
  <2> USE DEF DiscoveryInv
  <2> DEFINE A == ToSet(assets)
  <2>1. {e \in rels : e.type = "CONNECTED_TO"} = GroupEdges(A)
    BY DEF EdgesInv
  <2>2. ASSUME NEW e \in rels, e.type = "CONNECTED_TO", e.confidence = 10
        PROVE  <<e.source, e.target>> \in Allowed \/ TakenAsOpen(e.source, e.target)
    BY <2>1, <2>2, GroupEdgeIs
  <2>3. ASSUME NEW x \in Ids, NEW y \in Ids, NEW g \in GroupsOf(x),
               NEW h \in GroupsOf(y) \cap Ids, x # y,
               NEW in \in Naming(g, h), NEW out \in Config[g].egress, LetsThrough(out, in, h)
        PROVE  IsJoined(x, y)
    <3> DEFINE e == Rel(x, y, "CONNECTED_TO", EgressConfidence(A, g, h))
    <3>1. Ids = IdsOf(A) /\ Ids \subseteq Resources
      BY IdsAre
    <3>2. /\ g \in Config[x].groups /\ h \in Config[y].groups
          /\ g \in Resources /\ h \in Resources
      BY <3>1, ConfigIs DEF GroupsOf
    <3>3. /\ Type(x) \in {"EC2", "RDS", "LAMBDA"} /\ Type(y) \in {"EC2", "RDS", "LAMBDA"}
          /\ Type(h) = "SECURITY_GROUP"
      BY <3>1, <3>2, AccountAssumption DEF FieldsFit, Type
    <3> HIDE DEF A
    <3>4. h \in Groups(A) /\ x \in Using(A, g) /\ y \in Using(A, h) /\ Names(g, h)
      BY <3>1, <3>2, <3>3 DEF Groups, Using, Names, Naming
    <3>5. EgressConfidence(A, g, h) = 10
      BY <2>3 DEF LetsThrough, EgressConfidence, IsAllowAllEgress
    <3>6. e \in GroupEdges(A)
      BY <2>3, <3>1, <3>2, <3>4, GroupEdgesAre
    <3>7. e \in rels /\ e.source = x /\ e.target = y /\ e.type = "CONNECTED_TO"
          /\ e.confidence = 10
      BY <2>1, <3>5, <3>6 DEF Rel
    <3> HIDE DEF e
    <3>8. QED
      BY <3>7 DEF IsJoined
  <2>4. QED
    BY <2>2, <2>3 DEF ConnectedAsAllowed
<1>2. QED
  BY <1>1, DiscoveryInvariant, PTL

(*-------------------------------------------------------------------------*)
(* What the scan says is so in the account.                                *)

LEMMA LostGrows ==
    ASSUME lost \subseteq lost'
    PROVE  /\ \A a : AssetIsReal(a) => AssetIsReal(a)'
           /\ \A e : EdgeIsReal(e) => EdgeIsReal(e)'
<1>1. \A r, detail : Unread(r, detail) => Unread(r, detail)'
  BY DEF Unread
<1>2. \A r : MistakenForOpen(r) => MistakenForOpen(r)'
  BY <1>1 DEF MistakenForOpen, IsShutInPart, IsWeighed, HasGrant
<1>3. \A r : StartsWell(r) => StartsWell(r)'
  BY <1>1, <1>2 DEF StartsWell
<1>4. \A a : AssetIsReal(a) => AssetIsReal(a)'
  BY <1>1, <1>3 DEF AssetIsReal
<1>5. \A x, y, e : e.type # "CONNECTED_TO" /\ HopIsReal(x, y, e) => HopIsReal(x, y, e)'
  BY <1>2 DEF HopIsReal, IsMistrusted, IsSimple, IsNickname, OwnPolicies
<1>6. \A e : EdgeIsReal(e) => EdgeIsReal(e)'
  BY <1>5 DEF EdgeIsReal
<1>7. QED
  BY <1>4, <1>6

(* Trusts and policies stay what they are.                                 *)
LEMMA IamStays == \A e : IamEdgeIsReal(e) => IamEdgeIsReal(e)'
<1>1. \A x, y, e : e.type \in {"CAN_ASSUME", "CAN_PASS_ROLE"} /\ HopIsReal(x, y, e) =>
                     HopIsReal(x, y, e)'
  BY DEF HopIsReal, IsMistrusted, IsSimple, OwnPolicies
<1>2. QED
  BY <1>1 DEF IamEdgeIsReal

LEMMA RolesAre ==
    /\ Roles \subseteq Resources /\ Internet \notin Roles /\ "profile" \notin Roles
    /\ \A r \in Roles : Config[r].type = "ROLE"
    /\ \A r \in Resources : Config[r].type # "ROLE" => r \notin Roles
BY AccountAssumption DEF Roles, Type

LEMMA FieldsAre ==
    ASSUME NEW r \in Resources
    PROVE  /\ Config[r].address => Config[r].type \in {"SUBNET", "EC2", "RDS"}
           /\ Config[r].groups # {} => Config[r].type \in {"EC2", "RDS", "LAMBDA"}
           /\ Config[r].role # None =>
                /\ Config[r].type \in {"EC2", "LAMBDA"}
                /\ Config[r].role \in Resources \cup {"profile"}
           /\ Config[r].key # <<>> =>
                Config[r].type \in {"S3", "LAMBDA", "RDS", "SECRET", "VOLUME"}
           /\ Config[r].part # None =>
                /\ Config[Config[r].part].type \in {"VPC", "SUBNET", "EC2"}
                /\ Config[r].type \in {"SUBNET", "EC2", "VOLUME"}
<1>1. FieldsFit(r)
  BY AccountAssumption
<1>2. QED
  BY <1>1 DEF FieldsFit, Type

(* What is granted to everyone is open, unless a statement or a setting    *)
(* that is not weighed up closes it; an address, unless the groups do.     *)
LEMMA OpenIs ==
    ASSUME NEW r \in Resources
    PROVE  /\ Type(r) = "LAMBDA" /\ HasGrant(r, {"Allow", "Deny"}) =>
                r \in SurelyOpen \/ IsWeighed(r)
           /\ Type(r) = "S3" /\ (HasGrant(r, {"Allow"}) \/ Config[r].acl) =>
                \/ r \in SurelyOpen \/ IsWeighed(r)
                \/ Config[r].block \cap {"IgnorePublicAcls", "RestrictPublicBuckets"} # {}
           /\ Config[r].address /\ Type(r) \in {"EC2", "RDS"} =>
                \/ r \in SurelyOpen
                \/ \A g \in Config[r].groups : \A in \in Config[g].ingress :
                      "everyone" \notin in.ranges
<1>1. Config[r].policy \subseteq Grant /\ Config[r].type = Type(r)
  <2>1. Config[r] \in Configuration
    BY AccountAssumption
  <2>2. QED
    BY <2>1 DEF Configuration, Type
<1>2. ASSUME ~ IsWeighed(r), NEW ctx \in Context
      PROVE  /\ ~ Covered(r, "Deny", ctx)
             /\ HasGrant(r, {"Allow", "Deny"}) => Covered(r, "Allow", ctx)
  <2>1. \A t \in Config[r].policy :
           t.principal # "others" => t.effect = "Allow" /\ t.conditions = {}
    BY <1>1, <1>2 DEF IsWeighed, Grant
  <2>2. QED
    BY <2>1 DEF Covered, HasGrant
<1>3. ASSUME Type(r) = "LAMBDA", HasGrant(r, {"Allow", "Deny"}), ~ IsWeighed(r)
      PROVE  r \in SurelyOpen
  BY <1>1, <1>2, <1>3 DEF SurelyOpen, Opens
<1>4. ASSUME Type(r) = "S3", HasGrant(r, {"Allow"}) \/ Config[r].acl, ~ IsWeighed(r),
             Config[r].block \cap {"IgnorePublicAcls", "RestrictPublicBuckets"} = {}
      PROVE  r \in SurelyOpen
  <2>1. HasGrant(r, {"Allow"}) => HasGrant(r, {"Allow", "Deny"})
    BY DEF HasGrant
  <2>2. QED
    BY <1>1, <1>2, <1>4, <2>1 DEF SurelyOpen, Opens
<1>5. ASSUME Config[r].address, Type(r) \in {"EC2", "RDS"}, NEW g \in Config[r].groups,
             NEW in \in Config[g].ingress, "everyone" \in in.ranges
      PROVE  r \in SurelyOpen
  <2>1. \A ctx \in Context : Covers(in, Internet, ctx)
    BY <1>5 DEF Covers
  <2>2. QED
    BY <1>1, <1>5, <2>1 DEF SurelyOpen, Opens
<1>6. QED
  BY <1>3, <1>4, <1>5

(* What the provider makes of a resource, and of what it could not read.   *)
LEMMA ReadAssetIsReal ==
    ASSUME NEW r \in Resources, NEW unread, unread \subseteq lost'
    PROVE  AssetIsReal(AssetOf(r, unread))'
<1> DEFINE a == AssetOf(r, unread)
<1>1. /\ a.id = r /\ a.public = IsPublic(r, unread) /\ a.block = Block(r, unread)
      /\ a.policy = Policy(r, unread) /\ a.acl = (Config[r].acl /\ IsRead(r, "acl", unread))
  BY DEF AssetOf
<1>2. Block(r, unread) # Config[r].block => Unread(r, "block")'
  BY DEF Block, IsRead, Unread
<1>3. Policy(r, unread) \subseteq Config[r].policy
  BY DEF Policy
<1>4. ASSUME IsPublic(r, unread) PROVE StartsWell(r)'
  <2>1. CASE Type(r) = "S3"
    BY <1>2, <1>4, <2>1 DEF IsPublic, StartsWell
  <2>2. CASE Type(r) = "LAMBDA"
    <3>1. PICK s \in Config[r].policy : s.principal = "everyone"
      BY <1>3, <1>4, <2>2 DEF IsPublic
    <3>2. Config[r] \in Configuration
      BY AccountAssumption
    <3>3. s.effect \in {"Allow", "Deny"}
      BY <3>1, <3>2 DEF Configuration, Grant
    <3>4. HasGrant(r, {"Allow", "Deny"})
      BY <3>1, <3>3 DEF HasGrant
    <3>5. QED
      BY <2>2, <3>4, OpenIs DEF StartsWell, MistakenForOpen, HasGrant, IsWeighed
  <2>3. CASE Type(r) \notin {"S3", "LAMBDA"}
    <3>1. Config[r].address /\ Type(r) \in {"SUBNET", "EC2", "RDS"}
      BY <1>4, <2>3, FieldsAre DEF IsPublic, Type
    <3>2. QED
      BY <3>1, OpenIs DEF StartsWell, MistakenForOpen
  <2>4. QED
    BY <2>1, <2>2, <2>3
<1>5. QED
  BY <1>1, <1>2, <1>3, <1>4 DEF AssetIsReal

(* A hop for which there is a step in every context is sure.               *)
LEMMA SureIs ==
    ASSUME NEW x, NEW y, NEW via, \A ctx \in Context : Step(x, y, via) \in StepsIn(ctx)
    PROVE  <<x, y>> \in SureHops
<1>1. \A ctx \in Context : <<x, y>> \in HopsIn(ctx)
  BY DEF HopsIn, Step
<1>2. [met |-> {}, near |-> {}] \in Context
  BY DEF Context
<1>3. <<x, y>> \in UNION {HopsIn(ctx) : ctx \in Context}
  BY <1>1, <1>2
<1>4. QED
  BY <1>1, <1>3 DEF SureHops

(* Hops of the account, each with its reason.                              *)
LEMMA SureHopsAre ==
    ASSUME NEW r \in Resources
    PROVE  /\ r \in SurelyOpen => <<Internet, r>> \in SureHops
           /\ \A x \in Resources : <<x, r>> \in Allowed => <<x, r>> \in SureHops
           /\ Type(r) # "LAMBDA" => \A g \in Config[r].groups : <<r, g>> \in SureHops
           /\ Type(r) # "VOLUME" /\ Config[r].part # None => <<Config[r].part, r>> \in SureHops
           /\ Config[r].key # <<>> /\ Encrypted(r) # None =>
                <<Encrypted(r), KeyBehind(Config[r].key)>> \in SureHops
           /\ RoleUsed(r) \in Resources => <<r, RoleUsed(r)>> \in SureHops
<1>1. ASSUME r \in SurelyOpen PROVE <<Internet, r>> \in SureHops
  <2>1. \A ctx \in Context : Step(Internet, r, {}) \in StepsIn(ctx)
    BY <1>1 DEF SurelyOpen, ExposureSteps, StepsIn
  <2>2. QED
    BY <2>1, SureIs
<1>2. ASSUME NEW x \in Resources, <<x, r>> \in Allowed PROVE <<x, r>> \in SureHops
  <2>1. ASSUME NEW ctx \in Context
        PROVE  <<x, r>> \in HopsIn(ctx)
    <3>1. PICK h \in GroupsOf(r) : Reaches(x, r, h, ctx)
      BY <1>2, <2>1 DEF Allowed
    <3>2. Step(x, r, {h}) \in StepsBetween(x, r, ctx)
      BY <3>1 DEF StepsBetween, GroupsOf
    <3>3. Step(x, r, {h}) \in StepsIn(ctx)
      BY <3>2 DEF StepsIn, RuleSteps
    <3>4. QED
      BY <3>3 DEF HopsIn, Step
  <2>2. [met |-> {}, near |-> {}] \in Context
    BY DEF Context
  <2>3. <<x, r>> \in UNION {HopsIn(ctx) : ctx \in Context}
    BY <2>1, <2>2
  <2>4. QED
    BY <2>1, <2>3 DEF SureHops
<1>3. ASSUME Type(r) # "LAMBDA", NEW g \in Config[r].groups PROVE <<r, g>> \in SureHops
  <2>1. Step(r, g, {}) \in StepsToGroups(r)
    BY <1>3 DEF StepsToGroups
  <2>2. \A ctx \in Context : Step(r, g, {}) \in StepsIn(ctx)
    BY <1>3, <2>1 DEF GroupSteps, StepsIn
  <2>3. QED
    BY <2>2, SureIs
<1>4. ASSUME Type(r) # "VOLUME", Config[r].part # None
      PROVE  <<Config[r].part, r>> \in SureHops
  <2>1. \A ctx \in Context : Step(Config[r].part, r, {}) \in StepsIn(ctx)
    BY <1>4 DEF PartSteps, StepsIn
  <2>2. QED
    BY <2>1, SureIs
<1>5. ASSUME Config[r].key # <<>>, Encrypted(r) # None
      PROVE  <<Encrypted(r), KeyBehind(Config[r].key)>> \in SureHops
  <2>1. KeyStep(r) \in KeySteps
    BY <1>5 DEF KeySteps
  <2> DEFINE via == IF Type(r) = "VOLUME" THEN {r} ELSE {}
  <2>2. \A ctx \in Context : Step(Encrypted(r), KeyBehind(Config[r].key), via) \in StepsIn(ctx)
    BY <2>1 DEF KeyStep, StepsIn
  <2> HIDE DEF via
  <2>3. QED
    BY <2>2, SureIs
<1>6. ASSUME RoleUsed(r) \in Resources PROVE <<r, RoleUsed(r)>> \in SureHops
  <2> DEFINE via == {Config[r].role} \cap DOMAIN RoleOf
  <2>1. Step(r, RoleUsed(r), via) \in ServiceSteps
    BY <1>6 DEF ServiceSteps
  <2>2. \A ctx \in Context : Step(r, RoleUsed(r), via) \in StepsIn(ctx)
    BY <2>1 DEF StepsIn
  <2> HIDE DEF via
  <2>3. QED
    BY <2>2, SureIs
<1>7. QED
  BY <1>1, <1>2, <1>3, <1>4, <1>5, <1>6

LEMMA ReadEdgeIsReal ==
    ASSUME NEW r \in Resources, NEW unread, NEW e \in EdgesOf(r, unread)
    PROVE  EdgeIsReal(e)
<1> USE DEF Rel
<1>1. CASE e \in Exposure(r, unread)
  <2>1. /\ e = Rel(Internet, r, "EXPOSED_TO", 10) /\ IsPublic(r, unread)
        /\ Type(r) \in {"EC2", "LAMBDA", "RDS"}
    BY <1>1 DEF Exposure
  <2>2. r \in SurelyOpen \/ MistakenForOpen(r)
    <3>1. CASE Type(r) = "LAMBDA"
      <4>1. PICK s \in Config[r].policy : s.principal = "everyone"
        BY <2>1, <3>1 DEF IsPublic, Policy
      <4>2. Config[r] \in Configuration
        BY AccountAssumption
      <4>3. s.effect \in {"Allow", "Deny"}
        BY <4>1, <4>2 DEF Configuration, Grant
      <4>4. HasGrant(r, {"Allow", "Deny"})
        BY <4>1, <4>3 DEF HasGrant
      <4>5. QED
        BY <3>1, <4>4, OpenIs DEF MistakenForOpen
    <3>2. CASE Type(r) # "LAMBDA"
      BY <2>1, <3>2, OpenIs DEF IsPublic, MistakenForOpen
    <3>3. QED
      BY <3>1, <3>2
  <2>3. HopIsReal(e.source, e.target, e)
    BY <2>1, <2>2, SureHopsAre DEF HopIsReal
  <2>4. QED
    BY <2>1, <2>3, RolesAre DEF EdgeIsReal
<1>2. CASE \E g \in Config[r].groups : Type(r) # "LAMBDA" /\ e = Rel(r, g, "USES", 10)
  <2>1. PICK g \in Config[r].groups : Type(r) # "LAMBDA" /\ e = Rel(r, g, "USES", 10)
    BY <1>2
  <2>2. <<r, g>> \in SureHops
    BY <2>1, SureHopsAre
  <2>3. r \notin Roles /\ g \in Resources
    BY <2>1, ConfigIs, FieldsAre, RolesAre
  <2>4. QED
    BY <2>1, <2>2, <2>3 DEF EdgeIsReal, HopIsReal
<1>3. CASE \E c \in {8, 10} : Config[r].role # None /\ e = Rel(r, Config[r].role, "RUNS_AS", c)
  <2>1. r \notin Roles
    BY <1>3, FieldsAre, RolesAre
  <2>2. QED
    BY <1>3, <2>1 DEF EdgeIsReal
<1>4. CASE /\ Type(r) # "VOLUME" /\ Config[r].part # None
           /\ e = Rel(Config[r].part, r, "CONTAINS", 10)
  <2>1. <<Config[r].part, r>> \in SureHops
    BY <1>4, SureHopsAre
  <2>2. Config[r].part \notin Roles
    BY <1>4, ConfigIs, FieldsAre, RolesAre
  <2>3. QED
    BY <1>4, <2>1, <2>2 DEF EdgeIsReal, HopIsReal
<1>5. CASE /\ Config[r].key # <<>> /\ Encrypted(r) # None
           /\ e = Rel(Encrypted(r), Last(Config[r].key), "ENCRYPTED_BY", 10)
  <2>1. Encrypted(r) \in Resources \ Roles
    BY <1>5, ConfigIs, FieldsAre, RolesAre DEF Encrypted, Type
  <2> DEFINE last == Last(Config[r].key)
  <2>2. \/ last = KeyBehind(Config[r].key) /\ last \in Resources
        \/ last \in DOMAIN AliasOf
    BY <1>5, KeyIs
  <2>3. <<Encrypted(r), KeyBehind(Config[r].key)>> \in SureHops
    BY <1>5, SureHopsAre
  <2>4. HopIsReal(Encrypted(r), last, e)
    BY <1>5, <2>2, <2>3 DEF HopIsReal, IsNickname
  <2> HIDE DEF last
  <2>5. e.source = Encrypted(r) /\ e.target = last /\ e.type = "ENCRYPTED_BY"
    BY <1>5 DEF last
  <2>6. QED
    BY <2>1, <2>2, <2>4, <2>5 DEF EdgeIsReal
<1>6. QED
  BY <1>1, <1>2, <1>3, <1>4, <1>5 DEF EdgesOf, NormalizeKmsKeyRef

(* Those of the network analyzer, over assets that are so.                 *)
LEMMA NetworkEdgeIsReal ==
    ASSUME DiscoveryTypeOK, \A a \in ToSet(assets) : AssetIsReal(a),
           NEW e \in NetworkEdges(ToSet(assets))
    PROVE  EdgeIsReal(e)
<1> DEFINE A == ToSet(assets)
<1>1. A \subseteq Asset
  BY IdsAre
<1>2. CASE e \in BucketEdges(A)
  <2>1. PICK a \in A : IsPublicBucket(a) /\ e = Rel(Internet, a.id, "EXPOSED_TO", 10)
    BY <1>2 DEF BucketEdges
  <2>2. /\ a.id \in Resources /\ Type(a.id) = "S3"
        /\ Config[a.id].acl \/ HasGrant(a.id, {"Allow"})
        /\ Config[a.id].block # Settings \/ Unread(a.id, "block")
    BY <1>1, <2>1 DEF IsPublicBucket, AssetIsReal, Asset, HasGrant
  <2>3. a.id \in SurelyOpen \/ MistakenForOpen(a.id)
    BY <2>2, OpenIs DEF MistakenForOpen, IsShutInPart
  <2>4. e.source = Internet /\ e.target = a.id /\ e.type = "EXPOSED_TO"
    BY <2>1 DEF Rel
  <2>5. HopIsReal(e.source, e.target, e)
    BY <2>2, <2>3, <2>4, SureHopsAre DEF HopIsReal
  <2>6. QED
    BY <2>2, <2>4, <2>5, RolesAre DEF EdgeIsReal
<1>3. CASE e \in GroupEdges(A)
  <2>1. /\ e.source \in Resources /\ e.target \in Resources /\ e.type = "CONNECTED_TO"
        /\ Type(e.source) \in {"EC2", "RDS", "LAMBDA"}
    BY <1>3, GroupEdgeIs
  <2>2. e.source \notin Roles
    BY <2>1, RolesAre DEF Type
  <2>3. QED
    BY <2>1, <2>2 DEF EdgeIsReal
<1>4. QED
  BY <1>2, <1>3 DEF NetworkEdges

LEMMA PrincipalHop ==
    ASSUME NEW x \in Resources \cup {Internet}, NEW y \in Roles,
           \A ctx \in Context : Assumes(x, y, ctx) \/ Passes(x, y, ctx)
    PROVE  <<x, y>> \in SureHops
<1> DEFINE p == <<x, y>>
<1>1. p \in (Resources \cup {Internet}) \X Roles /\ p[1] = x /\ p[2] = y
  OBVIOUS
<1> HIDE DEF p
<1>2. ASSUME NEW ctx \in Context PROVE Step(x, y, {}) \in StepsIn(ctx)
  <2>1. Step(p[1], p[2], {}) \in PrincipalSteps(ctx)
    BY <1>1, <1>2 DEF PrincipalSteps
  <2>2. QED
    BY <1>1, <2>1 DEF StepsIn
<1>3. QED
  BY <1>2, SureIs

(* Those of the IAM analyzer.                                              *)
LEMMA TrustEdgeIsReal ==
    ASSUME NEW roles, NEW r \in Roles, NEW e \in Iam!TrustEdges(roles, r, TrustsOf[r])
    PROVE  IamEdgeIsReal(e)
<1>1. PICK t \in TrustsOf[r] :
         /\ t.effect = "Allow" /\ ~ t.bare
         /\ \/ \E p \in t.aws :
                  e = Iam!Rel(Iam!AssetOf(p), r, "CAN_ASSUME", Iam!AssumeConfidence(roles, p))
            \/ t.services # <<>> /\ e = Iam!Rel(Head(t.services), r, "TRUSTS", 6)
  BY DEF Iam!TrustEdges, Iam!Allowing
<1>2. /\ t.services # <<>> => Head(t.services) \notin Nodes
      /\ \A p \in t.aws : /\ p.kind \in {"any", "root", "number", "role", "user"}
                          /\ p.kind = "root" => p.account \notin Nodes
                          /\ p.kind = "number" => p.name \notin Nodes
                          /\ p.kind \in {"role", "user"} /\ p.name \in Nodes =>
                               p.name \in Resources /\ Type(p.name) \in {"ROLE", "USER"}
  BY PipelineAssumption
<1>3. CASE t.services # <<>> /\ e = Iam!Rel(Head(t.services), r, "TRUSTS", 6)
  BY <1>2, <1>3 DEF IamEdgeIsReal, Iam!Rel
<1>4. ASSUME NEW p \in t.aws, NEW x \in Resources \cup {Internet}, IsPrincipal(x),
             p.kind = "any" \/ IsItself(p, x),
             ~ IsMistrusted(x, r), \A s \in OwnPolicies(x) : IsSimple(s)
      PROVE  <<x, r>> \in SureHops
  <2>1. \A u \in TrustsOf[r] : u.effect = "Allow" /\ u.conditions = {}
    BY <1>4, PipelineAssumption DEF IsMistrusted
  <2>2. \A ctx \in Context : Assumes(x, r, ctx)
    BY <1>1, <1>4, <2>1 DEF Assumes, IsSimple
  <2>3. QED
    BY <2>2, PrincipalHop
<1>5. ASSUME NEW p \in t.aws,
             e = Iam!Rel(Iam!AssetOf(p), r, "CAN_ASSUME", Iam!AssumeConfidence(roles, p))
      PROVE  IamEdgeIsReal(e)
  <2>1. /\ e.type = "CAN_ASSUME" /\ e.target = r /\ e.source = Iam!AssetOf(p)
    BY <1>5 DEF Iam!Rel
  <2>2. CASE p.kind = "any"
    <3>1. e.source = Internet
      BY <2>1, <2>2 DEF Iam!AssetOf
    <3>2. IsPrincipal(Internet)
      BY DEF IsPrincipal
    <3>3. HopIsReal(Internet, r, e)
      BY <1>4, <2>1, <2>2, <3>2 DEF HopIsReal
    <3>4. QED
      BY <2>1, <3>1, <3>3 DEF IamEdgeIsReal
  <2>3. CASE p.kind \in {"root", "number"}
    <3>1. e.source \notin Nodes
      BY <1>2, <2>1, <2>3 DEF Iam!AssetOf
    <3>2. QED
      BY <2>1, <3>1 DEF IamEdgeIsReal
  <2>4. CASE p.kind \in {"role", "user"}
    <3>1. e.source = p.name
      BY <2>1, <2>4 DEF Iam!AssetOf
    <3>2. CASE p.name \notin Nodes
      BY <2>1, <3>1, <3>2 DEF IamEdgeIsReal
    <3>3. CASE p.name \in Nodes
      <4>1. p.name \in Resources /\ IsPrincipal(p.name)
        BY <1>2, <2>4, <3>3 DEF IsPrincipal
      <4>2. p.account # Ours => IsMistrusted(p.name, r)
        BY <2>4 DEF IsMistrusted
      <4>3. p.account = Ours => IsItself(p, p.name)
        BY <2>4 DEF IsItself
      <4>4. HopIsReal(p.name, r, e)
        BY <1>4, <2>1, <4>1, <4>2, <4>3 DEF HopIsReal
      <4>5. QED
        BY <2>1, <3>1, <4>4 DEF IamEdgeIsReal
    <3>4. QED
      BY <3>2, <3>3
  <2>5. QED
    BY <1>2, <2>2, <2>3, <2>4
<1>6. QED
  BY <1>1, <1>3, <1>5

(* A policy of Allow statements without the Not keys is read as AWS does.  *)
LEMMA PassEdgeIsReal ==
    ASSUME NEW roles \in SUBSET Roles, NEW r \in Roles,
           NEW e \in Iam!PassEdges(roles, r, PoliciesOf[r])
    PROVE  IamEdgeIsReal(e)
<1>1. PICK s, q :
         /\ s \in Iam!Allowing(PoliciesOf[r]) /\ q \in Iam!Passable(roles, r, s)
         /\ Iam!MatchesAny(Iam!ActionsOf(s), Iam!PassRole)
         /\ e = Iam!Rel(r, q, "CAN_PASS_ROLE", Iam!PassConfidence(s))
  BY DEF Iam!PassEdges
<1>2. /\ s \in PoliciesOf[r] /\ q \in Roles /\ q \in Resources /\ r # q
      /\ "*" \in Iam!ResourcesOf(s) \/ q \in Iam!ResourcesOf(s)
  BY <1>1, RolesAre DEF Iam!Allowing, Iam!Passable, Iam!IsWildcardResource
<1>3. /\ e.type = "CAN_PASS_ROLE" /\ e.source = r /\ e.target = q
  BY <1>1 DEF Iam!Rel
<1>4. OwnPolicies(r) = PoliciesOf[r]
  BY DEF OwnPolicies
<1>5. ASSUME \A u \in OwnPolicies(r) : IsSimple(u), NEW ctx \in Context
      PROVE  Passes(r, q, ctx)
  <2>1. /\ s.notAction = {} /\ s.notResource = {} /\ s.conditions = {} /\ s.effect = "Allow"
        /\ s.action \cup s.notAction # {} /\ s.resource \cup s.notResource # {}
    BY <1>2, <1>4, <1>5, PipelineAssumption DEF IsSimple, Iam!HasNotKey
  <2>2. s.action # {} /\ Iam!MatchesAny(s.action, Iam!PassRole)
    BY <1>1, <2>1 DEF Iam!ActionsOf
  <2>3. s.resource # {} /\ ("*" \in s.resource \/ q \in s.resource)
    BY <1>2, <2>1 DEF Iam!ResourcesOf
  <2>4. <<"*", q>> \in Matching /\ <<q, q>> \in Matching
    BY <1>2, PipelineAssumption DEF Iam!PolicyAssumption
  <2>5. Iam!NamesAsWritten(s.resource, q)
    BY <2>3, <2>4 DEF Iam!NamesAsWritten
  <2>6. Iam!Applies(ctx.met, s, Iam!PassRole, q)
    BY <2>1, <2>2, <2>3, <2>5 DEF Iam!Applies
  <2>7. Iam!AwsAllows(ctx.met, PoliciesOf[r], Iam!PassRole, q)
    BY <1>2, <1>4, <1>5, <2>1, <2>6 DEF Iam!AwsAllows, IsSimple
  <2>8. QED
    BY <1>2, <2>7 DEF Passes
<1>6. HopIsReal(r, q, e)
  <2>1. CASE \A u \in OwnPolicies(r) : IsSimple(u)
    <3>1. <<r, q>> \in SureHops
      BY <1>2, <1>5, <2>1, PrincipalHop, RolesAre
    <3>2. QED
      BY <3>1 DEF HopIsReal
  <2>2. CASE \E u \in OwnPolicies(r) : ~ IsSimple(u)
    BY <1>3, <2>2 DEF HopIsReal
  <2>3. QED
    BY <2>1, <2>2
<1>7. QED
  BY <1>2, <1>3, <1>6 DEF IamEdgeIsReal

LEMMA InitReal == Init => RealInv /\ RecordInv
<1> SUFFICES ASSUME Init PROVE RealInv /\ RecordInv
  OBVIOUS
<1>1. ToSet(assets) = {} /\ rels = {} /\ iamRels = {}
  BY DEF Init, DiscoveryInit, ToSet
<1>2. RealInv
  BY <1>1 DEF RealInv
<1>3. record.stage = "none" /\ record.paths = {}
  BY DEF Init, NoRecord
<1>4. QED
  BY <1>2, <1>3 DEF RecordInv

(* What is in two lists joined, and in three.                              *)
LEMMA JoinedHolds ==
    ASSUME NEW S, NEW s \in Seq(S), NEW t \in Seq(S), NEW u \in Seq(S)
    PROVE  ToSet((s \o t) \o u) = ToSet(s) \cup ToSet(t) \cup ToSet(u)
<1>1. ASSUME NEW v \in Seq(S), NEW w \in Seq(S)
      PROVE  ToSet(v \o w) = ToSet(v) \cup ToSet(w)
  <2>1. ASSUME NEW i \in DOMAIN (v \o w)
        PROVE  (v \o w)[i] \in ToSet(v) \cup ToSet(w)
    <3>1. CASE i <= Len(v)
      BY <3>1 DEF ToSet
    <3>2. CASE i > Len(v)
      <4>1. i - Len(v) \in DOMAIN w /\ (v \o w)[i] = w[i - Len(v)]
        BY <3>2
      <4>2. QED
        BY <4>1 DEF ToSet
    <3>3. QED
      BY <3>1, <3>2
  <2>2. ASSUME NEW i \in DOMAIN v PROVE v[i] \in ToSet(v \o w)
    <3>1. i \in DOMAIN (v \o w) /\ (v \o w)[i] = v[i]
      OBVIOUS
    <3>2. QED
      BY <3>1 DEF ToSet
  <2>3. ASSUME NEW i \in DOMAIN w PROVE w[i] \in ToSet(v \o w)
    <3>1. Len(v) + i \in DOMAIN (v \o w) /\ (v \o w)[Len(v) + i] = w[i]
      OBVIOUS
    <3>2. QED
      BY <3>1 DEF ToSet
  <2>4. QED
    BY <2>1, <2>2, <2>3 DEF ToSet
<1>2. s \o t \in Seq(S)
  OBVIOUS
<1>3. QED
  BY <1>1, <1>2

WholeRead(unread) == EdgesRead(listed \cup Normalized(unread), unread)
NetOf(edges) == IF AddsInternet(edges) THEN {InternetAsset} ELSE {}

(* What a reading, whole or in part, adds to the scan.                     *)
LEMMA AddsAre ==
    ASSUME DiscoveryInv, Collecting, reading, NEW unread,
           NEW N \in SUBSET Normalized(unread), NEW net \in Seq(Asset),
           NEW edges, Adds(unread, N, net, edges)
    PROVE  /\ NextCollector /\ UNCHANGED <<exists, changed>>
           /\ Normalized(unread) \subseteq Resources /\ listed \subseteq Resources
           /\ ToSet(assets') = ToSet(assets) \cup AssetsOf(N, unread) \cup ToSet(net)
           /\ rels' = rels \cup edges
           /\ lost' = lost \cup unread
<1> USE DEF DiscoveryInv
<1> DEFINE new == AssetsOf(N, unread)
<1>1. /\ NextCollector /\ UNCHANGED <<exists, changed>>
      /\ assets' = (assets \o SetToSeq(new)) \o net
      /\ rels' = rels \cup edges /\ lost' = lost \cup unread
  BY DEF Adds, AssetsOf, account
<1>2. Normalized(unread) \subseteq Resources /\ listed \subseteq Resources
  <2>1. Known \subseteq Resources
    BY DEF DiscoveryTypeOK, Known
  <2>2. QED
    BY <2>1, NormalizedIs
<1>3. SetToSeq(new) \in Seq(Asset) /\ ToSet(SetToSeq(new)) = new
  BY <1>2, AssetsOfAre
<1> HIDE DEF new
<1>4. ToSet(assets') = ToSet(assets) \cup new \cup ToSet(net)
  <2>1. assets \in Seq(Asset)
    BY DEF DiscoveryTypeOK
  <2>2. QED
    BY <1>1, <1>3, <2>1, JoinedHolds
<1>5. QED
  BY <1>1, <1>2, <1>4 DEF new

LEMMA NetIs ==
    /\ <<>> \in Seq(Asset) /\ ToSet(<<>>) = {}
    /\ <<InternetAsset>> \in Seq(Asset) /\ ToSet(<<InternetAsset>>) = {InternetAsset}
<1> DEFINE net == <<InternetAsset>>
<1>1. InternetAsset \in Asset
  BY DEF Asset, InternetAsset
<1>2. net \in Seq(Asset) /\ DOMAIN net = {1} /\ net[1] = InternetAsset
  BY <1>1
<1> HIDE DEF net
<1>3. ToSet(net) = {InternetAsset}
  BY <1>2 DEF ToSet
<1>4. QED
  BY <1>2, <1>3 DEF net, ToSet

LEMMA ReadAdds ==
    ASSUME DiscoveryInv, Collecting, NEW unread, Read(unread)
    PROVE  /\ reading /\ NextCollector /\ UNCHANGED <<exists, changed, errors>>
           /\ Normalized(unread) \subseteq Resources /\ listed \subseteq Resources
           /\ ToSet(assets') = ToSet(assets) \cup AssetsOf(Normalized(unread), unread)
                                 \cup NetOf(WholeRead(unread))
           /\ rels' = rels \cup WholeRead(unread)
           /\ lost' = lost \cup unread
<1> DEFINE edges == WholeRead(unread)
           net == IF AddsInternet(edges) THEN <<InternetAsset>> ELSE <<>>
           N == Normalized(unread)
<1>1. reading /\ UNCHANGED errors /\ Adds(unread, N, net, edges)
  BY DEF Read, Reading, WholeRead
<1> HIDE DEF edges
<1>2. net \in Seq(Asset) /\ ToSet(net) = NetOf(edges)
  BY NetIs DEF NetOf
<1>3. N \in SUBSET Normalized(unread)
  OBVIOUS
<1> HIDE DEF N, net
<1>4. /\ NextCollector /\ UNCHANGED <<exists, changed>>
      /\ Normalized(unread) \subseteq Resources /\ listed \subseteq Resources
      /\ ToSet(assets') = ToSet(assets) \cup AssetsOf(N, unread) \cup ToSet(net)
      /\ rels' = rels \cup edges /\ lost' = lost \cup unread
  BY <1>1, <1>2, <1>3, AddsAre
<1>5. QED
  BY <1>1, <1>2, <1>4 DEF N, edges

(* What a normalizer adds before it raises, and the edges it adds.         *)
LEMMA FailureAdds ==
    ASSUME DiscoveryInv, Collecting, NEW unread, NEW part, NEW hand,
           NormalizerFails(unread, part, hand)
    PROVE  /\ NextCollector /\ UNCHANGED <<exists, changed>>
           /\ errors' = errors \cup {Collectors[step]}
           /\ lost' = lost \cup unread
           /\ \E N, of \in SUBSET Resources :
                 /\ ToSet(assets') = ToSet(assets) \cup AssetsOf(N, unread)
                 /\ rels' = rels \cup EdgesRead(of, unread)
                 /\ \A r \in of : Type(r) \in TypesOf(step)
<1> DEFINE N == part \cap Normalized(unread)
           of == part \ {hand}
           net == <<>>
           edges == EdgesRead(of, unread)
<1>1. errors' = errors \cup {Collectors[step]} /\ of \subseteq listed \cup Normalized(unread)
  BY DEF NormalizerFails, Collector
<1>2. reading /\ Adds(unread, N, net, edges)
  BY DEF NormalizerFails, Reading
<1>3. net \in Seq(Asset) /\ ToSet(net) = {}
  BY NetIs
<1>4. N \in SUBSET Normalized(unread)
  OBVIOUS
<1> HIDE DEF N, of, net, edges
<1>5. /\ NextCollector /\ UNCHANGED <<exists, changed>>
      /\ Normalized(unread) \subseteq Resources /\ listed \subseteq Resources
      /\ ToSet(assets') = ToSet(assets) \cup AssetsOf(N, unread) \cup ToSet(net)
      /\ rels' = rels \cup edges /\ lost' = lost \cup unread
  BY <1>2, <1>3, <1>4, AddsAre
<1>6. ToSet(assets') = ToSet(assets) \cup AssetsOf(N, unread)
  BY <1>3, <1>5
<1>7. \A r \in of : Type(r) \in TypesOf(step)
  BY <1>1, <1>2, NormalizedIs
<1>8. N \in SUBSET Resources /\ of \in SUBSET Resources
  BY <1>1, <1>4, <1>5
<1>9. rels' = rels \cup EdgesRead(of, unread)
  BY <1>5 DEF edges
<1>10. QED
  BY <1>1, <1>5, <1>6, <1>7, <1>8, <1>9

LEMMA AddsKeepReal ==
    ASSUME RealInv, NEW unread, NEW N \in SUBSET Resources, NEW of \in SUBSET Resources,
           NEW net \in SUBSET {InternetAsset},
           ToSet(assets') = ToSet(assets) \cup AssetsOf(N, unread) \cup net,
           rels' = rels \cup EdgesRead(of, unread), lost' = lost \cup unread,
           UNCHANGED iamRels
    PROVE  RealInv'
<1>1. lost \subseteq lost' /\ unread \subseteq lost'
  OBVIOUS
<1>2. ASSUME NEW a \in ToSet(assets') PROVE AssetIsReal(a)'
  <2>1. CASE a \in ToSet(assets)
    BY <1>1, <2>1, LostGrows DEF RealInv
  <2>2. CASE a \in AssetsOf(N, unread)
    <3>1. PICK r \in N : a = AssetOf(r, unread)
      BY <2>2 DEF AssetsOf
    <3>2. QED
      BY <1>1, <3>1, ReadAssetIsReal
  <2>3. CASE a \in net
    BY <2>3 DEF AssetIsReal, InternetAsset
  <2>4. QED
    BY <1>2, <2>1, <2>2, <2>3
<1>3. ASSUME NEW e \in rels' PROVE EdgeIsReal(e)'
  <2>1. CASE e \in rels
    BY <1>1, <2>1, LostGrows DEF RealInv
  <2>2. CASE e \in EdgesRead(of, unread)
    <3>1. PICK r \in of : e \in EdgesOf(r, unread)
      BY <2>2 DEF EdgesRead
    <3>2. EdgeIsReal(e)
      BY <3>1, ReadEdgeIsReal
    <3>3. QED
      BY <1>1, <3>2, LostGrows
  <2>3. QED
    BY <2>1, <2>2
<1>4. QED
  BY <1>2, <1>3, IamStays DEF RealInv

LEMMA ReadKeepsReal ==
    ASSUME DiscoveryInv, RealInv, Collecting, NEW unread, Read(unread), UNCHANGED iamRels
    PROVE  RealInv'
<1> DEFINE of == listed \cup Normalized(unread)
           N == Normalized(unread)
           net == NetOf(WholeRead(unread))
<1>1. /\ of \in SUBSET Resources /\ N \in SUBSET Resources
      /\ ToSet(assets') = ToSet(assets) \cup AssetsOf(N, unread) \cup net
      /\ rels' = rels \cup EdgesRead(of, unread) /\ lost' = lost \cup unread
  BY ReadAdds DEF WholeRead
<1>2. net \in SUBSET {InternetAsset}
  BY DEF NetOf
<1> HIDE DEF of, N, net
<1>3. QED
  BY <1>1, <1>2, AddsKeepReal

LEMMA FailureKeepsReal ==
    ASSUME DiscoveryInv, RealInv, Collecting, NEW unread, NEW part, NEW hand,
           NormalizerFails(unread, part, hand), UNCHANGED iamRels
    PROVE  RealInv'
<1>1. PICK N \in SUBSET Resources, of \in SUBSET Resources :
         /\ ToSet(assets') = ToSet(assets) \cup AssetsOf(N, unread)
         /\ rels' = rels \cup EdgesRead(of, unread)
  BY FailureAdds
<1> DEFINE net == {}
<1>2. /\ net \in SUBSET {InternetAsset}
      /\ ToSet(assets') = ToSet(assets) \cup AssetsOf(N, unread) \cup net
  BY <1>1
<1>3. lost' = lost \cup unread
  BY FailureAdds
<1> HIDE DEF net
<1>4. QED
  BY <1>1, <1>2, <1>3, AddsKeepReal

LEMMA AnalyzeKeepsReal ==
    ASSUME DiscoveryInv, RealInv, Analyze
    PROVE  RealInv'
<1> DEFINE roles == Ids \cap Roles
<1>1. /\ rels' = rels \cup NetworkEdges(ToSet(assets))
      /\ UNCHANGED <<assets, lost>>
      /\ iamRels' = UNION {Iam!TrustEdges(roles, r, TrustsOf[r])
                             \cup Iam!PassEdges(roles, r, PoliciesOf[r]) : r \in roles}
  BY DEF Analyze, AnalyzeNetwork, IamEdges
<1> HIDE DEF roles
<1>2. /\ \A a : AssetIsReal(a) => AssetIsReal(a)'
      /\ \A e : EdgeIsReal(e) => EdgeIsReal(e)'
  BY <1>1, LostGrows
<1>3. \A e \in NetworkEdges(ToSet(assets)) : EdgeIsReal(e)
  BY NetworkEdgeIsReal DEF RealInv, DiscoveryInv
<1>4. \A e \in iamRels' : IamEdgeIsReal(e)
  BY <1>1, TrustEdgeIsReal, PassEdgeIsReal DEF roles
<1>5. \A e \in iamRels' : IamEdgeIsReal(e)'
  BY <1>4, IamStays
<1>6. QED
  BY <1>1, <1>2, <1>3, <1>5 DEF RealInv

LEMMA NextReal == DiscoveryInv /\ RealInv /\ [Next]_vars => RealInv'
<1> SUFFICES ASSUME DiscoveryInv, RealInv, [Next]_vars PROVE RealInv'
  OBVIOUS
<1>1. CASE UNCHANGED <<assets, rels, lost, iamRels>>
  <2>1. lost \subseteq lost'
    BY <1>1
  <2>2. QED
    BY <1>1, <2>1, LostGrows, IamStays DEF RealInv
<1>2. CASE DiscoveryStep /\ UNCHANGED <<iamRels, record>>
  <2>1. CASE \E r \in Volatile : Change(r)
    BY <1>1, <1>2, <2>1 DEF Change, scan
  <2>2. CASE \E answered \in BOOLEAN : Identify(answered)
    BY <1>1, <1>2, <2>2 DEF Identify, scan
  <2>3. CASE List
    BY <1>1, <1>2, <2>3 DEF List, scan
  <2>4. CASE CollectorFails
    BY <1>1, <1>2, <2>4 DEF CollectorFails
  <2>5. CASE Collecting /\ \E unread : Read(unread)
    BY <1>2, <2>5, ReadKeepsReal
  <2>6. CASE Collecting /\ \E unread, part, hand : NormalizerFails(unread, part, hand)
    BY <1>2, <2>6, FailureKeepsReal
  <2>7. QED
    BY <1>2, <2>1, <2>2, <2>3, <2>4, <2>5, <2>6 DEF DiscoveryStep
<1>3. CASE Analyze
  BY <1>3, AnalyzeKeepsReal
<1>4. CASE \E mapped \in BOOLEAN : BuildGraph(mapped)
  BY <1>1, <1>4 DEF BuildGraph, discoveryVars, scan
<1>5. CASE \E jewels \in JewelChoices : SaveRecord(jewels)
  BY <1>1, <1>5 DEF SaveRecord, discoveryVars, scan
<1>6. CASE Terminated \/ UNCHANGED vars
  BY <1>1, <1>6 DEF Terminated, vars, discoveryVars, scan
<1>7. QED
  BY <1>2, <1>3, <1>4, <1>5, <1>6 DEF Next

(*-------------------------------------------------------------------------*)
(* What the scan has read whole is there.                                  *)

LEMMA InitSeen == Init => SeenInv
<1> SUFFICES ASSUME Init PROVE SeenInv
  OBVIOUS
<1>1. rels = {} /\ step = 0 /\ step # Ended
  BY Places DEF Init, DiscoveryInit
<1>2. CollectedTypes = {}
  BY <1>1, Places DEF CollectedTypes
<1>3. QED
  BY <1>1, <1>2 DEF SeenInv

LEMMA SeenStays ==
    ASSUME SeenInv, Steady' \subseteq Steady,
           UNCHANGED <<step, assets, rels, errors, lost, iamRels>>
    PROVE  SeenInv'
<1>1. /\ CollectedTypes' = CollectedTypes /\ HasInternet' = HasInternet
      /\ IamEdges' = IamEdges /\ ToSet(assets)' = ToSet(assets)
      /\ \A r : IsReadWhole(r)' <=> IsReadWhole(r)
  BY DEF CollectedTypes, HasInternet, IamEdges, Ids, IsReadWhole, Unread
<1>2. QED
  BY <1>1 DEF SeenInv

LEMMA IdentifyKeepsSeen ==
    ASSUME SeenInv, NEW answered \in BOOLEAN, Identify(answered), UNCHANGED iamRels
    PROVE  SeenInv'
<1>1. /\ step = 0 /\ step' \in {1, -1}
      /\ UNCHANGED <<exists, changed, assets, rels, errors, lost>>
  BY Places DEF Identify, account, scan
<1>2. CollectedTypes' = {} /\ step' # Ended
  BY <1>1, Places DEF CollectedTypes
<1>3. HasInternet' = HasInternet
  BY <1>1 DEF HasInternet
<1>4. QED
  BY <1>1, <1>2, <1>3 DEF SeenInv

(* A failing collector: what it has left does not count as read whole.     *)
LEMMA FailureKeepsSeen ==
    ASSUME DiscoveryInv, SeenInv, Collecting, NextCollector,
           errors' = errors \cup {Collectors[step]},
           UNCHANGED <<exists, changed, iamRels>>,
           lost \subseteq lost', ToSet(assets) \subseteq ToSet(assets'), rels \subseteq rels',
           \A e \in rels' \ rels : e.source = Internet =>
              e.target \in Resources /\ Type(e.target) \in TypesOf(step)
    PROVE  SeenInv'
<1>1. /\ step \in 1..8 /\ step' # Ended
      /\ CollectedTypes' = CollectedTypes \cup TypesOf(step)
  BY NextTypes DEF DiscoveryInv
<1>2. Steady' = Steady /\ Steady \subseteq Resources
  BY DEF Steady, DiscoveryInv, DiscoveryTypeOK
<1>3. ASSUME NEW r \in Steady, Type(r) \in CollectedTypes', IsReadWhole(r)'
      PROVE  /\ Type(r) # "VOLUME" => AssetOf(r, {}) \in ToSet(assets')
             /\ EdgesOf(r, {}) \subseteq rels'
  <2>1. IsReadWhole(r) /\ CollectedBy(r) # Collectors[step]
    BY <1>3 DEF IsReadWhole, Unread
  <2>2. Type(r) \notin TypesOf(step)
    BY <1>1, <1>2, <2>1, CollectedByIs
  <2>3. QED
    BY <1>1, <1>3, <2>1, <2>2 DEF SeenInv
<1>4. ASSUME NEW e \in rels', e.source = Internet, Type(e.target) # "S3",
             CollectedBy(e.target) \notin errors'
      PROVE  \E a \in ToSet(assets') : a.id = Internet
  <2>1. CASE e \in rels
    <3>1. HasInternet
      BY <1>4, <2>1 DEF SeenInv
    <3>2. QED
      BY <3>1 DEF HasInternet, ToSet
  <2>2. CASE e \notin rels
    <3>1. e.target \in Resources /\ Type(e.target) \in TypesOf(step)
      BY <1>4, <2>2
    <3>2. CollectedBy(e.target) = Collectors[step]
      BY <1>1, <3>1, CollectedByIs
    <3>3. QED
      BY <1>4, <3>2
  <2>3. QED
    BY <2>1, <2>2
<1>5. HasInternet' <=> \E a \in ToSet(assets') : a.id = Internet
  BY DEF HasInternet, ToSet
<1>6. QED
  BY <1>1, <1>2, <1>3, <1>4, <1>5 DEF SeenInv

LEMMA CollectorKeepsSeen ==
    ASSUME DiscoveryInv, SeenInv, CollectorFails, UNCHANGED iamRels
    PROVE  SeenInv'
<1>1. /\ Collecting /\ NextCollector
      /\ errors' = errors \cup {Collectors[step]}
      /\ UNCHANGED <<exists, changed, assets, rels, lost>>
  BY DEF CollectorFails, account, Collector
<1>2. ToSet(assets) \subseteq ToSet(assets') /\ rels' \ rels = {}
  BY <1>1
<1>3. QED
  BY <1>1, <1>2, FailureKeepsSeen

LEMMA NormalizerKeepsSeen ==
    ASSUME DiscoveryInv, SeenInv, Collecting, NEW unread, NEW part, NEW hand,
           NormalizerFails(unread, part, hand), UNCHANGED iamRels
    PROVE  SeenInv'
<1>1. PICK N \in SUBSET Resources, of \in SUBSET Resources :
         /\ ToSet(assets') = ToSet(assets) \cup AssetsOf(N, unread)
         /\ rels' = rels \cup EdgesRead(of, unread)
         /\ \A r \in of : Type(r) \in TypesOf(step)
  BY FailureAdds
<1>2. /\ NextCollector /\ UNCHANGED <<exists, changed>>
      /\ errors' = errors \cup {Collectors[step]} /\ lost' = lost \cup unread
  BY FailureAdds
<1>3. ASSUME NEW e \in rels' \ rels, e.source = Internet
      PROVE  e.target \in Resources /\ Type(e.target) \in TypesOf(step)
  <2>1. PICK r \in of : e \in EdgesOf(r, unread)
    BY <1>1, <1>3 DEF EdgesRead
  <2>2. e.target = r
    BY <1>3, <2>1, EdgeOf
  <2>3. QED
    BY <1>1, <2>1, <2>2
<1>4. /\ lost \subseteq lost' /\ ToSet(assets) \subseteq ToSet(assets')
      /\ rels \subseteq rels'
  BY <1>1, <1>2
<1>5. QED
  BY <1>2, <1>3, <1>4, FailureKeepsSeen

LEMMA HasInternetIs == HasInternet <=> \E a \in ToSet(assets) : a.id = Internet
BY DEF HasInternet, ToSet

LEMMA ReadKeepsSeen ==
    ASSUME DiscoveryInv, SeenInv, Collecting,
           NEW unread \in SUBSET (listed \X Details[Collector]), Read(unread),
           UNCHANGED iamRels
    PROVE  SeenInv'
<1> DEFINE N == Normalized(unread)
           edges == WholeRead(unread)
<1>1. /\ step \in 1..8 /\ step' # Ended
      /\ CollectedTypes' = CollectedTypes \cup TypesOf(step)
  BY ReadAdds, NextTypes DEF DiscoveryInv
<1>2. Steady' = Steady /\ Steady \subseteq Resources
  BY ReadAdds DEF Steady, DiscoveryInv, DiscoveryTypeOK
<1>3. ASSUME NEW r \in Steady, Type(r) \in CollectedTypes', IsReadWhole(r)'
      PROVE  /\ Type(r) # "VOLUME" => AssetOf(r, {}) \in ToSet(assets')
             /\ EdgesOf(r, {}) \subseteq rels'
  <2>1. CASE Type(r) \in CollectedTypes
    <3>1. IsReadWhole(r)
      BY <1>3, ReadAdds DEF IsReadWhole, Unread
    <3>2. QED
      BY <2>1, <3>1, ReadAdds DEF SeenInv
  <2>2. CASE Type(r) \in TypesOf(step)
    <3>1. CollectedBy(r) = Collector
      BY <1>1, <1>2, <2>2, CollectedByIs DEF Collector
    <3>2. \A d : <<r, d>> \notin unread
      BY <1>3, <3>1, ReadAdds DEF IsReadWhole, Unread
    <3>3. \A d : IsRead(r, d, unread) /\ IsRead(r, d, {})
      BY <3>2 DEF IsRead
    <3>4. AssetOf(r, unread) = AssetOf(r, {})
      BY <3>3 DEF AssetOf, IsPublic, Block, Policy
    <3>5. EdgesOf(r, unread) = EdgesOf(r, {})
      BY <3>3 DEF EdgesOf, Exposure, IsPublic, Block, Policy
    <3>6. Type(r) = "VOLUME" \/ r \in N
      BY <2>2, <3>2, ReadAdds, NormalizedIs
    <3>7. Type(r) = "VOLUME" => r \in listed
      BY <1>1, <2>2, ReadAdds DEF TypesOf, NetworkTypes, DiscoveryInv, ListInv, Collector
    <3>8. r \in N => AssetOf(r, unread) \in AssetsOf(N, unread)
      BY DEF AssetsOf
    <3>9. EdgesOf(r, unread) \subseteq edges
      BY <3>6, <3>7 DEF WholeRead, EdgesRead
    <3> HIDE DEF N, edges
    <3>10. QED
      BY <3>4, <3>5, <3>6, <3>8, <3>9, ReadAdds DEF N, edges
  <2>3. QED
    BY <1>1, <1>3, <2>1, <2>2
<1>4. ASSUME NEW e \in rels', e.source = Internet, Type(e.target) # "S3",
             CollectedBy(e.target) \notin errors'
      PROVE  \E a \in ToSet(assets') : a.id = Internet
  <2>1. CASE HasInternet
    BY <2>1, HasInternetIs, ReadAdds
  <2>2. CASE ~ HasInternet
    <3>1. e \in edges
      BY <1>4, <2>2, ReadAdds DEF SeenInv
    <3>2. AddsInternet(edges)
      BY <1>4, <2>2, <3>1 DEF AddsInternet, FromInternet
    <3>3. InternetAsset \in ToSet(assets')
      BY <3>2, ReadAdds DEF NetOf
    <3>4. QED
      BY <3>3 DEF InternetAsset
  <2>3. QED
    BY <2>1, <2>2
<1>5. HasInternet' <=> \E a \in ToSet(assets') : a.id = Internet
  BY DEF HasInternet, ToSet
<1>6. QED
  BY <1>1, <1>2, <1>3, <1>4, <1>5 DEF SeenInv

LEMMA AnalyzeKeepsSeen ==
    ASSUME DiscoveryInv, SeenInv, Analyze
    PROVE  SeenInv'
<1> DEFINE A == ToSet(assets)
<1>1. /\ rels' = rels \cup NetworkEdges(A) /\ iamRels' = IamEdges
      /\ step = 9 /\ step' = 10
      /\ UNCHANGED <<exists, changed, assets, errors, lost>>
  BY Places DEF Analyze, AnalyzeNetwork, account
<1>2. /\ Steady' = Steady /\ HasInternet' = HasInternet /\ IamEdges' = IamEdges
      /\ \A r : IsReadWhole(r)' <=> IsReadWhole(r)
  BY <1>1 DEF Steady, HasInternet, IamEdges, Ids, IsReadWhole, Unread
<1>3. CollectedTypes' = CollectedTypes
  BY <1>1, Places DEF CollectedTypes
<1>4. ASSUME NEW e \in NetworkEdges(A), e.source = Internet
      PROVE  Type(e.target) = "S3"
  <2>1. CASE e \in BucketEdges(A)
    BY <2>1 DEF BucketEdges, IsPublicBucket, Rel
  <2>2. CASE e \in GroupEdges(A)
    <3>1. e.source \in IdsOf(A)
      BY <2>2, GroupEdgesAre DEF Rel
    <3>2. QED
      BY <1>4, <3>1 DEF IdsOf
  <2>3. QED
    BY <2>1, <2>2 DEF NetworkEdges
<1>5. \A e \in rels' :
         /\ e.source = Internet /\ Type(e.target) # "S3"
         /\ CollectedBy(e.target) \notin errors
         => HasInternet
  BY <1>1, <1>4 DEF SeenInv
<1>6. \A r \in Steady : Type(r) \in CollectedTypes /\ IsReadWhole(r) =>
         /\ Type(r) # "VOLUME" => AssetOf(r, {}) \in A
         /\ EdgesOf(r, {}) \subseteq rels'
  BY <1>1 DEF SeenInv
<1>7. QED
  BY <1>1, <1>2, <1>3, <1>5, <1>6 DEF SeenInv

LEMMA NextSeen == DiscoveryInv /\ SeenInv /\ [Next]_vars => SeenInv'
<1> SUFFICES ASSUME DiscoveryInv, SeenInv, [Next]_vars PROVE SeenInv'
  OBVIOUS
<1>1. CASE UNCHANGED <<exists, changed, step, assets, rels, errors, lost, iamRels>>
  BY <1>1, SeenStays DEF Steady
<1>2. CASE DiscoveryStep /\ UNCHANGED <<iamRels, record>>
  <2>1. CASE \E r \in Volatile : Change(r)
    <3>1. UNCHANGED <<step, assets, rels, errors, lost>> /\ Steady' \subseteq Steady
      BY <2>1 DEF Change, Create, Delete, scan, Steady
    <3>2. QED
      BY <1>2, <3>1, SeenStays
  <2>2. CASE \E answered \in BOOLEAN : Identify(answered)
    BY <1>2, <2>2, IdentifyKeepsSeen
  <2>3. CASE List
    BY <1>1, <1>2, <2>3 DEF List, scan, account
  <2>4. CASE CollectorFails
    BY <1>2, <2>4, CollectorKeepsSeen
  <2>5. CASE Collecting /\ \E unread \in SUBSET (listed \X Details[Collector]) : Read(unread)
    BY <1>2, <2>5, ReadKeepsSeen
  <2>6. CASE Collecting /\ \E unread, part, hand : NormalizerFails(unread, part, hand)
    BY <1>2, <2>6, NormalizerKeepsSeen
  <2>7. QED
    BY <1>2, <2>1, <2>2, <2>3, <2>4, <2>5, <2>6 DEF DiscoveryStep
<1>3. CASE Analyze
  BY <1>3, AnalyzeKeepsSeen
<1>4. CASE \E mapped \in BOOLEAN : BuildGraph(mapped)
  BY <1>1, <1>4 DEF BuildGraph, discoveryVars, scan, account
<1>5. CASE \E jewels \in JewelChoices : SaveRecord(jewels)
  BY <1>1, <1>5 DEF SaveRecord, discoveryVars, scan, account
<1>6. CASE Terminated \/ UNCHANGED vars
  BY <1>1, <1>6 DEF Terminated, vars, discoveryVars, scan, account
<1>7. QED
  BY <1>2, <1>3, <1>4, <1>5, <1>6 DEF Next

(*-------------------------------------------------------------------------*)
(* The record.                                                             *)

LEMMA EvidenceStays ==
    ASSUME UNCHANGED <<assets, rels, iamRels>>
    PROVE  /\ Evidence(record.mapped)' = Evidence(record'.mapped)
           /\ \A g, jewels : Reports(g, jewels)' = Reports(g, jewels)
<1>1. AllIds' = AllIds /\ Entries' = Entries
  BY DEF AllIds, Entries
<1>2. QED
  BY <1>1 DEF Evidence, Reports

(* The scan is over before there is a graph, and nothing touches what the  *)
(* graph was built of.                                                     *)
LEMMA NextRecord == RecordInv /\ [Next]_vars => RecordInv'
<1> SUFFICES ASSUME RecordInv, [Next]_vars PROVE RecordInv'
  OBVIOUS
<1>1. CASE UNCHANGED vars
  <2>1. UNCHANGED <<step, assets, rels, iamRels, record>>
    BY <1>1 DEF vars, discoveryVars, scan
  <2>2. QED
    BY <2>1, EvidenceStays DEF RecordInv, Ended, Analyzing, Collectors
<1>2. CASE UNCHANGED record /\ step # Ended
  <2>1. record'.stage = "none" /\ record'.paths = {}
    BY <1>2 DEF RecordInv
  <2>2. QED
    BY <2>1 DEF RecordInv
<1>3. CASE DiscoveryStep /\ UNCHANGED <<iamRels, record>>
  <2>1. step # Ended
    BY <1>3, Places DEF DiscoveryStep, Change, Identify, List, CollectorFails, Collecting
  <2>2. QED
    BY <1>2, <1>3, <2>1
<1>4. CASE Analyze
  BY <1>2, <1>4, Places DEF Analyze, AnalyzeNetwork
<1>5. ASSUME NEW mapped \in BOOLEAN, BuildGraph(mapped)
      PROVE  RecordInv'
  <2>1. PICK g \in Graph!BuildsOf(Evidence(mapped)) :
           record' = [stage |-> "built", mapped |-> mapped, graph |-> g, paths |-> {}]
    BY <1>5 DEF BuildGraph
  <2>2. /\ record'.stage = "built" /\ record'.mapped = mapped
        /\ record'.graph = g /\ record'.paths = {}
    BY <2>1
  <2>3. step' = Ended /\ Evidence(mapped)' = Evidence(mapped)
    BY <1>5 DEF BuildGraph, discoveryVars, scan, Evidence
  <2>4. record'.graph \in Graph!BuildsOf(Evidence(record.mapped))'
    BY <2>2, <2>3 DEF Evidence
  <2>5. QED
    BY <2>2, <2>3, <2>4 DEF RecordInv, Ended, Analyzing, Collectors
<1>6. ASSUME NEW jewels \in JewelChoices, SaveRecord(jewels)
      PROVE  RecordInv'
  <2>1. PICK paths \in Reports(record.graph, jewels) :
           record' = [stage |-> "saved", mapped |-> record.mapped, jewels |-> jewels,
                      paths |-> paths]
    BY <1>6 DEF SaveRecord
  <2>2. /\ record'.stage = "saved" /\ record'.mapped = record.mapped
        /\ record'.jewels = jewels /\ record'.paths = paths
    BY <2>1
  <2>3. /\ UNCHANGED <<step, assets, rels, iamRels>>
        /\ step = Ended /\ record.mapped \in BOOLEAN
        /\ record.graph \in Graph!BuildsOf(Evidence(record.mapped))
    BY <1>6 DEF SaveRecord, RecordInv, discoveryVars, scan
  <2>4. QED
    BY <2>2, <2>3, EvidenceStays DEF RecordInv, Ended, Analyzing, Collectors
<1>7. QED
  BY <1>1, <1>3, <1>4, <1>5, <1>6 DEF Next, Terminated

(* Every flag of an asset, every relationship, the graph and the saved     *)
(* paths are backed by what surely holds in the account, or by a misreading *)
(* that the definitions before ReportedIsReal name; and what was read whole *)
(* is there with all its edges.                                            *)
THEOREM PipelineInvariant == Spec => []PipelineInv
<1>1. Init => PipelineInv
  BY InitInv, InitReal, InitSeen DEF Init, PipelineInv
<1>2. PipelineInv /\ [Next]_vars => PipelineInv'
  BY NextInv, NextReal, NextSeen, NextRecord DEF PipelineInv
<1>3. QED
  BY <1>1, <1>2, PTL DEF Spec

(*-------------------------------------------------------------------------*)
(* The paths: the lemmas of AttackGraphProofs, of the graph of a scan.     *)

GP == INSTANCE AttackGraphProofs WITH
         TypeOf <- [r \in Resources |-> Type(r)], Public <- Resources

LEMMA GraphIsOne ==
    /\ Internet \notin Resources
    /\ DOMAIN [r \in Resources |-> Type(r)] = Resources
    /\ \A n \in Resources : [r \in Resources |-> Type(r)][n] \notin {"INTERNET", "EXTERNAL"}
    /\ Resources \subseteq Resources
    /\ DOMAIN RoleOf \cap (Resources \cup {Internet}) = {}
    /\ MaxDepth \in Nat
    /\ MaxPaths \in Nat \ {0}
    /\ MinConfidence \in 0..10
<1>1. \A n \in Resources : Type(n) \notin {"INTERNET", "EXTERNAL"}
  BY TypeIsType DEF Types
<1>2. QED
  BY <1>1, AccountAssumption, PipelineAssumption

LEMMA SameGraph ==
    /\ \A edges : Graph!BuildsOf(edges) = GP!BuildsOf(edges)
    /\ \A g, E, T : Graph!FindPaths(g, E, T) = GP!FindPaths(g, E, T)
    /\ \A as, p, steps, js : Graph!Score(as, p, steps, js) = GP!Score(as, p, steps, js)
<1>1. \A edges : Graph!BuildsOf(edges) = GP!BuildsOf(edges)
  BY DEF Graph!BuildsOf, GP!BuildsOf, Graph!Picks, GP!Picks, Graph!PairOf,
         GP!PairOf, Graph!Cardinality, GP!Cardinality
<1>2. \A g, E, T : Graph!FindPaths(g, E, T) = GP!FindPaths(g, E, T)
  BY DEF Graph!FindPaths, GP!FindPaths, Graph!Picks, GP!Picks, Graph!WalksFrom,
         GP!WalksFrom, Graph!SeqOf, GP!SeqOf, Graph!Follows, GP!Follows,
         Graph!IsInjective, GP!IsInjective, Graph!Ends, GP!Ends, Graph!Last,
         GP!Last, Graph!PairsOfEnds, GP!PairsOfEnds, Graph!Shortest,
         GP!Shortest, Graph!kSubset, GP!kSubset, Graph!Min, GP!Min,
         Graph!Cardinality, GP!Cardinality
<1>3. \A as, p, steps, js : Graph!Score(as, p, steps, js) = GP!Score(as, p, steps, js)
  BY DEF Graph!Score, GP!Score, Graph!Points, GP!Points, Graph!IsEntry,
         GP!IsEntry, Graph!NodeType, GP!NodeType, Graph!CrownPart, GP!CrownPart,
         Graph!Last, GP!Last, Graph!Escalates, GP!Escalates,
         Graph!EscalationTypes, GP!EscalationTypes, Graph!CrossesAccounts,
         GP!CrossesAccounts, Graph!ShortPart, GP!ShortPart, Graph!Max, GP!Max,
         Graph!Conditioned, GP!Conditioned
<1>4. QED
  BY <1>1, <1>2, <1>3

(* What a relationship says once it is in the graph.                       *)
LEMMA ResolvedIs ==
    ASSUME NEW e, NEW mapped \in BOOLEAN, NEW v, v = Graph!Resolve(Evidenced(e), mapped)
    PROVE  /\ v.type = e.type /\ v.source = e.source
           /\ e.type # "RUNS_AS" => v.confidence = e.confidence
           /\ \/ v.target = e.target
              \/ /\ e.type = "RUNS_AS"
                 /\ e.target \in DOMAIN RoleOf /\ v.target = RoleOf[e.target]
BY DEF Graph!Resolve, Evidenced

LEMMA SameHop ==
    ASSUME NEW x, NEW y, NEW e, NEW v, v.type = e.type, v.confidence = e.confidence,
           HopIsReal(x, y, e)
    PROVE  HopIsReal(x, y, v)
BY DEF HopIsReal, IsDoubted

(* An edge that leaves a node of the account leads to one, and is so; and  *)
(* what has led to a role stays among roles.                               *)
LEMMA HopIs ==
    ASSUME DiscoveryInv, RealInv, NEW mapped \in BOOLEAN, NEW e \in rels \cup iamRels,
           NEW v, v = Graph!Resolve(Evidenced(e), mapped), v.source \in Nodes
    PROVE  /\ v.target \in Nodes /\ v.type # "TRUSTS"
           /\ HopIsReal(v.source, v.target, v)
           /\ v.type \in {"CAN_ASSUME", "CAN_PASS_ROLE"} \/ v.source \in Roles =>
                v.target \in Roles
<1> DEFINE x == v.source
           y == v.target
<1>1. /\ v.type = e.type /\ x = e.source
      /\ e.type # "RUNS_AS" => v.confidence = e.confidence
      /\ \/ y = e.target
         \/ /\ e.type = "RUNS_AS" /\ e.target \in DOMAIN RoleOf
            /\ y = RoleOf[e.target]
  BY ResolvedIs
<1>2. x \in Nodes
  OBVIOUS
<1> HIDE DEF x, y
<1>3. e.type # "RUNS_AS" /\ HopIsReal(x, y, e) => HopIsReal(x, y, v)
  BY <1>1, SameHop
<1>4. CASE e \in rels /\ e.type = "RUNS_AS"
  <2>1. /\ x \in Resources /\ x \notin Roles
        /\ e.target = Config[x].role /\ e.target # None
    BY <1>1, <1>4 DEF RealInv, EdgeIsReal
  <2>2. Config[x].role \in Resources \cup {"profile"}
    BY <2>1, ConfigIs
  <2>3. CASE y = e.target
    <3>1. y \in Nodes
      BY <2>1, <2>2, <2>3 DEF Nodes
    <3>2. CASE y \in Resources
      <4>1. RoleUsed(x) = y
        BY <2>1, <2>3, <3>2, PipelineAssumption DEF RoleUsed
      <4>2. <<x, y>> \in SureHops
        BY <2>1, <3>2, <4>1, SureHopsAre
      <4>3. QED
        BY <1>1, <1>4, <2>1, <3>1, <4>2 DEF HopIsReal, x, y
    <3>3. CASE y \notin Resources
      BY <1>1, <1>4, <2>1, <2>3, <3>1, <3>3 DEF HopIsReal, x, y
    <3>4. QED
      BY <3>2, <3>3
  <2>4. CASE e.target \in DOMAIN RoleOf /\ y = RoleOf[e.target]
    <3>1. y \in Roles /\ y \in Resources /\ RoleUsed(x) = y
      BY <2>1, <2>4, PipelineAssumption, RolesAre DEF RoleUsed
    <3>2. <<x, y>> \in SureHops
      BY <2>1, <3>1, SureHopsAre
    <3>3. QED
      BY <1>1, <1>4, <2>1, <3>1, <3>2 DEF HopIsReal, Nodes, x, y
  <2>5. QED
    BY <1>1, <2>3, <2>4
<1>5. CASE e \in rels /\ e.type # "RUNS_AS"
  <2>1. /\ e.type \notin {"TRUSTS", "CAN_ASSUME", "CAN_PASS_ROLE"}
        /\ x \notin Roles /\ y \in Resources \cup DOMAIN AliasOf /\ y = e.target
        /\ e.type # "CONNECTED_TO" => HopIsReal(x, y, e)
    BY <1>1, <1>5 DEF RealInv, EdgeIsReal
  <2>2. CASE e.type = "CONNECTED_TO"
    <3>1. DiscoveryTypeOK /\ e \in GroupEdges(ToSet(assets))
      BY <1>5, <2>2 DEF DiscoveryInv, EdgesInv
    <3>2. /\ x \in Resources /\ y \in Resources /\ e.confidence \in {5, 10}
          /\ \E g \in GroupsOf(x), h \in GroupsOf(y) : Names(g, h)
          /\ e.confidence = 10 => <<x, y>> \in Allowed \/ TakenAsOpen(x, y)
      BY <1>1, <2>1, <3>1, GroupEdgeIs
    <3>3. e.confidence = 5 => IsDoubted(x, y, e)
      BY <3>2 DEF IsDoubted
    <3>4. e.confidence = 10 => <<x, y>> \in SureHops \/ TakenAsOpen(x, y)
      BY <3>2, SureHopsAre
    <3>5. HopIsReal(x, y, e)
      BY <2>2, <3>2, <3>3, <3>4 DEF HopIsReal
    <3>6. QED
      BY <1>1, <1>3, <1>5, <2>1, <3>5 DEF Nodes, x, y
  <2>3. CASE e.type # "CONNECTED_TO"
    BY <1>1, <1>3, <1>5, <2>1, <2>3 DEF Nodes, x, y
  <2>4. QED
    BY <2>2, <2>3
<1>6. CASE e \in iamRels
  <2>1. IamEdgeIsReal(e)
    BY <1>6 DEF RealInv
  <2>2. /\ y = e.target /\ y \in Roles /\ y \in Nodes
        /\ e.type \in {"CAN_ASSUME", "CAN_PASS_ROLE"} /\ HopIsReal(x, y, e)
    BY <1>1, <1>2, <2>1, RolesAre DEF IamEdgeIsReal, Nodes
  <2>3. QED
    BY <1>1, <1>3, <2>2 DEF x, y
<1>7. QED
  BY <1>4, <1>5, <1>6

LEMMA EntriesAre ==
    ASSUME PipelineInv, NEW n \in Entries
    PROVE  n \in Nodes /\ StartsWell(n)
<1>1. PICK a \in ToSet(assets) : (a.public \/ a.id = Internet) /\ n = a.id
  BY DEF Entries
<1>2. a.id \in Resources \cup {Internet} /\ AssetIsReal(a)
  <2>1. assets \in Seq(Asset) /\ AssetIsReal(a)
    BY DEF PipelineInv, DiscoveryInv, DiscoveryTypeOK, RealInv
  <2>2. a \in Asset
    BY <2>1 DEF ToSet
  <2>3. QED
    BY <2>1, <2>2 DEF Asset
<1>3. QED
  BY <1>1, <1>2 DEF AssetIsReal, StartsWell, Nodes

(* A path of a graph that was built of what the analyzers left.            *)
LEMMA WalkIsReal ==
    ASSUME PipelineInv, NEW mapped \in BOOLEAN, NEW g \in Graph!BuildsOf(Evidence(mapped)),
           NEW T, NEW P \in Graph!FindPaths(g, Entries, T), NEW p \in P,
           NEW steps, steps = Graph!StepsOf(g, p)
    PROVE  /\ Len(p) \in Nat /\ Len(p) >= 2 /\ DOMAIN p = 1..Len(p)
           /\ DOMAIN steps = 1..(Len(p) - 1) /\ Len(steps) = Len(p) - 1
           /\ p[1] \in Entries /\ p[Len(p)] \in T
           /\ \A i \in 1..(Len(p) - 1) :
                /\ HopIsReal(p[i], p[i + 1], steps[i])
                /\ steps[i].type # "TRUSTS"
                /\ steps[i].type \in {"CAN_ASSUME", "CAN_PASS_ROLE"} \/ p[i] \in Roles =>
                     p[i + 1] \in Roles
<1> DEFINE n == Len(p)
<1>1. g \in GP!BuildsOf(Evidence(mapped)) /\ P \in GP!FindPaths(g, Entries, T)
  BY SameGraph
<1>2. p \in GP!Walks(g, Entries) /\ GP!Ends(p) \in GP!PairsOfEnds(Entries, T)
  BY <1>1, GraphIsOne, GP!FoundIs
<1>3. PICK start \in Entries : p \in GP!WalksFrom(g, start)
  BY <1>2 DEF GP!Walks
<1>4. /\ GP!Hops(p) \in 0..MaxDepth /\ n = GP!Hops(p) + 1 /\ DOMAIN p = 1..n
      /\ p[1] = start
      /\ \A i \in 1..GP!Hops(p) : <<p[i], p[i + 1]>> \in DOMAIN g
      /\ GP!IsInjective(p)
  BY <1>3, GraphIsOne, GP!WalkOf
<1>5. n \in Nat /\ n >= 1 /\ GP!Hops(p) = n - 1
  BY <1>4, GraphIsOne
<1>6. p[1] # p[n] /\ p[n] \in T /\ n >= 2
  BY <1>2, <1>5 DEF GP!Ends, GP!Last, GP!PairsOfEnds
<1>7. DOMAIN steps = 1..(n - 1) /\ \A i \in 1..(n - 1) : steps[i] = g[<<p[i], p[i + 1]>>]
  BY <1>5 DEF Graph!StepsOf, Graph!Hops
<1>8. Len(steps) = n - 1
  BY <1>5, <1>6, <1>7
<1>9. ASSUME NEW i \in 1..(n - 1)
      PROVE  /\ p[i] # p[i + 1]
             /\ \E e \in rels \cup iamRels :
                   /\ steps[i] = Graph!Resolve(Evidenced(e), mapped)
                   /\ steps[i].source = p[i] /\ steps[i].target = p[i + 1]
  <2>1. i \in DOMAIN p /\ i + 1 \in DOMAIN p /\ i # i + 1
    BY <1>4, <1>5
  <2>2. p[i] # p[i + 1]
    BY <1>4, <2>1 DEF GP!IsInjective
  <2>3. steps[i] \in Evidence(mapped) /\ GP!PairOf(steps[i]) = <<p[i], p[i + 1]>>
    <3>1. \A pair \in DOMAIN g : g[pair] \in Evidence(mapped) /\ GP!PairOf(g[pair]) = pair
      BY <1>1, GraphIsOne, GP!BuildsOfIs
    <3>2. QED
      BY <1>4, <1>5, <1>7, <3>1
  <2>4. QED
    BY <2>2, <2>3 DEF Evidence, GP!PairOf
<1>10. ASSUME NEW i \in 1..(n - 1), p[i] \in Nodes
       PROVE  /\ p[i + 1] \in Nodes /\ HopIsReal(p[i], p[i + 1], steps[i])
              /\ steps[i].type # "TRUSTS"
              /\ steps[i].type \in {"CAN_ASSUME", "CAN_PASS_ROLE"} \/ p[i] \in Roles =>
                   p[i + 1] \in Roles
  BY <1>9, <1>10, HopIs DEF PipelineInv
<1>11. \A i \in 1..n : p[i] \in Nodes
  <2> DEFINE outside == {i \in 1..n : p[i] \notin Nodes}
  <2> SUFFICES ASSUME outside # {} PROVE FALSE
    OBVIOUS
  <2>1. PICK m \in outside : \A k \in outside : m <= k
    <3>1. outside \in SUBSET Nat
      BY <1>5
    <3> HIDE DEF outside
    <3>2. QED
      BY <3>1, GP!LeastNumber, GraphIsOne
  <2>2. m # 1
    BY <1>4, <2>1, EntriesAre
  <2> DEFINE k == m - 1
  <2>3. k \in 1..(n - 1) /\ k + 1 = m /\ p[k] \in Nodes
    BY <1>5, <2>1, <2>2
  <2> HIDE DEF k
  <2>4. p[k + 1] \in Nodes
    BY <1>10, <2>3
  <2>5. QED
    BY <2>1, <2>3, <2>4
<1>12. QED
  BY <1>3, <1>4, <1>5, <1>6, <1>7, <1>8, <1>10, <1>11

LEMMA SavedIs ==
    ASSUME PipelineInv, NEW path \in record.paths
    PROVE  record.stage = "saved" /\ record.mapped \in BOOLEAN
BY DEF PipelineInv, RecordInv

LEMMA ReportIs ==
    ASSUME PipelineInv, NEW path \in record.paths
    PROVE  \E g, P, p :
              /\ g \in Graph!BuildsOf(Evidence(record.mapped))
              /\ P \in Graph!FindPaths(g, Entries, Graph!Targets(AllIds, record.jewels))
              /\ p \in P
              /\ path = Graph!Assess(AllIds, g, p, record.jewels)
<1>1. PICK g \in Graph!BuildsOf(Evidence(record.mapped)) :
         record.paths \in Reports(g, record.jewels)
  BY SavedIs DEF PipelineInv, RecordInv
<1>2. QED
  BY <1>1 DEF Reports

LEMMA RoleIsNoData ==
    ASSUME NEW as, NEW js, NEW r \in Roles, r \in Graph!Targets(as, js)
    PROVE  r \in js
<1>1. r \in Resources /\ r # Internet /\ Type(r) = "ROLE"
  BY RolesAre DEF Roles
<1>2. Graph!NodeType(as, r) \in {"ROLE", "EXTERNAL"}
  BY <1>1 DEF Graph!NodeType
<1>3. r \notin Graph!DefaultTargets(as)
  BY <1>2 DEF Graph!DefaultTargets
<1>4. QED
  BY <1>3 DEF Graph!Targets

(* Each reported path starts at something open in the account, and each of *)
(* its hops is there under whatever conditions, but for what StartsWell    *)
(* and HopIsReal name: what provider.py, network/analyzer.py and           *)
(* iam/analyzer.py do not weigh up, take for open, confuse or leave as     *)
(* placeholders.                                                           *)
THEOREM ReportedIsAlwaysReal == Spec => []ReportedIsReal
<1>1. PipelineInv => ReportedIsReal
  <2> SUFFICES ASSUME PipelineInv, NEW path \in record.paths
               PROVE  /\ StartsWell(path.nodes[1])
                      /\ \A i \in DOMAIN path.steps :
                           HopIsReal(path.nodes[i], path.nodes[i + 1], path.steps[i])
    BY DEF ReportedIsReal
  <2>1. PICK g, P, p :
           /\ g \in Graph!BuildsOf(Evidence(record.mapped))
           /\ P \in Graph!FindPaths(g, Entries, Graph!Targets(AllIds, record.jewels))
           /\ p \in P
           /\ path = Graph!Assess(AllIds, g, p, record.jewels)
    BY ReportIs
  <2>2. path.nodes = p /\ path.steps = Graph!StepsOf(g, p)
    BY <2>1 DEF Graph!Assess
  <2>3. record.mapped \in BOOLEAN
    BY SavedIs
  <2>4. /\ DOMAIN path.steps = 1..(Len(p) - 1) /\ p[1] \in Entries
        /\ \A i \in 1..(Len(p) - 1) : HopIsReal(p[i], p[i + 1], path.steps[i])
    BY <2>1, <2>2, <2>3, WalkIsReal
  <2>5. QED
    BY <2>2, <2>4, EntriesAre
<1>2. QED
  BY <1>1, PipelineInvariant, PTL

(* Only a path to a role that was declared a jewel ranks HIGH or CRITICAL: *)
(* an escalation leads to a role, no edge leads from a role to anything    *)
(* else, and what is no escalation scores too little.                      *)
THEOREM OnlyRolesEverRankHigh == Spec => []OnlyRolesRankHigh
<1>1. PipelineInv => OnlyRolesRankHigh
  <2> SUFFICES ASSUME PipelineInv, NEW path \in record.paths
               PROVE  /\ path.severity \in {"HIGH", "CRITICAL"} =>
                           Last(path.nodes) \in Roles \cap record.jewels
                      /\ \A i \in DOMAIN path.steps : path.steps[i].type # "TRUSTS"
    BY DEF OnlyRolesRankHigh
  <2> DEFINE js == record.jewels
             T == Graph!Targets(AllIds, js)
  <2>1. PICK g, P, p :
           /\ g \in Graph!BuildsOf(Evidence(record.mapped))
           /\ P \in Graph!FindPaths(g, Entries, T)
           /\ p \in P
           /\ path = Graph!Assess(AllIds, g, p, js)
    BY ReportIs
  <2> DEFINE steps == Graph!StepsOf(g, p)
             n == Len(p)
  <2>2. /\ path.nodes = p /\ path.steps = steps
        /\ path.severity = Graph!Band(Graph!Score(AllIds, p, steps, js))
    BY <2>1 DEF Graph!Assess
  <2>3. record.mapped \in BOOLEAN
    BY SavedIs
  <2>4. /\ n \in Nat /\ n >= 2 /\ DOMAIN p = 1..n
        /\ DOMAIN steps = 1..(n - 1) /\ Len(steps) = n - 1
        /\ p[n] \in T
        /\ \A i \in 1..(n - 1) :
             /\ steps[i].type # "TRUSTS"
             /\ steps[i].type \in {"CAN_ASSUME", "CAN_PASS_ROLE"} \/ p[i] \in Roles =>
                  p[i + 1] \in Roles
    BY <2>1, <2>3, WalkIsReal
  <2> HIDE DEF steps, T, js
  <2>5. ASSUME path.severity \in {"HIGH", "CRITICAL"}
        PROVE  Last(p) \in Roles \cap js
    <3> DEFINE score == GP!Score(AllIds, p, steps, js)
    <3>1. Len(steps) \in Nat \ {0} /\ ~ GP!CrossesAccounts(steps)
      BY <2>4 DEF GP!CrossesAccounts
    <3>2. score \in Int /\ (score >= 60 => GP!Escalates(steps))
      BY <3>1, GraphIsOne, GP!ScoreOf
    <3>3. path.severity = Graph!Band(score)
      BY <2>2, SameGraph
    <3> HIDE DEF score
    <3>4. score >= 60
      BY <2>5, <3>2, <3>3 DEF Graph!Band
    <3>5. PICK i \in 1..(n - 1) : p[i + 1] \in Roles
      BY <2>4, <3>2, <3>4 DEF GP!Escalates, GP!EscalationTypes
    <3>6. \A j \in (i + 1)..n : p[j] \in Roles
      <4> DEFINE outside == {j \in (i + 1)..n : p[j] \notin Roles}
      <4> SUFFICES ASSUME outside # {} PROVE FALSE
        OBVIOUS
      <4>1. PICK m \in outside : \A k \in outside : m <= k
        <5>1. outside \in SUBSET Nat
          BY <2>4
        <5> HIDE DEF outside
        <5>2. QED
          BY <5>1, GP!LeastNumber, GraphIsOne
      <4>2. m # i + 1
        BY <3>5, <4>1
      <4>3. m - 1 \in (i + 1)..n /\ m - 1 \in 1..(n - 1) /\ m - 1 + 1 = m
        BY <2>4, <4>1, <4>2
      <4>4. p[m - 1] \in Roles
        BY <2>4, <4>1, <4>3
      <4>5. QED
        BY <2>4, <4>1, <4>3, <4>4
    <3>7. p[n] \in Roles
      BY <2>4, <3>6
    <3>8. p[n] \in js
      BY <2>4, <3>7, RoleIsNoData DEF T
    <3>9. QED
      BY <3>7, <3>8 DEF Last
  <2>6. QED
    BY <2>2, <2>4, <2>5 DEF js
<1>2. QED
  BY <1>1, PipelineInvariant, PTL

(*-------------------------------------------------------------------------*)
(* What can be reached is reported.                                        *)

HasEvidence(x, y) ==
    \E v \in Evidence(record.mapped) : v.source = x /\ v.target = y

(* An edge of the scan, once the profiles are resolved, is in the evidence. *)
LEMMA EvidenceOf ==
    ASSUME NEW e \in rels \cup iamRels, record.mapped \in BOOLEAN
    PROVE  /\ e.type # "RUNS_AS" => HasEvidence(e.source, e.target)
           /\ e.target \notin DOMAIN RoleOf => HasEvidence(e.source, e.target)
           /\ e.type = "RUNS_AS" /\ record.mapped /\ e.target \in DOMAIN RoleOf =>
                HasEvidence(e.source, RoleOf[e.target])
<1> DEFINE v == Graph!Resolve(Evidenced(e), record.mapped)
<1>1. v \in Evidence(record.mapped)
  BY DEF Evidence
<1>2. /\ v.source = e.source
      /\ e.type # "RUNS_AS" \/ e.target \notin DOMAIN RoleOf => v.target = e.target
      /\ e.type = "RUNS_AS" /\ record.mapped /\ e.target \in DOMAIN RoleOf =>
           v.target = RoleOf[e.target]
  BY DEF Graph!Resolve, Evidenced
<1>3. QED
  BY <1>1, <1>2 DEF HasEvidence

(* What was read whole is an asset of the scan, with all its edges.        *)
LEMMA WholeIs ==
    ASSUME PipelineInv, record.stage = "saved", NEW r \in Whole, r \in Resources
    PROVE  /\ Type(r) # "VOLUME" => AssetOf(r, {}) \in ToSet(assets) /\ r \in Ids
           /\ EdgesOf(r, {}) \subseteq rels
           /\ CollectedBy(r) \notin errors
<1>1. step = Ended
  BY DEF PipelineInv, RecordInv
<1>2. r \notin DOMAIN RoleOf
  BY PipelineAssumption
<1>3. r \in Steady /\ IsReadWhole(r)
  BY <1>2 DEF Whole
<1>4. Type(r) \in CollectedTypes
  BY <1>1, AllCollected, TypeIsType, TypePlace
<1>5. /\ Type(r) # "VOLUME" => AssetOf(r, {}) \in ToSet(assets)
      /\ EdgesOf(r, {}) \subseteq rels
  BY <1>3, <1>4 DEF PipelineInv, SeenInv
<1>6. Type(r) # "VOLUME" => r \in Ids
  BY <1>5, AccountAssumption DEF AssetOf, Ids, IdsOf
<1>7. QED
  BY <1>3, <1>5, <1>6 DEF IsReadWhole

(* What is open and is seen to be: its asset is flagged, and there is an   *)
(* edge of the provider or, to a bucket, of the network analyzer.          *)
LEMMA OpenIsSeen ==
    ASSUME NEW r \in Resources, NEW ctx, Opens(r, ctx), IsGranted(r)
    PROVE  /\ Type(r) \in {"LAMBDA", "S3", "EC2", "RDS"}
           /\ AssetOf(r, {}).id = r /\ AssetOf(r, {}).public
           /\ Type(r) # "S3" => Rel(Internet, r, "EXPOSED_TO", 10) \in EdgesOf(r, {})
           /\ Type(r) = "S3" => IsPublicBucket(AssetOf(r, {}))
<1>1. Config[r].type = Type(r) /\ FieldsFit(r) /\ r # Internet
  BY AccountAssumption DEF Type
<1>2. \A d : IsRead(r, d, {})
  BY DEF IsRead
<1>3. Policy(r, {}) = Config[r].policy /\ Block(r, {}) = Config[r].block
  BY <1>2 DEF Policy, Block
<1>4. Type(r) \in {"LAMBDA", "S3", "EC2", "RDS"}
  BY <1>1 DEF Opens
<1>5. CASE Type(r) = "S3"
  <2>1. ~ Config[r].address
    BY <1>1, <1>5 DEF FieldsFit
  <2>2. Config[r].block # Settings
    BY <1>1, <1>5 DEF Opens, Settings
  <2>3. Config[r].acl \/ \E s \in Config[r].policy : s.effect = "Allow" /\ s.principal = "everyone"
    BY <2>1 DEF IsGranted, HasGrant
  <2>4. IsPublic(r, {})
    BY <1>3, <1>5, <2>2 DEF IsPublic
  <2>5. IsPublicBucket(AssetOf(r, {}))
    BY <1>1, <1>2, <1>3, <1>5, <2>2, <2>3 DEF IsPublicBucket, AssetOf
  <2>6. QED
    BY <1>5, <2>4, <2>5 DEF AssetOf
<1>6. CASE Type(r) # "S3"
  <2>1. IsPublic(r, {})
    <3>1. CASE Type(r) = "LAMBDA"
      <4>1. ~ Config[r].address /\ ~ Config[r].acl
        BY <1>1, <3>1 DEF FieldsFit
      <4>2. QED
        BY <1>3, <3>1, <4>1 DEF IsGranted, HasGrant, IsPublic
    <3>2. CASE Type(r) \in {"EC2", "RDS"}
      BY <1>1, <3>2 DEF Opens, IsPublic
    <3>3. QED
      BY <1>4, <1>6, <3>1, <3>2
  <2>2. Rel(Internet, r, "EXPOSED_TO", 10) \in Exposure(r, {})
    BY <1>4, <1>6, <2>1 DEF Exposure
  <2>3. QED
    BY <1>4, <1>6, <2>1, <2>2 DEF AssetOf, EdgesOf
<1>7. QED
  BY <1>5, <1>6

(* The edges the provider makes of a resource whose details were all read. *)
LEMMA EdgesAre ==
    ASSUME NEW r \in Resources
    PROVE  /\ Type(r) # "LAMBDA" =>
                \A g \in Config[r].groups : Rel(r, g, "USES", 10) \in EdgesOf(r, {})
           /\ Config[r].role # None =>
                \E c : Rel(r, Config[r].role, "RUNS_AS", c) \in EdgesOf(r, {})
           /\ Type(r) # "VOLUME" /\ Config[r].part # None =>
                Rel(Config[r].part, r, "CONTAINS", 10) \in EdgesOf(r, {})
           /\ Config[r].key # <<>> /\ Encrypted(r) # None =>
                Rel(Encrypted(r), Last(Config[r].key), "ENCRYPTED_BY", 10) \in EdgesOf(r, {})
<1>1. ASSUME Type(r) # "LAMBDA", NEW g \in Config[r].groups
      PROVE  Rel(r, g, "USES", 10) \in EdgesOf(r, {})
  BY <1>1 DEF EdgesOf
<1>2. ASSUME Config[r].role # None
      PROVE  \E c : Rel(r, Config[r].role, "RUNS_AS", c) \in EdgesOf(r, {})
  BY <1>2 DEF EdgesOf
<1>3. ASSUME Type(r) # "VOLUME", Config[r].part # None
      PROVE  Rel(Config[r].part, r, "CONTAINS", 10) \in EdgesOf(r, {})
  BY <1>3 DEF EdgesOf
<1>4. ASSUME Config[r].key # <<>>, Encrypted(r) # None
      PROVE  Rel(Encrypted(r), Last(Config[r].key), "ENCRYPTED_BY", 10) \in EdgesOf(r, {})
  <2>1. IsRead(r, "key", {})
    BY DEF IsRead
  <2>2. QED
    BY <1>4, <2>1 DEF EdgesOf, NormalizeKmsKeyRef
<1>5. QED
  BY <1>1, <1>2, <1>3, <1>4

(* What was read whole is a resource, or a profile that was listed.        *)
LEMMA WholeAre ==
    ASSUME PipelineInv, NEW r \in Whole
    PROVE  /\ r \in Resources \/ (record.mapped /\ r \in DOMAIN RoleOf /\ r \notin Resources)
           /\ r # None /\ r # Internet
<1>1. exists \subseteq Resources
  BY DEF PipelineInv, DiscoveryInv, DiscoveryTypeOK
<1>2. r \in Resources \/ (record.mapped /\ r \in DOMAIN RoleOf)
  BY <1>1 DEF Whole, Steady
<1>3. QED
  BY <1>2, PipelineAssumption, AccountAssumption

(* A step through what was seen whole is an edge of the scan, by its kind. *)
LEMMA ExposureIsEdge ==
    ASSUME PipelineInv, record.stage = "saved", NEW r \in Whole \cap Resources,
           NEW ctx, Opens(r, ctx), IsGranted(r)
    PROVE  HasEvidence(Internet, r)
<1>1. step = Ended /\ record.mapped \in BOOLEAN
  BY DEF PipelineInv, RecordInv
<1> DEFINE e == Rel(Internet, r, "EXPOSED_TO", 10)
<1>2. e.source = Internet /\ e.target = r /\ e.type = "EXPOSED_TO"
  BY DEF Rel
<1>3. e \in rels
  <2>1. CASE Type(r) # "S3"
    BY <2>1, OpenIsSeen, WholeIs
  <2>2. CASE Type(r) = "S3"
    <3> DEFINE a == AssetOf(r, {})
    <3>1. a \in ToSet(assets)
      BY <2>2, WholeIs
    <3>2. a.id = r
      BY OpenIsSeen
    <3>3. IsPublicBucket(a)
      BY <2>2, OpenIsSeen
    <3> HIDE DEF a
    <3>4. Rel(Internet, a.id, "EXPOSED_TO", 10) \in BucketEdges(ToSet(assets))
      BY <3>1, <3>3 DEF BucketEdges
    <3>5. e \in NetworkEdges(ToSet(assets))
      BY <3>2, <3>4 DEF NetworkEdges
    <3>6. QED
      BY <1>1, <3>5 DEF PipelineInv, SeenInv
  <2>3. QED
    BY <2>1, <2>2
<1> HIDE DEF e
<1>4. e \in rels \cup iamRels /\ e.type # "RUNS_AS"
  BY <1>2, <1>3
<1>5. QED
  BY <1>1, <1>2, <1>4, EvidenceOf

LEMMA RuleIsEdge ==
    ASSUME PipelineInv, record.stage = "saved",
           NEW x \in Whole \cap Resources, NEW y \in Whole \cap Resources, x # y,
           NEW h \in Config[y].groups, h \in Whole, LetIn(x, h)
    PROVE  HasEvidence(x, y)
<1>1. step = Ended /\ record.mapped \in BOOLEAN
  BY DEF PipelineInv, RecordInv
<1>2. PICK g \in Config[x].groups : Names(g, h)
  BY DEF LetIn, GroupsOf
<1>3. h \in Resources /\ Type(h) = "SECURITY_GROUP" /\ g \in Resources
  BY <1>2, ConfigIs, AccountAssumption DEF FieldsFit
<1>4. Type(x) \in {"EC2", "RDS", "LAMBDA"} /\ Type(y) \in {"EC2", "RDS", "LAMBDA"}
  BY <1>2, FieldsAre DEF Type
<1>5. x \in Ids /\ y \in Ids /\ h \in Ids
  BY <1>3, <1>4, WholeIs
<1> DEFINE A == ToSet(assets)
           e == Rel(x, y, "CONNECTED_TO", EgressConfidence(A, g, h))
<1>6. x \in Using(A, g) /\ y \in Using(A, h) /\ h \in Groups(A)
  BY <1>2, <1>3, <1>4, <1>5 DEF Using, Groups, Ids
<1>7. e \in GroupEdges(A)
  <2> HIDE DEF A
  <2>1. x \in IdsOf(A) /\ y \in IdsOf(A)
    BY <1>6 DEF Using
  <2>2. QED
    BY <1>2, <1>3, <1>6, <2>1, GroupEdgesAre
<1>8. e.source = x /\ e.target = y /\ e.type = "CONNECTED_TO"
  BY DEF Rel
<1> HIDE DEF e
<1>9. e \in rels \cup iamRels
  BY <1>1, <1>7 DEF NetworkEdges, PipelineInv, SeenInv
<1>10. QED
  BY <1>1, <1>8, <1>9, EvidenceOf

LEMMA OwnEdges ==
    ASSUME PipelineInv, record.stage = "saved", NEW r \in Whole \cap Resources
    PROVE  /\ Type(r) # "LAMBDA" => \A g \in Config[r].groups : HasEvidence(r, g)
           /\ Type(r) # "VOLUME" /\ Config[r].part # None => HasEvidence(Config[r].part, r)
           /\ Config[r].key # <<>> /\ Encrypted(r) # None =>
                HasEvidence(Encrypted(r), Last(Config[r].key))
<1>1. record.mapped \in BOOLEAN
  BY DEF PipelineInv, RecordInv
<1>2. EdgesOf(r, {}) \subseteq rels \cup iamRels
  BY WholeIs
<1>3. ASSUME NEW x, NEW y, NEW type, type # "RUNS_AS", Rel(x, y, type, 10) \in EdgesOf(r, {})
      PROVE  HasEvidence(x, y)
  <2> DEFINE e == Rel(x, y, type, 10)
  <2>1. e.source = x /\ e.target = y /\ e.type # "RUNS_AS"
    BY <1>3 DEF Rel
  <2>2. e \in rels \cup iamRels
    BY <1>2, <1>3
  <2> HIDE DEF e
  <2>3. QED
    BY <1>1, <2>1, <2>2, EvidenceOf
<1>4. ASSUME Type(r) # "LAMBDA", NEW g \in Config[r].groups
      PROVE  HasEvidence(r, g)
  <2>1. Rel(r, g, "USES", 10) \in EdgesOf(r, {})
    BY <1>4, EdgesAre
  <2>2. QED
    BY <1>3, <2>1
<1>5. ASSUME Type(r) # "VOLUME", Config[r].part # None
      PROVE  HasEvidence(Config[r].part, r)
  <2>1. Rel(Config[r].part, r, "CONTAINS", 10) \in EdgesOf(r, {})
    BY <1>5, EdgesAre
  <2>2. QED
    BY <1>3, <2>1
<1>6. ASSUME Config[r].key # <<>>, Encrypted(r) # None
      PROVE  HasEvidence(Encrypted(r), Last(Config[r].key))
  <2>1. Rel(Encrypted(r), Last(Config[r].key), "ENCRYPTED_BY", 10) \in EdgesOf(r, {})
    BY <1>6, EdgesAre
  <2>2. QED
    BY <1>3, <2>1
<1>7. QED
  BY <1>4, <1>5, <1>6

LEMMA ServiceIsEdge ==
    ASSUME PipelineInv, record.stage = "saved", NEW r \in Whole \cap Resources,
           RoleUsed(r) \in Whole,
           Config[r].role \in DOMAIN RoleOf => record.mapped
    PROVE  HasEvidence(r, RoleUsed(r))
<1>1. record.mapped \in BOOLEAN
  BY DEF PipelineInv, RecordInv
<1>2. Config[r].role # None
  BY WholeAre, PipelineAssumption DEF RoleUsed
<1>3. PICK c : Rel(r, Config[r].role, "RUNS_AS", c) \in rels
  BY <1>2, EdgesAre, WholeIs
<1> DEFINE e == Rel(r, Config[r].role, "RUNS_AS", c)
<1>4. e.source = r /\ e.target = Config[r].role /\ e.type = "RUNS_AS"
  BY DEF Rel
<1>5. e \in rels \cup iamRels
  BY <1>3
<1> HIDE DEF e
<1>6. QED
  BY <1>1, <1>4, <1>5, EvidenceOf DEF RoleUsed

(* The edges of the IAM analyzer are evidence too.                         *)
LEMMA IamEdgeIsKnown ==
    ASSUME PipelineInv, record.stage = "saved", NEW y \in Ids \cap Roles,
           NEW e \in Iam!TrustEdges(Ids \cap Roles, y, TrustsOf[y])
                       \cup Iam!PassEdges(Ids \cap Roles, y, PoliciesOf[y])
    PROVE  e.type # "RUNS_AS" => HasEvidence(e.source, e.target)
<1>1. record.mapped \in BOOLEAN /\ iamRels = IamEdges
  BY DEF PipelineInv, RecordInv, SeenInv
<1>2. e \in IamEdges
  BY DEF IamEdges
<1>3. QED
  BY <1>1, <1>2, EvidenceOf

LEMMA AssumeIsEdge ==
    ASSUME PipelineInv, record.stage = "saved", NEW x, NEW y \in Ids \cap Roles, IsNamed(x, y)
    PROVE  HasEvidence(x, y)
<1>1. PICK t \in TrustsOf[y] :
         /\ t.effect = "Allow" /\ ~ t.bare
         /\ \E p \in t.aws : (p.kind = "any" /\ x = Internet) \/ IsItself(p, x)
  BY DEF IsNamed
<1>2. PICK p \in t.aws : (p.kind = "any" /\ x = Internet) \/ IsItself(p, x)
  BY <1>1
<1>3. Iam!AssetOf(p) = x
  BY <1>2 DEF Iam!AssetOf, IsItself
<1> DEFINE roles == Ids \cap Roles
           e == Iam!Rel(Iam!AssetOf(p), y, "CAN_ASSUME", Iam!AssumeConfidence(roles, p))
<1>4. e.type = "CAN_ASSUME" /\ e.source = x /\ e.target = y
  BY <1>3 DEF Iam!Rel
<1>5. e \in Iam!TrustEdges(roles, y, TrustsOf[y])
  BY <1>1 DEF Iam!TrustEdges, Iam!Allowing
<1> HIDE DEF e
<1>6. QED
  BY <1>4, <1>5, IamEdgeIsKnown

LEMMA PassIsEdge ==
    ASSUME PipelineInv, record.stage = "saved", NEW x \in Ids \cap Roles, NEW y \in Ids \cap Roles,
           x # y, PassesPlainly(x, y)
    PROVE  HasEvidence(x, y)
<1>1. PICK s \in PoliciesOf[x] :
         /\ s.effect = "Allow" /\ ~ Iam!HasNotKey(s)
         /\ s.resource \subseteq Resources \cup {"*"}
         /\ Iam!Applies(Conditions, s, Iam!PassRole, y)
  BY DEF PassesPlainly, OwnPolicies
<1>2. s.action # {} /\ s.resource # {}
  <2>1. s.notAction = {} /\ s.notResource = {}
    BY <1>1 DEF Iam!HasNotKey
  <2>2. s.action \cup s.notAction # {} /\ s.resource \cup s.notResource # {}
    BY <1>1, PipelineAssumption
  <2>3. QED
    BY <2>1, <2>2
<1>3. Iam!MatchesAny(s.action, Iam!PassRole) /\ Iam!NamesAsWritten(s.resource, y)
  BY <1>1, <1>2 DEF Iam!Applies
<1>4. PICK q \in s.resource : <<q, y>> \in Matching
  BY <1>3 DEF Iam!NamesAsWritten
<1>5. "*" \in s.resource \/ y \in s.resource
  <2>1. CASE q = "*"
    BY <2>1
  <2>2. CASE q \in Resources
    <3>1. <<q, y>>[1] = q /\ <<q, y>>[2] = y
      OBVIOUS
    <3>2. \A p \in Matching : p[1] \in Resources => p[2] = p[1]
      BY PipelineAssumption
    <3>3. y = q
      BY <1>4, <2>2, <3>1, <3>2
    <3>4. QED
      BY <3>3
  <2>3. QED
    BY <1>1, <2>1, <2>2
<1> DEFINE roles == Ids \cap Roles
           e == Iam!Rel(x, y, "CAN_PASS_ROLE", Iam!PassConfidence(s))
<1>6. e.type = "CAN_PASS_ROLE" /\ e.source = x /\ e.target = y
  BY DEF Iam!Rel
<1>7. y \in Iam!Passable(roles, x, s)
  BY <1>2, <1>5, RolesAre DEF Iam!Passable, Iam!IsWildcardResource, Iam!ResourcesOf
<1>8. s \in {u \in Iam!Allowing(PoliciesOf[x]) : Iam!MatchesAny(Iam!ActionsOf(u), Iam!PassRole)}
  BY <1>1, <1>2, <1>3 DEF Iam!Allowing, Iam!ActionsOf
<1>9. e \in Iam!PassEdges(roles, x, PoliciesOf[x])
  <2> HIDE DEF roles
  <2>1. QED
    BY <1>7, <1>8 DEF Iam!PassEdges
<1> HIDE DEF e
<1>10. QED
  BY <1>6, <1>9, IamEdgeIsKnown

(* A step of the account by its kind, if it is not one that is overlooked. *)
LEMMA KindOfStep ==
    ASSUME NEW s \in AccountSteps \ Overlooked
    PROVE  /\ s.source # s.target
           /\ \/ \E r \in Resources, ctx \in Context :
                   Opens(r, ctx) /\ IsGranted(r) /\ s = Step(Internet, r, {})
              \/ \E x \in Resources, y \in Resources : \E h \in Config[y].groups :
                   LetIn(x, h) /\ s = Step(x, y, {h})
              \/ \E x \in Resources : \E g \in Config[x].groups :
                   Type(x) # "LAMBDA" /\ s = Step(x, g, {})
              \/ \E x \in Resources :
                   Type(x) # "VOLUME" /\ Config[x].part # None /\ s = Step(Config[x].part, x, {})
              \/ \E r \in Resources :
                   /\ Config[r].key # <<>> /\ Encrypted(r) # None
                   /\ Last(Config[r].key) \notin DOMAIN AliasOf /\ s = KeyStep(r)
              \/ \E x \in Resources :
                   /\ RoleUsed(x) \in Resources
                   /\ s = Step(x, RoleUsed(x), {Config[x].role} \cap DOMAIN RoleOf)
              \/ \E x \in Resources \cup {Internet}, y \in Roles :
                   (IsNamed(x, y) \/ PassesPlainly(x, y)) /\ s = Step(x, y, {})
<1>1. PICK ctx \in Context : s \in StepsIn(ctx)
  BY DEF AccountSteps
<1>2. s.source # s.target /\ s \notin Overlooked
  BY DEF AccountSteps
<1>3. CASE s \in ExposureSteps(ctx)
  <2>1. PICK r \in Resources : Opens(r, ctx) /\ s = Step(Internet, r, {})
    BY <1>3 DEF ExposureSteps
  <2>2. r \notin Roles
    BY <2>1, RolesAre DEF Opens
  <2>3. IsGranted(r)
    BY <1>2, <2>1, <2>2 DEF Overlooked
  <2>4. QED
    BY <1>2, <2>1, <2>3
<1>4. CASE s \in RuleSteps(ctx)
  <2>1. PICK x \in Resources, y \in Resources : s \in StepsBetween(x, y, ctx)
    BY <1>4 DEF RuleSteps
  <2>2. PICK h \in Config[y].groups : s = Step(x, y, {h})
    BY <2>1 DEF StepsBetween
  <2>3. LetIn(x, h)
    <3>1. ASSUME ~ LetIn(x, h) PROVE s \in Overlooked
      <4>1. s \in UnnamedSteps(x, y)
        BY <2>2, <3>1 DEF UnnamedSteps
      <4>2. QED
        BY <4>1 DEF Overlooked
    <3>2. QED
      BY <1>2, <3>1
  <2>4. QED
    BY <1>2, <2>2, <2>3
<1>5. CASE s \in GroupSteps
  <2>1. PICK x \in Resources : Type(x) # "LAMBDA" /\ s \in StepsToGroups(x)
    BY <1>5 DEF GroupSteps
  <2>2. PICK g \in Config[x].groups : s = Step(x, g, {})
    BY <2>1 DEF StepsToGroups
  <2>3. QED
    BY <1>2, <2>1, <2>2
<1>6. CASE s \in PartSteps
  BY <1>2, <1>6 DEF PartSteps
<1>7. CASE s \in KeySteps
  <2>1. PICK r \in Resources : Config[r].key # <<>> /\ Encrypted(r) # None /\ s = KeyStep(r)
    BY <1>7 DEF KeySteps
  <2>2. Last(Config[r].key) \notin DOMAIN AliasOf
    <3>1. ASSUME Last(Config[r].key) \in DOMAIN AliasOf PROVE s \in Overlooked
      <4>1. s \in {KeyStep(q) : q \in {u \in Resources : /\ Config[u].key # <<>>
                                                        /\ Last(Config[u].key) \in DOMAIN AliasOf}}
        BY <2>1, <3>1
      <4>2. QED
        BY <4>1 DEF Overlooked
    <3>2. QED
      BY <1>2, <3>1
  <2>3. QED
    BY <1>2, <2>1, <2>2
<1>8. CASE s \in ServiceSteps
  BY <1>2, <1>8 DEF ServiceSteps
<1>9. CASE s \in PrincipalSteps(ctx)
  <2> DEFINE may == {f \in (Resources \cup {Internet}) \X Roles :
                        Assumes(f[1], f[2], ctx) \/ Passes(f[1], f[2], ctx)}
  <2>1. PICK e \in may : s = Step(e[1], e[2], {})
    BY <1>9 DEF PrincipalSteps
  <2>2. e[1] \in Resources \cup {Internet} /\ e[2] \in Roles
    OBVIOUS
  <2>3. IsPrincipal(e[1])
    <3>1. CASE Assumes(e[1], e[2], ctx)
      BY <3>1 DEF Assumes
    <3>2. CASE Passes(e[1], e[2], ctx)
      BY <3>2, RolesAre DEF Passes, IsPrincipal, Type
    <3>3. QED
      BY <3>1, <3>2
  <2>4. IsNamed(e[1], e[2]) \/ PassesPlainly(e[1], e[2])
    <3>1. ASSUME ~ (IsNamed(e[1], e[2]) \/ PassesPlainly(e[1], e[2]))
          PROVE  s \in Overlooked
      <4> DEFINE blind == {f \in {q \in Resources \cup {Internet} : IsPrincipal(q)} \X Roles :
                              ~ IsNamed(f[1], f[2]) /\ ~ PassesPlainly(f[1], f[2])}
      <4>1. e \in {q \in Resources \cup {Internet} : IsPrincipal(q)} \X Roles
        BY <2>2, <2>3
      <4>2. e \in blind
        BY <3>1, <4>1
      <4>3. s \in {Step(f[1], f[2], {}) : f \in blind}
        <5> HIDE DEF blind
        <5>1. QED
          BY <2>1, <4>2
      <4>4. QED
        BY <4>3 DEF Overlooked
    <3>2. QED
      BY <1>2, <3>1
  <2> HIDE DEF may
  <2>5. QED
    BY <1>2, <2>1, <2>2, <2>4
<1>10. QED
  BY <1>1, <1>3, <1>4, <1>5, <1>6, <1>7, <1>8, <1>9 DEF StepsIn

LEMMA StepIsEdge ==
    ASSUME PipelineInv, record.stage = "saved", NEW s \in StepsWithin(Whole)
    PROVE  HasEvidence(s.source, s.target)
<1>1. /\ s \in AccountSteps \ Overlooked
      /\ s.source \in Whole \cup {Internet} /\ s.target \in Whole \cup {Internet}
      /\ \A v \in s.via : v \in Whole \cup {Internet}
  BY DEF StepsWithin
<1>2. Internet \notin Resources /\ None # Internet
  BY AccountAssumption
<1>3. s.source # s.target
  BY <1>1, KindOfStep
<1>4. ASSUME NEW r \in Resources, NEW ctx \in Context, Opens(r, ctx), IsGranted(r),
             s = Step(Internet, r, {})
      PROVE  HasEvidence(s.source, s.target)
  <2>1. s.source = Internet /\ s.target = r
    BY <1>4 DEF Step
  <2>2. r \in Whole \cap Resources
    BY <1>1, <1>2, <2>1
  <2>3. QED
    BY <1>4, <2>1, <2>2, ExposureIsEdge
<1>5. ASSUME NEW x \in Resources, NEW y \in Resources, NEW h \in Config[y].groups,
             LetIn(x, h), s = Step(x, y, {h})
      PROVE  HasEvidence(s.source, s.target)
  <2>1. s.source = x /\ s.target = y /\ h \in s.via
    BY <1>5 DEF Step
  <2>2. h \in Resources
    BY ConfigIs
  <2>3. QED
    BY <1>1, <1>2, <1>3, <1>5, <2>1, <2>2, RuleIsEdge
<1>6. ASSUME NEW x \in Resources, NEW g \in Config[x].groups, Type(x) # "LAMBDA",
             s = Step(x, g, {})
      PROVE  HasEvidence(s.source, s.target)
  <2>1. s.source = x /\ s.target = g
    BY <1>6 DEF Step
  <2>2. QED
    BY <1>1, <1>2, <1>6, <2>1, OwnEdges
<1>7. ASSUME NEW x \in Resources, Type(x) # "VOLUME", Config[x].part # None,
             s = Step(Config[x].part, x, {})
      PROVE  HasEvidence(s.source, s.target)
  <2>1. s.source = Config[x].part /\ s.target = x
    BY <1>7 DEF Step
  <2>2. QED
    BY <1>1, <1>2, <1>7, <2>1, OwnEdges
<1>8. ASSUME NEW r \in Resources, Config[r].key # <<>>, Encrypted(r) # None,
             Last(Config[r].key) \notin DOMAIN AliasOf, s = KeyStep(r)
      PROVE  HasEvidence(s.source, s.target)
  <2>1. s.source = Encrypted(r) /\ s.target = Last(Config[r].key)
    BY <1>8 DEF KeyStep, Step, KeyBehind
  <2>2. r \in s.via \/ r = s.source
    BY <1>8 DEF KeyStep, Step, Encrypted
  <2>3. r \in Whole
    BY <1>1, <1>2, <2>2
  <2>4. QED
    BY <1>8, <2>1, <2>3, OwnEdges
<1>9. ASSUME NEW x \in Resources, RoleUsed(x) \in Resources,
             s = Step(x, RoleUsed(x), {Config[x].role} \cap DOMAIN RoleOf)
      PROVE  HasEvidence(s.source, s.target)
  <2>1. /\ s.source = x /\ s.target = RoleUsed(x)
        /\ s.via = {Config[x].role} \cap DOMAIN RoleOf
    BY <1>9 DEF Step
  <2>2. x \in Whole /\ RoleUsed(x) \in Whole
    BY <1>1, <1>2, <1>9, <2>1
  <2>3. Config[x].role \in DOMAIN RoleOf => record.mapped
    <3>1. ASSUME Config[x].role \in DOMAIN RoleOf PROVE record.mapped
      <4>1. /\ Config[x].role \in Whole \cup {Internet}
            /\ Config[x].role \notin Resources \cup {Internet}
        BY <1>1, <2>1, <3>1, PipelineAssumption
      <4>2. QED
        BY <4>1, WholeAre
    <3>2. QED
      BY <3>1
  <2>4. QED
    BY <2>1, <2>2, <2>3, ServiceIsEdge
<1>10. ASSUME NEW x \in Resources \cup {Internet}, NEW y \in Roles,
              IsNamed(x, y) \/ PassesPlainly(x, y), s = Step(x, y, {})
       PROVE  HasEvidence(s.source, s.target)
  <2>1. s.source = x /\ s.target = y /\ x # y
    BY <1>3, <1>10 DEF Step
  <2>2. y \in Whole /\ y \in Resources
    BY <1>1, <1>2, <1>10, <2>1, RolesAre
  <2>3. \A q \in Roles : Type(q) # "VOLUME"
    BY DEF Roles
  <2>4. y \in Ids \cap Roles
    BY <2>2, <2>3, WholeIs
  <2>5. CASE IsNamed(x, y)
    BY <2>1, <2>4, <2>5, AssumeIsEdge
  <2>6. CASE PassesPlainly(x, y)
    <3>1. x \in Roles
      BY <2>6 DEF PassesPlainly, OwnPolicies
    <3>2. x \in Whole /\ x \in Resources
      BY <1>1, <1>2, <2>1, <3>1, RolesAre
    <3>3. x \in Ids \cap Roles
      BY <2>3, <3>1, <3>2, WholeIs
    <3>4. QED
      BY <2>1, <2>4, <2>6, <3>3, PassIsEdge
  <2>7. QED
    BY <1>10, <2>5, <2>6
<1>11. QED
  BY <1>1, <1>4, <1>5, <1>6, <1>7, <1>8, <1>9, <1>10, KindOfStep

(* A step from the Internet to what is no role leads to what is open.      *)
LEMMA ExposureOf ==
    ASSUME NEW r \in Resources \ Roles, NEW s \in AccountSteps \ Overlooked,
           s = Step(Internet, r, {})
    PROVE  \E ctx : Opens(r, ctx) /\ IsGranted(r)
<1>1. s.source = Internet /\ s.target = r
  BY DEF Step
<1>2. Internet \notin Resources /\ None # Internet
  BY AccountAssumption
<1>3. \A x, y, via : s = Step(x, y, via) => x = Internet /\ y = r
  BY <1>1 DEF Step
<1>4. ASSUME NEW x \in Resources, NEW y, NEW via PROVE s # Step(x, y, via)
  BY <1>2, <1>3
<1>5. ASSUME NEW q \in Resources PROVE s # KeyStep(q) /\ s # Step(Config[q].part, q, {})
  <2>1. Encrypted(q) # Internet /\ Config[q].part # Internet
    BY <1>2, ConfigIs DEF Encrypted
  <2>2. QED
    BY <1>3, <2>1 DEF KeyStep
<1>6. ASSUME NEW x \in Resources \cup {Internet}, NEW y \in Roles PROVE s # Step(x, y, {})
  BY <1>3
<1>7. \/ \E q \in Resources, ctx \in Context :
            Opens(q, ctx) /\ IsGranted(q) /\ s = Step(Internet, q, {})
      \/ \E x \in Resources : \E y, via : s = Step(x, y, via)
      \/ \E q \in Resources : s = KeyStep(q) \/ s = Step(Config[q].part, q, {})
      \/ \E x \in Resources \cup {Internet}, y \in Roles : s = Step(x, y, {})
  <2>1. CASE \E q \in Resources, ctx \in Context :
                Opens(q, ctx) /\ IsGranted(q) /\ s = Step(Internet, q, {})
    BY <2>1
  <2>2. CASE \E x \in Resources, y \in Resources : \E h \in Config[y].groups :
                LetIn(x, h) /\ s = Step(x, y, {h})
    BY <2>2
  <2>3. CASE \E x \in Resources : \E g \in Config[x].groups :
                Type(x) # "LAMBDA" /\ s = Step(x, g, {})
    BY <2>3
  <2>4. CASE \E x \in Resources :
                Type(x) # "VOLUME" /\ Config[x].part # None /\ s = Step(Config[x].part, x, {})
    BY <2>4
  <2>5. CASE \E q \in Resources :
                /\ Config[q].key # <<>> /\ Encrypted(q) # None
                /\ Last(Config[q].key) \notin DOMAIN AliasOf /\ s = KeyStep(q)
    BY <2>5
  <2>6. CASE \E x \in Resources :
                /\ RoleUsed(x) \in Resources
                /\ s = Step(x, RoleUsed(x), {Config[x].role} \cap DOMAIN RoleOf)
    BY <2>6
  <2>7. CASE \E x \in Resources \cup {Internet}, y \in Roles :
                (IsNamed(x, y) \/ PassesPlainly(x, y)) /\ s = Step(x, y, {})
    BY <2>7
  <2>8. QED
    BY <2>1, <2>2, <2>3, <2>4, <2>5, <2>6, <2>7, KindOfStep
<1>8. QED
  BY <1>3, <1>4, <1>5, <1>6, <1>7

(* An open resource that was read whole is where the engine starts.        *)
LEMMA OriginIsEntry ==
    ASSUME PipelineInv, record.stage = "saved", NEW e \in Origins(Whole)
    PROVE  e \in Entries
<1> DEFINE open == {r \in (Whole \cap Resources) \ Roles :
                      Step(Internet, r, {}) \in AccountSteps \ Overlooked}
<1>1. e \in open \/ (e = Internet /\ \E r \in open : Type(r) # "S3")
  BY DEF Origins
<1>2. ASSUME NEW r \in open
      PROVE  /\ r \in Whole /\ r \in Resources /\ AssetOf(r, {}).id = r /\ AssetOf(r, {}).public
             /\ Type(r) \in {"LAMBDA", "S3", "EC2", "RDS"}
             /\ Type(r) # "S3" => Rel(Internet, r, "EXPOSED_TO", 10) \in EdgesOf(r, {})
  <2>1. \E ctx : Opens(r, ctx) /\ IsGranted(r)
    BY ExposureOf
  <2>2. QED
    BY <2>1, OpenIsSeen
<1> HIDE DEF open
<1>3. CASE e \in open
  <2> DEFINE a == AssetOf(e, {})
  <2>1. a \in ToSet(assets) /\ a.id = e /\ a.public
    BY <1>2, <1>3, WholeIs
  <2> HIDE DEF a
  <2>2. QED
    BY <2>1 DEF Entries
<1>4. ASSUME e = Internet, NEW r \in open, Type(r) # "S3"
      PROVE  e \in Entries
  <2> DEFINE v == Rel(Internet, r, "EXPOSED_TO", 10)
  <2>1. v \in rels /\ CollectedBy(r) \notin errors
    BY <1>2, <1>4, WholeIs
  <2>2. v.source = Internet /\ v.target = r
    BY DEF Rel
  <2> HIDE DEF v
  <2>3. HasInternet
    BY <1>4, <2>1, <2>2 DEF PipelineInv, SeenInv
  <2>4. QED
    BY <1>4, <2>3, HasInternetIs DEF Entries
<1>5. QED
  BY <1>1, <1>3, <1>4

(* No edge leads out of the account, so that its ends are finitely many.   *)
LEMMA HeadsAreNodes ==
    ASSUME PipelineInv, NEW mapped \in BOOLEAN, NEW g \in GP!BuildsOf(Evidence(mapped))
    PROVE  IsFiniteSet(GP!Heads(g))
<1>1. ASSUME NEW e \in rels \cup iamRels, NEW v, v = Graph!Resolve(Evidenced(e), mapped)
      PROVE  v.target \in Nodes
  <2>1. v.target = e.target \/ (e.target \in DOMAIN RoleOf /\ v.target = RoleOf[e.target])
    BY <1>1, ResolvedIs
  <2>2. e.target \in Nodes
    <3>1. CASE e \in rels
      BY <3>1, ConfigIs DEF PipelineInv, RealInv, EdgeIsReal, Nodes
    <3>2. CASE e \in iamRels
      BY <3>2, RolesAre DEF PipelineInv, RealInv, IamEdgeIsReal, Nodes
    <3>3. QED
      BY <3>1, <3>2
  <2>3. QED
    BY <2>1, <2>2, PipelineAssumption, RolesAre DEF Nodes
<1>2. ASSUME NEW pair \in DOMAIN g PROVE pair[2] \in Nodes
  <2>1. g[pair] \in Evidence(mapped) /\ GP!PairOf(g[pair]) = pair
    BY GraphIsOne, GP!BuildsOfIs
  <2>2. pair[2] = g[pair].target
    BY <2>1 DEF GP!PairOf
  <2>3. QED
    BY <1>1, <2>1, <2>2 DEF Evidence
<1>3. GP!Heads(g) \in SUBSET Nodes
  BY <1>2 DEF GP!Heads
<1>4. IsFiniteSet(Nodes)
  <2>1. IsFiniteSet(Resources)
    BY DiscoveryAssumption
  <2>2. IsFiniteSet((Resources \cup {Internet}) \cup {"profile"})
    BY <2>1, FS_AddElement
  <2>3. IsFiniteSet(DOMAIN AliasOf)
    BY AccountAssumption
  <2>4. Nodes = ((Resources \cup {Internet}) \cup {"profile"}) \cup DOMAIN AliasOf
    BY DEF Nodes
  <2>5. QED
    BY <2>2, <2>3, <2>4, FS_Union
<1>5. QED
  BY <1>3, <1>4, FS_Subset

LEMMA SameWalks ==
    /\ \A g, e : Graph!WalksFrom(g, e) = GP!WalksFrom(g, e)
    /\ \A p : Graph!Ends(p) = GP!Ends(p) /\ Graph!Hops(p) = GP!Hops(p) /\ Last(p) = GP!Last(p)
BY DEF Graph!WalksFrom, GP!WalksFrom, Graph!SeqOf, GP!SeqOf, Graph!Follows, GP!Follows,
       Graph!IsInjective, GP!IsInjective, Graph!Ends, GP!Ends, Graph!Hops, GP!Hops,
       Graph!Last, GP!Last, Last

(* A target that under some conditions can be reached from an open         *)
(* resource through what was read whole, by steps that are not Overlooked, *)
(* is reported, by a path at most as long: every such step is an edge of   *)
(* the scan, so the way is a walk of the graph, and of the walks between   *)
(* two ends the engine takes some, the shortest.                           *)
THEOREM ReachableAlwaysReported == Spec => []ReachableIsReported
<1> DEFINE pairs == {<<s.source, s.target>> : s \in StepsWithin(Whole)}
           steps == [pair \in pairs |-> TRUE]
           T == Graph!Targets(AllIds, record.jewels)
<1>1. ASSUME PipelineInv, record.stage = "saved", NEW e \in Origins(Whole),
             NEW way \in Graph!WalksFrom(steps, e), Last(way) \in (Whole \cap T) \ {e}
      PROVE  \E path \in record.paths : /\ Graph!Ends(path.nodes) = Graph!Ends(way)
                                        /\ Graph!Hops(path.nodes) <= Graph!Hops(way)
  <2>1. record.mapped \in BOOLEAN
    BY <1>1 DEF PipelineInv, RecordInv
  <2>2. PICK g \in Graph!BuildsOf(Evidence(record.mapped)) :
           record.paths \in Reports(g, record.jewels)
    BY <1>1 DEF PipelineInv, RecordInv
  <2>3. PICK P \in Graph!FindPaths(g, Entries, T) :
           record.paths = {Graph!Assess(AllIds, g, p, record.jewels) : p \in P}
    BY <2>2 DEF Reports
  <2>4. g \in GP!BuildsOf(Evidence(record.mapped)) /\ P \in GP!FindPaths(g, Entries, T)
    BY SameGraph
  <2>5. DOMAIN steps \subseteq DOMAIN g
    <3>1. DOMAIN g = {GP!PairOf(v) : v \in Evidence(record.mapped)}
      BY <2>4, GraphIsOne, GP!BuildsOfIs
    <3>2. ASSUME NEW s \in StepsWithin(Whole) PROVE <<s.source, s.target>> \in DOMAIN g
      <4>1. PICK v \in Evidence(record.mapped) : v.source = s.source /\ v.target = s.target
        BY <1>1, <3>2, StepIsEdge DEF HasEvidence
      <4>2. GP!PairOf(v) = <<s.source, s.target>>
        BY <4>1 DEF GP!PairOf
      <4>3. QED
        BY <3>1, <4>2
    <3>3. QED
      BY <3>2
  <2> HIDE DEF steps, T
  <2>6. way \in GP!WalksFrom(steps, e)
    BY <1>1, SameWalks
  <2>7. way \in GP!WalksFrom(g, e)
    BY <2>5, <2>6, GraphIsOne, GP!WalkStays
  <2>8. GP!IsFiniteSet(GP!Heads(g))
    <3>1. IsFiniteSet(GP!Heads(g))
      BY <1>1, <2>1, <2>4, HeadsAreNodes
    <3>2. QED
      BY <3>1 DEF IsFiniteSet, GP!IsFiniteSet
  <2>9. e \in Entries
    BY <1>1, OriginIsEntry
  <2>10. GP!Last(way) \in T /\ GP!Last(way) # e
    BY <1>1, SameWalks
  <2>11. \E q \in GP!SameEnds(P, way) : Len(q) <= Len(way)
    BY <2>4, <2>7, <2>8, <2>9, <2>10, GraphIsOne, GP!FoundOrCapped
  <2>12. PICK q \in P : GP!Ends(q) = GP!Ends(way) /\ Len(q) <= Len(way)
    BY <2>11 DEF GP!SameEnds
  <2>13. Len(q) \in Int /\ Len(way) \in Int
    <3>1. PICK d \in Entries : q \in GP!WalksFrom(g, d)
      <4>1. q \in GP!Walks(g, Entries)
        BY <2>4, <2>12, GraphIsOne, GP!FoundIs
      <4>2. QED
        BY <4>1 DEF GP!Walks
    <3>2. GP!Hops(q) \in 0..MaxDepth /\ Len(q) = GP!Hops(q) + 1
      BY <3>1, GraphIsOne, GP!WalkOf
    <3>3. GP!Hops(way) \in 0..MaxDepth /\ Len(way) = GP!Hops(way) + 1
      BY <2>7, GraphIsOne, GP!WalkOf
    <3>4. QED
      BY <3>2, <3>3, GraphIsOne
  <2>14. /\ Graph!Ends(q) = Graph!Ends(way)
         /\ Graph!Hops(q) <= Graph!Hops(way)
    BY <2>12, <2>13, SameWalks DEF Graph!Hops
  <2>15. Graph!Assess(AllIds, g, q, record.jewels).nodes = q
    BY DEF Graph!Assess
  <2>16. QED
    BY <2>3, <2>12, <2>14, <2>15
<1>2. PipelineInv => ReachableIsReported
  BY <1>1 DEF ReachableIsReported
<1>3. QED
  BY <1>2, PipelineInvariant, PTL
=============================================================================
