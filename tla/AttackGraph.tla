---------------------------- MODULE AttackGraph ----------------------------
(***************************************************************************)
(* The deterministic part of a scan: the graph of GraphEngine              *)
(* (engine/graph/builder.py), the paths of AttackPathEngine                *)
(* (engine/attack_paths/engine.py), the score of RiskEngine                *)
(* (engine/risk/engine.py), the techniques of MitreMapper                  *)
(* (mitre/mapper.py) and the severities of backend/graph_export.py.        *)
(*                                                                         *)
(* A relationship is a record [source, target, type, confidence, tags,     *)
(* by]: the confidence in tenths, tags what the score looks for in the     *)
(* text of the evidence, by the analyzer that emits it.  A graph is a      *)
(* function from pairs of nodes to the one relationship a DiGraph keeps.   *)
(***************************************************************************)
EXTENDS Integers, FiniteSets, Sequences, SequencesExt, FiniteSetsExt

CONSTANTS
    Internet,       \* "aws:internet"
    Resources,      \* the other assets of the account
    TypeOf,         \* their node types
    Public,         \* those flagged public
    RoleOf,         \* the role of each instance profile, by its placeholder id
    MaxDepth,       \* DEFAULT_MAX_DEPTH
    MaxPaths,       \* DEFAULT_MAX_PATHS_PER_PAIR
    MinConfidence   \* DEFAULT_MIN_EDGE_CONFIDENCE, in tenths

ASSUME GraphAssumption ==
    /\ Internet \notin Resources
    /\ DOMAIN TypeOf = Resources
    /\ \A n \in Resources : TypeOf[n] \notin {"INTERNET", "EXTERNAL"}
    /\ Public \subseteq Resources
    /\ DOMAIN RoleOf \cap (Resources \cup {Internet}) = {}
    /\ MaxDepth \in Nat
    /\ MaxPaths \in Nat \ {0}
    /\ MinConfidence \in 0..10

PairOf(r) == <<r.source, r.target>>
Relations(rels) == {rels[i] : i \in DOMAIN rels}
-----------------------------------------------------------------------------
(* _resolve_instance_profile_edges, for one relationship.                  *)
Resolve(r, mapped) ==
    IF r.type = "RUNS_AS" /\ mapped /\ r.target \in DOMAIN RoleOf
    THEN [r EXCEPT !.target = RoleOf[r.target], !.confidence = 10]
    ELSE r

Resolved(rels, mapped) == [i \in DOMAIN rels |-> Resolve(rels[i], mapped)]

(* add_edge replaces what the pair had: the last relationship stays.       *)
LastOf(rels, pair) ==
    rels[Max({i \in DOMAIN rels : PairOf(rels[i]) = pair})]

Build(rels, mapped) ==
    LET all == Resolved(rels, mapped)
    IN  [pair \in {PairOf(r) : r \in Relations(all)} |-> LastOf(all, pair)]

(* The ways to pick one of choices[x] for every x, if each x has some.     *)
Picks(choices) ==
    LET open == {x \in DOMAIN choices : Cardinality(choices[x]) > 1}
        ways == {f \in [open -> UNION {choices[x] : x \in open}] :
                   \A x \in DOMAIN choices :
                      choices[x] # {} /\ (x \in open => f[x] \in choices[x])}
    IN  {[x \in DOMAIN choices |-> IF x \in open THEN f[x] ELSE CHOOSE y \in choices[x] : TRUE] :
            f \in ways}

(* The graphs build may make of a set of relationships in any order.       *)
BuildsOf(edges) ==
    Picks([pair \in {PairOf(e) : e \in edges} |-> {e \in edges : PairOf(e) = pair}])

(* The type a node has in the graph; a placeholder is EXTERNAL.            *)
NodeType(assets, n) ==
    IF n \notin assets THEN "EXTERNAL"
    ELSE IF n = Internet THEN "INTERNET" ELSE TypeOf[n]

IsEntry(assets, n) ==
    n \in assets /\ (NodeType(assets, n) = "INTERNET" \/ n \in Public)

EntryNodes(assets) == {n \in assets : IsEntry(assets, n)}
-----------------------------------------------------------------------------
DefaultTargets(assets) ==
    {n \in assets : NodeType(assets, n) \in {"RDS", "S3", "SECRET", "KMS_KEY"}}

Targets(assets, jewels) ==
    IF jewels = {} THEN DefaultTargets(assets) ELSE jewels

Hops(p) == Len(p) - 1
Ends(p) == <<p[1], Last(p)>>

(* The nodes of rest follow one another, and the first the entry, by hops. *)
Follows(hops, entry, rest) ==
    \A i \in DOMAIN rest : <<IF i = 1 THEN entry ELSE rest[i - 1], rest[i]>> \in hops

WalksShort(graph, entry) ==
    LET beyond == {pair[2] : pair \in DOMAIN graph} \ {entry}
    IN  {<<entry>> \o rest : rest \in
            {s \in SeqOf(beyond, MaxDepth - 1) : Follows(DOMAIN graph, entry, s) /\ IsInjective(s)}}

(* The simple paths from entry of at most MaxDepth hops, <<entry>> too.    *)
WalksFrom(graph, entry) ==
    LET beyond == {pair[2] : pair \in DOMAIN graph} \ {entry}
    IN  {<<entry>> \o rest : rest \in
            {s \in SeqOf(beyond, MaxDepth) : Follows(DOMAIN graph, entry, s) /\ IsInjective(s)}}

(* What islice takes of shortest_simple_paths, up to the first path beyond *)
(* the depth: paths come by their length, in no fixed order within one.    *)
Shortest(P) ==
    {S \in kSubset(Min({MaxPaths, Cardinality(P)}), P) :
        \A p \in S, q \in P \ S : Len(p) <= Len(q)}

PairsOfEnds(entries, targets) ==
    {pair \in entries \X targets : pair[1] # pair[2]}

(* The outcomes of find_paths; paths of different ends are never equal, so *)
(* _deduplicate drops nothing.                                             *)
FindPaths(graph, entries, targets) ==
    LET walks == UNION {WalksFrom(graph, e) : e \in entries}
        joined == {Ends(p) : p \in walks} \cap PairsOfEnds(entries, targets)
        choices == [pair \in joined |-> Shortest({p \in walks : Ends(p) = pair})]
    IN  {UNION {pick[pair] : pair \in joined} : pick \in Picks(choices)}

StepsOf(graph, p) == [i \in 1..Hops(p) |-> graph[<<p[i], p[i + 1]>>]]

StatusOfAny(steps) ==
    IF \E i \in DOMAIN steps : steps[i].confidence >= MinConfidence
    THEN "path" ELSE "potential_path"

StatusOf(steps) ==
    IF \A i \in DOMAIN steps : steps[i].confidence >= MinConfidence
    THEN "path" ELSE "potential_path"
-----------------------------------------------------------------------------
(* RiskEngine.score: the factors are multiples of a tenth, the weights of  *)
(* five, so that the score is an integer.                                  *)
EscalationTypes == {"CAN_PASS_ROLE", "CAN_ASSUME"}
Escalates(steps) == \E i \in DOMAIN steps : steps[i].type \in EscalationTypes
ConditionedMisspelt(steps) == \E i \in DOMAIN steps : "condition" \in steps[i].tags
Conditioned(steps) == \E i \in DOMAIN steps : "Condition" \in steps[i].tags

CrossesAccounts(steps) ==
    \E i \in DOMAIN steps : steps[i].type = "TRUSTS" /\ "account" \in steps[i].tags

CrownPart(assets, target, jewels) ==
    CASE target \in jewels -> 20
      [] target \notin jewels /\ NodeType(assets, target) \in {"RDS", "SECRET", "KMS_KEY"} -> 12
      [] OTHER -> 6

ShortPartOfLast(steps) == Max({0, 10 - (Len(steps) - 1)})
ShortPart(steps) == Max({0, 10 - Len(steps)})

Points(condition, weight) == IF condition THEN weight ELSE 0

Score(assets, p, steps, jewels) ==
    Points(IsEntry(assets, p[1]), 25)
      + CrownPart(assets, Last(p), jewels)
      + Points(Escalates(steps), 20)
      + Points(CrossesAccounts(steps), 10)
      + ShortPart(steps)
      + Points(Escalates(steps) /\ ~ Conditioned(steps), 10)
      + Points(NodeType(assets, Last(p)) \in {"S3", "RDS", "SECRET"}, 5)

Band(score) ==
    CASE score >= 80 -> "CRITICAL"
      [] score >= 60 /\ score < 80 -> "HIGH"
      [] score >= 35 /\ score < 60 -> "MEDIUM"
      [] OTHER -> "LOW"

(* An AttackPath with its RiskAssessment, as run_scan scores it.           *)
Assess(assets, graph, p, jewels) ==
    LET steps == StepsOf(graph, p)
        score == Score(assets, p, steps, jewels)
    IN  [nodes |-> p, steps |-> steps, status |-> StatusOf(steps),
         score |-> score, severity |-> Band(score)]
-----------------------------------------------------------------------------
EdgeTechniques(type) ==
    CASE type = "EXPOSED_TO" -> {"T1190", "T1133"}
      [] type \in {"CAN_ASSUME", "TRUSTS"} -> {"T1078.004"}
      [] type = "CAN_PASS_ROLE" -> {"T1098.003"}
      [] OTHER -> {}

TargetTechniques(type) ==
    CASE type \in {"S3", "RDS"} -> {"T1530"}
      [] type = "SECRET" -> {"T1552.005"}
      [] OTHER -> {}

(* map_path: a technique once, with the confidence of the first step that  *)
(* exhibits it; those of the target take the last step's.                  *)
MapPath(assets, path) ==
    LET N == Len(path.steps)
        at(t) == {i \in 1..N : t \in EdgeTechniques(path.steps[i].type)}
        byTarget == TargetTechniques(NodeType(assets, Last(path.nodes)))
        byEdges == UNION {EdgeTechniques(path.steps[i].type) : i \in 1..N}
    IN  [t \in byEdges \cup byTarget |->
            path.steps[IF at(t) = {} THEN N ELSE Min(at(t))].confidence]
-----------------------------------------------------------------------------
(* build_graph_payload: the worst severity of a stored path over an edge.  *)
SeverityRank == [LOW |-> 0, MEDIUM |-> 1, HIGH |-> 2, CRITICAL |-> 3]

OnPathButLast(path, pair) ==
    \E i \in 1..(Len(path.steps) - 1) :
        <<path.nodes[i], path.nodes[i + 1]>> = pair

OnPath(path, pair) ==
    \E i \in DOMAIN path.steps : <<path.nodes[i], path.nodes[i + 1]>> = pair

EdgeSeverity(graph, paths) ==
    [pair \in DOMAIN graph |->
        Max({-1} \cup {SeverityRank[path.severity] :
                            path \in {q \in paths : OnPath(q, pair)}})]
=============================================================================
