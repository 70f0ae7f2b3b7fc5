---------------------------- MODULE ScanAnalysis ----------------------------
(***************************************************************************)
(* The analysis of one scan (ScanService.run_scan after the collectors),   *)
(* the record the API reads again from Postgres (backend/db/queries.py)    *)
(* and the what-if simulation on it (engine/attack_paths/whatif.py).       *)
(* The relationships come in the order of the pipeline: the provider's,    *)
(* then the IAM analyzer's, then the network analyzer's; within one, in    *)
(* the order AWS lists the resources.                                      *)
(***************************************************************************)
EXTENDS AttackGraph

CONSTANTS
    Accounts,       \* the relationships each account to scan may give rise to
    JewelChoices,   \* the crown jewels a request may declare
    Removals,       \* the edges a simulation may remove
    MaxRemovals     \* the bound on the edges of one simulation

Candidates == UNION Accounts

(* What trusts a service has that service as its source, a node nothing    *)
(* leads to.                                                               *)
ASSUME AnalysisAssumption ==
    /\ \A r \in Candidates :
        /\ DOMAIN r = {"by", "source", "target", "type", "confidence", "tags"}
        /\ r.by \in {"provider", "iam", "network"}
        /\ r.confidence \in 0..10
        /\ r.type = "TRUSTS" =>
             r.source \notin Resources \cup {Internet} \cup Range(RoleOf)
                               \cup {q.target : q \in Candidates}
    /\ \A removal \in Removals : DOMAIN removal = {"source", "target", "type"}
    /\ MaxRemovals \in Nat

VARIABLES
    stage,      \* how far run_scan is
    assets,     \* scan_result.assets
    rels,       \* scan_result.relationships
    mapped,     \* whether the instance profiles could be listed
    graph,      \* record.graph_engine.graph
    jewels,     \* crown_jewel_ids
    paths,      \* record.attack_paths
    report      \* the answer of the latest simulation

vars == <<stage, assets, rels, mapped, graph, jewels, paths, report>>

NoReport == [asked |-> FALSE]
NoGraph == [pair \in {} |-> {}]

Init ==
    /\ stage = "discover"
    /\ assets = Resources
    /\ rels = <<>>
    /\ mapped = FALSE
    /\ graph = NoGraph
    /\ jewels \in JewelChoices
    /\ paths = {}
    /\ report = NoReport
-----------------------------------------------------------------------------
Rank == [provider |-> 1, iam |-> 2, network |-> 3]

(* One relationship of the pipeline.  The provider adds the asset Internet *)
(* with what it finds exposed itself; the analyzers add no asset.          *)
Discover(r) ==
    /\ stage = "discover"
    /\ r \notin Relations(rels)
    /\ \E account \in Accounts : Relations(rels) \cup {r} \subseteq account
    /\ \A q \in Relations(rels) : Rank[q.by] <= Rank[r.by]
    /\ rels' = Append(rels, r)
    /\ assets' = IF r.by = "provider" /\ r.source = Internet
                 THEN assets \cup {Internet} ELSE assets
    /\ UNCHANGED <<stage, mapped, graph, jewels, paths, report>>

(* collect_instance_profiles, whose failure leaves an empty map, and       *)
(* GraphEngine.build.                                                      *)
BuildGraph(listed) ==
    /\ stage = "discover"
    /\ mapped' = listed
    /\ graph' = Build(rels, listed)
    /\ stage' = "built"
    /\ UNCHANGED <<assets, rels, jewels, paths, report>>

(* find_paths, score, and the record saved with its paths.                 *)
FindAndScore ==
    /\ stage = "built"
    /\ \E P \in FindPaths(graph, EntryNodes(assets), Targets(assets, jewels)) :
          paths' = {Assess(assets, graph, p, jewels) : p \in P}
    /\ stage' = "stored"
    /\ UNCHANGED <<assets, rels, mapped, graph, jewels, report>>

(* rebuild_scan_record: the paths as stored, the graph built anew, without *)
(* the profile map and from rows the query does not order.                 *)
RowGraphs == BuildsOf(Relations(rels))

Reread ==
    /\ stage \in {"stored", "reread"}
    /\ graph' \in RowGraphs
    /\ stage' = "reread"
    /\ UNCHANGED <<assets, rels, mapped, jewels, paths, report>>

-----------------------------------------------------------------------------
(* _apply_removals: an edge goes if its type is the one named.             *)
Without(g, removed) ==
    [pair \in {q \in DOMAIN g :
                 [source |-> q[1], target |-> q[2], type |-> g[q].type] \notin removed}
        |-> g[pair]]

(* simulate, on the record in memory: the graph is built again from its    *)
(* relationships alone, and the targets are the default ones.              *)
SimulatedGraph == Build(rels, FALSE)
Entries == EntryNodes(assets)

Blocked(before, after) == before \ after
StillOpenAll(before, after) == after
StillOpen(before, after) == after \cap before

Simulate(removed) ==
    /\ stage = "stored"
    /\ LET g == SimulatedGraph
           targets == DefaultTargets(assets)
       IN  \E before \in FindPaths(g, Entries, targets),
              after \in FindPaths(Without(g, removed), Entries, targets) :
             report' = [asked |-> TRUE, removed |-> removed,
                        before |-> before, after |-> after,
                        blocked |-> Blocked(before, after),
                        open |-> StillOpen(before, after)]
    /\ UNCHANGED <<stage, assets, rels, mapped, graph, jewels, paths>>

Terminated ==
    /\ stage = "reread"
    /\ UNCHANGED vars

Next ==
    \/ \E r \in Candidates : Discover(r)
    \/ \E listed \in BOOLEAN : BuildGraph(listed)
    \/ FindAndScore
    \/ Reread
    \/ \E removed \in SUBSET Removals :
          Cardinality(removed) <= MaxRemovals /\ Simulate(removed)
    \/ Terminated

Spec == Init /\ [][Next]_vars
-----------------------------------------------------------------------------
Evidence == {Resolve(r, mapped) : r \in Relations(rels)}

(* A reported path is a real one: it starts at the Internet or at a public *)
(* resource, ends at a target, visits no node twice, stays within the      *)
(* depth, each of its hops is a relationship of the scan, and it is called *)
(* "path" only if each hop has evidence at the confidence bar.             *)
PathsAreBacked ==
    \A path \in paths :
        LET p == path.nodes
            of(i) == {r \in Evidence : PairOf(r) = <<p[i], p[i + 1]>>}
        IN  /\ p[1] \in Public \cup {Internet}
            /\ Last(p) \in IF jewels = {} THEN {n \in Resources : TypeOf[n] \in
                                {"RDS", "S3", "SECRET", "KMS_KEY"}} ELSE jewels
            /\ IsInjective(p)
            /\ Hops(p) <= MaxDepth
            /\ \A i \in 1..Hops(p) : path.steps[i] \in of(i)
            /\ path.status = "path" =>
                 \A i \in 1..Hops(p) : \E r \in of(i) : r.confidence >= MinConfidence

(* The ways from e over the relationships themselves, within the depth.    *)
WaysFrom(e) ==
    LET hops == {PairOf(r) : r \in Evidence}
    IN  {<<e>> \o rest : rest \in
            {s \in SeqOf({pair[2] : pair \in hops}, MaxDepth) : Follows(hops, e, s)}}

(* No exposure is missed: whenever a target can be reached from an entry   *)
(* within the depth, a stored path of these ends is at most as long.       *)
ShortestIsFound ==
    stage = "stored" =>
        \A e \in EntryNodes(assets) : \A way \in WaysFrom(e) :
            Last(way) \in Targets(assets, jewels) \ {e} =>
                \E path \in paths : /\ Ends(path.nodes) = Ends(way)
                                   /\ Hops(path.nodes) <= Hops(way)

SeverityIsEarned(path) ==
    /\ path.severity \in {"HIGH", "CRITICAL"} =>
         \E i \in DOMAIN path.steps :
            path.steps[i].type \in {"CAN_PASS_ROLE", "CAN_ASSUME"}
    /\ path.severity = "CRITICAL" =>
         /\ \A i \in DOMAIN path.steps : "Condition" \notin path.steps[i].tags
         /\ \/ Last(path.nodes) \in jewels
            \/ NodeType(assets, Last(path.nodes)) \in {"RDS", "SECRET"}

TechniquesAreEvidenced(path) ==
    LET techniques == MapPath(assets, path)
    IN  \A t \in DOMAIN techniques :
          \/ \E r \in Evidence : /\ r \in ToSet(path.steps)
                                 /\ t \in EdgeTechniques(r.type)
                                 /\ techniques[t] = r.confidence
          \/ /\ t \in {"T1530", "T1552.005"}
             /\ techniques[t] = Last(path.steps).confidence
             /\ TypeOf[Last(path.nodes)] \in {"S3", "RDS", "SECRET"}

(* HIGH needs an escalation step, and CRITICAL one whose path carries no   *)
(* condition, to a declared jewel or a store of data; a technique is       *)
(* stored for a path only with a hop of the scan, or the kind of its       *)
(* target, as evidence, and with its confidence.                           *)
AssessmentIsEvidenced ==
    \A path \in paths : SeverityIsEarned(path) /\ TechniquesAreEvidenced(path)

(* The graph view shows every hop of a reported path, marked at least as   *)
(* severe as the path.  Of a record read again, whose graph is built from  *)
(* rows in any order, it shows the hops the scan had a relationship for:   *)
(* all but those the profile map gave.                                     *)
GraphShowsThePaths ==
    \A path \in paths : \A i \in 1..Hops(path.nodes) :
        LET pair == <<path.nodes[i], path.nodes[i + 1]>>
        IN  (stage = "reread" => \E r \in Relations(rels) : PairOf(r) = pair) =>
                /\ pair \in DOMAIN graph
                /\ EdgeSeverity(graph, paths)[pair] >= SeverityRank[path.severity]

PairsRemoved(removed) ==
    {PairOf(r) : r \in {q \in Relations(rels) :
        [source |-> q.source, target |-> q.target, type |-> q.type] \in removed}}

Uses(p, pairs) == \E i \in 1..Hops(p) : <<p[i], p[i + 1]>> \in pairs

(* A simulation only closes paths, and says so rightly: every path before  *)
(* is either blocked or still open; one still open crosses no edge that    *)
(* alone carried its pair and was removed; a blocked one crosses a removed *)
(* edge, or the cap on the paths of its ends is full of others as short.   *)
SimulationIsSound ==
    report.asked =>
        LET same(p) == {q \in report.after : Ends(q) = Ends(p)}
            alone(pair) == Cardinality({r \in Relations(rels) : PairOf(r) = pair}) = 1
            gone == PairsRemoved(report.removed)
        IN  /\ report.blocked \cup report.open = report.before
            /\ report.blocked \cap report.open = {}
            /\ \A p \in report.after : ~ Uses(p, {pair \in gone : alone(pair)})
            /\ \A p \in report.blocked :
                 \/ Uses(p, gone)
                 \/ /\ Cardinality(same(p)) = MaxPaths
                    /\ \A q \in same(p) : Len(q) <= Len(p)
-----------------------------------------------------------------------------
TypeOK ==
    /\ stage \in {"discover", "built", "stored", "reread"}
    /\ assets \in {Resources, Resources \cup {Internet}}
    /\ rels \in Seq(Candidates)
    /\ mapped \in BOOLEAN
    /\ jewels \in JewelChoices

(* The graph is built of all that was found, the stored paths are what the *)
(* engine may return on that graph, each with its assessment, and no later *)
(* reading or simulation changes them.                                     *)
RecordInv ==
    /\ stage \in {"discover", "built"} => paths = {}
    /\ stage \in {"built", "stored"} => graph = Build(rels, mapped)
    /\ stage = "reread" => graph \in RowGraphs
    /\ stage \in {"stored", "reread"} =>
         \E P \in FindPaths(Build(rels, mapped), EntryNodes(assets), Targets(assets, jewels)) :
            paths = {Assess(assets, Build(rels, mapped), p, jewels) : p \in P}

(* A simulation compares what the engine may return before the removal,    *)
(* and after it, on the relationships of the record.                       *)
ReportInv ==
    report.asked =>
        /\ stage \in {"stored", "reread"}
        /\ report.before \in FindPaths(SimulatedGraph, Entries, DefaultTargets(assets))
        /\ report.after \in FindPaths(Without(SimulatedGraph, report.removed), Entries,
                                       DefaultTargets(assets))
        /\ report.blocked = Blocked(report.before, report.after)
        /\ report.open = StillOpen(report.before, report.after)

AnalysisInv == TypeOK /\ RecordInv /\ ReportInv
=============================================================================
