------------------------- MODULE ScanAnalysisProofs -------------------------
(***************************************************************************)
(* Proofs about ScanAnalysis, for every account, every order in which its  *)
(* relationships come and every bound on the search for paths.             *)
(***************************************************************************)
EXTENDS ScanAnalysis, AttackGraphProofs

(* What a relationship keeps of itself when its profile is resolved.       *)
LEMMA ResolveKeeps ==
    ASSUME NEW r \in Candidates, NEW m \in BOOLEAN
    PROVE  /\ Resolve(r, m).source = r.source
           /\ Resolve(r, m).type = r.type
           /\ Resolve(r, m).target \in {r.target} \cup Range(RoleOf)
           /\ Resolve(r, m).confidence \in 0..10
           /\ ~ m => Resolve(r, m) = r
<1>1. DOMAIN r = {"by", "source", "target", "type", "confidence", "tags"}
  BY AnalysisAssumption
<1>2. CASE r.type = "RUNS_AS" /\ m /\ r.target \in DOMAIN RoleOf
  <2>1. Resolve(r, m) = [r EXCEPT !.target = RoleOf[r.target], !.confidence = 10]
    BY <1>2 DEF Resolve
  <2>2. RoleOf[r.target] \in Range(RoleOf)
    BY <1>2 DEF Range
  <2>3. /\ Resolve(r, m).source = r.source
        /\ Resolve(r, m).type = r.type
        /\ Resolve(r, m).target = RoleOf[r.target]
        /\ Resolve(r, m).confidence = 10
    BY <1>1, <2>1
  <2>4. Resolve(r, m).confidence \in 0..10
    BY <2>3
  <2>5. QED
    BY <1>2, <2>2, <2>3, <2>4
<1>3. CASE ~ (r.type = "RUNS_AS" /\ m /\ r.target \in DOMAIN RoleOf)
  BY <1>3, AnalysisAssumption DEF Resolve
<1>4. QED
  BY <1>2, <1>3

(* The graph has an edge for each pair of the relationships, and that edge *)
(* is one of them.                                                         *)
LEMMA BuildOf ==
    ASSUME NEW seq \in Seq(Candidates), NEW m \in BOOLEAN
    PROVE  /\ DOMAIN Build(seq, m) = {PairOf(Resolve(r, m)) : r \in Relations(seq)}
           /\ \A pair \in DOMAIN Build(seq, m) : \E r \in Relations(seq) :
                 Build(seq, m)[pair] = Resolve(r, m) /\ PairOf(Resolve(r, m)) = pair
           /\ IsFiniteSet(DOMAIN Build(seq, m))
<1> DEFINE all == Resolved(seq, m)
           D == {PairOf(r) : r \in Relations(all)}
<1>1. DOMAIN all = 1..Len(seq) /\ \A i \in 1..Len(seq) : all[i] = Resolve(seq[i], m)
  BY DEF Resolved
<1>2. Build(seq, m) = [pair \in D |-> LastOf(all, pair)]
  BY DEF Build
<1>3. D = {PairOf(Resolve(r, m)) : r \in Relations(seq)}
  <2> HIDE DEF all
  <2>1. Relations(all) = {Resolve(r, m) : r \in Relations(seq)}
    BY <1>1 DEF Relations
  <2>2. QED
    BY <2>1
<1>4. ASSUME NEW pair \in D
      PROVE  \E r \in Relations(seq) :
                Build(seq, m)[pair] = Resolve(r, m) /\ PairOf(Resolve(r, m)) = pair
  <2> DEFINE T == {i \in DOMAIN all : PairOf(all[i]) = pair}
  <2>1. T \in SUBSET Int /\ T # {} /\ \A n \in T : n <= Len(seq)
    <3> HIDE DEF all
    <3>1. QED
      BY <1>1 DEF Relations
  <2>2. Max(T) \in T
    <3> HIDE DEF T
    <3>1. Len(seq) \in Int
      OBVIOUS
    <3>2. QED
      BY <2>1, <3>1, MaxOf
  <2>3. Build(seq, m)[pair] = all[Max(T)]
    BY <1>2 DEF LastOf
  <2> HIDE DEF all
  <2>4. Max(T) \in 1..Len(seq) /\ PairOf(all[Max(T)]) = pair
    BY <1>1, <2>2
  <2>5. seq[Max(T)] \in Relations(seq)
    <3>1. \A k \in 1..Len(seq) : seq[k] \in Relations(seq)
      BY DEF Relations
    <3>2. QED
      BY <2>4, <3>1
  <2>6. QED
    BY <1>1, <2>3, <2>4, <2>5
<1>5. IsFiniteSet(D)
  <2> DEFINE f == [i \in 1..Len(seq) |-> PairOf(all[i])]
  <2>1. f \in Surjection(1..Len(seq), D)
    <3> HIDE DEF all
    <3>1. QED
      BY <1>1 DEF Relations, Surjection
  <2>2. IsFiniteSet(1..Len(seq))
    BY FS_Interval
  <2>3. QED
    BY <2>1, <2>2, FS_Surjection
<1>6. QED
  <2> HIDE DEF D
  <2>1. DOMAIN Build(seq, m) = D
    BY <1>2
  <2>2. QED
    BY <1>3, <1>4, <1>5, <2>1
-----------------------------------------------------------------------------
LEMMA InitInv == Init => AnalysisInv
<1> SUFFICES ASSUME Init PROVE AnalysisInv
  OBVIOUS
<1>1. TypeOK
  <2>1. stage = "discover" /\ assets = Resources /\ rels = <<>> /\ mapped = FALSE
    BY DEF Init
  <2>2. jewels \in JewelChoices
    BY DEF Init
  <2>3. rels \in Seq(Candidates)
    BY <2>1
  <2>4. stage \in {"discover", "built", "stored", "reread"}
    BY <2>1
  <2>5. assets \in {Resources, Resources \cup {Internet}} /\ mapped \in BOOLEAN
    BY <2>1
  <2>6. QED
    BY <2>2, <2>3, <2>4, <2>5 DEF TypeOK
<1>2. RecordInv
  BY DEF Init, RecordInv
<1>3. ReportInv
  BY DEF Init, ReportInv, NoReport
<1>4. QED
  BY <1>1, <1>2, <1>3 DEF AnalysisInv

LEMMA NextInv ==
    ASSUME AnalysisInv, [Next]_vars
    PROVE  AnalysisInv'
<1> USE DEF AnalysisInv
<1>1. ASSUME NEW r \in Candidates, Discover(r) PROVE AnalysisInv'
  <2>1. stage = "discover" /\ stage' = "discover" /\ ~ report.asked /\ report' = report
    BY <1>1 DEF Discover, ReportInv
  <2>2. TypeOK'
    <3>1. rels' \in Seq(Candidates)
      BY <1>1, AppendProperties DEF Discover, TypeOK
    <3>2. assets' \in {Resources, Resources \cup {Internet}}
      BY <1>1 DEF Discover, TypeOK
    <3>3. QED
      BY <1>1, <2>1, <3>1, <3>2 DEF Discover, TypeOK
  <2>3. RecordInv'
    BY <1>1, <2>1 DEF Discover, RecordInv
  <2>4. ReportInv'
    BY <2>1 DEF ReportInv
  <2>5. QED
    BY <2>2, <2>3, <2>4
<1>2. ASSUME NEW listed \in BOOLEAN, BuildGraph(listed) PROVE AnalysisInv'
  <2>1. stage = "discover" /\ stage' = "built" /\ ~ report.asked /\ report' = report
    BY <1>2 DEF BuildGraph, ReportInv
  <2>2. TypeOK'
    BY <1>2 DEF BuildGraph, TypeOK
  <2>3. graph' = Build(rels', mapped') /\ paths' = {}
    BY <1>2, <2>1 DEF BuildGraph, RecordInv
  <2>4. RecordInv'
    BY <2>1, <2>3 DEF RecordInv
  <2>5. ReportInv'
    BY <2>1 DEF ReportInv
  <2>6. QED
    BY <2>2, <2>4, <2>5
<1>3. CASE FindAndScore
  <2>1. /\ stage = "built" /\ stage' = "stored" /\ ~ report.asked /\ report' = report
        /\ UNCHANGED <<assets, rels, mapped, graph, jewels>>
    BY <1>3 DEF FindAndScore, ReportInv
  <2>2. TypeOK'
    BY <2>1 DEF TypeOK
  <2>3. graph = Build(rels, mapped)
    BY <2>1 DEF RecordInv
  <2>4. PICK P \in FindPaths(graph, EntryNodes(assets), Targets(assets, jewels)) :
           paths' = {Assess(assets, graph, p, jewels) : p \in P}
    BY <1>3 DEF FindAndScore
  <2>5. RecordInv'
    BY <2>1, <2>3, <2>4 DEF RecordInv
  <2>6. ReportInv'
    BY <2>1 DEF ReportInv
  <2>7. QED
    BY <2>2, <2>5, <2>6
<1>4. CASE Reread
  <2>1. /\ stage \in {"stored", "reread"} /\ stage' = "reread" /\ graph' \in RowGraphs
        /\ UNCHANGED <<assets, rels, mapped, jewels, paths, report>>
    BY <1>4 DEF Reread
  <2>2. TypeOK'
    BY <2>1 DEF TypeOK
  <2>3. RecordInv'
    BY <2>1 DEF RecordInv, RowGraphs
  <2>4. ReportInv'
    BY <2>1 DEF ReportInv, SimulatedGraph, Entries
  <2>5. QED
    BY <2>2, <2>3, <2>4
<1>5. ASSUME NEW removed \in SUBSET Removals, Simulate(removed) PROVE AnalysisInv'
  <2>1. stage = "stored" /\ UNCHANGED <<stage, assets, rels, mapped, graph, jewels, paths>>
    BY <1>5 DEF Simulate
  <2>2. TypeOK'
    BY <2>1 DEF TypeOK
  <2>3. RecordInv'
    BY <2>1 DEF RecordInv, RowGraphs
  <2>4. PICK before \in FindPaths(SimulatedGraph, Entries, DefaultTargets(assets)),
             after \in FindPaths(Without(SimulatedGraph, removed), Entries,
                                DefaultTargets(assets)) :
           report' = [asked |-> TRUE, removed |-> removed,
                      before |-> before, after |-> after,
                      blocked |-> Blocked(before, after),
                      open |-> StillOpen(before, after)]
    BY <1>5 DEF Simulate
  <2>5. /\ report'.removed = removed /\ report'.before = before /\ report'.after = after
        /\ report'.blocked = Blocked(before, after)
        /\ report'.open = StillOpen(before, after)
    BY <2>4
  <2>6. ReportInv'
    BY <2>1, <2>4, <2>5 DEF ReportInv, SimulatedGraph, Entries
  <2>7. QED
    BY <2>2, <2>3, <2>6
<1>6. CASE UNCHANGED vars
  <2>1. TypeOK'
    BY <1>6 DEF vars, TypeOK
  <2>2. RecordInv'
    BY <1>6 DEF vars, RecordInv, RowGraphs
  <2>3. ReportInv'
    BY <1>6 DEF vars, ReportInv, SimulatedGraph, Entries
  <2>4. QED
    BY <2>1, <2>2, <2>3
<1>7. QED
  BY <1>1, <1>2, <1>3, <1>4, <1>5, <1>6 DEF Next, Terminated

(* In every reachable state the stored paths, and the simulation, are what *)
(* the engine may return on the relationships of the scan.                 *)
THEOREM AnalysisInvariant == Spec => []AnalysisInv
<1>1. AnalysisInv /\ [Next]_vars => AnalysisInv'
  BY NextInv
<1>2. QED
  BY <1>1, InitInv, PTL DEF Spec
-----------------------------------------------------------------------------
(* What there is to know of a stored path.                                 *)
LEMMA StoredPath ==
    ASSUME AnalysisInv, NEW path \in paths
    PROVE  LET p == path.nodes
           IN  /\ stage \in {"stored", "reread"}
               /\ path = Assess(assets, Build(rels, mapped), p, jewels)
               /\ \E e \in EntryNodes(assets) :
                    /\ p \in WalksFrom(Build(rels, mapped), e)
                    /\ Last(p) \in Targets(assets, jewels) \ {e}
<1> USE DEF AnalysisInv
<1> DEFINE g == Build(rels, mapped)
           E == EntryNodes(assets)
           T == Targets(assets, jewels)
<1>1. stage \in {"stored", "reread"}
  BY DEF RecordInv, TypeOK
<1>2. PICK P \in FindPaths(g, E, T) : paths = {Assess(assets, g, p, jewels) : p \in P}
  BY <1>1 DEF RecordInv
<1>3. PICK p \in P : path = Assess(assets, g, p, jewels)
  BY <1>2
<1>4. path.nodes = p
  BY <1>3 DEF Assess
<1>5. PICK e \in E : p \in WalksFrom(g, e)
  BY FoundIs DEF Walks
<1>6. Last(p) \in T /\ Last(p) # e
  <2>1. Ends(p) \in PairsOfEnds(E, T)
    BY FoundIs
  <2>2. Ends(p) = <<e, Last(p)>>
    BY <1>5, WalkOf DEF Ends
  <2>3. QED
    BY <2>1, <2>2 DEF PairsOfEnds
<1>7. QED
  BY <1>1, <1>3, <1>4, <1>5, <1>6

LEMMA StepOf ==
    ASSUME AnalysisInv, NEW path \in paths
    PROVE  LET p == path.nodes
           IN  /\ Hops(p) \in 1..MaxDepth /\ Len(p) = Hops(p) + 1 /\ DOMAIN p = 1..Len(p)
               /\ DOMAIN path.steps = 1..Hops(p) /\ Len(path.steps) = Hops(p)
               /\ \A i \in 1..Hops(p) : \E r \in Relations(rels) :
                    /\ path.steps[i] = Resolve(r, mapped)
                    /\ PairOf(Resolve(r, mapped)) = <<p[i], p[i + 1]>>
<1> DEFINE g == Build(rels, mapped)
           p == path.nodes
<1>1. PICK e \in EntryNodes(assets) :
         p \in WalksFrom(g, e) /\ Last(p) \in Targets(assets, jewels) \ {e}
  BY StoredPath
<1>2. /\ Hops(p) \in 0..MaxDepth /\ Len(p) = Hops(p) + 1 /\ DOMAIN p = 1..Len(p)
      /\ p[1] = e
      /\ \A i \in 1..Hops(p) : <<p[i], p[i + 1]>> \in DOMAIN g
  BY <1>1, WalkOf
<1>3. MaxDepth \in Nat /\ Hops(p) # 0
  BY <1>1, <1>2, GraphAssumption DEF Last
<1>4. path.steps = StepsOf(g, p)
  <2>1. path = Assess(assets, g, p, jewels)
    BY StoredPath
  <2>2. QED
    BY <2>1 DEF Assess
<1>5. \A i \in 1..Hops(p) : path.steps[i] = g[<<p[i], p[i + 1]>>]
  BY <1>4 DEF StepsOf
<1>6. DOMAIN path.steps = 1..Hops(p) /\ Len(path.steps) = Hops(p)
  BY <1>2, <1>3, <1>4 DEF StepsOf
<1>7. rels \in Seq(Candidates) /\ mapped \in BOOLEAN
  BY DEF AnalysisInv, TypeOK
<1>8. \A pair \in DOMAIN g : \E r \in Relations(rels) :
         g[pair] = Resolve(r, mapped) /\ PairOf(Resolve(r, mapped)) = pair
  BY <1>7, BuildOf
<1>9. QED
  <2> HIDE DEF g, p
  <2>1. \A i \in 1..Hops(p) : \E r \in Relations(rels) :
           /\ path.steps[i] = Resolve(r, mapped)
           /\ PairOf(Resolve(r, mapped)) = <<p[i], p[i + 1]>>
    BY <1>2, <1>5, <1>8
  <2>2. Hops(p) \in 1..MaxDepth
    BY <1>2, <1>3
  <2>3. QED
    BY <1>2, <1>6, <2>1, <2>2 DEF p
-----------------------------------------------------------------------------
LEMMA EntriesAreOpen ==
    ASSUME TypeOK, NEW e \in EntryNodes(assets)
    PROVE  e \in Public \cup {Internet}
<1>1. e \in assets /\ (NodeType(assets, e) = "INTERNET" \/ e \in Public)
  BY DEF EntryNodes, IsEntry
<1>2. CASE NodeType(assets, e) = "INTERNET" /\ e # Internet
  <2>1. e \in Resources
    BY <1>1, <1>2 DEF TypeOK
  <2>2. NodeType(assets, e) = TypeOf[e]
    BY <1>1, <1>2 DEF NodeType
  <2>3. QED
    BY <1>2, <2>1, <2>2, GraphAssumption
<1>3. QED
  BY <1>1, <1>2

LEMMA TargetsAreData ==
    ASSUME TypeOK, NEW t \in Targets(assets, jewels)
    PROVE  t \in IF jewels = {} THEN {n \in Resources : TypeOf[n] \in
                                       {"RDS", "S3", "SECRET", "KMS_KEY"}} ELSE jewels
<1>1. CASE jewels # {}
  BY <1>1 DEF Targets
<1>2. CASE jewels = {}
  <2>1. t \in assets /\ NodeType(assets, t) \in {"RDS", "S3", "SECRET", "KMS_KEY"}
    BY <1>2 DEF Targets, DefaultTargets
  <2>2. t # Internet /\ NodeType(assets, t) = TypeOf[t]
    BY <2>1 DEF NodeType
  <2>3. t \in Resources
    BY <2>1, <2>2 DEF TypeOK
  <2>4. QED
    BY <1>2, <2>1, <2>2, <2>3
<1>3. QED
  BY <1>1, <1>2

LEMMA Backed == AnalysisInv => PathsAreBacked
<1> SUFFICES ASSUME AnalysisInv, NEW path \in paths
             PROVE  LET p == path.nodes
                        of(i) == {r \in Evidence : PairOf(r) = <<p[i], p[i + 1]>>}
                    IN  /\ p[1] \in Public \cup {Internet}
                        /\ Last(p) \in IF jewels = {} THEN {n \in Resources : TypeOf[n] \in
                                            {"RDS", "S3", "SECRET", "KMS_KEY"}} ELSE jewels
                        /\ IsInjective(p)
                        /\ Hops(p) <= MaxDepth
                        /\ \A i \in 1..Hops(p) : path.steps[i] \in of(i)
                        /\ path.status = "path" =>
                             \A i \in 1..Hops(p) : \E r \in of(i) :
                                r.confidence >= MinConfidence
  BY DEF PathsAreBacked
<1> DEFINE p == path.nodes
           of(i) == {r \in Evidence : PairOf(r) = <<p[i], p[i + 1]>>}
<1>1. TypeOK
  BY DEF AnalysisInv
<1>2. PICK e \in EntryNodes(assets) :
         /\ p \in WalksFrom(Build(rels, mapped), e)
         /\ Last(p) \in Targets(assets, jewels) \ {e}
  BY StoredPath
<1>3. p[1] = e /\ IsInjective(p)
  BY <1>2, WalkOf
<1>4. p[1] \in Public \cup {Internet}
  BY <1>1, <1>3, EntriesAreOpen
<1>5. Last(p) \in IF jewels = {} THEN {n \in Resources : TypeOf[n] \in
                       {"RDS", "S3", "SECRET", "KMS_KEY"}} ELSE jewels
  BY <1>1, <1>2, TargetsAreData
<1>6. Hops(p) \in 1..MaxDepth /\ DOMAIN path.steps = 1..Hops(p)
  BY StepOf
<1>7. \A i \in 1..Hops(p) : path.steps[i] \in of(i)
  <2>1. ASSUME NEW i \in 1..Hops(p) PROVE path.steps[i] \in of(i)
    <3>1. PICK r \in Relations(rels) :
             /\ path.steps[i] = Resolve(r, mapped)
             /\ PairOf(Resolve(r, mapped)) = <<p[i], p[i + 1]>>
      BY StepOf
    <3>2. QED
      BY <3>1 DEF Evidence
  <2>2. QED
    BY <2>1
<1>8. ASSUME path.status = "path", NEW i \in 1..Hops(p)
      PROVE  path.steps[i].confidence >= MinConfidence
  <2>1. path.status = StatusOf(path.steps)
    <3>1. path = Assess(assets, Build(rels, mapped), p, jewels)
      BY StoredPath
    <3>2. QED
      BY <3>1 DEF Assess
  <2>2. QED
    BY <1>6, <1>8, <2>1 DEF StatusOf
<1>9. Hops(p) <= MaxDepth
  BY <1>6, GraphAssumption
<1>10. QED
  <2> HIDE DEF p, of
  <2>1. path.status = "path" =>
           \A i \in 1..Hops(p) : \E r \in of(i) : r.confidence >= MinConfidence
    BY <1>7, <1>8
  <2>2. QED
    BY <1>3, <1>4, <1>5, <1>7, <1>9, <2>1 DEF p, of

(* A reported path is a real one, of the scan's own evidence.              *)
THEOREM PathsAlwaysBacked == Spec => []PathsAreBacked
BY AnalysisInvariant, Backed, PTL
-----------------------------------------------------------------------------
LEMMA Found == AnalysisInv => ShortestIsFound
<1> SUFFICES ASSUME AnalysisInv, stage = "stored",
                    NEW e \in EntryNodes(assets), NEW way \in WaysFrom(e),
                    Last(way) \in Targets(assets, jewels) \ {e}
             PROVE  \E path \in paths : /\ Ends(path.nodes) = Ends(way)
                                        /\ Hops(path.nodes) <= Hops(way)
  BY DEF ShortestIsFound
<1> DEFINE g == Build(rels, mapped)
           hops == {PairOf(r) : r \in Evidence}
           N == {pair[2] : pair \in hops}
<1>1. rels \in Seq(Candidates) /\ mapped \in BOOLEAN /\ MaxDepth \in Nat
  BY GraphAssumption DEF AnalysisInv, TypeOK
<1>2. DOMAIN g = hops /\ IsFiniteSet(DOMAIN g)
  <2>1. hops = {PairOf(Resolve(r, mapped)) : r \in Relations(rels)}
    BY DEF Evidence
  <2>2. QED
    BY <1>1, <2>1, BuildOf
<1> HIDE DEF g
<1>3. PICK rest \in SeqOf(N, MaxDepth) : way = From(e, rest) /\ Follows(hops, e, rest)
  BY DEF WaysFrom, From
<1> HIDE DEF N, hops
<1>4. /\ rest \in Seq(N) /\ Len(rest) \in 0..MaxDepth
      /\ way[1] = e /\ Hops(way) = Len(rest) /\ Len(way) = Len(rest) + 1
  BY <1>1, <1>3, Prefixed
<1>5. \A i \in 1..Hops(way) : <<way[i], way[i + 1]>> \in DOMAIN g
  BY <1>1, <1>2, <1>3, FollowsHops
<1>6. way \in Seq({e} \cup N)
  <2>1. <<e>> \in Seq({e} \cup N) /\ rest \in Seq({e} \cup N)
    BY <1>4, SeqMonotonic
  <2>2. QED
    BY <1>3, <2>1, ConcatProperties DEF From
<1>7. PICK w \in WalksFrom(g, e) : Last(w) = Last(way) /\ Len(w) <= Len(way)
  <2>1. Hops(way) \in 0..MaxDepth
    BY <1>4
  <2>2. QED
    BY <1>4, <1>5, <1>6, <2>1, WayMakesWalk
<1>8. w[1] = e
  BY WalkOf
<1>9. PICK P \in FindPaths(g, EntryNodes(assets), Targets(assets, jewels)) :
         paths = {Assess(assets, g, p, jewels) : p \in P}
  BY DEF AnalysisInv, RecordInv, g
<1>10. PICK q \in P : Ends(q) = Ends(w) /\ Len(q) <= Len(w)
  <2>1. Last(w) \in Targets(assets, jewels) /\ Last(w) # e
    BY <1>7
  <2>2. \E q \in SameEnds(P, w) : Len(q) <= Len(w)
    BY <1>2, <2>1, HeadsFinite, FoundOrCapped
  <2>3. QED
    BY <2>2 DEF SameEnds
<1>11. Ends(q) = Ends(way)
  BY <1>4, <1>7, <1>8, <1>10 DEF Ends
<1>12. Hops(q) <= Hops(way)
  <2>1. PICK d \in EntryNodes(assets) : q \in WalksFrom(g, d)
    BY FoundIs DEF Walks
  <2>2. Len(q) \in Int /\ Len(w) \in Int
    <3>1. Hops(q) \in 0..MaxDepth /\ Len(q) = Hops(q) + 1
      BY <2>1, WalkOf
    <3>2. Hops(w) \in 0..MaxDepth /\ Len(w) = Hops(w) + 1
      BY WalkOf
    <3>3. QED
      BY <3>1, <3>2
  <2>3. QED
    BY <1>4, <1>7, <1>10, <2>2 DEF Hops
<1>13. Assess(assets, g, q, jewels) \in paths /\ Assess(assets, g, q, jewels).nodes = q
  BY <1>9 DEF Assess
<1>14. QED
  BY <1>11, <1>12, <1>13

(* No exposure within the depth is missed, and none by a longer path than  *)
(* the shortest there is.                                                  *)
THEOREM ShortestAlwaysFound == Spec => []ShortestIsFound
BY AnalysisInvariant, Found, PTL
-----------------------------------------------------------------------------
(* Nothing leads to a service, so no path crosses what trusts one.         *)
LEMMA NeverCrosses ==
    ASSUME AnalysisInv, NEW path \in paths
    PROVE  ~ CrossesAccounts(path.steps)
<1> DEFINE p == path.nodes
<1>1. rels \in Seq(Candidates) /\ mapped \in BOOLEAN /\ TypeOK
  BY DEF AnalysisInv, TypeOK
<1>2. \A r \in Relations(rels) : r \in Candidates
  BY <1>1, ElementOfSeq DEF Relations
<1>3. /\ Hops(p) \in 1..MaxDepth /\ DOMAIN path.steps = 1..Hops(p)
      /\ \A i \in 1..Hops(p) : \E r \in Relations(rels) :
            /\ path.steps[i] = Resolve(r, mapped)
            /\ PairOf(Resolve(r, mapped)) = <<p[i], p[i + 1]>>
  BY StepOf
<1> HIDE DEF p
<1>4. ASSUME NEW i \in 1..Hops(p), path.steps[i].type = "TRUSTS"
      PROVE  FALSE
  <2>1. PICK r \in Candidates : r.type = "TRUSTS" /\ r.source = p[i]
    <3>1. PICK r \in Relations(rels) :
             /\ path.steps[i] = Resolve(r, mapped)
             /\ PairOf(Resolve(r, mapped)) = <<p[i], p[i + 1]>>
      BY <1>3
    <3>2. r \in Candidates
      BY <1>2
    <3>3. Resolve(r, mapped).type = r.type /\ Resolve(r, mapped).source = r.source
      BY <1>1, <3>2, ResolveKeeps
    <3>4. Resolve(r, mapped).source = p[i]
      BY <3>1 DEF PairOf
    <3>5. QED
      BY <1>4, <3>1, <3>2, <3>3, <3>4
  <2>2. p[i] \notin Resources \cup {Internet} \cup Range(RoleOf) \cup {q.target : q \in Candidates}
    BY <2>1, AnalysisAssumption
  <2>3. CASE i = 1
    <3>1. PICK e \in EntryNodes(assets) : p \in WalksFrom(Build(rels, mapped), e)
      BY StoredPath DEF p
    <3>2. p[1] = e
      BY <3>1, WalkOf
    <3>3. e \in Public \cup {Internet}
      BY <1>1, EntriesAreOpen
    <3>4. QED
      BY <2>2, <2>3, <3>2, <3>3, GraphAssumption
  <2>4. CASE i # 1
    <3>1. i - 1 \in 1..Hops(p) /\ (i - 1) + 1 = i
      BY <1>3, <2>4
    <3>2. PICK q \in Relations(rels) : PairOf(Resolve(q, mapped)) = <<p[i - 1], p[(i - 1) + 1]>>
      BY <1>3, <3>1
    <3>3. Resolve(q, mapped).target = p[i]
      BY <3>1, <3>2 DEF PairOf
    <3>4. q \in Candidates
      BY <1>2
    <3>5. p[i] \in {q.target} \cup Range(RoleOf)
      BY <1>1, <3>3, <3>4, ResolveKeeps
    <3>6. QED
      BY <2>2, <3>4, <3>5
  <2>5. QED
    BY <2>3, <2>4
<1>5. QED
  BY <1>3, <1>4 DEF CrossesAccounts

LEMMA Earned ==
    ASSUME AnalysisInv, NEW path \in paths
    PROVE  SeverityIsEarned(path)
<1> DEFINE p == path.nodes
           steps == path.steps
           score == Score(assets, p, steps, jewels)
<1>1. Len(steps) \in Nat \ {0}
  <2>1. Hops(p) \in 1..MaxDepth /\ Len(steps) = Hops(p)
    BY StepOf
  <2>2. QED
    BY <2>1
<1>2. path.severity = Band(score)
  <2>1. path = Assess(assets, Build(rels, mapped), p, jewels)
    BY StoredPath
  <2>2. QED
    BY <2>1 DEF Assess
<1>3. /\ score \in Int
      /\ score >= 60 => Escalates(steps)
      /\ score >= 80 =>
           /\ ~ Conditioned(steps)
           /\ Last(p) \in jewels \/ NodeType(assets, Last(p)) \in {"RDS", "SECRET"}
  BY <1>1, NeverCrosses, ScoreOf
<1> HIDE DEF score
<1>4. path.severity \in {"HIGH", "CRITICAL"} => score >= 60
  BY <1>2, <1>3 DEF Band
<1>5. path.severity = "CRITICAL" => score >= 80
  BY <1>2, <1>3 DEF Band
<1>6. QED
  BY <1>3, <1>4, <1>5 DEF SeverityIsEarned, Escalates, EscalationTypes, Conditioned

LEMMA Evidenced ==
    ASSUME AnalysisInv, NEW path \in paths
    PROVE  TechniquesAreEvidenced(path)
<1> DEFINE p == path.nodes
           steps == path.steps
           N == Len(steps)
           at(t) == {i \in 1..N : t \in EdgeTechniques(steps[i].type)}
           byTarget == TargetTechniques(NodeType(assets, Last(p)))
           techniques == MapPath(assets, path)
<1>1. N \in Nat \ {0} /\ N = Hops(p) /\ DOMAIN steps = 1..N
  <2>1. Hops(p) \in 1..MaxDepth /\ Len(steps) = Hops(p) /\ DOMAIN steps = 1..Hops(p)
    BY StepOf
  <2>2. QED
    BY <2>1
<1>2. \A i \in 1..N : steps[i] \in Evidence /\ steps[i] \in ToSet(steps)
  <2>1. \A i \in 1..N : \E r \in Relations(rels) : steps[i] = Resolve(r, mapped)
    BY <1>1, StepOf
  <2>2. QED
    BY <1>1, <2>1 DEF Evidence, ToSet
<1>3. \A t \in DOMAIN techniques :
         /\ techniques[t] = steps[IF at(t) = {} THEN N ELSE Min(at(t))].confidence
         /\ at(t) # {} \/ t \in byTarget
  BY DEF MapPath
<1> HIDE DEF techniques
<1>4. ASSUME NEW t \in DOMAIN techniques, at(t) # {}
      PROVE  \E r \in Evidence : /\ r \in ToSet(steps)
                                 /\ t \in EdgeTechniques(r.type)
                                 /\ techniques[t] = r.confidence
  <2>1. Min(at(t)) \in at(t)
    <3>1. at(t) \in SUBSET Nat
      OBVIOUS
    <3> HIDE DEF at
    <3>2. QED
      BY <1>4, <3>1, MinOf
  <2>2. techniques[t] = steps[Min(at(t))].confidence
    <3> HIDE DEF at
    <3>1. QED
      BY <1>3, <1>4
  <2>3. QED
    BY <1>2, <2>1, <2>2
<1>5. ASSUME NEW t \in DOMAIN techniques, at(t) = {}
      PROVE  /\ t \in {"T1530", "T1552.005"}
             /\ techniques[t] = Last(steps).confidence
             /\ TypeOf[Last(p)] \in {"S3", "RDS", "SECRET"}
  <2>1. techniques[t] = steps[N].confidence /\ t \in byTarget
    <3> HIDE DEF at, byTarget
    <3>1. QED
      BY <1>3, <1>5
  <2>2. /\ NodeType(assets, Last(p)) \in {"S3", "RDS", "SECRET"}
        /\ t \in {"T1530", "T1552.005"}
    BY <2>1 DEF TargetTechniques
  <2>3. NodeType(assets, Last(p)) = TypeOf[Last(p)]
    BY <2>2 DEF NodeType
  <2>4. QED
    BY <2>1, <2>2, <2>3 DEF Last
<1>6. QED
  <2> HIDE DEF at
  <2>1. QED
    BY <1>4, <1>5 DEF TechniquesAreEvidenced, techniques

(* Severities are earned by escalation steps, techniques by evidence.      *)
THEOREM AssessmentAlwaysEvidenced == Spec => []AssessmentIsEvidenced
<1>1. AnalysisInv => AssessmentIsEvidenced
  BY Earned, Evidenced DEF AssessmentIsEvidenced
<1>2. QED
  BY <1>1, AnalysisInvariant, PTL
-----------------------------------------------------------------------------
LEMMA RankOf ==
    ASSUME AnalysisInv, NEW path \in paths
    PROVE  SeverityRank[path.severity] \in 0..3
<1>1. path.severity = Band(path.score)
  <2>1. path = Assess(assets, Build(rels, mapped), path.nodes, jewels)
    BY StoredPath
  <2>2. QED
    BY <2>1 DEF Assess
<1>2. path.severity \in {"LOW", "MEDIUM", "HIGH", "CRITICAL"}
  BY <1>1 DEF Band
<1>3. QED
  BY <1>2 DEF SeverityRank

LEMMA SeverityShown ==
    ASSUME AnalysisInv, NEW path \in paths, NEW pair \in DOMAIN graph, OnPath(path, pair)
    PROVE  EdgeSeverity(graph, paths)[pair] >= SeverityRank[path.severity]
<1> DEFINE over == {q \in paths : OnPath(q, pair)}
           T == {-1} \cup {SeverityRank[q.severity] : q \in over}
<1>1. T \in SUBSET Int /\ T # {} /\ \A n \in T : n <= 3
  <2>1. \A q \in over : SeverityRank[q.severity] \in 0..3
    BY RankOf
  <2> HIDE DEF over
  <2>2. QED
    BY <2>1
<1>2. SeverityRank[path.severity] \in T
  OBVIOUS
<1>3. Max(T) >= SeverityRank[path.severity]
  <2> HIDE DEF T
  <2>1. PICK bound \in Int : \A n \in T : n <= bound
    BY <1>1
  <2>2. \A n \in T : Max(T) >= n
    BY <1>1, <2>1, MaxOf
  <2>3. QED
    BY <1>2, <2>2
<1>4. EdgeSeverity(graph, paths)[pair] = Max(T)
  BY DEF EdgeSeverity
<1>5. QED
  <2> HIDE DEF T
  <2>1. QED
    BY <1>3, <1>4

LEMMA Shown == AnalysisInv => GraphShowsThePaths
<1> SUFFICES ASSUME AnalysisInv, NEW path \in paths, NEW i \in 1..Hops(path.nodes),
                    NEW pair, pair = <<path.nodes[i], path.nodes[i + 1]>>,
                    stage = "reread" => \E r \in Relations(rels) : PairOf(r) = pair
             PROVE  /\ pair \in DOMAIN graph
                    /\ EdgeSeverity(graph, paths)[pair] >= SeverityRank[path.severity]
  BY DEF GraphShowsThePaths
<1>1. stage \in {"stored", "reread"}
  BY StoredPath
<1>2. pair \in DOMAIN graph
  <2>1. CASE stage = "stored"
    <3>1. PICK e \in EntryNodes(assets) : path.nodes \in WalksFrom(Build(rels, mapped), e)
      BY StoredPath
    <3>2. pair \in DOMAIN Build(rels, mapped)
      BY <3>1, WalkOf
    <3>3. QED
      BY <2>1, <3>2 DEF AnalysisInv, RecordInv
  <2>2. CASE stage = "reread"
    <3>1. DOMAIN graph = {PairOf(r) : r \in Relations(rels)}
      BY <2>2, BuildsOfIs DEF AnalysisInv, RecordInv, RowGraphs
    <3>2. QED
      BY <2>2, <3>1
  <2>3. QED
    BY <1>1, <2>1, <2>2
<1>3. OnPath(path, pair)
  <2>1. DOMAIN path.steps = 1..Hops(path.nodes)
    BY StepOf
  <2>2. QED
    BY <2>1 DEF OnPath
<1>4. QED
  BY <1>2, <1>3, SeverityShown

(* The graph view shows every hop of a stored path, at least as severe as  *)
(* the path, also of a record read again.                                  *)
THEOREM GraphAlwaysShows == Spec => []GraphShowsThePaths
BY AnalysisInvariant, Shown, PTL
-----------------------------------------------------------------------------
LEMMA SimulatedGraphOf ==
    ASSUME TypeOK
    PROVE  /\ IsFiniteSet(DOMAIN SimulatedGraph)
           /\ \A pair \in DOMAIN SimulatedGraph :
                SimulatedGraph[pair] \in Relations(rels) /\ PairOf(SimulatedGraph[pair]) = pair
<1>1. rels \in Seq(Candidates) /\ FALSE \in BOOLEAN
  BY DEF TypeOK
<1>2. \A r \in Relations(rels) : Resolve(r, FALSE) = r
  <2>1. \A r \in Relations(rels) : r \in Candidates
    BY <1>1, ElementOfSeq DEF Relations
  <2>2. QED
    BY <1>1, <2>1, ResolveKeeps
<1>3. QED
  BY <1>1, <1>2, BuildOf DEF SimulatedGraph

LEMMA WithoutOf ==
    ASSUME NEW g, NEW removed, NEW pair \in DOMAIN g
    PROVE  /\ DOMAIN Without(g, removed) \subseteq DOMAIN g
           /\ pair \in DOMAIN Without(g, removed) <=>
                [source |-> pair[1], target |-> pair[2], type |-> g[pair].type] \notin removed
BY DEF Without

(* An edge that alone carried its pair, and is removed, is not in the graph*)
(* any more.                                                               *)
LEMMA GoneIsGone ==
    ASSUME TypeOK, NEW removed, NEW pair \in PairsRemoved(removed),
           Cardinality({r \in Relations(rels) : PairOf(r) = pair}) = 1
    PROVE  pair \notin DOMAIN Without(SimulatedGraph, removed)
<1> DEFINE g == SimulatedGraph
           same == {r \in Relations(rels) : PairOf(r) = pair}
<1>1. SUFFICES ASSUME pair \in DOMAIN Without(g, removed) PROVE FALSE
  OBVIOUS
<1>2. PICK r \in Relations(rels) :
         /\ [source |-> r.source, target |-> r.target, type |-> r.type] \in removed
         /\ pair = PairOf(r)
  BY DEF PairsRemoved
<1>3. pair \in DOMAIN g
  BY <1>1 DEF Without
<1>4. g[pair] \in same /\ r \in same
  BY <1>2, <1>3, SimulatedGraphOf
<1>5. IsFiniteSet(same)
  <2> DEFINE f == [i \in 1..Len(rels) |-> rels[i]]
  <2>1. rels \in Seq(Candidates)
    BY DEF TypeOK
  <2>2. f \in Surjection(1..Len(rels), Relations(rels))
    BY <2>1 DEF Surjection, Relations
  <2>3. IsFiniteSet(Relations(rels))
    <3> HIDE DEF f
    <3>1. IsFiniteSet(1..Len(rels))
      BY <2>1, FS_Interval
    <3>2. QED
      BY <2>2, <3>1, FS_Surjection
  <2>4. same \in SUBSET Relations(rels)
    OBVIOUS
  <2>5. QED
    <3> HIDE DEF same
    <3>1. QED
      BY <2>3, <2>4, FS_Subset
<1>6. g[pair] = r
  <2>1. \E x : same = {x}
    <3> HIDE DEF same
    <3>1. Cardinality(same) = 1
      BY DEF same
    <3>2. QED
      BY <1>5, <3>1, FS_Singleton
  <2>2. QED
    <3> HIDE DEF same, g
    <3>1. QED
      BY <1>4, <2>1
<1>7. pair[1] = r.source /\ pair[2] = r.target
  BY <1>2 DEF PairOf
<1>8. [source |-> pair[1], target |-> pair[2], type |-> g[pair].type] \notin removed
  <2> HIDE DEF g
  <2>1. QED
    BY <1>1, <1>3, WithoutOf
<1>9. QED
  <2> HIDE DEF g
  <2>1. QED
    BY <1>2, <1>6, <1>7, <1>8

(* A walk that uses no removed edge is a walk after the removal.           *)
LEMMA StillWalk ==
    ASSUME TypeOK, NEW removed, NEW e, NEW w \in WalksFrom(SimulatedGraph, e),
           ~ Uses(w, PairsRemoved(removed))
    PROVE  w \in WalksFrom(Without(SimulatedGraph, removed), e)
<1> DEFINE g == SimulatedGraph
           h == Without(g, removed)
<1>1. /\ Hops(w) \in 0..MaxDepth /\ Len(w) = Hops(w) + 1 /\ DOMAIN w = 1..Len(w)
      /\ w[1] = e /\ IsInjective(w)
      /\ \A i \in 1..Hops(w) : <<w[i], w[i + 1]>> \in DOMAIN g
  BY WalkOf
<1>2. ASSUME NEW i \in 1..Hops(w) PROVE <<w[i], w[i + 1]>> \in DOMAIN h
  <2> DEFINE pair == <<w[i], w[i + 1]>>
  <2>1. pair \in DOMAIN g
    BY <1>1
  <2>2. PICK r \in Relations(rels) : g[pair] = r /\ PairOf(r) = pair
    BY <2>1, SimulatedGraphOf
  <2>3. [source |-> r.source, target |-> r.target, type |-> r.type] \notin removed
    <3>1. pair \notin PairsRemoved(removed)
      BY DEF Uses
    <3>2. QED
      BY <2>2, <3>1 DEF PairsRemoved
  <2>4. r.source = pair[1] /\ r.target = pair[2]
    BY <2>2 DEF PairOf
  <2>5. [source |-> pair[1], target |-> pair[2], type |-> g[pair].type] \notin removed
    <3> HIDE DEF g, pair
    <3>1. QED
      BY <2>2, <2>3, <2>4
  <2>6. QED
    <3> HIDE DEF g, pair
    <3>1. QED
      BY <2>1, <2>5, WithoutOf DEF pair
<1>3. PICK rest \in SeqOf(Beyond(g, e), MaxDepth) : w = From(e, rest)
  BY DEF WalksFrom, Beyond, From
<1>4. w \in Seq({e} \cup Beyond(g, e))
  <2>1. rest \in Seq(Beyond(g, e))
    BY <1>3, Prefixed, GraphAssumption
  <2>2. <<e>> \in Seq({e} \cup Beyond(g, e)) /\ rest \in Seq({e} \cup Beyond(g, e))
    BY <2>1, SeqMonotonic
  <2>3. QED
    BY <1>3, <2>2, ConcatProperties DEF From
<1>5. QED
  <2> HIDE DEF g, h
  <2>1. w \in WalksFrom(h, e)
    BY <1>1, <1>2, <1>4, IsWalk
  <2>2. QED
    BY <2>1 DEF g, h

LEMMA Simulated == AnalysisInv => SimulationIsSound
<1> SUFFICES ASSUME AnalysisInv, report.asked
             PROVE  LET same(p) == {q \in report.after : Ends(q) = Ends(p)}
                        alone(pair) == Cardinality({r \in Relations(rels) : PairOf(r) = pair}) = 1
                        gone == PairsRemoved(report.removed)
                    IN  /\ report.blocked \cup report.open = report.before
                        /\ report.blocked \cap report.open = {}
                        /\ \A p \in report.after : ~ Uses(p, {pair \in gone : alone(pair)})
                        /\ \A p \in report.blocked :
                             \/ Uses(p, gone)
                             \/ /\ Cardinality(same(p)) = MaxPaths
                                /\ \A q \in same(p) : Len(q) <= Len(p)
  BY DEF SimulationIsSound
<1> DEFINE removed == report.removed
           gone == PairsRemoved(removed)
           alone == {pair \in gone :
                       Cardinality({r \in Relations(rels) : PairOf(r) = pair}) = 1}
           T == DefaultTargets(assets)
           h == Without(SimulatedGraph, removed)
<1>1. /\ report.before \in FindPaths(SimulatedGraph, Entries, T)
      /\ report.after \in FindPaths(h, Entries, T)
      /\ report.blocked = report.before \ report.after
      /\ report.open = report.after \cap report.before
  BY DEF AnalysisInv, ReportInv, Blocked, StillOpen
<1>2. TypeOK
  BY DEF AnalysisInv
<1>3. ASSUME NEW p \in report.after PROVE ~ Uses(p, alone)
  <2>1. PICK e \in Entries : p \in WalksFrom(h, e)
    <3> HIDE DEF h
    <3>1. QED
      BY <1>1, FoundIs DEF Walks
  <2>2. \A i \in 1..Hops(p) : <<p[i], p[i + 1]>> \in DOMAIN h
    <3> HIDE DEF h
    <3>1. QED
      BY <2>1, WalkOf
  <2>3. \A pair \in alone : pair \notin DOMAIN h
    BY <1>2, GoneIsGone
  <2>4. QED
    <3> HIDE DEF h, alone
    <3>1. QED
      BY <2>2, <2>3 DEF Uses
<1>4. ASSUME NEW p \in report.blocked, ~ Uses(p, gone)
      PROVE  /\ Cardinality(SameEnds(report.after, p)) = MaxPaths
             /\ \A q \in SameEnds(report.after, p) : Len(q) <= Len(p)
  <2>1. p \in report.before /\ p \notin report.after
    BY <1>1
  <2>2. p \in Walks(SimulatedGraph, Entries) /\ Ends(p) \in PairsOfEnds(Entries, T)
    BY <1>1, <2>1, FoundIs
  <2>3. PICK e \in Entries : p \in WalksFrom(SimulatedGraph, e)
    BY <2>2 DEF Walks
  <2>4. Last(p) \in T /\ Last(p) # e
    <3>1. Ends(p) = <<e, Last(p)>>
      BY <2>3, WalkOf DEF Ends
    <3>2. QED
      BY <2>2, <3>1 DEF PairsOfEnds
  <2>5. p \in WalksFrom(h, e)
    BY <1>2, <1>4, <2>3, StillWalk
  <2>6. IsFiniteSet(DOMAIN h)
    <3>1. DOMAIN h \in SUBSET DOMAIN SimulatedGraph
      BY DEF Without
    <3> HIDE DEF h
    <3>2. QED
      BY <1>2, <3>1, SimulatedGraphOf, FS_Subset
  <2>7. QED
    <3> HIDE DEF h, T
    <3>1. QED
      BY <1>1, <2>1, <2>3, <2>4, <2>5, <2>6, HeadsFinite, FoundOrCapped
<1>5. /\ report.blocked \cup report.open = report.before
      /\ report.blocked \cap report.open = {}
  BY <1>1
<1>6. QED
  BY <1>3, <1>4, <1>5 DEF SameEnds

(* What a simulation calls blocked and what it calls open are the pairs it *)
(* found before, and none is both; a path still open crosses no pair whose *)
(* only relationship was removed; and a blocked one crosses a removed pair *)
(* or belongs to ends whose cap is full of others as short.                *)
THEOREM SimulationAlwaysSound == Spec => []SimulationIsSound
BY AnalysisInvariant, Simulated, PTL
=============================================================================
