--------------------------- MODULE AnalyzerProofs ---------------------------
(***************************************************************************)
(* Proofs about the two analyses of what a scan has: about IamAnalyzer and *)
(* the rules it is built from, for any actions, resources, patterns,       *)
(* roles, policies and trusts; and about AIAnalysis, for any number of     *)
(* requests, paths, models, faults and restarts.                           *)
(***************************************************************************)
EXTENDS IamAnalyzer, AIAnalysis, TLAPS

(*-------------------------------------------------------------------------*)
(* Policies (engine/iam/policy_eval.py).                                   *)

(* What a pattern matches as it is written it also matches in lower case.  *)
LEMMA WrittenMatches ==
    ASSUME NEW patterns, NEW value, NamesAsWritten(patterns, value)
    PROVE  MatchesAny(patterns, value)
  BY PolicyAssumption DEF NamesAsWritten, MatchesAny, Matches

(* A statement that evaluate() counts applies in AWS, unless it is taken   *)
(* too widely; and one that applies is counted, unless too narrowly.       *)
LEMMA ReadingOf ==
    ASSUME NEW s \in Policies, NEW met, NEW action, NEW resource
    PROVE  /\ StatementGrants(s, action, resource) /\ ~ TooWide(met, s, action, resource)
                => Applies(met, s, action, resource)
           /\ Applies(met, s, action, resource) /\ ~ TooNarrow(s, action, resource)
                => StatementGrants(s, action, resource)
<1>. ActionsOf(s) # {} /\ ResourcesOf(s) # {}
  BY IamAssumption
<1>1. ASSUME ~ HasNotKey(s)
      PROVE  s.action # {} /\ s.resource # {} /\ ActionsOf(s) = s.action /\ ResourcesOf(s) = s.resource
  BY <1>1 DEF HasNotKey, ActionsOf, ResourcesOf
<1>2. StatementGrants(s, action, resource) /\ ~ TooWide(met, s, action, resource)
        => Applies(met, s, action, resource)
  BY <1>1 DEF StatementGrants, TooWide, Applies
<1>3. Applies(met, s, action, resource) /\ ~ TooNarrow(s, action, resource)
        => StatementGrants(s, action, resource)
  BY <1>1, WrittenMatches DEF StatementGrants, TooNarrow, Applies
<1>4. QED
  BY <1>2, <1>3

(* Where a document is read as allowing what it does not, or the opposite, *)
(* one of its statements is read otherwise than it is meant.               *)
LEMMA DocumentIsMisread ==
    ASSUME NEW document \in SUBSET Policies, NEW met, NEW action, NEW x
    PROVE  /\ Permits(document, action, x) /\ ~ AwsAllows(met, document, action, x) =>
                \E s \in document : \/ s.effect = "Allow" /\ TooWide(met, s, action, x)
                                    \/ s.effect = "Deny" /\ TooNarrow(s, action, x)
           /\ AwsAllows(met, document, action, x) /\ ~ Permits(document, action, x) =>
                \E s \in document : \/ s.effect = "Deny" /\ TooWide(met, s, action, x)
                                    \/ s.effect = "Allow" /\ TooNarrow(s, action, x)
<1>1. \A s \in document : s \in Policies /\ s.effect \in {"Allow", "Deny"}
  BY IamAssumption DEF Statement
<1>2. ASSUME Permits(document, action, x), ~ AwsAllows(met, document, action, x)
      PROVE  \E s \in document : \/ s.effect = "Allow" /\ TooWide(met, s, action, x)
                                 \/ s.effect = "Deny" /\ TooNarrow(s, action, x)
  <2>1. PICK s \in document : s.effect = "Allow" /\ StatementGrants(s, action, x)
    BY <1>2 DEF Permits, Grants
  <2>2. CASE Applies(met, s, action, x)
    <3>1. PICK t \in document : Applies(met, t, action, x) /\ t.effect # "Allow"
      BY <1>2, <2>1, <2>2 DEF AwsAllows
    <3>2. t.effect = "Deny" /\ ~ StatementGrants(t, action, x)
      BY <1>1, <1>2, <3>1 DEF Permits, Grants
    <3>3. QED
      BY <1>1, <3>1, <3>2, ReadingOf
  <2>3. CASE ~ Applies(met, s, action, x)
    BY <1>1, <2>1, <2>3, ReadingOf
  <2>4. QED
    BY <2>2, <2>3
<1>3. ASSUME AwsAllows(met, document, action, x), ~ Permits(document, action, x)
      PROVE  \E s \in document : \/ s.effect = "Deny" /\ TooWide(met, s, action, x)
                                 \/ s.effect = "Allow" /\ TooNarrow(s, action, x)
  <2>1. PICK s \in document : s.effect = "Allow" /\ Applies(met, s, action, x)
    BY <1>3 DEF AwsAllows
  <2>2. CASE Grants(document, "Deny", action, x)
    <3>1. PICK t \in document : t.effect = "Deny" /\ StatementGrants(t, action, x)
      BY <2>2 DEF Grants
    <3>2. ~ Applies(met, t, action, x)
      BY <1>3, <3>1 DEF AwsAllows
    <3>3. QED
      BY <1>1, <3>1, <3>2, ReadingOf
  <2>3. CASE ~ Grants(document, "Deny", action, x)
    <3>1. ~ StatementGrants(s, action, x)
      BY <1>3, <2>1, <2>3 DEF Permits, Grants
    <3>2. QED
      BY <1>1, <2>1, <3>1, ReadingOf
  <2>4. QED
    BY <2>2, <2>3
<1>4. QED
  BY <1>2, <1>3

(*-------------------------------------------------------------------------*)
(* The analyzer (engine/iam/analyzer.py).                                  *)

(* An edge of iam:PassRole comes of an Allow statement that matches the    *)
(* action and names the role or all of them; and each such has its edge.   *)
LEMMA PassEdgeOf ==
    ASSUME NEW r \in Roles, NEW statements, NEW q \in Roles \ {r}
    PROVE  (\E e \in PassEdges(Roles, r, statements) : e.target = q) <=>
             \E s \in statements : /\ s.effect = "Allow"
                                   /\ MatchesAny(ActionsOf(s), PassRole)
                                   /\ IsWildcardResource(s) \/ ArnOf[q] \in ResourcesOf(s)
<1>1. ASSUME NEW e \in PassEdges(Roles, r, statements), e.target = q
      PROVE  \E s \in statements : /\ s.effect = "Allow"
                                   /\ MatchesAny(ActionsOf(s), PassRole)
                                   /\ IsWildcardResource(s) \/ ArnOf[q] \in ResourcesOf(s)
  <2>1. PICK s \in statements :
           /\ s.effect = "Allow"
           /\ MatchesAny(ActionsOf(s), PassRole)
           /\ e \in {Rel(r, p, "CAN_PASS_ROLE", PassConfidence(s)) : p \in Passable(Roles, r, s)}
    BY DEF PassEdges, Allowing
  <2>2. PICK p \in Passable(Roles, r, s) : e = Rel(r, p, "CAN_PASS_ROLE", PassConfidence(s))
    BY <2>1
  <2>3. p = q
    BY <1>1, <2>2 DEF Rel
  <2>4. QED
    BY <2>1, <2>2, <2>3 DEF Passable
<1>2. ASSUME NEW s \in statements, s.effect = "Allow", MatchesAny(ActionsOf(s), PassRole),
             IsWildcardResource(s) \/ ArnOf[q] \in ResourcesOf(s)
      PROVE  \E e \in PassEdges(Roles, r, statements) : e.target = q
  <2>1. q \in Passable(Roles, r, s) /\ s \in Allowing(statements)
    BY <1>2 DEF Passable, Allowing
  <2>2. Rel(r, q, "CAN_PASS_ROLE", PassConfidence(s)) \in PassEdges(Roles, r, statements)
    BY <1>2, <2>1 DEF PassEdges
  <2>3. Rel(r, q, "CAN_PASS_ROLE", PassConfidence(s)).target = q
    BY DEF Rel
  <2>4. QED
    BY <2>2, <2>3
<1>3. QED
  BY <1>1, <1>2

(* A dangerous action that one statement grants is found.                  *)
LEMMA DangerIsFound ==
    ASSUME NEW r, NEW statements, NEW d \in Dangerous, NEW s \in statements,
           s.effect = "Allow", MatchesAny(ActionsOf(s), d)
    PROVE  \E f \in PolicyFindings(r, statements) :
              f.role = r /\ f.category = "dangerous_action" /\ f.action \in {d, "*"}
<1>1. PICK a \in {d, "*"} : a \in FindDangerousActions(s)
  <2>1. CASE "*" \in ActionsOf(s)
    BY <2>1 DEF FindDangerousActions
  <2>2. CASE "*" \notin ActionsOf(s)
    <3>1. MatchesAny(ActionsOf(s) \ {"*"}, d)
      BY <2>2 DEF MatchesAny
    <3>2. QED
      BY <3>1 DEF FindDangerousActions
  <2>3. QED
    BY <2>1, <2>2
<1>. DEFINE f == Finding(r, "dangerous_action", "high", a)
<1>2. s \in Allowing(statements)
  BY DEF Allowing
<1>3. f \in PolicyFindings(r, statements)
  BY <1>1, <1>2 DEF PolicyFindings
<1>4. f.role = r /\ f.category = "dangerous_action" /\ f.action = a
  BY DEF Finding
<1>5. QED
  BY <1>1, <1>3, <1>4

(*-------------------------------------------------------------------------*)

LEMMA IamInitInv == IamInit => IamTypeOK /\ AnalyzedInv
  BY DEF IamInit, IamTypeOK, AnalyzedInv, Taken

LEMMA IamNextInv == IamTypeOK /\ AnalyzedInv /\ [IamNext]_iamVars => IamTypeOK' /\ AnalyzedInv'
<1>. SUFFICES ASSUME IamTypeOK, AnalyzedInv, [IamNext]_iamVars PROVE IamTypeOK' /\ AnalyzedInv'
  OBVIOUS
<1>1. ASSUME NEW r \in Roles, NEW s \in Policies, Attach(r, s)
      PROVE  IamTypeOK' /\ AnalyzedInv'
  <2>1. Taken = {} /\ Taken' = {} /\ UNCHANGED <<findings, rels>>
    BY <1>1 DEF Attach, Taken
  <2>2. IamTypeOK'
    BY <1>1 DEF Attach, IamTypeOK
  <2>3. AnalyzedInv'
    BY <2>1 DEF AnalyzedInv
  <2>4. QED
    BY <2>2, <2>3
<1>2. ASSUME NEW r \in Roles, NEW t \in Trusts, Trust(r, t)
      PROVE  IamTypeOK' /\ AnalyzedInv'
  <2>1. Taken = {} /\ Taken' = {} /\ UNCHANGED <<findings, rels>>
    BY <1>2 DEF Trust, Taken
  <2>2. IamTypeOK'
    BY <1>2 DEF Trust, IamTypeOK
  <2>3. AnalyzedInv'
    BY <2>1 DEF AnalyzedInv
  <2>4. QED
    BY <2>2, <2>3
<1>3. ASSUME NEW r \in Roles, AnalyzeRole(r)
      PROVE  IamTypeOK' /\ AnalyzedInv'
  <2>1. /\ findings' = findings \cup PolicyFindings(r, policies[r])
        /\ rels' = rels \cup (TrustEdges(Roles, r, trust[r])
                                \cup PassEdges(Roles, r, policies[r]))
        /\ todo' = todo \ {r}
        /\ UNCHANGED <<policies, trust>>
    BY <1>3 DEF AnalyzeRole
  <2>2. IamTypeOK'
    BY <2>1 DEF IamTypeOK
  <2>3. Taken' = Taken \cup {r}
    BY <2>1 DEF Taken
  <2>4. findings' = UNION {PolicyFindings(q, policies[q]) : q \in Taken'}
    BY <2>1, <2>3 DEF AnalyzedInv
  <2>5. rels' = UNION {TrustEdges(Roles, q, trust[q]) \cup PassEdges(Roles, q, policies[q]) :
                         q \in Taken'}
    BY <2>1, <2>3 DEF AnalyzedInv
  <2>6. QED
    BY <2>1, <2>2, <2>4, <2>5 DEF AnalyzedInv
<1>4. CASE Done \/ UNCHANGED iamVars
  BY <1>4 DEF Done, iamVars, IamTypeOK, AnalyzedInv, Taken
<1>5. QED
  BY <1>1, <1>2, <1>3, <1>4 DEF IamNext

(* Every reachable state has the shape of the account and of the analyzer, *)
(* and satisfies the inductive invariant.                                  *)
THEOREM IamInvariant == IamSpec => [](IamTypeOK /\ AnalyzedInv)
<1>1. QED
  BY IamInitInv, IamNextInv, PTL DEF IamSpec

(* _find_pass_role_edges always has what AWS allows and no more, but for   *)
(* the statements it does not look at or reads otherwise.                  *)
THEOREM PassRoleAlwaysEffective == IamSpec => []PassRoleIsEffective
<1>1. ASSUME IamTypeOK, AnalyzedInv PROVE PassRoleIsEffective
  <2>. DEFINE edge(r, q) == \E e \in rels : /\ e.source = r /\ e.target = q
                                            /\ e.type = "CAN_PASS_ROLE"
              names(s, q) == /\ s.effect = "Allow"
                             /\ MatchesAny(ActionsOf(s), PassRole)
                             /\ IsWildcardResource(s) \/ ArnOf[q] \in ResourcesOf(s)
  <2>1. ASSUME NEW r \in Taken, NEW q \in Roles \ {r}
        PROVE  edge(r, q) <=> \E s \in policies[r] : names(s, q)
    <3>1. r \in Roles
      BY DEF Taken
    <3>2. ASSUME NEW p \in Taken, NEW e \in TrustEdges(Roles, p, trust[p])
          PROVE  e.type # "CAN_PASS_ROLE"
      BY DEF TrustEdges, Rel
    <3>3. ASSUME NEW p \in Taken, NEW e \in PassEdges(Roles, p, policies[p])
          PROVE  e.source = p /\ e.type = "CAN_PASS_ROLE"
      BY DEF PassEdges, Rel
    <3>4. edge(r, q) <=> \E e \in PassEdges(Roles, r, policies[r]) : e.target = q
      BY <1>1, <3>2, <3>3 DEF AnalyzedInv
    <3>5. QED
      BY <3>1, <3>4, PassEdgeOf
  <2>2. ASSUME NEW r \in Taken, NEW q \in Roles \ {r}, NEW s \in policies[r], NEW met \in Met
        PROVE  /\ s \in Policies /\ s.effect \in {"Allow", "Deny"}
               /\ ActionsOf(s) # {} /\ ResourcesOf(s) # {}
               /\ names(s, q) /\ ~ HasNotKey(s) /\ s.conditions \subseteq met
                    => Applies(met, s, PassRole, ArnOf[q])
               /\ Applies(met, s, PassRole, ArnOf[q]) /\ s.effect = "Allow"
                    /\ ~ HasNotKey(s) /\ NamesWhole(s) => names(s, q)
    <3>1. r \in Roles /\ s \in Policies
      BY <1>1 DEF IamTypeOK, Taken
    <3>2. s.effect \in {"Allow", "Deny"} /\ ActionsOf(s) # {} /\ ResourcesOf(s) # {}
      BY <3>1, IamAssumption DEF Statement
    <3>3. ArnOf[q] \in Resources
      BY IamAssumption
    <3>4. /\ <<"*", ArnOf[q]>> \in Matching /\ <<ArnOf[q], ArnOf[q]>> \in Matching
          /\ \A x \in Resources : <<x, ArnOf[q]>> \in Matching => x = ArnOf[q]
      BY <3>3, IamAssumption, PolicyAssumption
    <3>5. ASSUME ~ HasNotKey(s)
          PROVE  /\ s.action # {} /\ s.resource # {}
                 /\ ActionsOf(s) = s.action /\ ResourcesOf(s) = s.resource
      BY <3>2, <3>5 DEF HasNotKey, ActionsOf, ResourcesOf
    <3>6. names(s, q) /\ ~ HasNotKey(s) /\ s.conditions \subseteq met
             => Applies(met, s, PassRole, ArnOf[q])
      BY <3>4, <3>5 DEF Applies, NamesAsWritten, IsWildcardResource
    <3>7. Applies(met, s, PassRole, ArnOf[q]) /\ s.effect = "Allow"
             /\ ~ HasNotKey(s) /\ NamesWhole(s) => names(s, q)
      BY <3>4, <3>5 DEF Applies, NamesAsWritten, NamesWhole, IsWildcardResource
    <3>8. QED
      BY <3>1, <3>2, <3>6, <3>7
  <2>. HIDE DEF edge, names
  <2>3. ASSUME NEW r \in Taken, NEW q \in Roles \ {r}, NEW met \in Met
        PROVE  /\ edge(r, q) /\ ~ AwsAllows(met, policies[r], PassRole, ArnOf[q]) =>
                    \E s \in policies[r] :
                        s.effect = "Deny" \/ HasNotKey(s) \/ ~ s.conditions \subseteq met
               /\ AwsAllows(met, policies[r], PassRole, ArnOf[q]) /\ ~ edge(r, q) =>
                    \E s \in policies[r] :
                        s.effect = "Allow" /\ (HasNotKey(s) \/ ~ NamesWhole(s))
    <3>1. ASSUME edge(r, q), ~ AwsAllows(met, policies[r], PassRole, ArnOf[q])
          PROVE  \E s \in policies[r] :
                     s.effect = "Deny" \/ HasNotKey(s) \/ ~ s.conditions \subseteq met
      <4>1. PICK s \in policies[r] : names(s, q)
        BY <2>1, <3>1
      <4>2. SUFFICES ASSUME Applies(met, s, PassRole, ArnOf[q])
                     PROVE  \E t \in policies[r] : t.effect = "Deny"
        BY <2>2, <4>1
      <4>3. s.effect = "Allow"
        BY <4>1 DEF names
      <4>4. PICK t \in policies[r] : t.effect # "Allow"
        BY <3>1, <4>2, <4>3 DEF AwsAllows
      <4>5. QED
        BY <2>2, <4>4
    <3>2. ASSUME AwsAllows(met, policies[r], PassRole, ArnOf[q]), ~ edge(r, q)
          PROVE  \E s \in policies[r] :
                     s.effect = "Allow" /\ (HasNotKey(s) \/ ~ NamesWhole(s))
      <4>1. PICK s \in policies[r] : s.effect = "Allow" /\ Applies(met, s, PassRole, ArnOf[q])
        BY <3>2 DEF AwsAllows
      <4>2. ~ names(s, q)
        BY <2>1, <3>2
      <4>3. QED
        BY <2>2, <4>1, <4>2
    <3>3. QED
      BY <3>1, <3>2
  <2>4. QED
    BY <2>3 DEF PassRoleIsEffective, edge
<1>2. QED
  BY <1>1, IamInvariant, PTL

(* find_dangerous_actions always has what AWS lets a role do by an Allow   *)
(* statement that says which actions it allows.                            *)
THEOREM DangerAlwaysFlagged == IamSpec => []DangerIsFlagged
<1>1. ASSUME IamTypeOK, AnalyzedInv PROVE DangerIsFlagged
  <2>1. SUFFICES ASSUME NEW r \in Taken, NEW d \in Dangerous, NEW met \in Met,
                        NEW x \in Resources, NEW s \in policies[r],
                        s.effect = "Allow", Applies(met, s, d, x), s.action # {}
                 PROVE  \E f \in findings : /\ f.role = r
                                            /\ f.category = "dangerous_action"
                                            /\ f.action \in {d, "*"}
    BY DEF DangerIsFlagged
  <2>2. MatchesAny(ActionsOf(s), d)
    BY <2>1 DEF Applies, ActionsOf
  <2>3. PICK f \in PolicyFindings(r, policies[r]) :
           f.role = r /\ f.category = "dangerous_action" /\ f.action \in {d, "*"}
    BY <2>1, <2>2, DangerIsFound
  <2>4. f \in findings
    BY <1>1 DEF AnalyzedInv
  <2>5. QED
    BY <2>3, <2>4
<1>2. QED
  BY <1>1, IamInvariant, PTL

(* Whatever the policies, the boundary and the conditions, evaluate() only *)
(* ever differs from AWS by a statement it reads otherwise.                *)
THEOREM DifferenceAlwaysMisread == IamSpec => []DifferenceIsMisread
<1>1. ASSUME IamTypeOK PROVE DifferenceIsMisread
  <2>1. SUFFICES ASSUME NEW r \in Roles, NEW boundary \in Boundaries, NEW met \in Met,
                        NEW action \in Actions, NEW x \in Resources
                 PROVE  LET read == Evaluate(policies[r], boundary, action, x)
                            meant == AwsEvaluates(met, policies[r], boundary, action, x)
                            misread(wide, narrow) ==
                              \E document \in {policies[r]} \cup boundary : \E s \in document :
                                \/ s.effect = wide /\ TooWide(met, s, action, x)
                                \/ s.effect = narrow /\ TooNarrow(s, action, x)
                        IN  /\ read /\ ~ meant => misread("Allow", "Deny")
                            /\ meant /\ ~ read => misread("Deny", "Allow")
    BY DEF DifferenceIsMisread
  <2>2. \A document \in {policies[r]} \cup boundary : document \in SUBSET Policies
    BY <1>1 DEF IamTypeOK, Boundaries
  <2>3. QED
    BY <2>2, DocumentIsMisread DEF Evaluate, AwsEvaluates
<1>2. QED
  BY <1>1, IamInvariant, PTL

(*-------------------------------------------------------------------------*)
(* Analyses by a model (backend/ai_service.py).                            *)

LEMMA NoRowIsNone == NoRow \notin Analysis
  BY AnalysisAssumption DEF Analysis

LEMMA InitInv == Init => TypeOK /\ AnalysisInv
<1>. SUFFICES ASSUME Init PROVE TypeOK /\ AnalysisInv
  OBVIOUS
<1>1. Idle \in Request /\ Idle.pc = "idle" /\ Idle.calls = 0 /\ Idle.answer = NoRow
  BY DEF Idle, Request, Ended, Failed
<1>2. TypeOK
  BY <1>1 DEF Init, TypeOK
<1>3. ASSUME NEW p \in Paths PROVE RowIsTraceable(p)
  BY DEF Init, RowIsTraceable
<1>4. ASSUME NEW r \in Requests PROVE RequestInv(r)
  BY <1>1 DEF Init, RequestInv, At, HasModel, HasAnalysis, StoreInv, AnswerIsTraceable
<1>5. QED
  BY <1>2, <1>3, <1>4 DEF AnalysisInv

(* A request that gets to store its analysis leaves a row of its own model *)
(* which some model validly made: its own analysis, or the summary of a    *)
(* request with the same model.                                            *)
LEMMA StoredIsTraceable ==
    ASSUME TypeOK, AnalysisInv, NEW r \in Requests, At(r, "store"), ~Conflicts(r)
    PROVE  /\ req[r].path \in Paths
           /\ Stored(r) \in Analysis
           /\ Stored(r).model = configured
           /\ <<req[r].path, Stored(r).summary, Stored(r).model>> \in produced
<1>. DEFINE p == req[r].path
<1>1. /\ req[r] \in Request
      /\ RequestInv(r)
      /\ HasModel(r) /\ HasAnalysis(r)
  BY DEF TypeOK, AnalysisInv, HasModel, HasAnalysis, At
<1>2. /\ p \in Paths
      /\ req[r].model = configured /\ configured \in Models
      /\ req[r].summary \in Summaries
      /\ <<p, req[r].summary, req[r].model>> \in produced
  BY <1>1 DEF RequestInv
<1>3. /\ Own(r) \in Analysis
      /\ Own(r).summary = req[r].summary /\ Own(r).model = req[r].model
  BY <1>2 DEF Own, Analysis
<1>4. CASE req[r].loaded = NoRow
  BY <1>2, <1>3, <1>4 DEF Stored
<1>5. CASE req[r].loaded # NoRow
  <2>1. Stored(r) = Updated(r) /\ req[r].loaded \in Analysis
    BY <1>1, <1>5 DEF Stored, Request
  <2>2. \/ row[p] = req[r].loaded
        \/ row[p] # NoRow /\ row[p].model = configured
    BY <1>1 DEF RequestInv, StoreInv
  <2>3. row[p] \in Analysis /\ <<p, row[p].summary, row[p].model>> \in produced
    BY <1>2, <1>5, <2>2 DEF TypeOK, AnalysisInv, RowIsTraceable
  <2>4. Updated(r) = [summary |-> IF Own(r).summary # req[r].loaded.summary
                                  THEN Own(r).summary ELSE row[p].summary,
                      model |-> IF Own(r).model # req[r].loaded.model
                                THEN Own(r).model ELSE row[p].model]
    BY DEF Updated
  <2>5. CASE row[p] = req[r].loaded
    <3>1. Updated(r).summary = req[r].summary /\ Updated(r).model = req[r].model
      BY <1>3, <2>4, <2>5
    <3>2. Updated(r) \in Analysis
      BY <1>2, <2>4, <3>1 DEF Analysis
    <3>3. QED
      BY <1>2, <2>1, <3>1, <3>2
  <2>6. CASE row[p].model = configured
    <3>1. /\ Updated(r).summary \in {req[r].summary, row[p].summary}
          /\ Updated(r).model = configured
      BY <1>2, <1>3, <2>4, <2>6
    <3>2. Updated(r) \in Analysis
      BY <1>2, <2>3, <2>4, <3>1 DEF Analysis
    <3>3. QED
      BY <1>2, <2>1, <2>3, <2>6, <3>1, <3>2
  <2>7. QED
    BY <2>2, <2>5, <2>6
<1>6. QED
  BY <1>4, <1>5

(* A step of r that writes nothing but r's own record keeps what holds of  *)
(* the rows and of the other requests.                                     *)
LEMMA OnlyRequest ==
    ASSUME TypeOK, AnalysisInv, NEW r \in Requests,
           NEW new \in Request,
           req' = [req EXCEPT ![r] = new],
           UNCHANGED <<configured, row, faults>>,
           audited \subseteq audited', audited' \subseteq Requests,
           produced \subseteq produced',
           RequestInv(r)'
    PROVE  TypeOK' /\ AnalysisInv'
<1>1. TypeOK'
  BY DEF TypeOK
<1>2. ASSUME NEW p \in Paths PROVE RowIsTraceable(p)'
  BY DEF AnalysisInv, RowIsTraceable
<1>3. ASSUME NEW q \in Requests PROVE RequestInv(q)'
  <2>1. CASE q = r
    BY <2>1
  <2>2. CASE q # r
    <3>1. RequestInv(q) /\ req'[q] = req[q]
      BY <2>2 DEF AnalysisInv, TypeOK
    <3>2. QED
      BY <3>1 DEF RequestInv, HasModel, HasAnalysis, StoreInv, At, AnswerIsTraceable
  <2>3. QED
    BY <2>1, <2>2
<1>4. QED
  BY <1>1, <1>2, <1>3 DEF AnalysisInv

(* A step of r that stores its analysis.                                   *)
LEMMA OnlyStored ==
    ASSUME TypeOK, AnalysisInv, NEW r \in Requests, At(r, "store"), ~Conflicts(r),
           NEW to \in {"read_back", "error"},
           row' = [row EXCEPT ![req[r].path] = Stored(r)],
           req' = [req EXCEPT ![r].pc = to],
           UNCHANGED <<configured, audited, produced>>,
           faults' \in Nat
    PROVE  TypeOK' /\ AnalysisInv'
<1>. DEFINE path == req[r].path
<1>1. /\ path \in Paths
      /\ Stored(r) \in Analysis
      /\ Stored(r) # NoRow
      /\ Stored(r).model = configured
      /\ <<path, Stored(r).summary, Stored(r).model>> \in produced
  BY StoredIsTraceable, NoRowIsNone
<1>2. req[r] \in Request /\ RequestInv(r) /\ HasModel(r) /\ HasAnalysis(r)
  BY DEF TypeOK, AnalysisInv, HasModel, HasAnalysis, At
<1>3. /\ req'[r] = [req[r] EXCEPT !.pc = to] /\ req'[r] \in Request
      /\ \A q \in Requests : q # r => req'[q] = req[q]
  BY <1>2 DEF TypeOK, Request, Ended, Failed
<1>4. /\ row'[path] = Stored(r)
      /\ \A p \in Paths : p # path => row'[p] = row[p]
  BY <1>1 DEF TypeOK
<1>5. TypeOK'
  BY <1>1, <1>2, <1>3 DEF TypeOK
<1>6. ASSUME NEW p \in Paths PROVE RowIsTraceable(p)'
  BY <1>1, <1>4 DEF AnalysisInv, RowIsTraceable
<1>7. RequestInv(r)'
  BY <1>1, <1>2, <1>3, <1>4
     DEF RequestInv, HasModel, HasAnalysis, StoreInv, At, AnswerIsTraceable, Request
<1>8. ASSUME NEW q \in Requests, q # r PROVE RequestInv(q)'
  <2>1. RequestInv(q) /\ req'[q] = req[q] /\ req[q] \in Request
    BY <1>3, <1>8 DEF AnalysisInv, TypeOK
  <2>2. \/ row'[req[q].path] = row[req[q].path]
        \/ row'[req[q].path] # NoRow /\ row'[req[q].path].model = configured
    BY <1>1, <1>4, <2>1 DEF TypeOK, Request
  <2>3. StoreInv(q)'
    BY <2>1, <2>2 DEF RequestInv, StoreInv, At
  <2>4. At(q, "read_back")' =>
           row'[req'[q].path] # NoRow /\ row'[req'[q].path].model = configured
    BY <2>1, <2>2 DEF RequestInv, At
  <2>5. (req'[q].pc \in {"audit", "answered"}) => row'[req'[q].path] # NoRow
    BY <2>1, <2>2 DEF RequestInv
  <2>6. QED
    BY <2>1, <2>3, <2>4, <2>5
       DEF RequestInv, HasModel, HasAnalysis, At, AnswerIsTraceable
<1>9. QED
  BY <1>5, <1>6, <1>7, <1>8 DEF AnalysisInv

LEMMA DatabaseFailsInv ==
    ASSUME TypeOK, AnalysisInv, NEW r \in Requests, DatabaseFails(r)
    PROVE  TypeOK' /\ AnalysisInv'
<1>1. /\ req' = [req EXCEPT ![r].pc = "error"]
      /\ UNCHANGED <<configured, produced>>
      /\ faults' \in Nat
  BY DEF DatabaseFails, Fault, TypeOK
<1>2. CASE row' = row
  <2>1. req[r] \in Request /\ RequestInv(r)
    BY DEF TypeOK, AnalysisInv
  <2>2. audited \subseteq audited' /\ audited' \subseteq Requests
    BY <1>2 DEF DatabaseFails, TypeOK
  <2>3. /\ req'[r] = [req[r] EXCEPT !.pc = "error"] /\ req'[r] \in Request
        /\ \A q \in Requests : q # r => req'[q] = req[q]
    BY <1>1, <2>1 DEF TypeOK, Request, Ended, Failed
  <2>4. TypeOK'
    BY <1>1, <1>2, <2>2, <2>3 DEF TypeOK
  <2>5. ASSUME NEW p \in Paths PROVE RowIsTraceable(p)'
    BY <1>1, <1>2 DEF AnalysisInv, RowIsTraceable
  <2>6. RequestInv(r)'
    BY <1>1, <1>2, <2>1, <2>3
       DEF RequestInv, HasModel, HasAnalysis, StoreInv, At, AnswerIsTraceable, Request
  <2>7. ASSUME NEW q \in Requests, q # r PROVE RequestInv(q)'
    BY <1>1, <1>2, <2>2, <2>3, <2>7
       DEF AnalysisInv, RequestInv, HasModel, HasAnalysis, StoreInv, At, AnswerIsTraceable
  <2>8. QED
    BY <2>4, <2>5, <2>6, <2>7 DEF AnalysisInv
<1>3. CASE /\ At(r, "store") /\ ~ Conflicts(r)
           /\ row' = [row EXCEPT ![req[r].path] = Stored(r)]
           /\ UNCHANGED audited
  BY <1>1, <1>3, OnlyStored
<1>4. QED
  BY <1>2, <1>3 DEF DatabaseFails

LEMMA RestartInv ==
    ASSUME TypeOK, AnalysisInv, NEW m \in Models \cup {NoModel}, Restart(m)
    PROVE  TypeOK' /\ AnalysisInv'
<1>1. ASSUME NEW r \in Requests
      PROVE  /\ req[r] \in Request /\ req'[r] \in Request
             /\ req'[r] = IF req[r].pc \in Ended \cup {"idle"} THEN req[r]
                          ELSE [req[r] EXCEPT !.pc = "dropped"]
             /\ req'[r].pc \in Ended \cup {"idle"}
  BY DEF Restart, TypeOK, Request, Ended
<1>2. req' \in [Requests -> Request]
  BY <1>1 DEF Restart
<1>3. TypeOK'
  BY <1>2 DEF Restart, Fault, TypeOK
<1>4. ASSUME NEW p \in Paths PROVE RowIsTraceable(p)'
  BY DEF AnalysisInv, RowIsTraceable, Restart
<1>5. ASSUME NEW r \in Requests PROVE RequestInv(r)'
  <2>1. RequestInv(r) /\ UNCHANGED <<row, audited, produced>>
    BY DEF AnalysisInv, Restart
  <2>2. ~ HasModel(r)' /\ ~ HasAnalysis(r)' /\ req'[r].pc # "provider"
    BY <1>1 DEF HasModel, HasAnalysis, Ended, Failed
  <2>3. CASE req[r].pc \in Ended \cup {"idle"}
    <3>1. req'[r] = req[r]
      BY <1>1, <2>3
    <3>2. QED
      BY <2>1, <2>2, <3>1
         DEF RequestInv, HasModel, HasAnalysis, StoreInv, At, AnswerIsTraceable
  <2>4. CASE req[r].pc \notin Ended \cup {"idle"}
    <3>1. req'[r] = [req[r] EXCEPT !.pc = "dropped"]
      BY <1>1, <2>4
    <3>2. QED
      BY <1>1, <2>1, <2>2, <3>1
         DEF RequestInv, HasModel, HasAnalysis, StoreInv, At, AnswerIsTraceable, Request
  <2>5. QED
    BY <2>3, <2>4
<1>6. QED
  BY <1>3, <1>4, <1>5 DEF AnalysisInv

LEMMA StepInv ==
    ASSUME TypeOK, AnalysisInv, NEW r \in Requests, Step(r)
    PROVE  TypeOK' /\ AnalysisInv'
<1>1. req[r] \in Request /\ RequestInv(r)
  BY DEF TypeOK, AnalysisInv
<1>2. ASSUME NEW p \in Paths \cup {UnknownPath}, LoadPath(r, p)
      PROVE  TypeOK' /\ AnalysisInv'
  <2>. DEFINE new == [req[r] EXCEPT !.path = p,
                                    !.pc = IF p \in Paths THEN "provider"
                                           ELSE "not_found"]
  <2>1. new \in Request
    <3>1. (IF p \in Paths THEN "provider" ELSE "not_found")
             \in {"idle", "provider", "generate", "find", "store", "read_back", "audit"}
                    \cup Ended
      BY DEF Ended, Failed
    <3>2. QED
      BY <1>1, <3>1 DEF Request
  <2>2. req' = [req EXCEPT ![r] = new] /\ At(r, "idle")
        /\ UNCHANGED <<configured, row, audited, faults, produced>>
    BY <1>2 DEF LoadPath
  <2>3. RequestInv(r)'
    BY <1>1, <2>1, <2>2 DEF TypeOK, RequestInv, HasModel, HasAnalysis, StoreInv, At,
                            AnswerIsTraceable, Request
  <2>4. QED
    BY <2>1, <2>2, <2>3, OnlyRequest DEF TypeOK
<1>3. CASE ResolveProvider(r)
  <2>. DEFINE new == [req[r] EXCEPT !.model = configured,
                                    !.pc = IF configured = NoModel THEN "no_provider"
                                           ELSE "generate"]
  <2>1. new \in Request
    <3>1. (IF configured = NoModel THEN "no_provider" ELSE "generate")
             \in {"idle", "provider", "generate", "find", "store", "read_back", "audit"}
                    \cup Ended
      BY DEF Ended, Failed
    <3>2. configured \in Models \cup {NoModel}
      BY DEF TypeOK
    <3>3. QED
      BY <1>1, <3>1, <3>2 DEF Request
  <2>2. req' = [req EXCEPT ![r] = new] /\ At(r, "provider")
        /\ UNCHANGED <<configured, row, audited, faults, produced>>
    BY <1>3 DEF ResolveProvider
  <2>3. RequestInv(r)'
    BY <1>1, <2>1, <2>2 DEF TypeOK, RequestInv, HasModel, HasAnalysis, StoreInv, At,
                            AnswerIsTraceable, Request
  <2>4. QED
    BY <2>1, <2>2, <2>3, OnlyRequest DEF TypeOK
<1>4. ASSUME NEW s \in Summaries \cup {NotValid}, Generate(r, s)
      PROVE  TypeOK' /\ AnalysisInv'
  <2>. DEFINE new == [req[r] EXCEPT
                        !.calls = req[r].calls + 1,
                        !.summary = IF Validated(s) THEN s ELSE req[r].summary,
                        !.pc = IF Validated(s) THEN "find" ELSE AfterInvalid(r)]
  <2>1. /\ req' = [req EXCEPT ![r] = new] /\ At(r, "generate")
        /\ UNCHANGED <<configured, row, audited, faults>>
        /\ s \in Summaries =>
              produced' = produced \cup {<<req[r].path, s, req[r].model>>}
        /\ s \notin Summaries => produced' = produced
    BY <1>4 DEF Generate
  <2>2. /\ req[r].calls \in Nat /\ req[r].calls <= 1 /\ req[r].calls + 1 \in Nat
        /\ HasModel(r)
    BY <1>1, <2>1 DEF RequestInv, Request, HasModel, At
  <2>3. CASE s \in Summaries
    <3>1. new = [req[r] EXCEPT !.calls = req[r].calls + 1, !.summary = s, !.pc = "find"]
      BY <2>3 DEF Validated
    <3>2. new \in Request
      BY <1>1, <2>2, <2>3, <3>1 DEF Request
    <3>3. /\ req'[r].pc = "find" /\ req'[r].calls = req[r].calls + 1
          /\ req'[r].path = req[r].path /\ req'[r].model = req[r].model
          /\ req'[r].summary = s /\ req'[r].answer = req[r].answer
      BY <1>1, <2>1, <3>1 DEF TypeOK, Request
    <3>4. RequestInv(r)'
      BY <1>1, <2>1, <2>2, <2>3, <3>3
         DEF RequestInv, HasModel, HasAnalysis, StoreInv, At, AnswerIsTraceable
    <3>5. QED
      BY <2>1, <2>3, <3>2, <3>4, OnlyRequest DEF TypeOK
  <2>4. CASE s \notin Summaries
    <3>1. PICK pc \in {"generate", "no_analysis"} :
             /\ pc = "generate" => req[r].calls = 0
             /\ new = [req[r] EXCEPT !.calls = req[r].calls + 1,
                                     !.summary = req[r].summary, !.pc = pc]
      BY <2>4 DEF Validated, AfterInvalid
    <3>2. new \in Request
      <4>1. pc \in {"idle", "provider", "generate", "find", "store", "read_back", "audit"}
                      \cup Ended
        BY <3>1 DEF Ended, Failed
      <4>2. [req[r] EXCEPT !.calls = req[r].calls + 1, !.summary = req[r].summary,
                           !.pc = pc] \in Request
        BY <1>1, <2>2, <4>1 DEF Request
      <4>3. QED
        BY <3>1, <4>2
    <3>3. /\ req'[r].pc = pc /\ req'[r].calls = req[r].calls + 1
          /\ req'[r].path = req[r].path /\ req'[r].model = req[r].model
          /\ req'[r].answer = req[r].answer
      BY <1>1, <2>1, <3>1 DEF TypeOK, Request
    <3>4. RequestInv(r)'
      BY <1>1, <2>1, <2>2, <2>4, <3>1, <3>3
         DEF RequestInv, HasModel, HasAnalysis, StoreInv, At, AnswerIsTraceable
    <3>5. QED
      BY <2>1, <2>4, <3>2, <3>4, OnlyRequest DEF TypeOK
  <2>5. QED
    BY <2>3, <2>4
<1>5. CASE FindExisting(r)
  <2>. DEFINE new == [req[r] EXCEPT !.loaded = row[req[r].path], !.pc = "store"]
  <2>1. /\ req' = [req EXCEPT ![r] = new] /\ At(r, "find")
        /\ UNCHANGED <<configured, row, audited, faults, produced>>
    BY <1>5 DEF FindExisting
  <2>2. req[r].path \in Paths
    BY <1>1, <2>1 DEF RequestInv, HasModel, At
  <2>3. new \in Request
    BY <1>1, <2>2 DEF TypeOK, Request
  <2>4. RequestInv(r)'
    BY <1>1, <2>1, <2>3 DEF TypeOK, RequestInv, HasModel, HasAnalysis, StoreInv, At,
                            AnswerIsTraceable, Request
  <2>5. QED
    BY <2>1, <2>3, <2>4, OnlyRequest DEF TypeOK
<1>6. CASE Store(r)
  BY <1>6, OnlyStored DEF Store, TypeOK
<1>7. CASE StoreConflicts(r)
  <2>. DEFINE new == [req[r] EXCEPT !.pc = "conflict"]
  <2>1. /\ req' = [req EXCEPT ![r] = new] /\ At(r, "store")
        /\ UNCHANGED <<configured, row, audited, faults, produced>>
    BY <1>7 DEF StoreConflicts
  <2>2. new \in Request
    BY <1>1 DEF Request, Ended, Failed
  <2>3. RequestInv(r)'
    BY <1>1, <2>1, <2>2 DEF TypeOK, RequestInv, HasModel, HasAnalysis, StoreInv, At,
                            AnswerIsTraceable, Request
  <2>4. QED
    BY <2>1, <2>2, <2>3, OnlyRequest DEF TypeOK
<1>8. CASE ReadBack(r)
  <2>. DEFINE new == [req[r] EXCEPT !.answer = [summary |-> req[r].summary,
                                                model |-> row[req[r].path].model],
                                    !.pc = "audit"]
  <2>1. At(r, "read_back") /\ UNCHANGED <<configured, row, audited, faults, produced>>
    BY <1>8 DEF ReadBack
  <2>2. /\ HasModel(r) /\ HasAnalysis(r)
        /\ row[req[r].path] # NoRow
        /\ row[req[r].path].model = req[r].model
    BY <1>1, <2>1 DEF RequestInv, HasModel, HasAnalysis, At
  <2>3. req' = [req EXCEPT ![r] = new]
    BY <1>8, <2>2 DEF ReadBack
  <2>4. new \in Request
    BY <1>1, <2>2 DEF Request, RequestInv, Analysis
  <2>5. RequestInv(r)'
    BY <1>1, <2>1, <2>2, <2>3, <2>4
       DEF TypeOK, RequestInv, HasModel, HasAnalysis, StoreInv, At,
           AnswerIsTraceable, Request
  <2>6. QED
    BY <2>1, <2>3, <2>4, <2>5, OnlyRequest DEF TypeOK
<1>9. CASE WriteAudit(r)
  <2>. DEFINE new == [req[r] EXCEPT !.pc = "answered"]
  <2>1. /\ req' = [req EXCEPT ![r] = new] /\ At(r, "audit")
        /\ audited' = audited \cup {r}
        /\ UNCHANGED <<configured, row, faults, produced>>
    BY <1>9 DEF WriteAudit
  <2>2. new \in Request
    BY <1>1 DEF Request, Ended
  <2>3. RequestInv(r)'
    BY <1>1, <2>1, <2>2 DEF TypeOK, RequestInv, HasModel, HasAnalysis, StoreInv, At,
                            AnswerIsTraceable, Request
  <2>4. audited' \subseteq Requests
    BY <2>1 DEF TypeOK
  <2>5. QED
    BY <2>1, <2>2, <2>3, <2>4, OnlyRequest
<1>10. QED
  BY <1>2, <1>3, <1>4, <1>5, <1>6, <1>7, <1>8, <1>9 DEF Step

LEMMA NextInv == TypeOK /\ AnalysisInv /\ [Next]_vars => TypeOK' /\ AnalysisInv'
<1>. SUFFICES ASSUME TypeOK, AnalysisInv, [Next]_vars PROVE TypeOK' /\ AnalysisInv'
  OBVIOUS
<1>1. ASSUME UNCHANGED vars PROVE TypeOK' /\ AnalysisInv'
  BY <1>1 DEF vars, TypeOK, AnalysisInv, RowIsTraceable, RequestInv, HasModel,
              HasAnalysis, StoreInv, At, AnswerIsTraceable
<1>2. CASE Next
  BY <1>2, StepInv, DatabaseFailsInv, RestartInv DEF Next
<1>3. QED
  BY <1>1, <1>2

(* Every reachable state has the shape of the tables and of the handler's  *)
(* locals, and satisfies the inductive invariant.                          *)
THEOREM AnalysisInvariant == Spec => [](TypeOK /\ AnalysisInv)
<1>1. QED
  BY InitInv, NextInv, PTL DEF Spec

(* ai_analysis and the answers of POST .../analyze always name the model   *)
(* that made the summary they hold, for their own path, however the        *)
(* requests of ai_service._persist interleave, fail or are cut off.        *)
THEOREM AnalysesAlwaysTraceable == Spec => []TraceableToItsModel
<1>1. TypeOK /\ AnalysisInv => TraceableToItsModel
  BY DEF AnalysisInv, RequestInv, TraceableToItsModel, At
<1>2. QED
  BY <1>1, AnalysisInvariant, PTL
=============================================================================
