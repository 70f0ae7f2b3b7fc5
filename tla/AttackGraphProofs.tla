-------------------------- MODULE AttackGraphProofs --------------------------
(***************************************************************************)
(* What the operators of AttackGraph do: simple paths, the shortest of     *)
(* them, and what a score is made of.                                      *)
(***************************************************************************)
EXTENDS AttackGraph, FiniteSetTheorems, SequenceTheorems, TLAPS

(* A set of numbers has a least one: of the sets 0..n, for n in it, one    *)
(* includes no other.                                                      *)
LEMMA LeastNumber ==
    ASSUME NEW T \in SUBSET Nat, T # {}
    PROVE  \E n \in T : \A m \in T : n <= m
<1> DEFINE R == StrictSubsetOrdering(Nat)
           upTo == {0..n : n \in T}
<1>1. upTo \subseteq FiniteSubsetsOf(Nat) /\ upTo # {}
  <2>1. \A n \in T : 0..n \subseteq Nat /\ IsFiniteSet(0..n)
    BY FS_Interval
  <2>2. QED
    BY <2>1 DEF FiniteSubsetsOf
<1>2. \A m, n \in T : m < n => <<0..m, 0..n>> \in R
  <2>1. ASSUME NEW m \in T, NEW n \in T, m < n
        PROVE  <<0..m, 0..n>> \in R
    <3>1. n \in 0..n /\ n \notin 0..m /\ 0..m \subseteq 0..n /\ 0..n \subseteq Nat
      BY <2>1
    <3>2. QED
      BY <3>1 DEF StrictSubsetOrdering
  <2>2. QED
    BY <2>1
<1>3. IsWellFoundedOn(R, FiniteSubsetsOf(Nat))
  BY FS_StrictSubsetOrderingWellFounded
<1>4. PICK I \in upTo : \A J \in upTo : ~ (<<J, I>> \in R)
  <2> HIDE DEF R, upTo
  <2>1. QED
    BY <1>1, <1>3, WFMin
<1>5. PICK n \in T : I = 0..n
  BY <1>4
<1>6. \A m \in T : ~ (m < n)
  <2> HIDE DEF R
  <2>1. QED
    BY <1>2, <1>4, <1>5
<1>7. QED
  BY <1>6

(* A bounded set of integers has a greatest one.                           *)
LEMMA GreatestNumber ==
    ASSUME NEW T \in SUBSET Int, T # {}, NEW bound \in Int, \A n \in T : n <= bound
    PROVE  \E n \in T : \A m \in T : n >= m
<1> DEFINE U == {bound - n : n \in T}
<1>1. \A n \in T : bound - n \in Nat
  OBVIOUS
<1>2. U \in SUBSET Nat /\ U # {}
  BY <1>1
<1>3. PICK u \in U : \A v \in U : u <= v
  BY <1>2, LeastNumber
<1>4. PICK n \in T : u = bound - n
  BY <1>3
<1>5. ASSUME NEW m \in T PROVE n >= m
  <2>1. bound - m \in U
    OBVIOUS
  <2>2. bound - n <= bound - m
    BY <1>3, <1>4, <2>1
  <2>3. QED
    BY <2>2
<1>6. QED
  BY <1>5

LEMMA MaxOf ==
    ASSUME NEW T \in SUBSET Int, T # {}, NEW bound \in Int, \A n \in T : n <= bound
    PROVE  Max(T) \in T /\ \A n \in T : Max(T) >= n
BY GreatestNumber DEF Max

LEMMA MinOf ==
    ASSUME NEW T \in SUBSET Nat, T # {}
    PROVE  Min(T) \in T /\ \A n \in T : Min(T) <= n
BY LeastNumber DEF Min

-----------------------------------------------------------------------------
(* An entry with the nodes that follow it.                                 *)
From(e, rest) == <<e>> \o rest

LEMMA Prefixed ==
    ASSUME NEW S, NEW n \in Nat, NEW rest \in SeqOf(S, n), NEW e, NEW w, w = From(e, rest)
    PROVE  /\ rest \in Seq(S) /\ Len(rest) \in 0..n /\ DOMAIN rest = 1..Len(rest)
           /\ DOMAIN w = 1..Len(w) /\ Len(w) = Len(rest) + 1 /\ Hops(w) = Len(rest)
           /\ w[1] = e
           /\ \A i \in 1..Len(rest) : w[i + 1] = rest[i]
<1>1. PICK m \in 0..n : rest \in [1..m -> S]
  BY DEF SeqOf
<1>2. rest \in Seq(S) /\ Len(rest) = m /\ DOMAIN rest = 1..m
  BY <1>1
<1>3. <<e>> \in Seq({e} \cup S) /\ rest \in Seq({e} \cup S)
  <2>1. <<e>> \in Seq({e} \cup S)
    OBVIOUS
  <2>2. rest \in [1..m -> {e} \cup S]
    BY <1>1
  <2>3. QED
    BY <2>1, <2>2
<1>4. /\ w \in Seq({e} \cup S) /\ Len(w) = 1 + Len(rest)
      /\ \A i \in 1..(1 + Len(rest)) : w[i] = IF i <= 1 THEN <<e>>[i] ELSE rest[i - 1]
  BY <1>3, ConcatProperties DEF From
<1>5. w[1] = e /\ \A i \in 1..Len(rest) : w[i + 1] = rest[i]
  BY <1>2, <1>4
<1>6. DOMAIN w = 1..Len(w)
  BY <1>4
<1>7. QED
  BY <1>2, <1>4, <1>5, <1>6 DEF Hops

LEMMA FollowsHops ==
    ASSUME NEW S, NEW n \in Nat, NEW rest \in SeqOf(S, n), NEW e, NEW w, w = From(e, rest),
           NEW hops
    PROVE  Follows(hops, e, rest) <=> \A i \in 1..Hops(w) : <<w[i], w[i + 1]>> \in hops
<1>1. /\ Len(rest) \in Nat /\ DOMAIN rest = 1..Len(rest) /\ Hops(w) = Len(rest)
      /\ w[1] = e /\ \A i \in 1..Len(rest) : w[i + 1] = rest[i]
  <2>1. Len(rest) \in 0..n
    BY Prefixed
  <2>2. QED
    BY <2>1, Prefixed
<1>2. \A i \in 1..Len(rest) : w[i] = IF i = 1 THEN e ELSE rest[i - 1]
  <2>1. ASSUME NEW i \in 1..Len(rest), i # 1 PROVE w[i] = rest[i - 1]
    <3>1. i - 1 \in 1..Len(rest) /\ (i - 1) + 1 = i
      BY <1>1, <2>1
    <3>2. QED
      BY <1>1, <3>1
  <2>2. QED
    BY <1>1, <2>1
<1>3. QED
  BY <1>1, <1>2 DEF Follows

Beyond(g, e) == {pair[2] : pair \in DOMAIN g} \ {e}

LEMMA WalkOf ==
    ASSUME NEW g, NEW e, NEW w \in WalksFrom(g, e)
    PROVE  /\ Hops(w) \in 0..MaxDepth /\ Len(w) = Hops(w) + 1 /\ DOMAIN w = 1..Len(w)
           /\ w[1] = e
           /\ \A i \in 1..Hops(w) : <<w[i], w[i + 1]>> \in DOMAIN g
           /\ IsInjective(w)
<1>1. PICK rest \in SeqOf(Beyond(g, e), MaxDepth) :
         w = From(e, rest) /\ Follows(DOMAIN g, e, rest) /\ IsInjective(rest)
  BY DEF WalksFrom, Beyond, From
<1>2. MaxDepth \in Nat
  BY GraphAssumption
<1>3. /\ rest \in Seq(Beyond(g, e)) /\ Len(rest) \in 0..MaxDepth /\ DOMAIN rest = 1..Len(rest)
      /\ DOMAIN w = 1..Len(w) /\ Len(w) = Len(rest) + 1 /\ Hops(w) = Len(rest)
      /\ w[1] = e /\ \A i \in 1..Len(rest) : w[i + 1] = rest[i]
  BY <1>1, <1>2, Prefixed
<1>4. \A i \in 1..Hops(w) : <<w[i], w[i + 1]>> \in DOMAIN g
  BY <1>1, <1>2, FollowsHops
<1>5. ASSUME NEW a \in DOMAIN w, NEW b \in DOMAIN w, w[a] = w[b], a < b
      PROVE  FALSE
  <2>1. b - 1 \in 1..Len(rest) /\ w[b] = rest[b - 1] /\ rest[b - 1] # e
    <3>1. b - 1 \in 1..Len(rest) /\ (b - 1) + 1 = b
      BY <1>3, <1>5
    <3>2. rest[b - 1] \in Beyond(g, e)
      BY <1>3, <3>1
    <3>3. QED
      BY <1>3, <3>1, <3>2 DEF Beyond
  <2>2. a # 1
    BY <1>3, <1>5, <2>1
  <2>3. a - 1 \in 1..Len(rest) /\ w[a] = rest[a - 1]
    <3>1. a - 1 \in 1..Len(rest) /\ (a - 1) + 1 = a
      BY <1>3, <1>5, <2>2
    <3>2. QED
      BY <1>3, <3>1
  <2>4. a - 1 = b - 1
    BY <1>1, <1>3, <1>5, <2>1, <2>3 DEF IsInjective
  <2>5. QED
    BY <1>3, <1>5, <2>4
<1>6. IsInjective(w)
  <2>1. ASSUME NEW a \in DOMAIN w, NEW b \in DOMAIN w, w[a] = w[b]
        PROVE  a = b
    <3>1. ~ (a < b) /\ ~ (b < a)
      BY <1>5, <2>1
    <3>2. a \in Int /\ b \in Int
      BY <1>3
    <3>3. QED
      BY <3>1, <3>2
  <2>2. QED
    BY <2>1 DEF IsInjective
<1>7. QED
  BY <1>3, <1>4, <1>6

(* ... and every such sequence is a walk.                                  *)
LEMMA IsWalk ==
    ASSUME NEW g, NEW e, NEW S, NEW w \in Seq(S), Hops(w) \in 0..MaxDepth, w[1] = e,
           \A i \in 1..Hops(w) : <<w[i], w[i + 1]>> \in DOMAIN g, IsInjective(w)
    PROVE  w \in WalksFrom(g, e)
<1> DEFINE rest == [i \in 1..Hops(w) |-> w[i + 1]]
<1>1. MaxDepth \in Nat /\ Len(w) \in Nat /\ Len(w) = Hops(w) + 1 /\ DOMAIN w = 1..Len(w)
  BY GraphAssumption DEF Hops
<1>2. rest \in SeqOf(Beyond(g, e), MaxDepth)
  <2>1. ASSUME NEW i \in 1..Hops(w) PROVE w[i + 1] \in Beyond(g, e)
    <3>1. <<w[i], w[i + 1]>>[2] = w[i + 1]
      OBVIOUS
    <3>2. w[i + 1] \in {pair[2] : pair \in DOMAIN g}
      BY <2>1, <3>1
    <3>3. 1 \in DOMAIN w /\ i + 1 \in DOMAIN w /\ i + 1 # 1
      BY <1>1
    <3>4. w[i + 1] # e
      BY <3>3 DEF IsInjective
    <3>5. QED
      BY <3>2, <3>4 DEF Beyond
  <2>2. rest \in [1..Hops(w) -> Beyond(g, e)]
    BY <2>1
  <2>3. QED
    BY <2>2 DEF SeqOf
<1>3. w = From(e, rest)
  <2> DEFINE v == From(e, rest)
  <2> HIDE DEF rest
  <2>1. /\ rest \in Seq(Beyond(g, e)) /\ DOMAIN rest = 1..Len(rest)
        /\ DOMAIN v = 1..Len(v) /\ Len(v) = Len(rest) + 1
        /\ v[1] = e /\ \A i \in 1..Len(rest) : v[i + 1] = rest[i]
    BY <1>1, <1>2, Prefixed
  <2>2. Len(rest) = Hops(w) /\ \A i \in 1..Hops(w) : rest[i] = w[i + 1]
    <3>1. DOMAIN rest = 1..Hops(w) /\ \A i \in 1..Hops(w) : rest[i] = w[i + 1]
      BY DEF rest
    <3>2. QED
      BY <1>1, <2>1, <3>1
  <2>3. \A i \in 1..Len(w) : w[i] = v[i]
    <3>1. ASSUME NEW i \in 1..Len(w), i # 1 PROVE w[i] = v[i]
      <4>1. i - 1 \in 1..Hops(w) /\ (i - 1) + 1 = i
        BY <1>1, <3>1
      <4>2. QED
        BY <2>1, <2>2, <4>1
    <3>2. QED
      BY <2>1, <3>1
  <2>4. v \in Seq(Beyond(g, e) \cup {e}) /\ w \in Seq(S)
    <3>1. rest \in Seq(Beyond(g, e) \cup {e}) /\ <<e>> \in Seq(Beyond(g, e) \cup {e})
      BY <2>1
    <3>2. QED
      BY <3>1, ConcatProperties DEF From
  <2>5. Len(v) = Len(w)
    BY <1>1, <2>1, <2>2
  <2>6. QED
    <3> HIDE DEF v
    <3>1. v = [i \in 1..Len(v) |-> v[i]] /\ w = [i \in 1..Len(w) |-> w[i]]
      BY <2>4
    <3>2. v = w
      BY <2>3, <2>5, <3>1
    <3>3. QED
      BY <3>2 DEF v
<1>4. Follows(DOMAIN g, e, rest)
  <2> HIDE DEF rest
  <2>1. QED
    BY <1>1, <1>2, <1>3, FollowsHops
<1>5. IsInjective(rest)
  <2>1. ASSUME NEW a \in 1..Hops(w), NEW b \in 1..Hops(w), w[a + 1] = w[b + 1]
        PROVE  a = b
    <3>1. a + 1 \in DOMAIN w /\ b + 1 \in DOMAIN w
      BY <1>1
    <3>2. a + 1 = b + 1
      BY <2>1, <3>1 DEF IsInjective
    <3>3. QED
      BY <3>2
  <2>2. QED
    BY <2>1 DEF IsInjective
<1>6. QED
  <2> HIDE DEF rest
  <2>1. QED
    BY <1>2, <1>3, <1>4, <1>5 DEF WalksFrom, Beyond, From

(* A walk of a graph is one of every graph that has its edges.             *)
LEMMA WalkStays ==
    ASSUME NEW g, NEW h, DOMAIN g \subseteq DOMAIN h, NEW e, NEW w \in WalksFrom(g, e)
    PROVE  w \in WalksFrom(h, e)
<1>1. PICK rest \in SeqOf(Beyond(g, e), MaxDepth) :
         w = From(e, rest) /\ Follows(DOMAIN g, e, rest) /\ IsInjective(rest)
  BY DEF WalksFrom, Beyond, From
<1>2. Beyond(g, e) \subseteq Beyond(h, e)
  BY DEF Beyond
<1>3. rest \in SeqOf(Beyond(h, e), MaxDepth)
  <2>1. PICK m \in 0..MaxDepth : rest \in [1..m -> Beyond(g, e)]
    BY DEF SeqOf
  <2>2. rest \in [1..m -> Beyond(h, e)]
    BY <1>2, <2>1
  <2>3. QED
    BY <2>2 DEF SeqOf
<1>4. Follows(DOMAIN h, e, rest)
  BY <1>1 DEF Follows
<1>5. QED
  BY <1>1, <1>3, <1>4 DEF WalksFrom, Beyond, From
-----------------------------------------------------------------------------
LEMMA FunctionsFinite ==
    ASSUME NEW N, IsFiniteSet(N), NEW m \in Nat
    PROVE  IsFiniteSet([1..m -> N])
<1> DEFINE F == [1..m -> N]
           asSet == [s \in F |-> {<<i, s[i]>> : i \in 1..m}]
<1>1. asSet \in [F -> SUBSET ((1..m) \X N)]
  <2>1. ASSUME NEW s \in F PROVE {<<i, s[i]>> : i \in 1..m} \in SUBSET ((1..m) \X N)
    OBVIOUS
  <2>2. QED
    BY <2>1
<1>2. ASSUME NEW s \in F, NEW u \in F, asSet[s] = asSet[u]
      PROVE  s = u
  <2>1. {<<i, s[i]>> : i \in 1..m} = {<<i, u[i]>> : i \in 1..m}
    BY <1>2
  <2>2. ASSUME NEW i \in 1..m PROVE s[i] = u[i]
    <3>1. <<i, s[i]>> \in {<<j, u[j]>> : j \in 1..m}
      BY <2>1
    <3>2. QED
      BY <3>1
  <2>3. QED
    BY <2>2
<1>3. asSet \in Injection(F, SUBSET ((1..m) \X N))
  <2> HIDE DEF asSet, F
  <2>1. DOMAIN asSet = F
    BY <1>1
  <2>2. QED
    BY <1>1, <1>2, <2>1 DEF Injection, IsInjective
<1>4. IsFiniteSet(SUBSET ((1..m) \X N))
  <2>1. IsFiniteSet(1..m)
    BY FS_Interval
  <2>2. IsFiniteSet((1..m) \X N)
    BY <2>1, FS_Product
  <2>3. QED
    BY <2>2, FS_SUBSET
<1>5. QED
  <2> HIDE DEF asSet
  <2>1. QED
    BY <1>3, <1>4, FS_Injection

LEMMA SequencesFinite ==
    ASSUME NEW N, IsFiniteSet(N), NEW n \in Nat
    PROVE  IsFiniteSet(SeqOf(N, n))
<1> DEFINE sets == {[1..m -> N] : m \in 0..n}
           f == [m \in 0..n |-> [1..m -> N]]
<1>1. f \in Surjection(0..n, sets)
  BY DEF Surjection
<1>2. IsFiniteSet(0..n)
  BY FS_Interval
<1>3. IsFiniteSet(sets)
  <2> HIDE DEF f, sets
  <2>1. QED
    BY <1>1, <1>2, FS_Surjection
<1>4. \A S \in sets : IsFiniteSet(S)
  <2>1. ASSUME NEW m \in 0..n PROVE IsFiniteSet([1..m -> N])
    <3>1. m \in Nat
      OBVIOUS
    <3>2. QED
      BY <3>1, FunctionsFinite
  <2>2. QED
    BY <2>1
<1>5. IsFiniteSet(UNION sets)
  <2> HIDE DEF sets
  <2>1. QED
    BY <1>3, <1>4, FS_UNION
<1>6. QED
  BY <1>5 DEF SeqOf

(* The nodes some edge leads to.                                           *)
Heads(g) == {pair[2] : pair \in DOMAIN g}

LEMMA HeadsFinite ==
    ASSUME NEW g, IsFiniteSet(DOMAIN g)
    PROVE  IsFiniteSet(Heads(g))
<1> DEFINE second == [pair \in DOMAIN g |-> pair[2]]
<1>1. second \in Surjection(DOMAIN g, Heads(g))
  BY DEF Surjection, Heads
<1>2. QED
  <2> HIDE DEF second
  <2>1. QED
    BY <1>1, FS_Surjection

LEMMA WalksFinite ==
    ASSUME NEW g, IsFiniteSet(Heads(g)), NEW e
    PROVE  IsFiniteSet(WalksFrom(g, e))
<1> DEFINE rests == {s \in SeqOf(Beyond(g, e), MaxDepth) :
                       Follows(DOMAIN g, e, s) /\ IsInjective(s)}
           prefix == [s \in rests |-> From(e, s)]
<1>1. IsFiniteSet(Beyond(g, e))
  <2>1. Beyond(g, e) \in SUBSET Heads(g)
    BY DEF Beyond, Heads
  <2>2. QED
    BY <2>1, FS_Subset
<1>2. IsFiniteSet(SeqOf(Beyond(g, e), MaxDepth))
  BY <1>1, SequencesFinite, GraphAssumption
<1>3. IsFiniteSet(rests)
  <2>1. rests \in SUBSET SeqOf(Beyond(g, e), MaxDepth)
    OBVIOUS
  <2>2. QED
    <3> HIDE DEF rests
    <3>1. QED
      BY <1>2, <2>1, FS_Subset
<1>4. prefix \in Surjection(rests, WalksFrom(g, e))
  <2>1. WalksFrom(g, e) = {From(e, s) : s \in rests}
    BY DEF WalksFrom, Beyond, From
  <2>2. QED
    <3> HIDE DEF rests
    <3>1. QED
      BY <2>1 DEF Surjection
<1>5. QED
  <2> HIDE DEF prefix, rests
  <2>1. QED
    BY <1>3, <1>4, FS_Surjection
-----------------------------------------------------------------------------
LEMMA PickOf ==
    ASSUME NEW choices, NEW pick \in Picks(choices)
    PROVE  /\ DOMAIN pick = DOMAIN choices
           /\ \A x \in DOMAIN choices : pick[x] \in choices[x]
<1> DEFINE open == {x \in DOMAIN choices : Cardinality(choices[x]) > 1}
           any(x) == CHOOSE y \in choices[x] : TRUE
<1>1. PICK f \in [open -> UNION {choices[x] : x \in open}] :
         /\ \A x \in DOMAIN choices :
              choices[x] # {} /\ (x \in open => f[x] \in choices[x])
         /\ pick = [x \in DOMAIN choices |-> IF x \in open THEN f[x] ELSE any(x)]
  BY Zenon DEF Picks
<1>2. ASSUME NEW x \in DOMAIN choices PROVE any(x) \in choices[x]
  BY <1>1, <1>2
<1>3. QED
  <2> HIDE DEF any, open
  <2>1. QED
    BY <1>1, <1>2

(* A graph keeps, of each pair, one of its relationships.                  *)
LEMMA BuildsOfIs ==
    ASSUME NEW edges, NEW g \in BuildsOf(edges)
    PROVE  /\ DOMAIN g = {PairOf(e) : e \in edges}
           /\ \A pair \in DOMAIN g : g[pair] \in edges /\ PairOf(g[pair]) = pair
<1> DEFINE choices == [q \in {PairOf(e) : e \in edges} |-> {e \in edges : PairOf(e) = q}]
<1>1. g \in Picks(choices)
  BY DEF BuildsOf
<1>2. DOMAIN choices = {PairOf(e) : e \in edges}
  OBVIOUS
<1>3. \A q \in DOMAIN choices : choices[q] = {e \in edges : PairOf(e) = q}
  OBVIOUS
<1> HIDE DEF choices
<1>4. DOMAIN g = DOMAIN choices /\ \A q \in DOMAIN choices : g[q] \in choices[q]
  BY <1>1, PickOf
<1>5. QED
  BY <1>2, <1>3, <1>4

(* The walks from the entries, and those of them that have given ends.     *)
Walks(g, E) == UNION {WalksFrom(g, e) : e \in E}
Between(g, E, pair) == {p \in Walks(g, E) : Ends(p) = pair}
Joined(g, E, T) == {Ends(p) : p \in Walks(g, E)} \cap PairsOfEnds(E, T)

LEMMA FoundIs ==
    ASSUME NEW g, NEW E, NEW T, NEW P \in FindPaths(g, E, T)
    PROVE  /\ \A p \in P : p \in Walks(g, E) /\ Ends(p) \in PairsOfEnds(E, T)
           /\ \A pair \in Joined(g, E, T) :
                {p \in P : Ends(p) = pair} \in Shortest(Between(g, E, pair))
<1> DEFINE choices == [pair \in Joined(g, E, T) |-> Shortest(Between(g, E, pair))]
<1>1. PICK pick \in Picks(choices) : P = UNION {pick[pair] : pair \in Joined(g, E, T)}
  BY DEF FindPaths, Walks, Between, Joined
<1>2. \A pair \in Joined(g, E, T) : pick[pair] \in Shortest(Between(g, E, pair))
  <2>1. DOMAIN choices = Joined(g, E, T)
    OBVIOUS
  <2>2. \A x \in DOMAIN choices : pick[x] \in choices[x]
    <3> HIDE DEF choices
    <3>1. QED
      BY <1>1, PickOf
  <2>3. QED
    BY <2>1, <2>2
<1>3. \A pair \in Joined(g, E, T) : pick[pair] \subseteq Between(g, E, pair)
  BY <1>2 DEF Shortest, kSubset
<1>4. \A pair \in Joined(g, E, T) : {p \in P : Ends(p) = pair} = pick[pair]
  BY <1>1, <1>3 DEF Between
<1>5. \A p \in P : p \in Walks(g, E) /\ Ends(p) \in PairsOfEnds(E, T)
  BY <1>1, <1>3 DEF Between, Joined
<1>6. QED
  BY <1>2, <1>4, <1>5
-----------------------------------------------------------------------------
(* The engine takes some, takes the shortest, and leaves none out unless   *)
(* the cap is reached.                                                     *)
LEMMA ShortestOf ==
    ASSUME NEW W, IsFiniteSet(W), W # {}, NEW S \in Shortest(W)
    PROVE  /\ S \subseteq W /\ S # {}
           /\ \A p \in S, q \in W \ S : Len(p) <= Len(q)
           /\ W # S => Cardinality(S) = MaxPaths
<1>1. MaxPaths \in Nat \ {0} /\ Cardinality(W) \in Nat \ {0}
  BY GraphAssumption, FS_CardinalityType, FS_EmptySet
<1>2. /\ S \in SUBSET W /\ Cardinality(S) = Min({MaxPaths, Cardinality(W)})
      /\ \A p \in S, q \in W \ S : Len(p) <= Len(q)
  BY DEF Shortest, kSubset
<1>3. Min({MaxPaths, Cardinality(W)}) \in {MaxPaths, Cardinality(W)}
  <2>1. {MaxPaths, Cardinality(W)} \in SUBSET Nat /\ {MaxPaths, Cardinality(W)} # {}
    BY <1>1
  <2>2. QED
    BY <2>1, MinOf
<1>4. S # {}
  <2>1. Cardinality(S) # 0
    BY <1>1, <1>2, <1>3
  <2>2. QED
    BY <2>1, FS_EmptySet
<1>5. Cardinality(S) = Cardinality(W) => S = W
  BY <1>2, FS_Subset
<1>6. QED
  BY <1>2, <1>3, <1>4, <1>5

SameEnds(P, w) == {q \in P : Ends(q) = Ends(w)}

(* A walk to a target is found, or the cap is full of others as short.     *)
LEMMA FoundOrCapped ==
    ASSUME NEW g, IsFiniteSet(Heads(g)), NEW E, NEW T, NEW P \in FindPaths(g, E, T),
           NEW e \in E, NEW w \in WalksFrom(g, e), Last(w) \in T, Last(w) # e
    PROVE  /\ \E q \in SameEnds(P, w) : Len(q) <= Len(w)
           /\ w \in P \/ (/\ Cardinality(SameEnds(P, w)) = MaxPaths
                         /\ \A q \in SameEnds(P, w) : Len(q) <= Len(w))
<1> DEFINE same == SameEnds(P, w)
           all == Between(g, E, Ends(w))
<1>1. Ends(w) = <<e, Last(w)>>
  BY WalkOf DEF Ends
<1>2. w \in all /\ Ends(w) \in Joined(g, E, T)
  <2>1. w \in Walks(g, E)
    BY DEF Walks
  <2>2. Ends(w) \in PairsOfEnds(E, T)
    BY <1>1 DEF PairsOfEnds
  <2>3. QED
    BY <2>1, <2>2 DEF Between, Joined
<1>3. same \in Shortest(all)
  BY <1>2, FoundIs DEF SameEnds
<1>4. IsFiniteSet(all)
  <2>1. ASSUME NEW p \in all PROVE p \in WalksFrom(g, e)
    <3>1. PICK d \in E : p \in WalksFrom(g, d)
      BY DEF Between, Walks
    <3>2. Ends(p) = Ends(w) /\ p[1] = d
      BY <3>1, WalkOf DEF Between
    <3>3. d = e
      BY <1>1, <3>2 DEF Ends
    <3>4. QED
      BY <3>1, <3>3
  <2>2. all \in SUBSET WalksFrom(g, e)
    BY <2>1
  <2>3. QED
    BY <2>2, WalksFinite, FS_Subset
<1>5. /\ same \subseteq all /\ same # {}
      /\ \A p \in same, q \in all \ same : Len(p) <= Len(q)
      /\ all # same => Cardinality(same) = MaxPaths
  <2> HIDE DEF same, all
  <2>1. QED
    BY <1>2, <1>3, <1>4, ShortestOf
<1>6. Len(w) \in Nat
  <2>1. Hops(w) \in Int /\ Len(w) = Hops(w) + 1 /\ Hops(w) >= 0
    BY WalkOf, GraphAssumption
  <2>2. QED
    BY <2>1
<1>7. CASE w \in same
  BY <1>6, <1>7 DEF SameEnds
<1>8. CASE w \notin same
  <2>1. w \in all \ same /\ all # same
    BY <1>2, <1>8
  <2>2. \A q \in same : Len(q) <= Len(w)
    BY <1>5, <2>1
  <2>3. QED
    BY <1>5, <2>1, <2>2
<1>9. QED
  BY <1>7, <1>8

(* A sequence that visits a node twice can be cut short between the two.   *)
Loops(w, a, d, n) ==
    /\ a \in Nat /\ d \in Nat /\ n \in Nat
    /\ 1 <= a /\ a <= n /\ n + d = Len(w) /\ w[a] = w[a + d]

LEMMA CutShort ==
    ASSUME NEW S, NEW w \in Seq(S), NEW a, NEW d, NEW n, Loops(w, a, d, n)
    PROVE  \E v \in Seq(S) :
              /\ Len(v) = n /\ v[1] = w[1] /\ Last(v) = Last(w)
              /\ \A i \in 1..Hops(v) : \E j \in 1..Hops(w) :
                    v[i] = w[j] /\ v[i + 1] = w[j + 1]
<1> USE DEF Loops
<1> DEFINE v == [i \in 1..n |-> IF i <= a THEN w[i] ELSE w[i + d]]
<1>1. \A i \in 1..n : v[i] = IF i <= a THEN w[i] ELSE w[i + d]
  OBVIOUS
<1>2. v \in Seq(S) /\ Len(v) = n
  <2>1. ASSUME NEW i \in 1..n PROVE (IF i <= a THEN w[i] ELSE w[i + d]) \in S
    <3>1. i \in 1..Len(w) /\ i + d \in 1..Len(w)
      OBVIOUS
    <3>2. w[i] \in S /\ w[i + d] \in S
      BY <3>1, ElementOfSeq
    <3>3. QED
      BY <3>2
  <2>2. v \in [1..n -> S]
    BY <2>1
  <2> HIDE DEF v
  <2>3. QED
    BY <2>2
<1> HIDE DEF v
<1>3. v[1] = w[1]
  BY <1>1
<1>4. v[n] = w[n + d]
  <2>1. CASE n = a
    BY <1>1, <2>1
  <2>2. CASE n # a
    BY <1>1, <2>2
  <2>3. QED
    BY <2>1, <2>2
<1>5. ASSUME NEW i \in 1..(n - 1)
      PROVE  \E j \in 1..(Len(w) - 1) : v[i] = w[j] /\ v[i + 1] = w[j + 1]
  <2>1. CASE i < a
    <3>1. v[i] = w[i] /\ v[i + 1] = w[i + 1] /\ i \in 1..(Len(w) - 1)
      BY <1>1, <2>1
    <3>2. QED
      BY <3>1
  <2>2. CASE i >= a
    <3>1. i + d \in 1..(Len(w) - 1) /\ (i + d) + 1 = (i + 1) + d
      OBVIOUS
    <3>2. v[i + 1] = w[(i + 1) + d]
      BY <1>1, <2>2
    <3>3. v[i] = w[i + d]
      <4>1. CASE i = a
        BY <1>1, <4>1
      <4>2. CASE i # a
        BY <1>1, <2>2, <4>2
      <4>3. QED
        BY <4>1, <4>2
    <3>4. QED
      BY <3>1, <3>2, <3>3
  <2>3. QED
    BY <2>1, <2>2
<1>6. QED
  BY <1>2, <1>3, <1>4, <1>5 DEF Last, Hops

(* The stretch from a place to a later one, taken out of a way's length.   *)
LEMMA GapSplits ==
    ASSUME NEW a \in Nat, NEW b \in Nat, NEW l \in Nat, a < b, b <= l
    PROVE  \E d \in Nat, n \in Nat : a + d = b /\ n + d = l /\ a <= n /\ d >= 1
<1>1. b - a \in Nat /\ l - (b - a) \in Nat
  OBVIOUS
<1>2. a + (b - a) = b /\ (l - (b - a)) + (b - a) = l
  OBVIOUS
<1>3. a <= l - (b - a) /\ b - a >= 1
  OBVIOUS
<1>4. QED
  BY <1>1, <1>2, <1>3

(* Whatever way leads somewhere, there is a walk that is at most as long:  *)
(* the shortest way visits no node twice, or it could be cut short.        *)
LEMMA WayMakesWalk ==
    ASSUME NEW g, NEW e, NEW S, NEW way \in Seq(S), Hops(way) \in 0..MaxDepth, way[1] = e,
           \A i \in 1..Hops(way) : <<way[i], way[i + 1]>> \in DOMAIN g
    PROVE  \E w \in WalksFrom(g, e) : Last(w) = Last(way) /\ Len(w) <= Len(way)
<1> DEFINE Leads(v) == /\ v[1] = e /\ Last(v) = Last(way)
                       /\ \A i \in 1..Hops(v) : <<v[i], v[i + 1]>> \in DOMAIN g
           T == {k \in 0..Hops(way) : \E v \in Seq(S) : Hops(v) = k /\ Leads(v)}
<1>1. MaxDepth \in Nat /\ Hops(way) \in Nat
  BY GraphAssumption
<1>2. T \in SUBSET Nat /\ T # {}
  <2>1. Leads(way) /\ Hops(way) \in 0..Hops(way)
    BY <1>1
  <2> HIDE DEF Leads
  <2>2. Hops(way) \in T
    BY <2>1
  <2>3. QED
    BY <2>2
<1>3. PICK k \in T : \A m \in T : k <= m
  <2> HIDE DEF T
  <2>1. QED
    BY <1>2, LeastNumber
<1>4. PICK w \in Seq(S) : Hops(w) = k /\ Leads(w)
  <2> HIDE DEF Leads
  <2>1. QED
    BY <1>3
<1>5. k \in 0..Hops(way) /\ Len(w) = k + 1 /\ DOMAIN w = 1..Len(w)
  BY <1>1, <1>3, <1>4 DEF Hops
<1>6. ASSUME NEW a \in Nat, NEW b \in Nat, 1 <= a, b <= k + 1, w[a] = w[b], a < b
      PROVE  FALSE
  <2> HIDE DEF T, Leads
  <2>1. Len(w) = k + 1 /\ k \in Nat
    BY <1>1, <1>5
  <2>2. PICK d \in Nat, n \in Nat : a + d = b /\ n + d = Len(w) /\ a <= n /\ d >= 1
    <3>1. PICK l \in Nat : l = k + 1
      BY <2>1
    <3>2. b <= l
      BY <1>6, <3>1
    <3>3. QED
      BY <1>6, <2>1, <3>1, <3>2, GapSplits
  <2>3. a \in Nat /\ 1 <= a
    BY <1>6
  <2>4. PICK v \in Seq(S) :
           /\ Len(v) = n /\ v[1] = w[1] /\ Last(v) = Last(w)
           /\ \A i \in 1..Hops(v) : \E j \in 1..Hops(w) :
                 v[i] = w[j] /\ v[i + 1] = w[j + 1]
    <3>1. Loops(w, a, d, n)
      BY <1>6, <2>2, <2>3 DEF Loops
    <3>2. QED
      BY <3>1, CutShort
  <2>5. Leads(v)
    BY <1>4, <2>4 DEF Leads
  <2>6. Hops(v) < k /\ Hops(v) \in 0..Hops(way)
    BY <1>1, <1>5, <2>1, <2>2, <2>3, <2>4 DEF Hops
  <2>7. Hops(v) \in T
    BY <2>4, <2>5, <2>6 DEF T
  <2>8. QED
    BY <1>1, <1>3, <2>1, <2>6, <2>7
<1>7. IsInjective(w)
  <2>1. ASSUME NEW a \in DOMAIN w, NEW b \in DOMAIN w, w[a] = w[b]
        PROVE  a = b
    <3>1. /\ a \in Nat /\ 1 <= a /\ a <= k + 1
          /\ b \in Nat /\ 1 <= b /\ b <= k + 1
      BY <1>1, <1>5
    <3>2. ~ (a < b) /\ ~ (b < a)
      BY <1>6, <2>1, <3>1
    <3>3. QED
      BY <3>1, <3>2
  <2>2. QED
    BY <2>1 DEF IsInjective
<1>8. w \in WalksFrom(g, e)
  <2>1. Hops(w) \in 0..MaxDepth
    BY <1>1, <1>4, <1>5
  <2>2. QED
    BY <1>4, <1>7, <2>1, IsWalk
<1>9. Len(w) <= Len(way)
  BY <1>1, <1>5 DEF Hops
<1>10. QED
  BY <1>4, <1>8, <1>9
-----------------------------------------------------------------------------
LEMMA ShortPartOf ==
    ASSUME NEW steps, Len(steps) \in Nat \ {0}
    PROVE  ShortPart(steps) \in 0..9
<1> DEFINE T == {0, 10 - Len(steps)}
<1>1. T \in SUBSET Int /\ T # {} /\ 10 \in Int /\ \A n \in T : n <= 10
  OBVIOUS
<1>2. Max(T) \in T /\ \A n \in T : Max(T) >= n
  <2> HIDE DEF T
  <2>1. QED
    BY <1>1, MaxOf
<1>3. 0 \in T
  OBVIOUS
<1>4. QED
  BY <1>2, <1>3 DEF ShortPart

(* The score of a path that crosses no account, from what it is made of.   *)
LEMMA ScoreOf ==
    ASSUME NEW as, NEW p, NEW steps, NEW js, Len(steps) \in Nat \ {0},
           ~ CrossesAccounts(steps)
    PROVE  LET score == Score(as, p, steps, js)
           IN  /\ score \in Int
               /\ score >= 60 => Escalates(steps)
               /\ score >= 80 =>
                    /\ ~ Conditioned(steps)
                    /\ Last(p) \in js \/ NodeType(as, Last(p)) \in {"RDS", "SECRET"}
<1> DEFINE type == NodeType(as, Last(p))
           entry == Points(IsEntry(as, p[1]), 25)
           crown == CrownPart(as, Last(p), js)
           climb == Points(Escalates(steps), 20)
           cross == Points(CrossesAccounts(steps), 10)
           free == Points(Escalates(steps) /\ ~ Conditioned(steps), 10)
           data == Points(type \in {"S3", "RDS", "SECRET"}, 5)
<1>1. ShortPart(steps) \in 0..9
  BY ShortPartOf
<1>2. entry \in {0, 25} /\ cross = 0
  BY DEF Points
<1>3. climb \in {0, 20} /\ (~ Escalates(steps) => climb = 0)
  BY DEF Points
<1>4. free \in {0, 10} /\ (~ Escalates(steps) \/ Conditioned(steps) => free = 0)
  BY DEF Points
<1>5. data \in {0, 5} /\ (type \notin {"S3", "RDS", "SECRET"} => data = 0)
  BY DEF Points
<1>6. /\ Last(p) \in js => crown = 20
      /\ Last(p) \notin js /\ type \in {"RDS", "SECRET", "KMS_KEY"} => crown = 12
      /\ Last(p) \notin js /\ type \notin {"RDS", "SECRET", "KMS_KEY"} => crown = 6
  <2> HIDE DEF type
  <2>1. crown = CASE Last(p) \in js -> 20
                  [] Last(p) \notin js /\ type \in {"RDS", "SECRET", "KMS_KEY"} -> 12
                  [] OTHER -> 6
    BY DEF CrownPart, type
  <2> HIDE DEF crown
  <2>2. CASE Last(p) \in js
    BY <2>1, <2>2
  <2>3. CASE Last(p) \notin js /\ type \in {"RDS", "SECRET", "KMS_KEY"}
    BY <2>1, <2>3
  <2>4. CASE Last(p) \notin js /\ type \notin {"RDS", "SECRET", "KMS_KEY"}
    BY <2>1, <2>4
  <2>5. QED
    BY <2>2, <2>3, <2>4
<1>7. Score(as, p, steps, js) = entry + crown + climb + cross + ShortPart(steps) + free + data
  BY DEF Score
<1>8. crown \in {6, 12, 20}
  <2> HIDE DEF crown, type
  <2>1. QED
    BY <1>6
<1> HIDE DEF type, entry, crown, climb, cross, free, data
<1>9. Score(as, p, steps, js) \in Int
  BY <1>1, <1>2, <1>3, <1>4, <1>5, <1>7, <1>8
<1>10. Score(as, p, steps, js) >= 60 => Escalates(steps)
  BY <1>1, <1>2, <1>3, <1>4, <1>5, <1>7, <1>8
<1>11. Score(as, p, steps, js) >= 80 => ~ Conditioned(steps)
  BY <1>1, <1>2, <1>3, <1>4, <1>5, <1>7, <1>8
<1>12. Score(as, p, steps, js) >= 80 => Last(p) \in js \/ type \in {"RDS", "SECRET"}
  <2>1. ASSUME Last(p) \notin js, type \notin {"RDS", "SECRET"}
        PROVE  crown + data <= 12
    BY <1>5, <1>6, <2>1
  <2>2. QED
    BY <1>1, <1>2, <1>3, <1>4, <1>5, <1>7, <1>8, <2>1
<1>13. QED
  BY <1>9, <1>10, <1>11, <1>12 DEF type
=============================================================================
