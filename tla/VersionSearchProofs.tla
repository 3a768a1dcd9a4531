-------------------------- MODULE VersionSearchProofs --------------------------
(***************************************************************************)
(* The version search answers with the first assignment the preference     *)
(* order admits, and refuses a sound request only if no assignment is      *)
(* compatible: for every catalog, every number of versions and every seed. *)
(***************************************************************************)
EXTENDS VersionSearchReference, FiniteSetTheorems

-----------------------------------------------------------------------------
(***************************************************************************)
(* Newest versions and places in order.                                    *)
(***************************************************************************)

\* Some versions have a newest one.
LEMMA NewestOf ==
    ASSUME NEW V \in SUBSET Versions, V # {}
    PROVE  Newest(V) \in V /\ Newest(V) \in Nat /\ \A w \in V : w \in Nat /\ w <= Newest(V)
  <1> DEFINE above(v) == {w \in V : v < w}
             U == {above(v) : v \in V}
  <1>1. V \subseteq Nat /\ IsFiniteSet(V)
    BY VersionsAssumption, FS_Subset
  <1>2. \A v \in V : above(v) \in FiniteSubsetsOf(V)
    BY <1>1, FS_Subset DEF FiniteSubsetsOf
  <1>3. U \subseteq FiniteSubsetsOf(V) /\ U # {}
    BY <1>2
  <1>4. PICK B \in U : \A A \in U : <<A, B>> \notin StrictSubsetOrdering(V)
    BY <1>3, FS_StrictSubsetOrderingWellFounded, WFMin
  <1>5. PICK x \in V : B = above(x)
    OBVIOUS
  <1>6. ASSUME NEW y \in V PROVE y <= x
    <2> SUFFICES ASSUME ~(y <= x) PROVE FALSE
      OBVIOUS
    <2>1. x < y /\ \A w \in V : w \in Nat /\ (y < w => x < w) /\ ~(w < w)
      BY <1>1
    <2>2. above(y) \subseteq above(x) /\ y \in above(x) /\ y \notin above(y)
      BY <2>1
    <2>3. <<above(y), above(x)>> \in StrictSubsetOrdering(V)
      BY <2>2 DEF StrictSubsetOrdering
    <2> QED
      BY <1>4, <1>5, <2>3
  <1>7. \E v \in V : \A w \in V : w <= v
    BY <1>6
  <1> HIDE DEF U, above
  <1>8. Newest(V) \in V /\ \A w \in V : w <= Newest(V)
    BY <1>7 DEF Newest
  <1> QED
    BY <1>1, <1>8

Rank(places, i) == Cardinality({j \in places : j < i})

Place(places, k) == CHOOSE i \in places : Rank(places, i) = k - 1

LEMMA RankGrows ==
    ASSUME NEW places \in SUBSET Nat, IsFiniteSet(places), NEW i \in places
    PROVE  /\ Rank(places, i) \in 0..(Cardinality(places) - 1)
           /\ \A j \in places : i < j => Rank(places, i) < Rank(places, j)
  <1> DEFINE before(j) == {l \in places : l < j}
  <1>1. \A j \in places : IsFiniteSet(before(j)) /\ Cardinality(before(j)) \in Nat
    BY FS_Subset, FS_CardinalityType
  <1>2. Cardinality(places) \in Nat
    BY FS_CardinalityType
  <1>3. Cardinality(before(i)) < Cardinality(places)
    <2>1. before(i) \in SUBSET places /\ i \notin before(i)
      OBVIOUS
    <2>2. Cardinality(before(i)) <= Cardinality(places) /\ Cardinality(before(i)) # Cardinality(places)
      BY <2>1, FS_Subset
    <2> QED
      BY <1>1, <1>2, <2>2
  <1>4. ASSUME NEW j \in places, i < j PROVE Cardinality(before(i)) < Cardinality(before(j))
    <2>1. \A l \in places : (l < i => l < j) /\ ~(l < l)
      BY <1>4
    <2>2. before(i) \in SUBSET before(j) /\ i \in before(j) /\ i \notin before(i)
      BY <1>4, <2>1
    <2>3. /\ Cardinality(before(i)) <= Cardinality(before(j))
          /\ Cardinality(before(i)) # Cardinality(before(j))
      BY <1>1, <2>2, FS_Subset
    <2> QED
      BY <1>1, <2>3
  <1> QED
    BY <1>1, <1>2, <1>3, <1>4 DEF Rank

\* A place is determined by its rank.
LEMMA PlaceOfRank ==
    ASSUME NEW places \in SUBSET Nat, IsFiniteSet(places), NEW i \in places
    PROVE  Place(places, Rank(places, i) + 1) = i
  <1>1. Rank(places, i) \in Nat
    BY RankGrows, FS_CardinalityType
  <1>2. ASSUME NEW j \in places, Rank(places, j) = Rank(places, i) PROVE j = i
    BY <1>1, <1>2, RankGrows
  <1>3. (Rank(places, i) + 1) - 1 = Rank(places, i)
    BY <1>1
  <1> DEFINE r == Rank(places, i)
  <1> HIDE DEF r
  <1>4. Place(places, r + 1) \in places /\ Rank(places, Place(places, r + 1)) = r
    BY <1>3 DEF Place, r
  <1> QED
    BY <1>2, <1>4 DEF r

\* Every rank has a place.
LEMMA PlaceRanked ==
    ASSUME NEW places \in SUBSET Nat, IsFiniteSet(places), NEW k \in 1..Cardinality(places)
    PROVE  Place(places, k) \in places /\ Rank(places, Place(places, k)) = k - 1
  <1> DEFINE n == Cardinality(places)
             S == 0..(n - 1)
             T == S \ {k - 1}
             f == [i \in places |-> Rank(places, i)]
  <1>1. n \in Nat /\ k \in 1..n
    BY FS_CardinalityType
  <1>2. IsFiniteSet(T) /\ Cardinality(T) < n
    <2> HIDE DEF n
    <2>1. n - 1 \in Int /\ 0 \in Int /\ n > 0
      BY <1>1
    <2>2. IsFiniteSet(0..(n - 1)) /\ Cardinality(0..(n - 1)) = n
      <3>1. /\ IsFiniteSet(0..(n - 1))
            /\ Cardinality(0..(n - 1)) = IF 0 > n - 1 THEN 0 ELSE (n - 1) - 0 + 1
        BY <2>1, FS_Interval
      <3> QED
        BY <1>1, <2>1, <3>1
    <2>3. k - 1 \in 0..(n - 1)
      BY <1>1
    <2>4. IsFiniteSet(S) /\ Cardinality(S) = n /\ k - 1 \in S
      BY <2>2, <2>3
    <2> HIDE DEF S
    <2>5. IsFiniteSet(T) /\ Cardinality(T) = n - 1
      BY <2>4, FS_RemoveElement
    <2> QED
      BY <1>1, <2>5
  <1>3. \E i \in places : Rank(places, i) = k - 1
    <2> SUFFICES ASSUME \A i \in places : Rank(places, i) # k - 1 PROVE FALSE
      OBVIOUS
    <2>1. f \in [places -> T]
      <3>1. \A i \in places : Rank(places, i) \in T
        BY RankGrows
      <3> QED
        BY <3>1
    <2> HIDE DEF f, T
    <2>2. PICK i, j \in places : i # j /\ f[i] = f[j]
      BY <1>2, <2>1, FS_PigeonHole
    <2>3. i < j \/ j < i
      BY <2>2
    <2>4. Rank(places, i) \in Nat /\ Rank(places, j) \in Nat
      BY <1>1, RankGrows
    <2>5. Rank(places, i) = Rank(places, j)
      BY <2>2 DEF f
    <2> HIDE DEF n
    <2> QED
      BY <2>3, <2>4, <2>5, RankGrows
  <1> QED
    BY <1>3 DEF Place

-----------------------------------------------------------------------------
(***************************************************************************)
(* What lies outside a set of ids nothing leads out of does not show.      *)
(***************************************************************************)

\* Two selections that differ outside P only, and there not in the roles of ids.
Alike(s, t, P) ==
    /\ s.enabled = t.enabled /\ s.roots = t.roots
    /\ s.providesFor = t.providesFor /\ s.defaultFor = t.defaultFor
    /\ \A d \in s.enabled \cap P : s.dependencies[d] = t.dependencies[d] /\ s.members[d] = t.members[d]

\* A selection starts in P and nothing leads out of it.
Confined(s, P) ==
    /\ s.roots \cup ImplicitSelected(s) \subseteq P
    /\ \A d \in s.enabled \cap P : s.dependencies[d] \cup s.members[d] \subseteq P
    /\ \A d \in s.enabled : s.defaultFor[d] # {} => d \in P

LEMMA ReachAlike ==
    ASSUME NEW P, NEW roots \in SUBSET P, NEW R, NEW Q, Closed(P, R), Closed(P, Q),
           \A e : e[1] \in P => (e \in R <=> e \in Q)
    PROVE  Reach(roots, R) = Reach(roots, Q) /\ Reach(roots, R) \subseteq P
  <1>1. Reach(roots, R) \subseteq P /\ Reach(roots, Q) \subseteq P
    BY ReachLeast
  <1>2. Closed(Reach(roots, Q), R)
    BY <1>1, ReachStep DEF Closed
  <1>3. Closed(Reach(roots, R), Q)
    BY <1>1, ReachStep DEF Closed
  <1>4. Reach(roots, R) \subseteq Reach(roots, Q)
    BY <1>2, ReachLeast, ReachHoldsRoots
  <1>5. Reach(roots, Q) \subseteq Reach(roots, R)
    BY <1>3, ReachLeast, ReachHoldsRoots
  <1> QED
    BY <1>1, <1>4, <1>5

LEMMA RolesAlike ==
    ASSUME NEW s, NEW t, NEW P, Alike(s, t, P)
    PROVE  /\ Providers(s) = Providers(t) /\ Candidates(s) = Candidates(t) /\ Provided(s) = Provided(t)
           /\ ImplicitSelected(s) = ImplicitSelected(t) /\ MaxPasses(s) = MaxPasses(t)
           /\ DefaultRequests(s) = DefaultRequests(t)
           /\ TwoDefaults(s) = TwoDefaults(t) /\ TwoSelectedProviders(s) = TwoSelectedProviders(t)
           /\ \A S : PairsProviding(s, S) = PairsProviding(t, S)
           /\ \A slots : Losers(s, slots) = Losers(t, slots)
           /\ \A slots : DefaultEdges(s, slots) = DefaultEdges(t, slots)
  <1>1. Providers(s) = Providers(t) /\ Provided(s) = Provided(t)
    BY DEF Alike, Providers, Provided
  <1>2. Candidates(s) = Candidates(t)
    BY DEF Alike, Candidates
  <1>3. ImplicitSelected(s) = ImplicitSelected(t) /\ MaxPasses(s) = MaxPasses(t)
    BY <1>1 DEF Alike, ImplicitSelected, MaxPasses
  <1>4. DefaultRequests(s) = DefaultRequests(t)
    BY DEF Alike, DefaultRequests
  <1>5. TwoDefaults(s) = TwoDefaults(t) /\ TwoSelectedProviders(s) = TwoSelectedProviders(t)
    BY DEF Alike, TwoDefaults, TwoSelectedProviders
  <1>6. \A S : PairsProviding(s, S) = PairsProviding(t, S)
    BY DEF Alike, PairsProviding
  <1>7. \A slots : Losers(s, slots) = Losers(t, slots)
    BY <1>1 DEF Alike, Losers
  <1>8. \A slots : DefaultEdges(s, slots) = DefaultEdges(t, slots)
    BY DEF Alike, DefaultEdges
  <1> QED
    BY <1>1, <1>2, <1>3, <1>4, <1>5, <1>6, <1>7, <1>8

\* What is selected explicitly, closed over and composed is the same.
LEMMA ExplicitAlike ==
    ASSUME NEW s, NEW t, NEW P, Alike(s, t, P), Confined(s, P), Confined(t, P)
    PROVE  Explicit(s) = Explicit(t) /\ Explicit(s) \subseteq P
  <1> DEFINE R == {e \in s.enabled \X Names : e[2] \in s.members[e[1]]}
             Q == {e \in t.enabled \X Names : e[2] \in t.members[e[1]]}
  <1>1. Closed(P, R) /\ Closed(P, Q)
    BY DEF Confined, Closed
  <1>2. \A e : e[1] \in P => (e \in R <=> e \in Q)
    BY DEF Alike
  <1>3. s.roots \in SUBSET P /\ s.roots = t.roots
    BY DEF Confined, Alike
  <1> HIDE DEF R, Q
  <1>4. Reach(s.roots, R) = Reach(s.roots, Q) /\ Reach(s.roots, R) \subseteq P
    BY <1>1, <1>2, <1>3, ReachAlike
  <1> QED
    BY <1>3, <1>4 DEF Explicit, R, Q

LEMMA ClosureAlike ==
    ASSUME NEW s, NEW t, NEW P, Alike(s, t, P), Confined(s, P), Confined(t, P),
           NEW E \in SUBSET (s.enabled \cap P), NEW W \in SUBSET (s.enabled \cap P)
    PROVE  Closure(s, E, W) = Closure(t, E, W) /\ Closure(s, E, W) \subseteq s.enabled \cap P
  <1> DEFINE R == StrippedEdges(s) \cup MemberEdges(s, {})
             Q == StrippedEdges(t) \cup MemberEdges(t, {})
             roots == E \cup ImplicitSelected(s) \cup W
  <1>1. Closed(P, R) /\ Closed(P, Q) /\ Closed(s.enabled, R)
    BY DEF Confined, Closed, StrippedEdges, MemberEdges
  <1>2. \A e : e[1] \in P => (e \in R <=> e \in Q)
    <2>1. Providers(s) = Providers(t)
      BY RolesAlike
    <2> QED
      BY <2>1 DEF Alike, StrippedEdges, MemberEdges
  <1>3. roots \in SUBSET P /\ roots \subseteq s.enabled
    BY DEF Confined, ImplicitSelected
  <1>4. ImplicitSelected(s) = ImplicitSelected(t)
    BY RolesAlike
  <1> HIDE DEF R, Q
  <1>5. Reach(roots, R) = Reach(roots, Q) /\ Reach(roots, R) \subseteq P
    BY <1>1, <1>2, <1>3, ReachAlike
  <1>6. Reach(roots, R) \subseteq s.enabled
    BY <1>1, <1>3, ReachLeast
  <1> QED
    BY <1>4, <1>5, <1>6 DEF Closure, R, Q

LEMMA CompositionAlike ==
    ASSUME NEW s, NEW t, NEW P, Alike(s, t, P), Confined(s, P), Confined(t, P),
           NEW E \in SUBSET (s.enabled \cap P), NEW slots
    PROVE  /\ Composition(s, E, slots) = Composition(t, E, slots)
           /\ Composition(s, E, slots) \subseteq s.enabled \cap P
  <1> DEFINE R == RewrittenEdges(s, slots) \cup MemberEdges(s, Winners(slots))
             Q == RewrittenEdges(t, slots) \cup MemberEdges(t, Winners(slots))
             roots == E \cup ImplicitSelected(s)
  <1>1. \A e \in DefaultEdges(s, slots) : e[2] \in P /\ e[2] \in s.enabled
    BY DEF Confined, DefaultEdges
  <1>2. DefaultEdges(s, slots) = DefaultEdges(t, slots) /\ Losers(s, slots) = Losers(t, slots)
        /\ Providers(s) = Providers(t) /\ ImplicitSelected(s) = ImplicitSelected(t)
    BY RolesAlike
  <1>3. Closed(P, R) /\ Closed(P, Q) /\ Closed(s.enabled, R)
    BY <1>1, <1>2 DEF Confined, Closed, RewrittenEdges, MemberEdges
  <1>4. \A e : e[1] \in P => (e \in R <=> e \in Q)
    BY <1>2 DEF Alike, RewrittenEdges, MemberEdges
  <1>5. roots \in SUBSET P /\ roots \subseteq s.enabled
    BY DEF Confined, ImplicitSelected
  <1> HIDE DEF R, Q
  <1>6. Reach(roots, R) = Reach(roots, Q) /\ Reach(roots, R) \subseteq P
    BY <1>3, <1>4, <1>5, ReachAlike
  <1>7. Reach(roots, R) \subseteq s.enabled
    BY <1>3, <1>5, ReachLeast
  <1> QED
    BY <1>2, <1>6, <1>7 DEF Composition, R, Q

\* What a pass asks is the same, and whom it chooses lies within P.
LEMMA AskAlike ==
    ASSUME NEW s, NEW t, NEW P, Alike(s, t, P), NEW E, NEW C \in SUBSET (s.enabled \cap P)
    PROVE  Ask(s, E, C) = Ask(t, E, C)
  <1>1. \A d \in C : s.dependencies[d] = t.dependencies[d] /\ NamedBy(s, E, d) = NamedBy(t, E, d)
    BY DEF Alike, NamedBy
  <1>2. UNION {NamedBy(s, E, d) : d \in C} = UNION {NamedBy(t, E, d) : d \in C}
    BY <1>1
  <1>3. UNION {s.dependencies[d] : d \in C} = UNION {t.dependencies[d] : d \in C}
    BY <1>1
  <1>4. DependencyRequests(s, E, C) = DependencyRequests(t, E, C)
    BY <1>2, RolesAlike DEF DependencyRequests
  <1>5. RequiredCapabilities(s, C) = RequiredCapabilities(t, C)
    BY <1>3, RolesAlike DEF RequiredCapabilities
  <1> QED
    BY <1>4, <1>5, RolesAlike DEF Ask

LEMMA WinnersRequested ==
    ASSUME NEW ask, NEW w \in Winners(Resolution(ask))
    PROVE  \E mode \in Modes : \E r \in ask.requests[mode] : r[2] = w
  <1>1. PICK c \in ActiveSlots(ask) : w \in SlotOf(ask, c).winner
    BY DEF Winners, Resolution
  <1>2. TiersNaming(ask, c) # {} /\ w \in Named(ask, Tiers[DecidingTier(ask, c)], c)
    BY <1>1 DEF SlotOf
  <1>3. \E k \in TiersNaming(ask, c) : \A j \in TiersNaming(ask, c) : k <= j
    <2>1. TiersNaming(ask, c) \in SUBSET Nat
      BY DEF TiersNaming
    <2> QED
      BY <1>2, <2>1, LeastNatural
  <1>4. DecidingTier(ask, c) \in 1..3
    BY <1>3 DEF DecidingTier, TiersNaming
  <1>5. Tiers[DecidingTier(ask, c)] \in Modes
    BY <1>4 DEF Tiers, Modes
  <1> QED
    BY <1>2, <1>5 DEF Named

LEMMA WinnersConfined ==
    ASSUME NEW s, NEW P, Confined(s, P), NEW E \in SUBSET (s.enabled \cap P),
           NEW C \in SUBSET (s.enabled \cap P)
    PROVE  Winners(Resolution(Ask(s, E, C))) \subseteq s.enabled \cap P
  <1> SUFFICES ASSUME NEW w \in Winners(Resolution(Ask(s, E, C)))
               PROVE  w \in s.enabled \cap P
    OBVIOUS
  <1>1. PICK mode \in Modes : \E r \in Ask(s, E, C).requests[mode] : r[2] = w
    BY WinnersRequested
  <1>2. PICK r \in Ask(s, E, C).requests[mode] : r[2] = w
    BY <1>1
  <1>3. CASE mode = "explicit"
    BY <1>2, <1>3 DEF Ask, PairsProviding
  <1>4. CASE mode = "dependency"
    <2>1. r \in PairsProviding(s, UNION {NamedBy(s, E, d) : d \in C})
      BY <1>2, <1>4 DEF Ask, DependencyRequests
    <2>2. w \in s.enabled /\ w \in UNION {NamedBy(s, E, d) : d \in C}
      BY <1>2, <2>1 DEF PairsProviding
    <2>3. PICK d \in C : w \in NamedBy(s, E, d)
      BY <2>2
    <2> QED
      BY <2>2, <2>3 DEF NamedBy, Confined
  <1>5. CASE mode = "default"
    BY <1>2, <1>5 DEF Ask, DefaultRequests, Confined
  <1> QED
    BY <1>3, <1>4, <1>5 DEF Modes

-----------------------------------------------------------------------------
(***************************************************************************)
(* Passes, and what they settle.                                           *)
(***************************************************************************)

\* What is left after each of the passes up to some number.
AfterPasses(s, E, n, g) == g = [k \in 0..n |-> IF k = 0 THEN Start(s, E) ELSE Turn(s, E, g[k - 1])]

LEMMA PassesExist ==
    ASSUME NEW s, NEW E, NEW M \in Nat
    PROVE  \E g : AfterPasses(s, E, M, g)
  <1> DEFINE T == {n \in Nat : ~\E g : AfterPasses(s, E, n, g)}
  <1> SUFFICES ASSUME M \in T PROVE FALSE
    OBVIOUS
  <1>1. PICK n \in T : \A j \in T : n <= j
    BY LeastNatural
  <1>2. CASE n = 0
    <2> DEFINE g == [k \in 0..0 |-> Start(s, E)]
    <2>1. g = [k \in 0..0 |-> IF k = 0 THEN Start(s, E) ELSE Turn(s, E, g[k - 1])]
      OBVIOUS
    <2> QED
      BY <1>2, <2>1 DEF AfterPasses
  <1>3. CASE n # 0
    <2>1. n - 1 \in Nat /\ n - 1 \notin T /\ n \in Nat
      BY <1>1, <1>3
    <2>2. PICK h : AfterPasses(s, E, n - 1, h)
      BY <2>1
    <2> DEFINE g == [k \in 0..n |-> IF k = n THEN Turn(s, E, h[n - 1]) ELSE h[k]]
    <2>3. \A k \in 0..(n - 1) : g[k] = h[k]
      BY <2>1
    <2>4. ASSUME NEW k \in 0..n
          PROVE  g[k] = IF k = 0 THEN Start(s, E) ELSE Turn(s, E, g[k - 1])
      <3>1. CASE k = n
        BY <1>3, <2>1, <2>3, <3>1
      <3>2. CASE k # n
        <4>1. k \in 0..(n - 1) /\ (k # 0 => k - 1 \in 0..(n - 1))
          BY <2>1, <3>2
        <4>2. h[k] = IF k = 0 THEN Start(s, E) ELSE Turn(s, E, h[k - 1])
          BY <2>2, <4>1 DEF AfterPasses
        <4> QED
          BY <2>3, <4>1, <4>2
      <3> QED
        BY <3>1, <3>2
    <2>5. g = [k \in 0..n |-> IF k = 0 THEN Start(s, E) ELSE Turn(s, E, g[k - 1])]
      BY <2>4
    <2> HIDE DEF g
    <2>6. AfterPasses(s, E, n, g)
      BY <2>5 DEF AfterPasses
    <2> QED
      BY <1>1, <2>6
  <1> QED
    BY <1>2, <1>3

LEMMA SettlementPassed ==
    ASSUME NEW s, NEW E, MaxPasses(s) \in Nat
    PROVE  \E g : AfterPasses(s, E, MaxPasses(s), g) /\ Settlement(s, E) = g[MaxPasses(s)]
  <1> DEFINE g == CHOOSE g : g = [k \in 0..MaxPasses(s) |->
                                     IF k = 0 THEN Start(s, E) ELSE Turn(s, E, g[k - 1])]
  <1>1. PICK h : AfterPasses(s, E, MaxPasses(s), h)
    BY PassesExist
  <1>2. h = [k \in 0..MaxPasses(s) |-> IF k = 0 THEN Start(s, E) ELSE Turn(s, E, h[k - 1])]
    BY <1>1 DEF AfterPasses
  <1>3. g = [k \in 0..MaxPasses(s) |-> IF k = 0 THEN Start(s, E) ELSE Turn(s, E, g[k - 1])]
    BY <1>2
  <1>4. Settlement(s, E) = g[MaxPasses(s)]
    BY DEF Settlement
  <1> HIDE DEF g
  <1> QED
    BY <1>3, <1>4 DEF AfterPasses

LEMMA TurnAlike ==
    ASSUME NEW s, NEW t, NEW P, Alike(s, t, P), Confined(s, P), Confined(t, P),
           NEW E \in SUBSET (s.enabled \cap P), NEW state, state.winners \subseteq s.enabled \cap P
    PROVE  Turn(s, E, state) = Turn(t, E, state) /\ Turn(s, E, state).winners \subseteq s.enabled \cap P
  <1> DEFINE C == Closure(s, E, state.winners)
             ask == Ask(s, E, C)
  <1>1. C = Closure(t, E, state.winners) /\ C \subseteq s.enabled \cap P
    BY ClosureAlike
  <1>2. ask = Ask(t, E, C)
    BY <1>1, AskAlike
  <1>3. Winners(Resolution(ask)) \subseteq s.enabled \cap P
    BY <1>1, WinnersConfined
  <1>4. TurnOver(s, E, state, C) = TurnOver(t, E, state, C)
    BY <1>2 DEF TurnOver
  <1>5. TurnOver(s, E, state, C).winners \subseteq s.enabled \cap P
    BY <1>3 DEF TurnOver, Turned, Stuck
  <1> HIDE DEF C, ask
  <1> QED
    BY <1>1, <1>4, <1>5 DEF Turn, C

LEMMA SettlementAlike ==
    ASSUME NEW s, NEW t, NEW P, Alike(s, t, P), Confined(s, P), Confined(t, P),
           NEW E \in SUBSET (s.enabled \cap P), MaxPasses(s) \in Nat
    PROVE  Settlement(s, E) = Settlement(t, E)
  <1> DEFINE M == MaxPasses(s)
  <1>1. M \in Nat /\ M = MaxPasses(t)
    BY RolesAlike
  <1>2. PICK g : AfterPasses(s, E, M, g) /\ Settlement(s, E) = g[M]
    BY SettlementPassed
  <1>3. PICK h : AfterPasses(t, E, M, h) /\ Settlement(t, E) = h[M]
    BY <1>1, SettlementPassed
  <1> HIDE DEF M
  <1> DEFINE T == {n \in 0..M : ~(g[n] = h[n] /\ g[n].winners \subseteq s.enabled \cap P)}
  <1>4. T = {}
    <2> SUFFICES ASSUME T # {} PROVE FALSE
      OBVIOUS
    <2>1. T \in SUBSET Nat
      OBVIOUS
    <2>2. PICK n \in T : \A j \in T : n <= j
      BY <2>1, LeastNatural
    <2>3. n \in 0..M /\ ~(g[n] = h[n] /\ g[n].winners \subseteq s.enabled \cap P)
      OBVIOUS
    <2>4. CASE n = 0
      <3>1. g[n] = Start(s, E) /\ h[n] = Start(t, E)
        BY <1>1, <1>2, <1>3, <2>3, <2>4 DEF AfterPasses
      <3>2. Start(s, E) = Start(t, E) /\ Start(s, E).winners \subseteq E
        BY RolesAlike DEF Start
      <3> QED
        BY <2>3, <3>1, <3>2
    <2>5. CASE n # 0
      <3>1. n - 1 \in 0..M /\ n - 1 \notin T
        BY <1>1, <2>2, <2>3, <2>5
      <3>2. g[n - 1] = h[n - 1] /\ g[n - 1].winners \subseteq s.enabled \cap P
        BY <3>1
      <3>3. g[n] = Turn(s, E, g[n - 1]) /\ h[n] = Turn(t, E, h[n - 1])
        BY <1>2, <1>3, <2>3, <2>5 DEF AfterPasses
      <3> HIDE DEF T
      <3> QED
        BY <2>3, <3>2, <3>3, TurnAlike
    <2> QED
      BY <2>4, <2>5
  <1>5. M \in 0..M
    BY <1>1
  <1> QED
    BY <1>2, <1>3, <1>4, <1>5

\* An outcome that composes composes what the explicit ids reach, all of it enabled.
LEMMA OutcomeComposes ==
    ASSUME NEW s, OutcomeOf(s).status = "composed"
    PROVE  /\ Explicit(s) \subseteq s.enabled
           /\ OutcomeOf(s).composed = Composition(s, Explicit(s), OutcomeOf(s).slots)
  BY DEF OutcomeOf, OutcomeFrom, SettledOutcome, Refused

LEMMA OutcomeAlike ==
    ASSUME NEW s, NEW t, NEW P, Alike(s, t, P), Confined(s, P), Confined(t, P), MaxPasses(s) \in Nat
    PROVE  /\ OutcomeOf(s) = OutcomeOf(t)
           /\ OutcomeOf(s).composed \subseteq s.enabled \cap P
  <1> DEFINE E == Explicit(s)
             settlement == Settlement(s, E)
  <1>1. E = Explicit(t) /\ E \subseteq P
    BY ExplicitAlike
  <1>2. TwoDefaults(s) = TwoDefaults(t) /\ TwoSelectedProviders(s) = TwoSelectedProviders(t)
        /\ s.enabled = t.enabled
    BY RolesAlike DEF Alike
  <1> HIDE DEF E
  <1>3. CASE ~(E \subseteq s.enabled)
    BY <1>1, <1>2, <1>3 DEF OutcomeOf, OutcomeFrom, Refused, E
  <1>4. CASE E \subseteq s.enabled
    <2>1. settlement = Settlement(t, E)
      BY <1>1, <1>4, SettlementAlike
    <2> DEFINE slots == settlement.slots
               composed == Composition(s, E, slots)
    <2> HIDE DEF settlement
    <2>2. composed = Composition(t, E, slots) /\ composed \subseteq s.enabled \cap P
      BY <1>1, <1>4, CompositionAlike
    <2> HIDE DEF composed, slots
    <2>3. UnknownMember(s, composed) = UnknownMember(t, composed)
      BY <2>2 DEF UnknownMember, Alike
    <2>4. SettledOutcome(s, slots, composed) = SettledOutcome(t, slots, composed)
      BY <2>3 DEF SettledOutcome
    <2>5. SettledOutcome(s, slots, composed).composed \subseteq s.enabled \cap P
      BY <2>2 DEF SettledOutcome, Refused
    <2>6. OutcomeFrom(s, E, settlement) = OutcomeFrom(t, E, settlement)
      BY <1>2, <2>2, <2>4 DEF OutcomeFrom, composed, slots
    <2>7. OutcomeFrom(s, E, settlement).composed \subseteq s.enabled \cap P
      BY <2>5 DEF OutcomeFrom, Refused, composed, slots
    <2>8. OutcomeOf(s) = OutcomeFrom(s, E, settlement) /\ OutcomeOf(t) = OutcomeFrom(t, E, settlement)
      BY <1>1, <2>1 DEF OutcomeOf, E, settlement
    <2> QED
      BY <2>6, <2>7, <2>8
  <1> QED
    BY <1>3, <1>4

-----------------------------------------------------------------------------
(***************************************************************************)
(* Assignments: versions of ids that cannot take part do not show.         *)
(***************************************************************************)

\* What an assignment takes for an id.
Taken(r, a, d) == IF d \in Available(r) THEN r.candidates[d][a[d]] ELSE NoCandidate

LEMMA AssignmentFacts ==
    ASSUME NEW r \in Requests, NEW a \in Assignments(r)
    PROVE  /\ DOMAIN a = Available(r) /\ Available(r) \subseteq Ids
           /\ \A d \in Available(r) :
                /\ a[d] \in Eligible(r, d) /\ a[d] \in DOMAIN r.candidates[d]
                /\ Taken(r, a, d) \in Options(r, d) /\ IsCandidate(Taken(r, a, d))
                /\ Taken(r, a, d) = r.candidates[d][a[d]]
  <1>1. IsRequest(r)
    BY RequestsAssumption
  <1>2. DOMAIN a = Available(r) /\ \A d \in Available(r) : a[d] \in Eligible(r, d)
    BY DEF Assignments
  <1>3. Available(r) \subseteq Ids
    BY DEF Available
  <1>4. \A d \in Available(r) : Eligible(r, d) \subseteq DOMAIN r.candidates[d]
    BY DEF Eligible
  <1> QED
    BY <1>1, <1>2, <1>3, <1>4 DEF IsRequest, Taken, Options

LEMMA SelectionFields ==
    ASSUME NEW r \in Requests, NEW a \in Assignments(r)
    PROVE  /\ SelectionOf(r, a).enabled = Available(r) /\ SelectionOf(r, a).roots = Roots(r)
           /\ SelectionOf(r, a).providesFor = [d \in Ids |-> Taken(r, a, d).providesFor]
           /\ SelectionOf(r, a).defaultFor = [d \in Ids |-> Taken(r, a, d).defaultFor]
           /\ \A d \in Ids :
                /\ SelectionOf(r, a).dependencies[d] = DOMAIN Taken(r, a, d).dependencies
                /\ SelectionOf(r, a).members[d] = Taken(r, a, d).members
                /\ SelectionOf(r, a).providesFor[d] = Taken(r, a, d).providesFor
                /\ SelectionOf(r, a).defaultFor[d] = Taken(r, a, d).defaultFor
  <1>1. DOMAIN a = Available(r)
    BY AssignmentFacts
  <1> QED
    BY <1>1 DEF SelectionOf, Taken

\* An assignment selects from what can take part, and nothing leads out of it.
LEMMA AssignmentConfined ==
    ASSUME NEW r \in Requests, NEW a \in Assignments(r)
    PROVE  Confined(SelectionOf(r, a), Possible(r))
  <1> DEFINE s == SelectionOf(r, a)
             P == Possible(r)
  <1>1. SearchRoots(r) \cup SelfStarters(r) \subseteq P /\ Closed(P, PossibleEdges(r))
    BY ReachHoldsRoots, ReachClosed DEF Possible
  <1> HIDE DEF P
  <1>2. s.roots \subseteq P
    BY <1>1, SelectionFields DEF SearchRoots
  <1>3. ImplicitSelected(s) \subseteq P
    <2> SUFFICES ASSUME NEW d \in ImplicitSelected(s) PROVE d \in SelfStarters(r)
      BY <1>1
    <2>1. s.roots = {} /\ d \in s.enabled /\ s.providesFor[d] = {}
      BY DEF ImplicitSelected, Providers
    <2>2. s.roots = Roots(r) /\ s.enabled = Available(r) /\ Available(r) \subseteq Ids
      BY SelectionFields, AssignmentFacts
    <2>3. d \in Ids
      BY <2>1, <2>2
    <2>4. s.providesFor[d] = Taken(r, a, d).providesFor
      BY <2>3, SelectionFields
    <2>5. Taken(r, a, d) \in Options(r, d)
      BY <2>1, <2>2, AssignmentFacts
    <2> QED
      BY <2>1, <2>2, <2>4, <2>5 DEF SelfStarters
  <1>4. ASSUME NEW d \in s.enabled \cap P
        PROVE  s.dependencies[d] \cup s.members[d] \subseteq P
    <2>1. d \in Available(r) /\ d \in Ids
      BY SelectionFields, AssignmentFacts
    <2>2. s.dependencies[d] = DOMAIN Taken(r, a, d).dependencies /\ s.members[d] = Taken(r, a, d).members
      BY <2>1, SelectionFields
    <2>3. s.dependencies[d] \cup s.members[d] \subseteq Names
      BY <2>1, <2>2, AssignmentFacts DEF IsCandidate
    <2> SUFFICES ASSUME NEW x \in s.dependencies[d] \cup s.members[d] PROVE x \in P
      OBVIOUS
    <2>4. <<d, x>> \in PossibleEdges(r)
      BY <2>1, <2>2, <2>3, AssignmentFacts DEF PossibleEdges
    <2> QED
      BY <1>1, <2>4 DEF Closed
  <1>5. ASSUME NEW d \in s.enabled, s.defaultFor[d] # {}
        PROVE  d \in P
    <2>1. d \in Available(r) /\ d \in Ids
      BY SelectionFields, AssignmentFacts
    <2>2. Taken(r, a, d).defaultFor # {} /\ Taken(r, a, d) \in Options(r, d)
      BY <1>5, <2>1, SelectionFields, AssignmentFacts
    <2> QED
      BY <1>1, <2>1, <2>2 DEF SelfStarters
  <1> QED
    BY <1>2, <1>3, <1>4, <1>5 DEF Confined, P

\* Two assignments that agree on what can take part.
Agree(r, a, b) == \A d \in Available(r) \cap Possible(r) : a[d] = b[d]

LEMMA AssignmentsAlike ==
    ASSUME NEW r \in Requests, NEW a \in Assignments(r), NEW b \in Assignments(r), Agree(r, a, b)
    PROVE  Alike(SelectionOf(r, a), SelectionOf(r, b), Possible(r))
  <1>1. SelfStarters(r) \subseteq Possible(r)
    BY ReachHoldsRoots DEF Possible
  <1>2. \A d \in Available(r) \cap Possible(r) : Taken(r, a, d) = Taken(r, b, d)
    BY DEF Agree, Taken
  <1>3. ASSUME NEW d \in Ids
        PROVE  /\ Taken(r, a, d).providesFor = Taken(r, b, d).providesFor
               /\ Taken(r, a, d).defaultFor = Taken(r, b, d).defaultFor
    <2>1. CASE d \notin Available(r)
      BY <2>1 DEF Taken
    <2>2. CASE d \in Available(r) \cap Possible(r)
      BY <1>2, <2>2
    <2>3. CASE d \in Available(r) /\ d \notin Possible(r)
      <3>1. d \notin SelfStarters(r)
        BY <1>1, <2>3
      <3>2. Taken(r, a, d) \in Options(r, d) /\ Taken(r, b, d) \in Options(r, d)
        BY <2>3, AssignmentFacts
      <3> QED
        BY <2>3, <3>1, <3>2 DEF SelfStarters
    <2> QED
      BY <2>1, <2>2, <2>3
  <1>4. Available(r) \subseteq Ids
    BY DEF Available
  <1> DEFINE s == SelectionOf(r, a)
             t == SelectionOf(r, b)
  <1>5. s.enabled = Available(r) /\ t.enabled = Available(r) /\ s.roots = t.roots
    <2>1. s.enabled = Available(r)
      BY SelectionFields
    <2>2. t.enabled = Available(r)
      BY SelectionFields
    <2>3. s.roots = t.roots
      BY SelectionFields
    <2> QED
      BY <2>1, <2>2, <2>3
  <1>6. s.providesFor = t.providesFor /\ s.defaultFor = t.defaultFor
    <2>1. /\ [d \in Ids |-> Taken(r, a, d).providesFor] = [d \in Ids |-> Taken(r, b, d).providesFor]
          /\ [d \in Ids |-> Taken(r, a, d).defaultFor] = [d \in Ids |-> Taken(r, b, d).defaultFor]
      BY <1>3
    <2>2. /\ s.providesFor = [d \in Ids |-> Taken(r, a, d).providesFor]
          /\ s.defaultFor = [d \in Ids |-> Taken(r, a, d).defaultFor]
      BY SelectionFields
    <2>3. /\ t.providesFor = [d \in Ids |-> Taken(r, b, d).providesFor]
          /\ t.defaultFor = [d \in Ids |-> Taken(r, b, d).defaultFor]
      BY SelectionFields
    <2> HIDE DEF s, t
    <2> QED
      BY <2>1, <2>2, <2>3, Zenon
  <1>7. ASSUME NEW d \in Available(r) \cap Possible(r)
        PROVE  s.dependencies[d] = t.dependencies[d] /\ s.members[d] = t.members[d]
    <2>1. d \in Ids /\ Taken(r, a, d) = Taken(r, b, d)
      BY <1>2, <1>4
    <2>2. /\ s.dependencies[d] = DOMAIN Taken(r, a, d).dependencies /\ s.members[d] = Taken(r, a, d).members
          /\ t.dependencies[d] = DOMAIN Taken(r, b, d).dependencies /\ t.members[d] = Taken(r, b, d).members
      BY <2>1, SelectionFields
    <2> QED
      BY <2>1, <2>2
  <1> HIDE DEF s, t
  <1>8. Alike(s, t, Possible(r))
    BY <1>5, <1>6, <1>7 DEF Alike
  <1> QED
    BY <1>8 DEF s, t

LEMMA PassesCounted ==
    ASSUME NEW r \in Requests, NEW a \in Assignments(r)
    PROVE  MaxPasses(SelectionOf(r, a)) \in Nat
  <1>1. Available(r) \subseteq Names /\ IsFiniteSet(Names)
    BY NamesAssumption DEF Available
  <1>2. Cardinality(Available(r)) \in Nat
    BY <1>1, FS_Subset, FS_CardinalityType
  <1>3. SelectionOf(r, a).enabled = Available(r)
    BY SelectionFields
  <1> QED
    BY <1>2, <1>3 DEF MaxPasses

LEMMA OutcomesAgree ==
    ASSUME NEW r \in Requests, NEW a \in Assignments(r), NEW b \in Assignments(r), Agree(r, a, b)
    PROVE  /\ OutcomeOf(SelectionOf(r, a)) = OutcomeOf(SelectionOf(r, b))
           /\ OutcomeOf(SelectionOf(r, a)).composed \subseteq Available(r) \cap Possible(r)
  <1> DEFINE s == SelectionOf(r, a)
             t == SelectionOf(r, b)
             P == Possible(r)
  <1>1. Alike(s, t, P)
    BY AssignmentsAlike
  <1>2. Confined(s, P) /\ Confined(t, P)
    BY AssignmentConfined
  <1>3. MaxPasses(s) \in Nat /\ s.enabled = Available(r)
    BY PassesCounted, SelectionFields
  <1> HIDE DEF s, t, P
  <1>4. OutcomeOf(s) = OutcomeOf(t) /\ OutcomeOf(s).composed \subseteq s.enabled \cap P
    BY <1>1, <1>2, <1>3, OutcomeAlike
  <1> QED
    BY <1>3, <1>4 DEF s, t, P

\* Whether an assignment is compatible shows on what can take part alone.
LEMMA CompatibleAgree ==
    ASSUME NEW r \in Requests, NEW a \in Assignments(r), NEW b \in Assignments(r), Agree(r, a, b),
           NEW outcome, outcome.composed \subseteq Available(r) \cap Possible(r),
           Compatible(r, a, outcome)
    PROVE  Compatible(r, b, outcome)
  <1> DEFINE s == SelectionOf(r, a)
             t == SelectionOf(r, b)
  <1>1. Alike(s, t, Possible(r)) /\ s.enabled = Available(r)
    BY AssignmentsAlike, SelectionFields
  <1> HIDE DEF s, t
  <1>2. \A d \in outcome.composed : KeptDependencies(s, outcome.slots, d) = KeptDependencies(t, outcome.slots, d)
    <2>1. Losers(s, outcome.slots) = Losers(t, outcome.slots)
      BY <1>1, RolesAlike
    <2> QED
      BY <1>1, <2>1 DEF Alike, KeptDependencies
  <1>3. \A d \in outcome.composed : a[d] = b[d] /\ r.candidates[d][a[d]] = r.candidates[d][b[d]]
    BY DEF Agree
  <1>4. ~UnmetDependency(t, outcome.slots, outcome.composed)
    BY <1>2 DEF Compatible, UnmetDependency, s
  <1>5. ASSUME NEW d \in outcome.composed
        PROVE  Ranges(r, a, outcome, d) = Ranges(r, b, outcome, d)
    <2> DEFINE from(u, x) == {e \in outcome.composed : x \in KeptDependencies(u, outcome.slots, e)}
    <2>1. from(s, d) = from(t, d)
      BY <1>2
    <2>2. {r.candidates[e][a[e]].dependencies[d] : e \in from(s, d)}
            = {r.candidates[e][b[e]].dependencies[d] : e \in from(t, d)}
      BY <1>3, <2>1
    <2> QED
      BY <2>2 DEF Ranges, s, t
  <1> QED
    BY <1>3, <1>4, <1>5 DEF Compatible, t

-----------------------------------------------------------------------------
(***************************************************************************)
(* The ids that need a choice, in the order of the search.                 *)
(***************************************************************************)

\* Where the k-th choice lies in the order of the ids.
At(r, k) == Place(ChoicePlaces(r), k)

Choices(r) == InOrder(IdOrder, ChoicePlaces(r))

LEMMA PlacesFinite ==
    ASSUME NEW r \in Requests
    PROVE  /\ ChoicePlaces(r) \in SUBSET Nat /\ ChoicePlaces(r) \subseteq DOMAIN IdOrder
           /\ IsFiniteSet(ChoicePlaces(r)) /\ Cardinality(ChoicePlaces(r)) \in Nat
  <1>1. DOMAIN IdOrder = 1..Len(IdOrder) /\ Len(IdOrder) \in Nat
    BY OrderAssumption
  <1>2. ChoicePlaces(r) \subseteq DOMAIN IdOrder
    BY DEF ChoicePlaces
  <1>3. IsFiniteSet(1..Len(IdOrder))
    BY <1>1, FS_Interval
  <1>4. IsFiniteSet(ChoicePlaces(r))
    BY <1>1, <1>2, <1>3, FS_Subset
  <1> QED
    BY <1>1, <1>2, <1>4, FS_CardinalityType

LEMMA ChoicesPlaced ==
    ASSUME NEW r \in Requests
    PROVE  /\ Choices(r) \in Seq(Available(r)) /\ Len(Choices(r)) = Cardinality(ChoicePlaces(r))
           /\ \A k \in 1..Len(Choices(r)) :
                /\ At(r, k) \in ChoicePlaces(r) /\ At(r, k) \in DOMAIN IdOrder
                /\ Choices(r)[k] = IdOrder[At(r, k)]
  <1> DEFINE places == ChoicePlaces(r)
             n == Cardinality(places)
  <1>1. n \in Nat /\ places \subseteq DOMAIN IdOrder
    BY PlacesFinite
  <1>2. \A k \in 1..n : At(r, k) \in places
    BY PlacesFinite, PlaceRanked DEF At
  <1>3. Choices(r) = [k \in 1..n |-> IdOrder[At(r, k)]]
    BY DEF Choices, InOrder, At, Place, Rank
  <1>4. ASSUME NEW i \in places PROVE IdOrder[i] \in Available(r)
    <2>1. IdOrder[i] \in Ids
      BY <1>1, OrderAssumption
    <2>2. Cardinality(Eligible(r, IdOrder[i])) > 1
      BY DEF ChoicePlaces
    <2>3. Eligible(r, IdOrder[i]) # {}
      BY <2>2, FS_EmptySet
    <2> QED
      BY <2>1, <2>3 DEF Available, Eligible
  <1> HIDE DEF n, places
  <1>5. Choices(r) \in Seq(Available(r)) /\ Len(Choices(r)) = n
    BY <1>1, <1>2, <1>3, <1>4
  <1> QED
    BY <1>1, <1>2, <1>3, <1>5 DEF n, places

LEMMA ChoicesOrdered ==
    ASSUME NEW r \in Requests, NEW j \in 1..Len(Choices(r)), NEW k \in 1..Len(Choices(r))
    PROVE  /\ j < k => At(r, j) < At(r, k)
           /\ At(r, j) < At(r, k) => j < k
           /\ Choices(r)[j] = Choices(r)[k] => j = k
  <1> DEFINE places == ChoicePlaces(r)
             n == Len(Choices(r))
  <1>1. n \in Nat /\ j \in 1..n /\ k \in 1..n /\ n = Cardinality(places)
    BY ChoicesPlaced, PlacesFinite
  <1>2. places \in SUBSET Nat /\ IsFiniteSet(places)
    BY PlacesFinite
  <1> HIDE DEF places, n
  <1>3. /\ At(r, j) \in places /\ Rank(places, At(r, j)) = j - 1
        /\ At(r, k) \in places /\ Rank(places, At(r, k)) = k - 1
    BY <1>1, <1>2, PlaceRanked DEF At, places
  <1>4. At(r, j) \in Nat /\ At(r, k) \in Nat
    BY <1>2, <1>3
  <1>5. /\ At(r, j) < At(r, k) => Rank(places, At(r, j)) < Rank(places, At(r, k))
        /\ At(r, k) < At(r, j) => Rank(places, At(r, k)) < Rank(places, At(r, j))
    BY <1>2, <1>3, RankGrows
  <1>6. /\ At(r, j) < At(r, k) => j < k
        /\ At(r, k) < At(r, j) => k < j
        /\ At(r, j) = At(r, k) => j = k
    BY <1>1, <1>3, <1>5
  <1>7. Choices(r)[j] = Choices(r)[k] => At(r, j) = At(r, k)
    BY ChoicesPlaced, OrderAssumption
  <1> QED
    BY <1>1, <1>4, <1>6, <1>7

\* An id that can take part is a choice or has at most one version.
LEMMA ChoicesCover ==
    ASSUME NEW r \in Requests, NEW d \in Available(r) \cap Possible(r),
           \A k \in 1..Len(Choices(r)) : Choices(r)[k] # d
    PROVE  \A v, w \in Eligible(r, d) : v = w
  <1> SUFFICES ASSUME NEW v \in Eligible(r, d), NEW w \in Eligible(r, d), v # w PROVE FALSE
    OBVIOUS
  <1>1. d \in Ids
    BY DEF Available
  <1>2. PICK i \in DOMAIN IdOrder : IdOrder[i] = d
    BY <1>1, OrderAssumption
  <1>3. IsFiniteSet(Eligible(r, d))
    <2>1. Eligible(r, d) \subseteq Versions
      BY <1>1, RequestsAssumption DEF Eligible, IsRequest
    <2> QED
      BY <2>1, VersionsAssumption, FS_Subset
  <1>4. Cardinality(Eligible(r, d)) > 1
    <2>1. {v, w} \in SUBSET Eligible(r, d)
      OBVIOUS
    <2>2. Cardinality({v, w}) = 2
      <3> DEFINE one == {v}
      <3>1. IsFiniteSet(one) /\ Cardinality(one) = 1
        BY FS_Singleton
      <3>2. w \notin one /\ {v, w} = one \cup {w}
        OBVIOUS
      <3> HIDE DEF one
      <3>3. Cardinality(one \cup {w}) = IF w \in one THEN Cardinality(one) ELSE Cardinality(one) + 1
        BY <3>1, FS_AddElement
      <3>4. Cardinality(one \cup {w}) = 2
        BY <3>1, <3>2, <3>3
      <3> QED
        BY <3>2, <3>4, Zenon
    <2>3. Cardinality({v, w}) <= Cardinality(Eligible(r, d)) /\ Cardinality(Eligible(r, d)) \in Nat
      BY <1>3, <2>1, FS_Subset, FS_CardinalityType
    <2> QED
      BY <2>2, <2>3
  <1>5. i \in ChoicePlaces(r)
    BY <1>2, <1>4 DEF ChoicePlaces
  <1> DEFINE places == ChoicePlaces(r)
             k == Rank(places, i) + 1
  <1>6. /\ places \in SUBSET Nat /\ IsFiniteSet(places) /\ i \in places
        /\ Len(Choices(r)) = Cardinality(places) /\ Cardinality(places) \in Nat
    BY <1>5, PlacesFinite, ChoicesPlaced
  <1> HIDE DEF places
  <1>7. Rank(places, i) \in 0..(Cardinality(places) - 1) /\ Place(places, k) = i
    BY <1>6, RankGrows, PlaceOfRank
  <1>8. k \in 1..Len(Choices(r))
    BY <1>6, <1>7
  <1>9. Choices(r)[k] = IdOrder[i]
    BY <1>7, <1>8, ChoicesPlaced DEF At, places
  <1> QED
    BY <1>2, <1>8, <1>9

-----------------------------------------------------------------------------
(***************************************************************************)
(* The solution that wins has the newest version of every id that is not a *)
(* choice, and no branch that leads to it is pruned.                       *)
(***************************************************************************)

Solutions(r) == {a \in Assignments(r) : Compatible(r, a, OutcomeOf(SelectionOf(r, a)))}

\* The solution that comes before the others.
Wins(r, a) == a \in Solutions(r) /\ \A b \in Solutions(r) : a = b \/ Precedes(a, b)

LEMMA EligibleNewest ==
    ASSUME NEW r \in Requests, NEW d \in Available(r), Eligible(r, d) # {}
    PROVE  /\ Newest(Eligible(r, d)) \in Eligible(r, d) /\ Eligible(r, d) \subseteq Versions
           /\ \A v \in Eligible(r, d) : v \in Nat /\ v <= Newest(Eligible(r, d))
  <1>1. d \in Ids /\ IsRequest(r)
    BY RequestsAssumption DEF Available
  <1>2. Eligible(r, d) \in SUBSET Versions
    BY <1>1 DEF Eligible, IsRequest
  <1> QED
    BY <1>2, NewestOf

LEMMA AgreeSolves ==
    ASSUME NEW r \in Requests, NEW a \in Solutions(r), NEW b \in Assignments(r), Agree(r, a, b)
    PROVE  b \in Solutions(r)
  <1>1. a \in Assignments(r) /\ Compatible(r, a, OutcomeOf(SelectionOf(r, a)))
    BY DEF Solutions
  <1>2. /\ OutcomeOf(SelectionOf(r, a)) = OutcomeOf(SelectionOf(r, b))
        /\ OutcomeOf(SelectionOf(r, a)).composed \subseteq Available(r) \cap Possible(r)
    BY <1>1, OutcomesAgree
  <1> DEFINE o == OutcomeOf(SelectionOf(r, a))
  <1> HIDE DEF o
  <1>3. Compatible(r, b, o)
    BY <1>1, <1>2, CompatibleAgree DEF o
  <1> QED
    BY <1>2, <1>3 DEF Solutions, o

\* A choice, and the rest.
IsChoice(r, d) == \E k \in 1..Len(Choices(r)) : Choices(r)[k] = d

LEMMA WinnerNewest ==
    ASSUME NEW r \in Requests, NEW a, Wins(r, a), NEW d \in Available(r), ~IsChoice(r, d)
    PROVE  a[d] = Newest(Eligible(r, d))
  <1> DEFINE b == [e \in Available(r) |-> IF IsChoice(r, e) THEN a[e] ELSE Newest(Eligible(r, e))]
  <1>1. a \in Solutions(r) /\ a \in Assignments(r)
    BY DEF Wins, Solutions
  <1>2. \A e \in Available(r) : a[e] \in Eligible(r, e)
    BY <1>1, AssignmentFacts
  <1>3. \A e \in Available(r) :
            b[e] \in Eligible(r, e) /\ b[e] \in Versions /\ a[e] \in Nat /\ b[e] \in Nat /\ a[e] <= b[e]
    <2> SUFFICES ASSUME NEW e \in Available(r)
                 PROVE  b[e] \in Eligible(r, e) /\ b[e] \in Versions /\ a[e] \in Nat /\ b[e] \in Nat /\ a[e] <= b[e]
      OBVIOUS
    <2>1. a[e] \in Eligible(r, e)
      BY <1>2
    <2>2. /\ Newest(Eligible(r, e)) \in Eligible(r, e) /\ Eligible(r, e) \subseteq Versions
          /\ \A v \in Eligible(r, e) : v \in Nat /\ v <= Newest(Eligible(r, e))
      BY <2>1, EligibleNewest
    <2> QED
      BY <2>1, <2>2
  <1>4. b \in Assignments(r)
    BY <1>3 DEF Assignments
  <1>5. Agree(r, a, b)
    <2> SUFFICES ASSUME NEW e \in Available(r) \cap Possible(r) PROVE a[e] = b[e]
      BY DEF Agree
    <2>1. CASE IsChoice(r, e)
      BY <2>1
    <2>2. CASE ~IsChoice(r, e)
      <3>1. \A v, w \in Eligible(r, e) : v = w
        BY <2>2, ChoicesCover DEF IsChoice
      <3>2. a[e] \in Eligible(r, e) /\ b[e] \in Eligible(r, e)
        BY <1>2, <1>3
      <3> QED
        BY <3>1, <3>2
    <2> QED
      BY <2>1, <2>2
  <1> HIDE DEF b
  <1>6. b \in Solutions(r)
    BY <1>1, <1>4, <1>5, AgreeSolves
  <1>7. ~Precedes(a, b)
    <2> SUFFICES ASSUME NEW k \in DOMAIN IdOrder, IdOrder[k] \in DOMAIN a,
                        a[IdOrder[k]] > b[IdOrder[k]]
                 PROVE  FALSE
      BY DEF Precedes
    <2>1. IdOrder[k] \in Available(r)
      BY <1>1, AssignmentFacts
    <2> QED
      BY <1>3, <2>1
  <1>8. a = b
    BY <1>6, <1>7 DEF Wins
  <1> QED
    BY <1>8 DEF b

\* The versions of the first choices, in a state of the search.
Prefix(r, c) ==
    /\ c \in Seq(Versions) /\ Len(c) <= Len(Choices(r))
    /\ \A k \in 1..Len(c) : c[k] \in Eligible(r, Choices(r)[k])

LEMMA AssignmentOf ==
    ASSUME NEW r \in Requests, NEW c, Prefix(r, c), NEW d \in Available(r)
    PROVE  /\ \A k \in 1..Len(c) : Choices(r)[k] = d => Assignment(r, Choices(r), c)[d] = c[k]
           /\ (\A k \in 1..Len(c) : Choices(r)[k] # d)
                => Assignment(r, Choices(r), c)[d] = Newest(Eligible(r, d))
  <1>1. DOMAIN c = 1..Len(c) /\ Len(c) \in Nat /\ Len(Choices(r)) \in Nat /\ Len(c) <= Len(Choices(r))
    BY ChoicesPlaced DEF Prefix
  <1>2. \A j, k \in 1..Len(c) : Choices(r)[j] = Choices(r)[k] => j = k
    <2>1. \A k \in 1..Len(c) : k \in 1..Len(Choices(r))
      BY <1>1
    <2> QED
      BY <2>1, ChoicesOrdered
  <1>3. ASSUME NEW k \in 1..Len(c), Choices(r)[k] = d
        PROVE  Assignment(r, Choices(r), c)[d] = c[k]
    <2>1. (CHOOSE j \in DOMAIN c : Choices(r)[j] = d) = k
      BY <1>1, <1>2, <1>3
    <2> QED
      BY <1>1, <1>3, <2>1 DEF Assignment
  <1> QED
    BY <1>1, <1>3 DEF Assignment

\* What the winner takes is among what remains, if it starts as chosen.
LEMMA WinnerRemains ==
    ASSUME NEW r \in Requests, NEW a, Wins(r, a), NEW c, Prefix(r, c),
           \A k \in 1..Len(c) : a[Choices(r)[k]] = c[k], NEW d \in Available(r)
    PROVE  /\ a[d] \in Remaining(r, Choices(r), c, d)
           /\ d \notin Undecided(Choices(r), c) => Assignment(r, Choices(r), c)[d] = a[d]
  <1>1. a[d] \in Eligible(r, d)
    BY AssignmentFacts DEF Wins, Solutions
  <1>2. ASSUME d \notin Undecided(Choices(r), c)
        PROVE  Assignment(r, Choices(r), c)[d] = a[d]
    <2>1. CASE \E k \in 1..Len(c) : Choices(r)[k] = d
      BY <2>1, AssignmentOf
    <2>2. CASE \A k \in 1..Len(c) : Choices(r)[k] # d
      <3>1. ~IsChoice(r, d)
        <4> SUFFICES ASSUME NEW k \in 1..Len(Choices(r)), Choices(r)[k] = d PROVE FALSE
          BY DEF IsChoice
        <4>1. Len(c) \in Nat /\ Len(Choices(r)) \in Nat
          BY ChoicesPlaced DEF Prefix
        <4>2. k \in 1..Len(c) \/ k \in (Len(c) + 1)..Len(Choices(r))
          BY <4>1
        <4> QED
          BY <1>2, <2>2, <4>2 DEF Undecided
      <3> QED
        BY <2>2, <3>1, AssignmentOf, WinnerNewest
    <2> QED
      BY <2>1, <2>2
  <1> QED
    BY <1>1, <1>2 DEF Remaining

\* A branch the winner lies in meets every mandatory requirement.
LEMMA WinnerMeetsMandatory ==
    ASSUME NEW r \in Requests, NEW a, Wins(r, a), NEW c, Prefix(r, c),
           \A k \in 1..Len(c) : a[Choices(r)[k]] = c[k]
    PROVE  ~MandatoryUnmet(r, Choices(r), c)
  <1> DEFINE s == SelectionOf(r, a)
             o == OutcomeOf(s)
             C == o.composed
             mandatory == Mandatory(r, Choices(r), c)
             sources == (mandatory \cap Available(r)) \ Undecided(Choices(r), c)
             decided == [d \in sources |-> r.candidates[d][Assignment(r, Choices(r), c)[d]]]
             targets == Ordinary(r, UNION {DOMAIN decided[d].dependencies : d \in sources})
  <1>1. a \in Assignments(r) /\ Compatible(r, a, o)
    BY DEF Wins, Solutions
  <1>2. /\ s.enabled = Available(r) /\ s.roots = Roots(r) /\ Available(r) \subseteq Ids
        /\ \A d \in Available(r) :
            /\ s.dependencies[d] = DOMAIN r.candidates[d][a[d]].dependencies
            /\ s.providesFor[d] = r.candidates[d][a[d]].providesFor
            /\ r.candidates[d][a[d]] \in Options(r, d)
    <2>1. Available(r) \subseteq Ids /\ s.enabled = Available(r) /\ s.roots = Roots(r)
      BY <1>1, SelectionFields DEF Available
    <2>2. ASSUME NEW d \in Available(r)
          PROVE  /\ s.dependencies[d] = DOMAIN r.candidates[d][a[d]].dependencies
                 /\ s.providesFor[d] = r.candidates[d][a[d]].providesFor
                 /\ r.candidates[d][a[d]] \in Options(r, d)
      <3>1. d \in Ids /\ Taken(r, a, d) = r.candidates[d][a[d]] /\ Taken(r, a, d) \in Options(r, d)
        BY <1>1, <2>1, AssignmentFacts
      <3>2. s.dependencies[d] = DOMAIN Taken(r, a, d).dependencies /\ s.providesFor[d] = Taken(r, a, d).providesFor
        BY <1>1, <3>1, SelectionFields
      <3> HIDE DEF s
      <3> QED
        BY <3>1, <3>2
    <2> QED
      BY <2>1, <2>2
  <1>3. C \subseteq Available(r)
    BY <1>1, OutcomesAgree DEF Agree
  <1>4. o.status = "composed" /\ C = Composition(s, Explicit(s), o.slots)
    BY <1>1, OutcomeComposes DEF Compatible
  <1> HIDE DEF s, o
  <1>5. Providers(s) \subseteq ProviderIds(r)
    BY <1>2 DEF Providers, ProviderIds
  <1>6. ASSUME NEW d \in C, NEW t \in s.dependencies[d], t \notin ProviderIds(r)
        PROVE  t \in KeptDependencies(s, o.slots, d) /\ t \in C
    <2>1. t \in KeptDependencies(s, o.slots, d)
      BY <1>5, <1>6 DEF KeptDependencies, Losers
    <2>2. ~UnmetDependency(s, o.slots, C)
      BY <1>1 DEF Compatible, s
    <2> QED
      BY <2>1, <2>2 DEF UnmetDependency
  <1>7. SearchRoots(r) \subseteq C
    <2>1. Explicit(s) \cup ImplicitSelected(s) \subseteq C
      BY <1>4, ReachHoldsRoots DEF Composition
    <2>2. s.roots \subseteq Explicit(s)
      BY ReachHoldsRoots DEF Explicit
    <2>3. CASE Roots(r) # {}
      BY <1>2, <2>1, <2>2, <2>3 DEF SearchRoots
    <2>4. CASE Roots(r) = {}
      <3>1. ImplicitSelected(s) = Available(r) \ Providers(s)
        BY <1>2, <2>4 DEF ImplicitSelected
      <3> QED
        BY <1>5, <2>1, <2>4, <3>1 DEF SearchRoots
    <2> QED
      BY <2>3, <2>4
  <1>8. Closed(C, MandatoryEdges(r, Choices(r), c))
    <2> SUFFICES ASSUME NEW e \in MandatoryEdges(r, Choices(r), c), e[1] \in C PROVE e[2] \in C
      BY DEF Closed
    <2>1. /\ e[1] \in Available(r) /\ e[2] \notin ProviderIds(r)
          /\ \A v \in Remaining(r, Choices(r), c, e[1]) : e[2] \in DOMAIN r.candidates[e[1]][v].dependencies
      BY DEF MandatoryEdges
    <2>2. a[e[1]] \in Remaining(r, Choices(r), c, e[1])
      BY <2>1, WinnerRemains
    <2>3. e[2] \in s.dependencies[e[1]]
      BY <1>2, <2>1, <2>2
    <2> QED
      BY <1>6, <2>1, <2>3
  <1> HIDE DEF C
  <1>9. mandatory \subseteq C
    BY <1>7, <1>8, ReachLeast DEF Mandatory
  <1>10. \A d \in sources : d \in C /\ d \in Available(r) /\ decided[d] = r.candidates[d][a[d]]
    <2> SUFFICES ASSUME NEW d \in sources
                 PROVE  d \in C /\ d \in Available(r) /\ decided[d] = r.candidates[d][a[d]]
      OBVIOUS
    <2>1. d \in C /\ d \in Available(r) /\ d \notin Undecided(Choices(r), c)
      BY <1>9
    <2>2. Assignment(r, Choices(r), c)[d] = a[d]
      BY <2>1, WinnerRemains
    <2> QED
      BY <2>1, <2>2
  <1> HIDE DEF mandatory, sources, decided
  <1>11. ASSUME NEW d \in sources, NEW t \in DOMAIN decided[d].dependencies, t \notin ProviderIds(r)
         PROVE  t \in C /\ a[t] \in decided[d].dependencies[t]
    <2>1. d \in C /\ d \in Available(r) /\ decided[d] = r.candidates[d][a[d]]
      BY <1>10
    <2>2. t \in s.dependencies[d]
      BY <1>2, <1>11, <2>1
    <2>3. t \in KeptDependencies(s, o.slots, d) /\ t \in C
      BY <1>6, <1>11, <2>1, <2>2
    <2>4. decided[d].dependencies[t] \in Ranges(r, a, o, t)
      BY <2>1, <2>3 DEF Ranges, C, s
    <2> QED
      BY <1>1, <2>3, <2>4 DEF Compatible, C
  <1>12. ASSUME NEW t \in targets
         PROVE  \E v \in Remaining(r, Choices(r), c, t) :
                    \A d \in sources : t \in DOMAIN decided[d].dependencies => v \in decided[d].dependencies[t]
    <2>1. t \notin ProviderIds(r) /\ \E d \in sources : t \in DOMAIN decided[d].dependencies
      BY DEF Ordinary
    <2>2. t \in C /\ \A d \in sources : t \in DOMAIN decided[d].dependencies => a[t] \in decided[d].dependencies[t]
      BY <1>11, <2>1
    <2>3. t \in Available(r)
      BY <1>3, <2>2
    <2>4. a[t] \in Remaining(r, Choices(r), c, t)
      BY <2>3, WinnerRemains
    <2> QED
      BY <2>2, <2>4
  <1> QED
    BY <1>12 DEF MandatoryUnmet, mandatory, sources, decided

-----------------------------------------------------------------------------
(***************************************************************************)
(* A complete assignment that is compatible is the winner, if the winner   *)
(* was not passed over.                                                    *)
(***************************************************************************)

\* Every available id has an eligible version, as Accept requires.
SoundRequest(r) == \A d \in Available(r) : Eligible(r, d) # {}

LEMMA CompleteAssigns ==
    ASSUME NEW r \in Requests, SoundRequest(r), NEW c, Prefix(r, c)
    PROVE  Assignment(r, Choices(r), c) \in Assignments(r)
  <1> DEFINE a == Assignment(r, Choices(r), c)
  <1>1. ASSUME NEW d \in Available(r) PROVE a[d] \in Eligible(r, d) /\ a[d] \in Versions
    <2>1. Newest(Eligible(r, d)) \in Eligible(r, d) /\ Eligible(r, d) \subseteq Versions
      BY EligibleNewest DEF SoundRequest
    <2>2. CASE \E k \in 1..Len(c) : Choices(r)[k] = d
      BY <2>1, <2>2, AssignmentOf DEF Prefix
    <2>3. CASE \A k \in 1..Len(c) : Choices(r)[k] # d
      BY <2>1, <2>3, AssignmentOf
    <2> QED
      BY <2>2, <2>3
  <1>2. a = [d \in Available(r) |-> a[d]]
    BY DEF Assignment
  <1> HIDE DEF a
  <1> QED
    BY <1>1, <1>2, Zenon DEF Assignments, a

\* An assignment the winner starts as is the winner.
LEMMA CompleteWins ==
    ASSUME NEW r \in Requests, NEW a, Wins(r, a), NEW c, Prefix(r, c), Len(c) = Len(Choices(r)),
           \A k \in 1..Len(c) : a[Choices(r)[k]] = c[k]
    PROVE  Assignment(r, Choices(r), c) = a
  <1>1. \A d \in Available(r) : Assignment(r, Choices(r), c)[d] = a[d]
    <2> TAKE d \in Available(r)
    <2>1. Undecided(Choices(r), c) = {}
      BY ChoicesPlaced DEF Undecided
    <2> QED
      BY <2>1, WinnerRemains
  <1>2. a = [d \in Available(r) |-> a[d]]
    BY DEF Wins, Solutions, Assignments
  <1>3. Assignment(r, Choices(r), c) = [d \in Available(r) |-> Assignment(r, Choices(r), c)[d]]
    BY DEF Assignment
  <1> QED
    BY <1>1, <1>2, <1>3

\* No solution comes before the winner: one that starts as the winner cannot take a newer
\* version of the choice after.
LEMMA WinnerBeforeBranch ==
    ASSUME NEW r \in Requests, NEW a, Wins(r, a), NEW b \in Solutions(r),
           \A d \in Available(r) : ~IsChoice(r, d) => b[d] = Newest(Eligible(r, d)),
           NEW k \in 1..Len(Choices(r)),
           \A j \in 1..(k - 1) : a[Choices(r)[j]] = b[Choices(r)[j]]
    PROVE  ~(a[Choices(r)[k]] < b[Choices(r)[k]])
  <1> SUFFICES ASSUME a[Choices(r)[k]] < b[Choices(r)[k]] PROVE FALSE
    OBVIOUS
  <1> DEFINE p == At(r, k)
  <1>1. p \in DOMAIN IdOrder /\ p \in Nat /\ IdOrder[p] = Choices(r)[k] /\ Choices(r)[k] \in Available(r)
    BY ChoicesPlaced, PlacesFinite
  <1>2. DOMAIN a = Available(r) /\ DOMAIN b = Available(r)
    BY AssignmentFacts DEF Wins, Solutions
  <1>3. \A d \in Available(r) : a[d] \in Nat /\ b[d] \in Nat
    <2> TAKE d \in Available(r)
    <2>1. a[d] \in Eligible(r, d) /\ b[d] \in Eligible(r, d)
      BY AssignmentFacts DEF Wins, Solutions
    <2> QED
      BY <2>1, EligibleNewest
  <1>4. a # b
    BY <1>1, <1>3
  <1>5. PICK m \in DOMAIN IdOrder :
            /\ IdOrder[m] \in DOMAIN a /\ a[IdOrder[m]] > b[IdOrder[m]]
            /\ \A j \in 1..(m - 1) : IdOrder[j] \in DOMAIN a => a[IdOrder[j]] = b[IdOrder[j]]
    BY <1>4 DEF Wins, Precedes
  <1>6. m \in Nat /\ m > 0 /\ p > 0
    BY <1>1, OrderAssumption
  <1> HIDE DEF p
  <1>7. CASE m > p
    <2>1. p \in 1..(m - 1)
      BY <1>1, <1>6, <1>7
    <2>2. a[IdOrder[p]] = b[IdOrder[p]]
      BY <1>1, <1>2, <1>5, <2>1
    <2> QED
      BY <1>1, <1>3, <2>2
  <1>8. CASE m = p
    BY <1>1, <1>3, <1>5, <1>8
  <1>9. CASE m < p
    <2>1. CASE ~IsChoice(r, IdOrder[m])
      BY <1>2, <1>3, <1>5, <2>1, WinnerNewest
    <2>2. CASE IsChoice(r, IdOrder[m])
      <3>1. PICK j \in 1..Len(Choices(r)) : Choices(r)[j] = IdOrder[m]
        BY <2>2 DEF IsChoice
      <3>2. At(r, j) = m
        BY <3>1, ChoicesPlaced, OrderAssumption
      <3>3. j < k
        BY <1>9, <3>2, ChoicesOrdered DEF p
      <3>4. j \in 1..(k - 1)
        BY <3>3
      <3> QED
        BY <1>2, <1>3, <1>5, <3>1, <3>4
    <2> QED
      BY <2>1, <2>2
  <1> QED
    BY <1>1, <1>6, <1>7, <1>8, <1>9

-----------------------------------------------------------------------------
(***************************************************************************)
(* The fast path: where the versions of each id differ in nothing, every   *)
(* assignment selects and requires the same.                               *)
(***************************************************************************)

LEMMA UniformSelection ==
    ASSUME NEW r \in Requests, Uniform(r), NEW a \in Assignments(r), NEW b \in Assignments(r)
    PROVE  /\ SelectionOf(r, a) = SelectionOf(r, b)
           /\ \A d \in Available(r) : r.candidates[d][a[d]] = r.candidates[d][b[d]]
  <1>1. DOMAIN a = Available(r) /\ DOMAIN b = Available(r)
    BY AssignmentFacts
  <1>2. \A d \in Available(r) : r.candidates[d][a[d]] = r.candidates[d][b[d]]
    <2> TAKE d \in Available(r)
    <2>1. /\ Taken(r, a, d) \in Options(r, d) /\ Taken(r, a, d) = r.candidates[d][a[d]]
          /\ Taken(r, b, d) \in Options(r, d) /\ Taken(r, b, d) = r.candidates[d][b[d]]
      BY AssignmentFacts
    <2> QED
      BY <2>1 DEF Uniform
  <1>3. [d \in Ids |-> IF d \in DOMAIN a THEN r.candidates[d][a[d]] ELSE NoCandidate]
          = [d \in Ids |-> IF d \in DOMAIN b THEN r.candidates[d][b[d]] ELSE NoCandidate]
    BY <1>1, <1>2
  <1> QED
    BY <1>1, <1>2, <1>3, Zenon DEF SelectionOf

LEMMA UniformRanges ==
    ASSUME NEW r \in Requests, Uniform(r), NEW a \in Assignments(r), NEW b \in Assignments(r),
           NEW o, o.composed \subseteq Available(r), NEW d
    PROVE  Ranges(r, a, o, d) = Ranges(r, b, o, d)
  <1> DEFINE sources == {e \in o.composed : d \in KeptDependencies(SelectionOf(r, a), o.slots, e)}
  <1>1. SelectionOf(r, a) = SelectionOf(r, b)
    BY UniformSelection
  <1>2. \A e \in sources : r.candidates[e][a[e]] = r.candidates[e][b[e]]
    BY UniformSelection
  <1> HIDE DEF sources
  <1>3. {r.candidates[e][a[e]].dependencies[d] : e \in sources}
          = {r.candidates[e][b[e]].dependencies[d] : e \in sources}
    BY <1>2
  <1> QED
    BY <1>1, <1>3 DEF Ranges, sources

LEMMA NewestsAssigned ==
    ASSUME NEW r \in Requests, SoundRequest(r)
    PROVE  Newests(r) \in Assignments(r)
  <1>1. \A d \in Available(r) : Newest(Eligible(r, d)) \in Eligible(r, d) /\ Newest(Eligible(r, d)) \in Versions
    BY EligibleNewest DEF SoundRequest
  <1> QED
    BY <1>1 DEF Newests, Assignments

\* What a solution takes matches, and everything that matches is a solution.
LEMMA UniformSolves ==
    ASSUME NEW r \in Requests, SoundRequest(r), Uniform(r), NEW a \in Assignments(r),
           NEW o, o = OutcomeOf(SelectionOf(r, Newests(r)))
    PROVE  /\ o.composed \subseteq Available(r)
           /\ OutcomeOf(SelectionOf(r, a)) = o
           /\ a \in Solutions(r) <=>
                /\ o.status = "composed"
                /\ ~UnmetDependency(SelectionOf(r, Newests(r)), o.slots, o.composed)
                /\ \A d \in o.composed : a[d] \in Matching(r, o, d)
  <1> DEFINE n == Newests(r)
  <1>1. n \in Assignments(r)
    BY NewestsAssigned
  <1>2. o.composed \subseteq Available(r)
    BY <1>1, OutcomesAgree DEF Agree
  <1>3. SelectionOf(r, a) = SelectionOf(r, n)
    BY <1>1, UniformSelection
  <1>4. \A d : Ranges(r, a, o, d) = Ranges(r, n, o, d)
    BY <1>1, <1>2, UniformRanges
  <1>5. \A d \in o.composed : a[d] \in Eligible(r, d)
    BY <1>2, AssignmentFacts
  <1>6. ASSUME NEW d \in o.composed
        PROVE  (\A range \in Ranges(r, a, o, d) : a[d] \in range) <=> a[d] \in Matching(r, o, d)
    BY <1>4, <1>5 DEF Matching
  <1> HIDE DEF n
  <1>7. Compatible(r, a, o) <=>
            /\ o.status = "composed"
            /\ ~UnmetDependency(SelectionOf(r, n), o.slots, o.composed)
            /\ \A d \in o.composed : a[d] \in Matching(r, o, d)
    BY <1>3, <1>6 DEF Compatible
  <1>8. a \in Solutions(r) <=> Compatible(r, a, o)
    BY <1>3 DEF Solutions, n
  <1> QED
    BY <1>2, <1>3, <1>7, <1>8 DEF n

\* The newest matching versions are the winner, or there is none.
LEMMA MatchedWins ==
    ASSUME NEW r \in Requests, SoundRequest(r), Uniform(r),
           NEW o, o = OutcomeOf(SelectionOf(r, Newests(r))),
           \A d \in o.composed : Matching(r, o, d) # {}
    PROVE  /\ Matched(r, o) \in Assignments(r) /\ OutcomeOf(SelectionOf(r, Matched(r, o))) = o
           /\ \A a \in Solutions(r) : Matched(r, o) \in Solutions(r)
           /\ \A a : Wins(r, a) => a = Matched(r, o)
  <1> DEFINE m == Matched(r, o)
  <1>1. Newests(r) \in Assignments(r) /\ o.composed \subseteq Available(r)
    BY NewestsAssigned, UniformSolves
  <1>2. ASSUME NEW d \in o.composed
        PROVE  /\ Newest(Matching(r, o, d)) \in Matching(r, o, d)
               /\ \A v \in Matching(r, o, d) : v \in Nat /\ v <= Newest(Matching(r, o, d))
               /\ Matching(r, o, d) \subseteq Eligible(r, d)
               /\ Newest(Matching(r, o, d)) \in Nat
    <2>1. Eligible(r, d) \subseteq Versions
      BY <1>1, EligibleNewest DEF SoundRequest
    <2>2. Matching(r, o, d) \in SUBSET Versions /\ Matching(r, o, d) \subseteq Eligible(r, d)
      BY <2>1 DEF Matching
    <2>3. Matching(r, o, d) # {}
      OBVIOUS
    <2> QED
      BY <2>2, <2>3, NewestOf
  <1>3. ASSUME NEW d \in Available(r)
        PROVE  m[d] \in Eligible(r, d) /\ m[d] \in Versions /\ m[d] \in Nat
    <2>1. /\ Newest(Eligible(r, d)) \in Eligible(r, d) /\ Eligible(r, d) \subseteq Versions
          /\ \A v \in Eligible(r, d) : v \in Nat
      BY EligibleNewest DEF SoundRequest
    <2>2. CASE d \in o.composed
      BY <1>2, <2>1, <2>2 DEF Matched
    <2>3. CASE d \notin o.composed
      BY <2>1, <2>3 DEF Matched, Newests
    <2> QED
      BY <2>2, <2>3
  <1>4. m \in Assignments(r)
    <2>1. m = [d \in Available(r) |-> m[d]]
      BY DEF Matched
    <2> HIDE DEF m
    <2> QED
      BY <1>3, <2>1, Zenon DEF Assignments
  <1>5. \A d \in o.composed : m[d] \in Matching(r, o, d)
    BY <1>1, <1>2 DEF Matched
  <1> HIDE DEF m
  <1>6. \A a \in Solutions(r) : m \in Solutions(r)
    <2> TAKE a \in Solutions(r)
    <2>1. a \in Assignments(r)
      BY DEF Solutions
    <2>2. o.status = "composed" /\ ~UnmetDependency(SelectionOf(r, Newests(r)), o.slots, o.composed)
      BY <2>1, UniformSolves
    <2> QED
      BY <1>4, <1>5, <2>2, UniformSolves
  <1>7. ASSUME NEW a, Wins(r, a) PROVE a = m
    <2>1. a \in Solutions(r) /\ m \in Solutions(r) /\ a \in Assignments(r)
      BY <1>6, <1>7 DEF Wins, Solutions
    <2>2. ASSUME NEW d \in Available(r) PROVE a[d] \in Nat /\ a[d] <= m[d]
      <3>1. a[d] \in Eligible(r, d) /\ \A v \in Eligible(r, d) : v \in Nat /\ v <= Newest(Eligible(r, d))
        BY <2>1, AssignmentFacts, EligibleNewest DEF SoundRequest
      <3>2. CASE d \in o.composed
        <4>1. a[d] \in Matching(r, o, d)
          BY <2>1, <3>2, UniformSolves
        <4>2. m[d] = Newest(Matching(r, o, d))
          BY <3>2 DEF m, Matched
        <4> QED
          BY <1>2, <3>1, <3>2, <4>1, <4>2
      <3>3. CASE d \notin o.composed
        <4>1. m[d] = Newest(Eligible(r, d))
          BY <3>3 DEF m, Matched, Newests
        <4> QED
          BY <3>1, <4>1
      <3> QED
        BY <3>2, <3>3
    <2>3. ~Precedes(a, m)
      <3> SUFFICES ASSUME NEW k \in DOMAIN IdOrder, IdOrder[k] \in DOMAIN a,
                          a[IdOrder[k]] > m[IdOrder[k]]
                   PROVE  FALSE
        BY DEF Precedes
      <3>1. IdOrder[k] \in Available(r)
        BY <2>1, AssignmentFacts
      <3> QED
        BY <1>3, <2>2, <3>1
    <2> QED
      BY <1>7, <2>1, <2>3 DEF Wins
  <1>8. OutcomeOf(SelectionOf(r, m)) = o
    BY <1>4, UniformSolves
  <1> QED
    BY <1>4, <1>6, <1>7, <1>8 DEF m

-----------------------------------------------------------------------------
(***************************************************************************)
(* The search passes nothing over.                                         *)
(***************************************************************************)

Searching == phase \in {"enter", "next", "return"}

\* What the reference worked out beside the first step.
Judged ==
    /\ solutions = Solutions(request)
    /\ solutions # {} => Wins(request, first)

\* The winner starts as the first k choices, and the next frame still has its version.
Ahead(k) ==
    /\ k + 1 \in 1..Len(frames)
    /\ \A j \in 1..k : first[choices[j]] = chosen[j]
    /\ first[choices[k + 1]] \in frames[k + 1]

\* The branch the search is in.
OnBranch == \A j \in 1..Len(chosen) : first[choices[j]] = chosen[j]

\* The open frames: what they have left is older than what they took.
FramesTrue ==
    /\ Prefix(request, chosen)
    /\ frames \in Seq(SUBSET Versions)
    /\ Len(frames) = Len(chosen) + (IF phase = "next" THEN 1 ELSE 0) /\ Len(frames) <= Len(choices)
    /\ \A k \in 1..Len(frames) : frames[k] \subseteq Eligible(request, choices[k])
    /\ \A k \in 1..Len(chosen) : \A v \in frames[k] : v < chosen[k]

SearchInvariant ==
    /\ request \in Requests /\ phase \in Phases
    /\ resolve = [a \in Assignments(request) |-> OutcomeOf(SelectionOf(request, a))]
    /\ phase # "check" => Judged
    /\ phase = "route" \/ Searching => Sound /\ choices = Choices(request)
    /\ phase \in {"check", "route"} => chosen = <<>> /\ frames = <<>>
    /\ Searching => FramesTrue
    /\ Searching /\ solutions # {} =>
        (phase = "enter" /\ OnBranch) \/ \E k \in Nat : Ahead(k)
    /\ AnswersFirst

LEMMA SoundMeans ==
    ASSUME Sound
    PROVE  SoundRequest(request)
  BY DEF Sound, SoundRequest, Eligible, Available

\* A step within the search leaves the request, its choices and the reference alone.
LEMMA StaysSearching ==
    ASSUME SearchInvariant, Searching, phase' \in {"enter", "next", "return"},
           UNCHANGED <<request, resolve, choices, solutions, first>>,
           FramesTrue',
           solutions # {} => (phase' = "enter" /\ OnBranch') \/ \E k \in Nat : Ahead(k)'
    PROVE  SearchInvariant'
  <1>1. request' = request /\ resolve' = resolve /\ choices' = choices /\ solutions' = solutions /\ first' = first
    OBVIOUS
  <1>2. /\ request \in Requests /\ Judged /\ Sound /\ choices = Choices(request)
        /\ resolve = [a \in Assignments(request) |-> OutcomeOf(SelectionOf(request, a))]
    BY DEF SearchInvariant, Searching
  <1>3. Judged' /\ Sound'
    BY <1>1, <1>2 DEF Judged, Sound
  <1>4. phase' \in Phases /\ Searching' /\ AnswersFirst'
    BY DEF Phases, Searching, AnswersFirst
  <1> QED
    BY <1>1, <1>2, <1>3, <1>4 DEF SearchInvariant

\* In the search, the winner is known and the branch or a frame leads to it.
LEMMA InSearch ==
    ASSUME SearchInvariant, Searching
    PROVE  /\ request \in Requests /\ SoundRequest(request) /\ choices = Choices(request)
           /\ FramesTrue /\ solutions = Solutions(request)
           /\ solutions # {} => Wins(request, first)
           /\ solutions # {} => (phase = "enter" /\ OnBranch) \/ \E k \in Nat : Ahead(k)
           /\ resolve = [a \in Assignments(request) |-> OutcomeOf(SelectionOf(request, a))]
  BY SoundMeans DEF SearchInvariant, Searching, Judged

LEMMA PruneStep ==
    ASSUME SearchInvariant, Prune, Follow
    PROVE  SearchInvariant'
  <1>1. /\ phase = "enter" /\ MandatoryUnmet(request, choices, chosen) /\ phase' = "return" /\ Searching
        /\ UNCHANGED <<request, resolve, choices, chosen, frames, solutions, first>>
    BY DEF Prune, Follow, Searching
  <1>2. FramesTrue'
    BY <1>1, InSearch DEF FramesTrue
  <1>3. ASSUME solutions # {} PROVE \E k \in Nat : Ahead(k)'
    <2>1. ~OnBranch
      <3>1. Wins(request, first) /\ Prefix(request, chosen) /\ choices = Choices(request) /\ request \in Requests
        BY <1>1, <1>3, InSearch DEF FramesTrue
      <3> QED
        BY <1>1, <3>1, WinnerMeetsMandatory DEF OnBranch
    <2> QED
      BY <1>1, <1>3, <2>1, InSearch DEF Ahead
  <1> QED
    BY <1>1, <1>2, <1>3, StaysSearching

LEMMA OpenFrameStep ==
    ASSUME SearchInvariant, OpenFrame, Follow
    PROVE  SearchInvariant'
  <1> DEFINE V == Eligible(request, choices[Len(chosen) + 1])
  <1>1. /\ phase = "enter" /\ phase' = "next" /\ Searching /\ Len(chosen) < Len(choices)
        /\ frames' = Append(frames, V)
        /\ UNCHANGED <<request, resolve, choices, chosen, solutions, first>>
    BY DEF OpenFrame, Follow, Searching
  <1>2. /\ request \in Requests /\ SoundRequest(request) /\ choices = Choices(request) /\ FramesTrue
        /\ Len(choices) \in Nat
    BY <1>1, InSearch, ChoicesPlaced
  <1>3. /\ frames \in Seq(SUBSET Versions) /\ Len(frames) = Len(chosen) /\ Len(chosen) \in Nat
        /\ Len(chosen) + 1 \in 1..Len(choices) /\ chosen \in Seq(Versions)
    BY <1>1, <1>2 DEF FramesTrue, Prefix
  <1>4. choices[Len(chosen) + 1] \in Available(request)
    BY <1>2, <1>3, ChoicesPlaced
  <1>5. V \in SUBSET Versions
    BY <1>2, <1>4, EligibleNewest DEF SoundRequest
  <1> HIDE DEF V
  <1>6. /\ frames' \in Seq(SUBSET Versions) /\ Len(frames') = Len(frames) + 1
        /\ \A k \in 1..Len(frames) : frames'[k] = frames[k]
        /\ frames'[Len(frames) + 1] = V
    BY <1>1, <1>3, <1>5
  <1>7. FramesTrue'
    <2>1. Prefix(request, chosen)'
      BY <1>1, <1>2 DEF FramesTrue, Prefix
    <2>2. Len(frames)' = Len(chosen)' + (IF phase' = "next" THEN 1 ELSE 0) /\ Len(frames)' <= Len(choices)'
      BY <1>1, <1>2, <1>3, <1>6
    <2>3. ASSUME NEW k \in 1..Len(frames') PROVE frames'[k] \subseteq Eligible(request, choices[k])
      <3>1. k \in 1..Len(frames) \/ k = Len(chosen) + 1
        BY <1>3, <1>6
      <3>2. CASE k \in 1..Len(frames)
        BY <1>2, <1>6, <3>2 DEF FramesTrue
      <3>3. CASE k = Len(chosen) + 1
        BY <1>3, <1>6, <3>3 DEF V
      <3> QED
        BY <3>1, <3>2, <3>3
    <2>4. \A k \in 1..Len(chosen) : \A v \in frames'[k] : v < chosen[k]
      BY <1>2, <1>3, <1>6 DEF FramesTrue
    <2> QED
      BY <1>1, <1>6, <2>1, <2>2, <2>3, <2>4 DEF FramesTrue
  <1>8. ASSUME solutions # {} PROVE \E k \in Nat : Ahead(k)'
    <2>1. CASE OnBranch
      <3>1. first \in Assignments(request)
        BY <1>1, <1>8, InSearch DEF Wins, Solutions
      <3>2. first[choices[Len(chosen) + 1]] \in V
        BY <1>2, <1>4, <3>1, AssignmentFacts DEF V
      <3>3. Ahead(Len(chosen))'
        BY <1>1, <1>3, <1>6, <2>1, <3>2 DEF Ahead, OnBranch
      <3> QED
        BY <1>3, <3>3
    <2>2. CASE ~OnBranch
      <3>1. PICK k \in Nat : Ahead(k)
        BY <1>1, <1>8, <2>2, InSearch
      <3>2. k + 1 \in 1..Len(frames) /\ k + 1 \in 1..Len(frames')
        BY <1>3, <1>6, <3>1 DEF Ahead
      <3>3. Ahead(k)'
        BY <1>1, <1>6, <3>1, <3>2 DEF Ahead
      <3> QED
        BY <3>3
    <2> QED
      BY <2>1, <2>2
  <1> QED
    BY <1>1, <1>7, <1>8, StaysSearching

LEMMA TryNextStep ==
    ASSUME SearchInvariant, TryNext, Follow
    PROVE  SearchInvariant'
  <1> DEFINE v == Newest(Left)
             n == Len(frames)
  <1>1. /\ phase = "next" /\ phase' = "enter" /\ Searching /\ Left # {}
        /\ chosen' = Append(chosen, v) /\ frames' = [frames EXCEPT ![n] = Left \ {v}]
        /\ UNCHANGED <<request, resolve, choices, solutions, first>>
    BY DEF TryNext, Follow, Searching
  <1>2. /\ request \in Requests /\ choices = Choices(request) /\ FramesTrue /\ Len(choices) \in Nat
    BY <1>1, InSearch, ChoicesPlaced
  <1>3. /\ frames \in Seq(SUBSET Versions) /\ n = Len(chosen) + 1 /\ Len(chosen) \in Nat /\ n \in 1..n
        /\ n \in 1..Len(choices) /\ chosen \in Seq(Versions)
    BY <1>1, <1>2 DEF FramesTrue, Prefix
  <1>4. /\ Left = frames[n] /\ Left \in SUBSET Versions /\ Left \subseteq Eligible(request, choices[n])
        /\ v \in Left /\ \A w \in Left : w \in Nat /\ w <= v
    <2>1. Left = frames[n] /\ Left \in SUBSET Versions /\ Left \subseteq Eligible(request, choices[n])
      BY <1>2, <1>3 DEF FramesTrue, Left
    <2> QED
      BY <1>1, <2>1, NewestOf
  <1> HIDE DEF v, n
  <1>5. /\ frames' \in Seq(SUBSET Versions) /\ Len(frames') = n /\ Len(frames) = n
        /\ \A k \in 1..n : frames'[k] = IF k = n THEN Left \ {v} ELSE frames[k]
    BY <1>1, <1>3, <1>4 DEF n
  <1>6. /\ chosen' \in Seq(Versions) /\ Len(chosen') = n
        /\ \A k \in 1..n : chosen'[k] = IF k = n THEN v ELSE chosen[k]
    BY <1>1, <1>3, <1>4
  <1>7. FramesTrue'
    <2>1. Prefix(request, chosen)'
      <3>1. \A k \in 1..n : chosen'[k] \in Eligible(request, choices[k])
        <4> TAKE k \in 1..n
        <4>1. CASE k = n
          BY <1>4, <1>6, <4>1
        <4>2. CASE k # n
          <5>1. k \in 1..Len(chosen)
            BY <1>3, <4>2
          <5> QED
            BY <1>2, <1>6, <4>2, <5>1 DEF FramesTrue, Prefix
        <4> QED
          BY <4>1, <4>2
      <3>2. n <= Len(choices)
        BY <1>3
      <3> QED
        BY <1>1, <1>2, <1>6, <3>1, <3>2 DEF Prefix
    <2>2. Len(frames)' = Len(chosen)' + (IF phase' = "next" THEN 1 ELSE 0) /\ Len(frames)' <= Len(choices)'
      BY <1>1, <1>2, <1>3, <1>5, <1>6
    <2>3. \A k \in 1..n : frames'[k] \subseteq Eligible(request, choices[k])
      <3> TAKE k \in 1..n
      <3>1. frames'[k] \subseteq frames[k]
        BY <1>4, <1>5
      <3>2. frames[k] \subseteq Eligible(request, choices[k])
        BY <1>2, <1>5 DEF FramesTrue
      <3> QED
        BY <3>1, <3>2
    <2>4. \A k \in 1..n : \A w \in frames'[k] : w < chosen'[k]
      <3> TAKE k \in 1..n
      <3>1. CASE k = n
        BY <1>4, <1>5, <1>6, <3>1
      <3>2. CASE k # n
        <4>1. k \in 1..Len(chosen)
          BY <1>3, <3>2
        <4>2. \A w \in frames[k] : w < chosen[k]
          BY <1>2, <4>1 DEF FramesTrue
        <4> QED
          BY <1>5, <1>6, <3>2, <4>2
      <3> QED
        BY <3>1, <3>2
    <2> QED
      BY <1>1, <1>5, <1>6, <2>1, <2>2, <2>3, <2>4 DEF FramesTrue
  <1>8. ASSUME solutions # {} PROVE OnBranch' \/ \E k \in Nat : Ahead(k)'
    <2>1. PICK k \in Nat : Ahead(k)
      BY <1>1, <1>8, InSearch
    <2>2. k + 1 \in 1..n /\ \A j \in 1..k : j \in 1..n /\ j # n
      BY <1>3, <1>5, <2>1 DEF Ahead
    <2>3. \A j \in 1..k : first'[choices'[j]] = chosen'[j]
      BY <1>1, <1>6, <2>1, <2>2 DEF Ahead
    <2>4. CASE first[choices[k + 1]] \in frames'[k + 1]
      <3>1. Ahead(k)'
        BY <1>1, <1>5, <2>2, <2>3, <2>4 DEF Ahead
      <3> QED
        BY <3>1
    <2>5. CASE first[choices[k + 1]] \notin frames'[k + 1]
      <3>1. k + 1 = n /\ first[choices[n]] = v
        BY <1>4, <1>5, <2>1, <2>2, <2>5 DEF Ahead
      <3>2. \A j \in 1..n : j \in 1..k \/ j = n
        BY <1>3, <3>1
      <3> QED
        BY <1>1, <1>6, <2>3, <3>1, <3>2 DEF OnBranch
    <2> QED
      BY <2>4, <2>5
  <1> QED
    BY <1>1, <1>7, <1>8, StaysSearching

LEMMA CloseFrameStep ==
    ASSUME SearchInvariant, CloseFrame, Follow
    PROVE  SearchInvariant'
  <1> DEFINE n == Len(frames)
  <1>1. /\ phase = "next" /\ phase' = "return" /\ Searching /\ Left = {}
        /\ frames' = SubSeq(frames, 1, n - 1)
        /\ UNCHANGED <<request, resolve, choices, chosen, solutions, first>>
    BY DEF CloseFrame, Follow, Searching
  <1>2. FramesTrue
    BY <1>1, InSearch
  <1>3. /\ frames \in Seq(SUBSET Versions) /\ n = Len(chosen) + 1 /\ Len(chosen) \in Nat
        /\ n <= Len(choices) /\ Left = frames[n]
    BY <1>1, <1>2 DEF FramesTrue, Prefix, Left
  <1> HIDE DEF n
  <1>4. /\ frames' \in Seq(SUBSET Versions) /\ Len(frames') = n - 1 /\ Len(frames) = n /\ n - 1 \in Nat
        /\ \A k \in 1..(n - 1) : frames'[k] = frames[k] /\ k \in 1..n
    BY <1>1, <1>3 DEF n
  <1>5. FramesTrue'
    <2>1. Prefix(request, chosen)'
      BY <1>1, <1>2 DEF FramesTrue, Prefix
    <2>2. /\ Len(frames)' = Len(chosen)' + (IF phase' = "next" THEN 1 ELSE 0)
          /\ n - 1 <= Len(choices) \/ Len(choices) \notin Int
      BY <1>1, <1>3, <1>4
    <2>3. Len(choices) \in Nat
      BY <1>1, InSearch, ChoicesPlaced
    <2>4. \A k \in 1..(n - 1) : frames'[k] \subseteq Eligible(request, choices[k])
      BY <1>2, <1>4 DEF FramesTrue
    <2>5. \A k \in 1..Len(chosen) : \A w \in frames'[k] : w < chosen[k]
      BY <1>2, <1>3, <1>4 DEF FramesTrue
    <2> QED
      BY <1>1, <1>4, <2>1, <2>2, <2>3, <2>4, <2>5 DEF FramesTrue
  <1>6. ASSUME solutions # {} PROVE \E k \in Nat : Ahead(k)'
    <2>1. PICK k \in Nat : Ahead(k)
      BY <1>1, <1>6, InSearch
    <2>2. k + 1 # n /\ k + 1 \in 1..n
      BY <1>1, <1>3, <1>4, <2>1 DEF Ahead
    <2>3. k + 1 \in 1..(n - 1)
      BY <1>4, <2>2
    <2>4. Ahead(k)'
      BY <1>1, <1>4, <2>1, <2>3 DEF Ahead
    <2> QED
      BY <2>4
  <1> QED
    BY <1>1, <1>5, <1>6, StaysSearching

LEMMA ReturnStep ==
    ASSUME SearchInvariant, Return, Follow
    PROVE  SearchInvariant'
  <1> DEFINE n == Len(frames)
  <1>1. /\ phase = "return" /\ phase' = "next" /\ Searching /\ frames # <<>>
        /\ chosen' = SubSeq(chosen, 1, Len(chosen) - 1)
        /\ UNCHANGED <<request, resolve, choices, frames, solutions, first>>
    BY DEF Return, Follow, Searching
  <1>2. FramesTrue /\ choices = Choices(request)
    BY <1>1, InSearch
  <1>3. /\ frames \in Seq(SUBSET Versions) /\ n = Len(chosen) /\ n \in Nat /\ n # 0
        /\ chosen \in Seq(Versions)
    BY <1>1, <1>2 DEF FramesTrue, Prefix
  <1> HIDE DEF n
  <1>4. /\ chosen' \in Seq(Versions) /\ Len(chosen') = n - 1 /\ n - 1 \in Nat
        /\ \A k \in 1..(n - 1) : chosen'[k] = chosen[k] /\ k \in 1..n
    BY <1>1, <1>3
  <1>5. FramesTrue'
    <2>1. Len(choices) \in Nat /\ n <= Len(choices)
      BY <1>1, <1>2, InSearch, ChoicesPlaced DEF FramesTrue, n
    <2>2. Prefix(request, chosen)'
      <3>1. \A k \in 1..(n - 1) : chosen'[k] \in Eligible(request, choices[k])
        BY <1>2, <1>3, <1>4 DEF FramesTrue, Prefix
      <3>2. n - 1 <= Len(choices)
        BY <1>3, <2>1
      <3> QED
        BY <1>1, <1>2, <1>4, <3>1, <3>2 DEF Prefix
    <2>3. Len(frames)' = Len(chosen)' + (IF phase' = "next" THEN 1 ELSE 0)
      BY <1>1, <1>3, <1>4 DEF n
    <2>4. \A k \in 1..(n - 1) : \A w \in frames[k] : w < chosen'[k]
      BY <1>2, <1>3, <1>4 DEF FramesTrue
    <2>5. /\ Len(frames) <= Len(choices)
          /\ \A k \in 1..Len(frames) : frames[k] \subseteq Eligible(request, choices[k])
      BY <1>2 DEF FramesTrue
    <2> QED
      BY <1>1, <1>3, <1>4, <2>2, <2>3, <2>4, <2>5 DEF FramesTrue
  <1>6. ASSUME solutions # {} PROVE \E k \in Nat : Ahead(k)'
    <2>1. PICK k \in Nat : Ahead(k)
      BY <1>1, <1>6, InSearch
    <2>2. \A j \in 1..k : j \in 1..(n - 1)
      BY <1>3, <2>1 DEF Ahead, n
    <2>3. Ahead(k)'
      BY <1>1, <1>4, <2>1, <2>2 DEF Ahead
    <2> QED
      BY <2>3
  <1> QED
    BY <1>1, <1>5, <1>6, StaysSearching

\* The last step, with an answer or without.
LEMMA Ends ==
    ASSUME SearchInvariant, phase' \in {"done", "failed"},
           UNCHANGED <<request, resolve, choices, chosen, frames, solutions, first>>, phase # "check",
           AnswersFirst'
    PROVE  SearchInvariant'
  <1>1. Judged'
    BY DEF SearchInvariant, Judged
  <1> QED
    BY <1>1 DEF SearchInvariant, Searching, Phases

LEMMA GiveUpStep ==
    ASSUME SearchInvariant, GiveUp, Follow
    PROVE  SearchInvariant'
  <1>1. /\ phase = "return" /\ phase' = "failed" /\ Searching /\ frames = <<>>
        /\ UNCHANGED <<request, resolve, choices, chosen, frames, answer, solutions, first>>
    BY DEF GiveUp, Follow, Searching
  <1>2. solutions = {}
    BY <1>1, InSearch DEF Ahead
  <1>3. AnswersFirst'
    BY <1>1, <1>2 DEF AnswersFirst
  <1> QED
    BY <1>1, <1>3, Ends

\* A frame that still has the winner's version took a newer one: no solution takes it.
LEMMA AheadExcludes ==
    ASSUME SearchInvariant, phase = "enter", solutions # {}, Len(chosen) = Len(choices),
           Assignment(request, choices, chosen) \in solutions
    PROVE  Assignment(request, choices, chosen) = first
  <1> DEFINE a == Assignment(request, choices, chosen)
  <1>1. /\ request \in Requests /\ choices = Choices(request) /\ FramesTrue /\ Prefix(request, chosen)
        /\ solutions = Solutions(request) /\ Wins(request, first)
        /\ OnBranch \/ \E k \in Nat : Ahead(k)
    BY InSearch DEF Searching, FramesTrue
  <1>2. CASE OnBranch
    BY <1>1, <1>2, CompleteWins DEF OnBranch
  <1>3. CASE \E k \in Nat : Ahead(k)
    <2>1. PICK k \in Nat : Ahead(k)
      BY <1>3
    <2>2. /\ k + 1 \in 1..Len(chosen) /\ k + 1 \in 1..Len(choices)
          /\ \A j \in 1..k : j \in 1..Len(chosen) /\ j \in 1..Len(choices)
          /\ (k + 1) - 1 = k
      BY <1>1, <2>1 DEF FramesTrue, Prefix, Ahead
    <2>3. \A j \in 1..Len(chosen) : a[choices[j]] = chosen[j]
      <3> TAKE j \in 1..Len(chosen)
      <3>1. choices[j] \in Available(request)
        BY <1>1, ChoicesPlaced
      <3> QED
        BY <1>1, <3>1, AssignmentOf
    <2>4. \A d \in Available(request) : ~IsChoice(request, d) => a[d] = Newest(Eligible(request, d))
      BY <1>1, AssignmentOf DEF IsChoice
    <2>5. \A j \in 1..k : first[choices[j]] = a[choices[j]]
      BY <2>1, <2>2, <2>3 DEF Ahead
    <2>6. first[choices[k + 1]] < a[choices[k + 1]]
      BY <1>1, <2>1, <2>2, <2>3 DEF Ahead, FramesTrue
    <2> HIDE DEF a
    <2>7. ~(first[choices[k + 1]] < a[choices[k + 1]])
      <3>1. a \in Solutions(request)
        BY <1>1 DEF a
      <3> DEFINE m == k + 1
      <3>2. m \in 1..Len(choices) /\ \A j \in 1..(m - 1) : first[choices[j]] = a[choices[j]]
        BY <2>2, <2>5
      <3> HIDE DEF m
      <3>3. ~(first[choices[m]] < a[choices[m]])
        BY <1>1, <2>4, <3>1, <3>2, WinnerBeforeBranch
      <3> QED
        BY <3>3 DEF m
    <2> QED
      BY <2>6, <2>7
  <1> QED
    BY <1>1, <1>2, <1>3

LEMMA SettleStep ==
    ASSUME SearchInvariant, Settle, Follow
    PROVE  SearchInvariant'
  <1> DEFINE a == Assignment(request, choices, chosen)
  <1>1. /\ phase = "enter" /\ Searching /\ Len(chosen) = Len(choices)
        /\ UNCHANGED <<request, resolve, choices, chosen, frames, solutions, first>>
        /\ \/ Compatible(request, a, resolve[a]) /\ phase' = "done" /\ answer' = Composed(a, resolve[a])
           \/ ~Compatible(request, a, resolve[a]) /\ phase' = "return" /\ answer' = answer
    BY DEF Settle, Follow, Searching
  <1>2. /\ request \in Requests /\ SoundRequest(request) /\ choices = Choices(request)
        /\ Prefix(request, chosen) /\ solutions = Solutions(request) /\ FramesTrue
        /\ resolve = [b \in Assignments(request) |-> OutcomeOf(SelectionOf(request, b))]
    BY <1>1, InSearch DEF FramesTrue
  <1>3. a \in Assignments(request)
    BY <1>2, CompleteAssigns
  <1> HIDE DEF a
  <1>4. resolve[a] = OutcomeOf(SelectionOf(request, a))
    BY <1>2, <1>3
  <1>5. CASE phase' = "done"
    <2>1. a \in solutions
      BY <1>1, <1>2, <1>3, <1>4, <1>5 DEF Solutions
    <2>2. a = first
      BY <1>1, <2>1, AheadExcludes DEF a
    <2>3. answer' = [d \in resolve[first].composed |-> first[d]]
      BY <1>1, <1>5, <2>2 DEF Composed
    <2>4. AnswersFirst'
      BY <1>1, <1>5, <2>1, <2>2, <2>3 DEF AnswersFirst
    <2> QED
      BY <1>1, <1>5, <2>4, Ends
  <1>6. CASE phase' = "return"
    <2>1. FramesTrue'
      BY <1>1, <1>2, <1>6 DEF FramesTrue
    <2>2. ASSUME solutions # {} PROVE \E k \in Nat : Ahead(k)'
      <3>1. ~OnBranch
        <4>1. SUFFICES ASSUME OnBranch PROVE FALSE
          OBVIOUS
        <4>2. Wins(request, first)
          BY <1>1, <2>2, InSearch
        <4>3. a = first
          BY <1>1, <1>2, <4>1, <4>2, CompleteWins DEF OnBranch, a
        <4>4. a \in Solutions(request)
          BY <4>2, <4>3 DEF Wins
        <4> QED
          BY <1>1, <1>4, <1>6, <4>4 DEF Solutions
      <3> QED
        BY <1>1, <2>2, <3>1, InSearch DEF Ahead
    <2> QED
      BY <1>1, <1>6, <2>1, <2>2, StaysSearching
  <1> QED
    BY <1>1, <1>5, <1>6

LEMMA JudgeStep ==
    ASSUME SearchInvariant, Judge, UNCHANGED request
    PROVE  Judged'
  <1>1. /\ request' = request
        /\ resolve = [a \in Assignments(request) |-> OutcomeOf(SelectionOf(request, a))]
    BY DEF SearchInvariant
  <1>2. DOMAIN resolve = Assignments(request)
    BY <1>1
  <1>3. solutions' = Solutions(request)
    BY <1>1, <1>2 DEF Judge, Solutions
  <1>4. solutions' # {} => Wins(request, first')
    BY <1>3 DEF Judge, Wins
  <1> QED
    BY <1>1, <1>3, <1>4 DEF Judged

LEMMA RejectStep ==
    ASSUME SearchInvariant, Reject, Judge
    PROVE  SearchInvariant'
  <1>1. /\ phase = "check" /\ phase' = "failed" /\ ~Sound
        /\ UNCHANGED <<request, resolve, choices, chosen, frames, answer>>
    BY DEF Reject
  <1>2. Judged'
    BY <1>1, JudgeStep
  <1>3. ~Sound' /\ AnswersFirst'
    BY <1>1 DEF Sound, AnswersFirst
  <1> QED
    BY <1>1, <1>2, <1>3 DEF SearchInvariant, Searching, Phases

LEMMA AcceptStep ==
    ASSUME SearchInvariant, Accept, Judge
    PROVE  SearchInvariant'
  <1>1. /\ phase = "check" /\ phase' = "route" /\ Sound
        /\ choices' = Choices(request)
        /\ UNCHANGED <<request, resolve, chosen, frames, answer>>
    BY DEF Accept, Choices
  <1>2. Judged'
    BY <1>1, JudgeStep
  <1>3. Sound' /\ AnswersFirst' /\ choices' = Choices(request')
    BY <1>1 DEF Sound, AnswersFirst
  <1> QED
    BY <1>1, <1>2, <1>3 DEF SearchInvariant, Searching, Phases

LEMMA StartSearchStep ==
    ASSUME SearchInvariant, StartSearch, Follow
    PROVE  SearchInvariant'
  <1>1. /\ phase = "route" /\ phase' = "enter"
        /\ UNCHANGED <<request, resolve, choices, chosen, frames, answer, solutions, first>>
    BY DEF StartSearch, Follow
  <1>2. /\ request \in Requests /\ Judged /\ Sound /\ choices = Choices(request)
        /\ chosen = <<>> /\ frames = <<>>
        /\ resolve = [a \in Assignments(request) |-> OutcomeOf(SelectionOf(request, a))]
    BY <1>1 DEF SearchInvariant
  <1>3. Judged' /\ Sound' /\ AnswersFirst'
    BY <1>1, <1>2 DEF Judged, Sound, AnswersFirst
  <1>4. FramesTrue'
    <2>1. Len(Choices(request)) \in Nat
      BY <1>2, ChoicesPlaced
    <2> QED
      BY <1>1, <1>2, <2>1 DEF FramesTrue, Prefix
  <1>5. OnBranch'
    BY <1>1, <1>2 DEF OnBranch
  <1> QED
    BY <1>1, <1>2, <1>3, <1>4, <1>5 DEF SearchInvariant, Searching, Phases

LEMMA ChooseIndependentlyStep ==
    ASSUME SearchInvariant, ChooseIndependently, Follow
    PROVE  SearchInvariant'
  <1> DEFINE o == resolve[Newests(request)]
             m == Matched(request, o)
  <1>1. /\ phase = "route" /\ Uniform(request)
        /\ UNCHANGED <<request, resolve, choices, chosen, frames, solutions, first>>
        /\ \/ /\ o.status = "composed" /\ \A d \in o.composed : Matching(request, o, d) # {}
              /\ \/ /\ Compatible(request, m, resolve[m])
                    /\ phase' = "done" /\ answer' = Composed(m, resolve[m])
                 \/ ~Compatible(request, m, resolve[m]) /\ phase' = "failed"
           \/ /\ o.status = "refused" \/ \E d \in o.composed : Matching(request, o, d) = {}
              /\ phase' = "failed"
    BY DEF ChooseIndependently, FastPath, Follow
  <1>2. /\ request \in Requests /\ SoundRequest(request) /\ Judged
        /\ resolve = [a \in Assignments(request) |-> OutcomeOf(SelectionOf(request, a))]
    BY <1>1, SoundMeans DEF SearchInvariant
  <1>3. o = OutcomeOf(SelectionOf(request, Newests(request)))
    BY <1>2, NewestsAssigned
  <1> HIDE DEF o
  <1>4. CASE o.status = "refused" \/ \E d \in o.composed : Matching(request, o, d) = {}
    <2>1. solutions = {}
      <3> SUFFICES ASSUME NEW a \in Solutions(request) PROVE FALSE
        BY <1>2 DEF Judged
      <3>1. a \in Assignments(request)
        BY DEF Solutions
      <3>2. o.status = "composed" /\ \A d \in o.composed : a[d] \in Matching(request, o, d)
        BY <1>1, <1>2, <1>3, <3>1, UniformSolves
      <3> QED
        BY <1>4, <3>2
    <2>2. phase' = "failed"
      BY <1>1, <1>4
    <2>3. AnswersFirst'
      BY <1>1, <2>1, <2>2 DEF AnswersFirst
    <2> QED
      BY <1>1, <2>2, <2>3, Ends
  <1>5. CASE ~(o.status = "refused" \/ \E d \in o.composed : Matching(request, o, d) = {})
    <2>1. /\ m \in Assignments(request) /\ OutcomeOf(SelectionOf(request, m)) = o
          /\ \A a \in Solutions(request) : m \in Solutions(request)
          /\ \A a : Wins(request, a) => a = m
      BY <1>1, <1>2, <1>3, <1>5, MatchedWins
    <2> HIDE DEF m
    <2>2. m \in Solutions(request) <=> Compatible(request, m, resolve[m])
      BY <1>2, <2>1 DEF Solutions
    <2>3. CASE phase' = "done"
      <3>1. m \in solutions
        BY <1>1, <1>2, <1>5, <2>2, <2>3 DEF Judged
      <3>2. first = m
        BY <1>2, <2>1, <3>1 DEF Judged
      <3>3. answer' = [d \in resolve[first].composed |-> first[d]]
        BY <1>1, <1>5, <2>3, <3>2 DEF Composed
      <3>4. AnswersFirst'
        BY <1>1, <2>3, <3>1, <3>2, <3>3 DEF AnswersFirst
      <3> QED
        BY <1>1, <2>3, <3>4, Ends
    <2>4. CASE phase' = "failed"
      <3>1. solutions = {}
        BY <1>1, <1>2, <1>5, <2>1, <2>2, <2>4 DEF Judged
      <3>2. AnswersFirst'
        BY <1>1, <2>4, <3>1 DEF AnswersFirst
      <3> QED
        BY <1>1, <2>4, <3>2, Ends
    <2> QED
      BY <1>1, <2>3, <2>4
  <1> QED
    BY <1>4, <1>5

LEMMA SearchStep ==
    ASSUME SearchInvariant, ReferenceNext
    PROVE  SearchInvariant'
  <1>1. ASSUME Judge, Next PROVE SearchInvariant'
    <2>1. phase = "check"
      BY <1>1 DEF Judge
    <2>2. Reject \/ Accept
      BY <1>1, <2>1 DEF Next, ChooseIndependently, StartSearch, Prune, OpenFrame, Settle, TryNext,
                        CloseFrame, Return, GiveUp
    <2> QED
      BY <1>1, <2>2, RejectStep, AcceptStep
  <1>2. ASSUME Follow, Next PROVE SearchInvariant'
    <2>1. phase # "check"
      BY <1>2 DEF Follow
    <2>2. \/ ChooseIndependently \/ StartSearch \/ Prune \/ OpenFrame \/ Settle \/ TryNext
          \/ CloseFrame \/ Return \/ GiveUp
      BY <1>2, <2>1 DEF Next, Reject, Accept
    <2> QED
      BY <1>2, <2>2, ChooseIndependentlyStep, StartSearchStep, PruneStep, OpenFrameStep, SettleStep,
         TryNextStep, CloseFrameStep, ReturnStep, GiveUpStep
  <1> QED
    BY <1>1, <1>2 DEF ReferenceNext

\* Throughout a search the winner lies in the branch the search is in, or in what an open
\* frame has left; the frames have left only what is older than what they took.
\* (selectVersions: search)
THEOREM SearchInductive == ReferenceSpec => []SearchInvariant
  <1>1. ReferenceInit => SearchInvariant
    BY DEF ReferenceInit, Init, SearchInvariant, Searching, AnswersFirst, Phases
  <1>2. SearchInvariant /\ [ReferenceNext]_referenceVars => SearchInvariant'
    <2> SUFFICES ASSUME SearchInvariant, [ReferenceNext]_referenceVars PROVE SearchInvariant'
      OBVIOUS
    <2>1. CASE ReferenceNext
      BY <2>1, SearchStep
    <2>2. CASE UNCHANGED referenceVars
      BY <2>2 DEF referenceVars, vars, SearchInvariant, Judged, Searching, FramesTrue, Ahead, OnBranch,
                  AnswersFirst, Sound, Prefix
    <2> QED
      BY <2>1, <2>2
  <1> QED
    BY <1>1, <1>2, PTL DEF ReferenceSpec

\* The versions the search answers with are those of the first compatible assignment, and
\* a sound request is refused only if no assignment is compatible, for every catalog:
\* neither the ids left without a choice, nor the pruning, nor the fast path shows.
\* (selectVersions; README.md:137-140, 166-168 of descriptor-selection)
THEOREM AnswersAreFirst == ReferenceSpec => []AnswersFirst
  <1>1. SearchInvariant => AnswersFirst
    BY DEF SearchInvariant
  <1> QED
    BY <1>1, SearchInductive, PTL

\* Neither a pruned branch nor a finished frame takes the first compatible assignment with
\* it.  (search, checkMandatory)
THEOREM SearchSkipsNothing == ReferenceSpec => []NothingSkipped
  <1>1. SearchInvariant => NothingSkipped
    <2> SUFFICES ASSUME SearchInvariant, phase \in {"enter", "next"}, solutions # {}
                 PROVE  \E k \in 0..Len(chosen) :
                            /\ Extends(first, SubSeq(chosen, 1, k))
                            /\ k = Len(chosen) \/ first[choices[k + 1]] \in frames[k + 1]
      BY DEF NothingSkipped
    <2>1. FramesTrue /\ ((phase = "enter" /\ OnBranch) \/ \E k \in Nat : Ahead(k))
      BY InSearch DEF Searching
    <2>2. chosen \in Seq(Versions) /\ Len(chosen) \in Nat
      BY <2>1 DEF FramesTrue, Prefix
    <2>3. ASSUME NEW k \in 0..Len(chosen), \A j \in 1..k : first[choices[j]] = chosen[j]
          PROVE  Extends(first, SubSeq(chosen, 1, k))
      <3>1. SubSeq(chosen, 1, k) = [j \in 1..k |-> chosen[j]]
        BY <2>2
      <3> QED
        BY <2>3, <3>1 DEF Extends
    <2>4. CASE OnBranch
      BY <2>2, <2>3, <2>4 DEF OnBranch
    <2>5. CASE \E k \in Nat : Ahead(k)
      <3>1. PICK k \in Nat : Ahead(k)
        BY <2>5
      <3>2. k \in 0..Len(chosen)
        BY <2>1, <2>2, <3>1 DEF Ahead, FramesTrue
      <3>3. Extends(first, SubSeq(chosen, 1, k))
        BY <2>3, <3>1, <3>2 DEF Ahead
      <3> QED
        BY <3>1, <3>2, <3>3 DEF Ahead
    <2> QED
      BY <2>1, <2>4, <2>5
  <1> QED
    BY <1>1, SearchInductive, PTL
=============================================================================
