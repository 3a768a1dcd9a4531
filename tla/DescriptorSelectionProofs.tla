---------------------- MODULE DescriptorSelectionProofs ----------------------
(***************************************************************************)
(* Whatever the catalog and the seed: an answer of descriptor selection is *)
(* well typed, takes in no provider that lost, activates nothing the       *)
(* provider choice did not hear, and loses nothing without a cycle; its    *)
(* origins cover every descriptor.  Selection keeps its contract: an       *)
(* answer is coherent and a refusal has its reason; where no choice bears  *)
(* on itself the passes settle before their cap.                           *)
(*                                                                         *)
(* The second part is about the build-time hosts, which select through     *)
(* what the first is about: a React build and a Nuxt application of one    *)
(* product select, tell and contribute alike.                              *)
(***************************************************************************)
EXTENDS CompositionOrigins, Hosts, FiniteSetTheorems, FunctionTheorems, SequenceTheorems

\* What the slots hold once the passes have settled: the choice for the ids they
\* were made for, which are the ids they activate.
Settled ==
    /\ slots = Resolution(Ask(request, explicit, resolvedIds))
    /\ resolvedIds = Closure(request, explicit, Winners(slots))

\* A grouping that was opened has all its members selected.
OpenedMembers == \A g \in explicit \ pendingGroups : request.members[g] \subseteq explicit

IInv ==
    /\ TypeOK
    /\ OpenedMembers
    /\ phase \in {"passes", "compose", "done"} => pendingGroups = {}
    /\ phase = "check" => explicit = request.roots
    /\ phase \in {"groups", "passes", "compose", "done"} => explicit \subseteq request.enabled
    /\ providerRoots \subseteq request.enabled
    /\ phase = "passes" => pass < MaxPasses(request)
    /\ phase \in {"check", "groups"} => pass = 0
    /\ phase \in {"compose", "done"} => Settled
    /\ phase = "done" => composed = Composition(request, explicit, slots)

-----------------------------------------------------------------------------
LEMMA SelectionFields ==
    ASSUME NEW s \in Selection
    PROVE  /\ s.enabled \in SUBSET Ids
           /\ s.dependencies \in [Ids -> SUBSET Names]
           /\ s.providesFor \in [Ids -> SUBSET Names]
           /\ s.defaultFor \in [Ids -> SUBSET Names]
           /\ s.members \in [Ids -> SUBSET Names]
           /\ s.roots \in SUBSET Names
  BY DEF Selection

\* The loop makes at least two passes, and a bounded number.
LEMMA MaxPassesType ==
    ASSUME NEW s \in Selection
    PROVE  MaxPasses(s) \in Nat /\ MaxPasses(s) >= 2
  <1>1. s.enabled \subseteq Names
    BY NamesAssumption, SelectionFields
  <1>2. Cardinality(s.enabled) \in Nat
    BY <1>1, NamesAssumption, FS_Subset, FS_CardinalityType
  <1> QED
    BY <1>2 DEF MaxPasses

\* A traversal that starts from enabled ids over edges to enabled ids stays there.
LEMMA ReachEnabled ==
    ASSUME NEW s, NEW roots \in SUBSET s.enabled, NEW R,
           \A e \in R : e[2] \in s.enabled
    PROVE  Reach(roots, R) \subseteq s.enabled
  BY ReachWithinField DEF Field

\* What the seed selects before any provider is chosen.
LEMMA ImplicitEnabled ==
    ASSUME NEW s
    PROVE  ImplicitSelected(s) \subseteq s.enabled \ Providers(s)
  BY DEF ImplicitSelected

LEMMA ClosureEnabled ==
    ASSUME NEW s, NEW E \in SUBSET s.enabled, NEW W \in SUBSET s.enabled
    PROVE  Closure(s, E, W) \subseteq s.enabled
  <1>1. \A e \in StrippedEdges(s) \cup MemberEdges(s, {}) : e[2] \in s.enabled
    BY DEF StrippedEdges, MemberEdges
  <1>2. E \cup ImplicitSelected(s) \cup W \in SUBSET s.enabled
    BY ImplicitEnabled
  <1> QED
    BY <1>1, <1>2, ReachEnabled DEF Closure

LEMMA CompositionEnabled ==
    ASSUME NEW s, NEW E \in SUBSET s.enabled, NEW choice
    PROVE  Composition(s, E, choice) \subseteq s.enabled
  <1>1. \A e \in RewrittenEdges(s, choice) \cup MemberEdges(s, Winners(choice)) : e[2] \in s.enabled
    BY DEF RewrittenEdges, DefaultEdges, MemberEdges
  <1>2. E \cup ImplicitSelected(s) \in SUBSET s.enabled
    BY ImplicitEnabled
  <1> QED
    BY <1>1, <1>2, ReachEnabled DEF Composition

-----------------------------------------------------------------------------
\* Some tier decides a capability a tier names a provider for, and it is the highest.
LEMMA DecidingTierHighest ==
    ASSUME NEW ask, NEW c, TiersNaming(ask, c) # {}
    PROVE  /\ DecidingTier(ask, c) \in TiersNaming(ask, c)
           /\ \A j \in TiersNaming(ask, c) : DecidingTier(ask, c) <= j
  <1>1. TiersNaming(ask, c) \subseteq {1, 2, 3}
    BY DEF TiersNaming
  <1>2. \E k \in TiersNaming(ask, c) : \A j \in TiersNaming(ask, c) : k <= j
    <2>1. CASE 1 \in TiersNaming(ask, c)
      BY <2>1, <1>1
    <2>2. CASE 1 \notin TiersNaming(ask, c) /\ 2 \in TiersNaming(ask, c)
      BY <2>2, <1>1
    <2>3. CASE 1 \notin TiersNaming(ask, c) /\ 2 \notin TiersNaming(ask, c)
      BY <2>3, <1>1
    <2> QED
      BY <2>1, <2>2, <2>3
  <1> QED
    BY <1>2 DEF DecidingTier

\* Every request names an enabled provider.
LEMMA RequestsEnabled ==
    ASSUME NEW s, NEW E, NEW C, NEW mode \in Modes
    PROVE  \A r \in Ask(s, E, C).requests[mode] : r[1] \in Names /\ r[2] \in s.enabled
  <1>1. /\ Ask(s, E, C).requests.explicit = PairsProviding(s, E)
        /\ Ask(s, E, C).requests.dependency = DependencyRequests(s, E, C)
        /\ Ask(s, E, C).requests.default = DefaultRequests(s)
    BY DEF Ask
  <1> QED
    BY <1>1 DEF Modes, PairsProviding, DependencyRequests, DefaultRequests

\* The slots of a resolution are well typed, and their winners enabled.
LEMMA ResolutionType ==
    ASSUME NEW s \in Selection, NEW E, NEW C \in SUBSET s.enabled
    PROVE  LET chosen == Resolution(Ask(s, E, C))
           IN  /\ DOMAIN chosen \subseteq Names
               /\ \A c \in DOMAIN chosen : chosen[c] \in Slot
               /\ Winners(chosen) \subseteq s.enabled
  <1> DEFINE ask == Ask(s, E, C)
             chosen == Resolution(ask)
  <1>1. DOMAIN chosen = ActiveSlots(ask)
    BY DEF Resolution
  <1>2. ActiveSlots(ask) \subseteq Names
    <2>1. ask.active \subseteq Names
      BY NamesAssumption, SelectionFields DEF Ask
    <2>2. ask.required \subseteq Names
      BY SelectionFields DEF Ask, RequiredCapabilities, Provided, PairsProviding
    <2>3. Asked(ask, "explicit") \subseteq Names /\ Asked(ask, "dependency") \subseteq Names
      BY RequestsEnabled DEF Asked, Modes
    <2> QED
      BY <2>1, <2>2, <2>3 DEF ActiveSlots, RequiredSlots
  <1>3. ASSUME NEW c \in ActiveSlots(ask)
        PROVE  SlotOf(ask, c) \in Slot /\ SlotOf(ask, c).winner \subseteq s.enabled
    <2>1. CASE TiersNaming(ask, c) = {}
      BY <2>1 DEF SlotOf, Slot
    <2>2. CASE TiersNaming(ask, c) # {}
      <3> DEFINE mode == Tiers[DecidingTier(ask, c)]
      <3>1. DecidingTier(ask, c) \in {1, 2, 3}
        BY <2>2, DecidingTierHighest DEF TiersNaming
      <3>2. mode \in Modes
        BY <3>1 DEF Tiers, Modes
      <3>3. Named(ask, mode, c) \subseteq s.enabled
        BY <3>2, RequestsEnabled DEF Named
      <3>4. SlotOf(ask, c) = [winner |-> Named(ask, mode, c), mode |-> mode,
                              required |-> c \in RequiredSlots(ask)]
        BY <2>2 DEF SlotOf
      <3> HIDE DEF mode
      <3> QED
        BY <3>2, <3>3, <3>4, SelectionFields DEF Slot
    <2> QED
      BY <2>1, <2>2
  <1>4. \A c \in DOMAIN chosen : chosen[c] = SlotOf(ask, c)
    BY DEF Resolution
  <1> HIDE DEF ask, chosen
  <1>5. \A c \in DOMAIN chosen : chosen[c] \in Slot /\ chosen[c].winner \subseteq s.enabled
    BY <1>1, <1>3, <1>4
  <1>6. Winners(chosen) \subseteq s.enabled
    BY <1>5 DEF Winners
  <1> QED
    BY <1>1, <1>2, <1>5, <1>6 DEF chosen, ask

\* An explicitly selected provider wins: its request is at the highest tier.
LEMMA ExplicitWins ==
    ASSUME NEW s \in Selection, NEW E, NEW C,
           NEW p \in E \cap Providers(s)
    PROVE  p \in Winners(Resolution(Ask(s, E, C)))
  <1> DEFINE ask == Ask(s, E, C)
  <1>1. PICK c \in s.providesFor[p] : TRUE
    BY DEF Providers
  <1>2. p \in s.enabled /\ p \in Ids /\ c \in Names
    BY SelectionFields DEF Providers
  <1>3. <<c, p>> \in ask.requests["explicit"]
    BY <1>1, <1>2 DEF Ask, PairsProviding
  <1>4. p \in Named(ask, "explicit", c) /\ c \in Asked(ask, "explicit")
    BY <1>3 DEF Named, Asked
  <1>5. c \in ActiveSlots(ask)
    BY <1>4 DEF ActiveSlots, RequiredSlots
  <1>6. 1 \in TiersNaming(ask, c)
    BY <1>4 DEF TiersNaming, Tiers
  <1>7. DecidingTier(ask, c) = 1
    BY <1>6, DecidingTierHighest DEF TiersNaming
  <1>8. SlotOf(ask, c).winner = Named(ask, "explicit", c)
    BY <1>6, <1>7 DEF SlotOf, Tiers
  <1>9. Resolution(ask)[c] = SlotOf(ask, c) /\ c \in DOMAIN Resolution(ask)
    BY <1>5 DEF Resolution
  <1> HIDE DEF ask
  <1>10. p \in Winners(Resolution(ask))
    BY <1>4, <1>8, <1>9 DEF Winners
  <1> QED
    BY <1>10 DEF ask

\* A provider that won some capability is among the winners.
LEMMA WonIsWinner ==
    ASSUME NEW choice, NEW c, NEW p, Won(choice, c, p)
    PROVE  p \in Winners(choice)
  BY DEF Won, Winners

\* Every edge the outcome keeps leads to an id that is no provider, or to a winner.
LEMMA KeptEdges ==
    ASSUME NEW s, NEW choice,
           NEW e \in RewrittenEdges(s, choice) \cup MemberEdges(s, Winners(choice))
    PROVE  e[2] \in Winners(choice) \/ e \in StrippedEdges(s) \cup MemberEdges(s, {})
  <1>1. CASE e \in DefaultEdges(s, choice)
    BY <1>1, WonIsWinner DEF DefaultEdges
  <1>2. CASE e \in MemberEdges(s, Winners(choice))
    BY <1>2 DEF MemberEdges
  <1>3. CASE e \in RewrittenEdges(s, choice) /\ e \notin DefaultEdges(s, choice)
    <2>1. e \in s.enabled \X (s.enabled \ Losers(s, choice)) /\ e[2] \in s.dependencies[e[1]]
      BY <1>3 DEF RewrittenEdges
    <2>2. CASE e[2] \in Providers(s)
      <3>1. PICK c \in s.providesFor[e[2]] : Won(choice, c, e[2])
        BY <2>1, <2>2 DEF Losers
      <3> QED
        BY <3>1, WonIsWinner
    <2>3. CASE e[2] \notin Providers(s)
      BY <2>1, <2>3 DEF StrippedEdges
    <2> QED
      BY <2>2, <2>3
  <1> QED
    BY <1>1, <1>2, <1>3

\* A composition takes in no provider but those selected explicitly and the winners.
LEMMA OnlyWinnersComposed ==
    ASSUME NEW s, NEW E \in SUBSET s.enabled, NEW choice,
           E \cap Providers(s) \subseteq Winners(choice)
    PROVE  Composition(s, E, choice) \cap Providers(s) \subseteq Winners(choice)
  <1> DEFINE R == RewrittenEdges(s, choice) \cup MemberEdges(s, Winners(choice))
             S == Winners(choice) \cup (s.enabled \ Providers(s))
  <1>1. E \cup ImplicitSelected(s) \subseteq S
    BY ImplicitEnabled
  <1>2. Closed(S, R)
    <2> SUFFICES ASSUME NEW e \in R PROVE e[2] \in S
      BY DEF Closed
    <2>1. CASE e \in StrippedEdges(s) \cup MemberEdges(s, {})
      BY <2>1 DEF StrippedEdges, MemberEdges
    <2> QED
      BY <2>1, KeptEdges
  <1>3. Reach(E \cup ImplicitSelected(s), R) \subseteq S
    BY <1>1, <1>2, ReachLeast
  <1> QED
    BY <1>3 DEF Composition

\* What an outcome composes is within what a pass that starts from its winners closes.
LEMMA ComposedWithinClosure ==
    ASSUME NEW s, NEW E, NEW choice
    PROVE  Composition(s, E, choice) \subseteq Closure(s, E, Winners(choice))
  <1> DEFINE R == RewrittenEdges(s, choice) \cup MemberEdges(s, Winners(choice))
             Q == StrippedEdges(s) \cup MemberEdges(s, {})
             roots == E \cup ImplicitSelected(s) \cup Winners(choice)
             S == Reach(roots, Q)
  <1>1. roots \subseteq S /\ Closed(S, Q)
    BY ReachHoldsRoots, ReachClosed
  <1>2. Closed(S, R)
    <2> SUFFICES ASSUME NEW e \in R, e[1] \in S PROVE e[2] \in S
      BY DEF Closed
    <2>1. e[2] \in Winners(choice) \/ e \in Q
      BY KeptEdges
    <2> HIDE DEF S, Q
    <2> QED
      BY <1>1, <2>1 DEF Closed
  <1>3. E \cup ImplicitSelected(s) \subseteq S
    BY <1>1
  <1> HIDE DEF S, R
  <1>4. Reach(E \cup ImplicitSelected(s), R) \subseteq S
    BY <1>2, <1>3, ReachLeast
  <1> QED
    BY <1>4 DEF Composition, Closure, R, S

-----------------------------------------------------------------------------
LEMMA InitInv == Init => IInv
  <1> SUFFICES ASSUME Init PROVE IInv
    OBVIOUS
  <1>1. request \in Selection
    BY SelectionsAssumption DEF Init
  <1>2. explicit \subseteq Names /\ pendingGroups \subseteq explicit
    BY <1>1, SelectionFields DEF Init
  <1>3. pass \in 0..MaxPasses(request)
    BY <1>1, MaxPassesType DEF Init
  <1>4. TypeOK
    BY <1>1, <1>2, <1>3 DEF Init, TypeOK, Phases
  <1> QED
    BY <1>4 DEF Init, IInv, OpenedMembers

\* One lemma per action: each preserves the inductive invariant.
LEMMA RejectInv == ASSUME NEW k \in DOMAIN Checks PROVE IInv /\ Reject(k) => IInv'
  <1> SUFFICES ASSUME IInv, Reject(k) PROVE IInv'
    OBVIOUS
  <1>1. Checks[k] \in Failures
    BY DEF Failures
  <1>2. TypeOK'
    BY <1>1 DEF IInv, TypeOK, Reject, Fail, Phases
  <1> QED
    BY <1>2 DEF IInv, Reject, Fail, OpenedMembers

LEMMA AcceptInv == IInv /\ Accept => IInv'
  <1> SUFFICES ASSUME IInv, Accept PROVE IInv'
    OBVIOUS
  <1>1. TypeOK'
    BY DEF IInv, TypeOK, Accept, Phases
  <1>2. ~Fails(request, "seed")
    BY DEF Accept, Checks
  <1>3. explicit \subseteq request.enabled
    BY <1>2 DEF Accept, IInv, Fails, UnknownSeed
  <1> QED
    BY <1>1, <1>3 DEF IInv, Accept, OpenedMembers

LEMMA OpenGroupInv == ASSUME NEW g PROVE IInv /\ OpenGroup(g) => IInv'
  <1> SUFFICES ASSUME IInv, OpenGroup(g) PROVE IInv'
    OBVIOUS
  <1>1. request.enabled \subseteq Names
    BY NamesAssumption, SelectionFields DEF IInv, TypeOK
  <1>2. explicit' \subseteq request.enabled /\ pendingGroups' \subseteq explicit'
    BY DEF IInv, TypeOK, OpenGroup
  <1>3. TypeOK'
    BY <1>1, <1>2 DEF IInv, TypeOK, OpenGroup
  <1>4. OpenedMembers'
    BY DEF IInv, OpenGroup, OpenedMembers
  <1> QED
    BY <1>2, <1>3, <1>4 DEF IInv, OpenGroup

LEMMA RejectGroupInv == ASSUME NEW g PROVE IInv /\ RejectGroup(g) => IInv'
  <1> SUFFICES ASSUME IInv, RejectGroup(g) PROVE IInv'
    OBVIOUS
  <1>1. TypeOK'
    BY DEF IInv, TypeOK, RejectGroup, Fail, Phases, Failures
  <1> QED
    BY <1>1 DEF IInv, RejectGroup, Fail, OpenedMembers

LEMMA StartPassesInv == IInv /\ StartPasses => IInv'
  <1> SUFFICES ASSUME IInv, StartPasses PROVE IInv'
    OBVIOUS
  <1>1. Providers(request) \subseteq request.enabled /\ request.enabled \subseteq Ids
    BY SelectionFields DEF IInv, TypeOK, Providers
  <1>2. providerRoots' \subseteq request.enabled /\ providerRoots' \subseteq Ids
    BY <1>1 DEF StartPasses
  <1>3. TypeOK'
    BY <1>2 DEF IInv, TypeOK, StartPasses, Phases
  <1>4. pass' < MaxPasses(request)'
    BY MaxPassesType DEF IInv, TypeOK, StartPasses
  <1> QED
    BY <1>2, <1>3, <1>4 DEF IInv, StartPasses, OpenedMembers

LEMMA PassInv == IInv /\ Pass => IInv'
  <1> SUFFICES ASSUME IInv, Pass PROVE IInv'
    OBVIOUS
  <1> DEFINE closed == Closure(request, explicit, providerRoots)
             ask == Ask(request, explicit, closed)
             chosen == Resolution(ask)
  <1>1. /\ request \in Selection /\ phase = "passes" /\ explicit \subseteq request.enabled
        /\ providerRoots \subseteq request.enabled /\ request.enabled \subseteq Ids
        /\ pass \in Nat /\ MaxPasses(request) \in Nat /\ pass + 1 <= MaxPasses(request)
    BY SelectionFields, MaxPassesType DEF IInv, TypeOK, Pass
  <1>2. RejectProviders(ask) \/ Decide(closed, chosen)
    BY DEF Pass
  <1>3. closed \subseteq request.enabled
    BY <1>1, ClosureEnabled
  <1>4. /\ DOMAIN chosen \subseteq Names /\ \A c \in DOMAIN chosen : chosen[c] \in Slot
        /\ Winners(chosen) \subseteq request.enabled
    BY <1>1, <1>3, ResolutionType
  <1> HIDE DEF closed, ask, chosen
  <1>5. CASE RejectProviders(ask)
    <2>1. TypeOK'
      BY <1>5 DEF IInv, TypeOK, RejectProviders, Fail, Phases, Failures
    <2> QED
      BY <1>5, <2>1 DEF IInv, RejectProviders, Fail, OpenedMembers
  <1>6. CASE Decide(closed, chosen)
    <2>1. /\ resolvedIds' = closed /\ slots' = chosen /\ providerRoots' = Winners(chosen)
          /\ pass' = pass + 1
          /\ UNCHANGED <<request, explicit, pendingGroups, composed>>
      BY <1>6 DEF Decide
    <2>2. phase' \in {"passes", "compose", "failed"} /\ failure' \in Failures \cup {"none"}
      BY <1>1, <1>6 DEF Decide, Fail, Failures, IInv, TypeOK
    <2>3. pass' \in 0..MaxPasses(request)
      BY <1>1, <2>1
    <2>4. TypeOK'
      BY <1>1, <1>3, <1>4, <2>1, <2>2, <2>3 DEF IInv, TypeOK, Phases
    <2>5. phase' = "passes" => pass' < MaxPasses(request)
      BY <1>1, <1>6 DEF Decide, Fail
    <2>6. phase' = "compose" => Settled'
      <3> SUFFICES ASSUME phase' = "compose" PROVE Settled'
        OBVIOUS
      <3>1. Winners(chosen) = providerRoots
        BY <1>1, <1>6 DEF Decide, Fail, Repeats
      <3>2. closed = Closure(request, explicit, Winners(chosen))
        BY <3>1 DEF closed
      <3>3. chosen = Resolution(Ask(request, explicit, closed))
        BY DEF chosen, ask
      <3> QED
        BY <2>1, <3>2, <3>3 DEF Settled
    <2>7. MaxPasses(request)' = MaxPasses(request)
      BY <2>1
    <2> QED
      BY <1>1, <1>4, <2>1, <2>2, <2>4, <2>5, <2>6, <2>7 DEF IInv, OpenedMembers
  <1> QED
    BY <1>2, <1>5, <1>6

LEMMA ComposeInv == IInv /\ Compose => IInv'
  <1> SUFFICES ASSUME IInv, Compose PROVE IInv'
    OBVIOUS
  <1>1. /\ request \in Selection /\ explicit \subseteq request.enabled
        /\ request.enabled \subseteq Ids /\ Settled
    BY SelectionFields DEF IInv, TypeOK, Compose
  <1>2. composed' = Composition(request, explicit, slots) /\ phase' \in {"done", "failed"}
    BY DEF Compose, Fail
  <1>3. composed' \subseteq Ids
    BY <1>1, <1>2, CompositionEnabled
  <1>4. failure' \in Failures \cup {"none"}
    BY DEF Compose, Fail, Failures, IInv, TypeOK
  <1>5. UNCHANGED <<request, explicit, pendingGroups, pass, resolvedIds, providerRoots, slots>>
    BY DEF Compose
  <1>6. TypeOK'
    BY <1>2, <1>3, <1>4, <1>5 DEF IInv, TypeOK, Phases
  <1>7. Settled'
    BY <1>1, <1>5 DEF Settled
  <1> QED
    BY <1>1, <1>2, <1>5, <1>6, <1>7 DEF IInv, OpenedMembers, Compose

LEMMA StepInv == IInv /\ [Next]_vars => IInv'
  <1> SUFFICES ASSUME IInv, [Next]_vars PROVE IInv'
    OBVIOUS
  <1>1. CASE Next
    BY <1>1, RejectInv, AcceptInv, OpenGroupInv, RejectGroupInv, StartPassesInv, PassInv,
       ComposeInv DEF Next
  <1>2. CASE UNCHANGED vars
    BY <1>2 DEF vars, IInv, TypeOK, Settled, OpenedMembers
  <1> QED
    BY <1>1, <1>2

LEMMA AlwaysIInv == Spec => []IInv
  BY InitInv, StepInv, PTL DEF Spec

-----------------------------------------------------------------------------
\* The state of the selection is well typed; in particular the loop over provider
\* passes never exceeds its cap, and only enabled descriptors are ever resolved.
THEOREM TypeCorrect == Spec => []TypeOK
  <1>1. IInv => TypeOK
    BY DEF IInv
  <1> QED
    BY <1>1, AlwaysIInv, PTL

\* The composition stays within the ids the last provider choice was made for:
\* dropping losers and hanging defaults on their capabilities activates nothing new.
THEOREM ComposesWithinChoice == Spec => []CompositionWithinChoice
  <1>1. IInv => CompositionWithinChoice
    BY ComposedWithinClosure DEF IInv, CompositionWithinChoice, Settled
  <1> QED
    BY <1>1, AlwaysIInv, PTL

\* No losing provider takes part, for every catalog, membership and seed.
THEOREM LosersStayOut == Spec => []ActiveProvidersWon
  <1>1. IInv => ActiveProvidersWon
    <2> SUFFICES ASSUME IInv, phase = "done"
                 PROVE  composed \cap Providers(request) \subseteq Winners(slots)
      BY DEF ActiveProvidersWon
    <2>1. request \in Selection /\ explicit \subseteq request.enabled /\ Settled
      BY DEF IInv, TypeOK
    <2>2. explicit \cap Providers(request) \subseteq Winners(slots)
      BY <2>1, ExplicitWins DEF Settled
    <2> QED
      BY <2>1, <2>2, OnlyWinnersComposed DEF IInv
  <1> QED
    BY <1>1, AlwaysIInv, PTL

\* A provider won the capability, or the seed gave it to others.
WonOrOverridden(E, chosen, q, c) ==
    /\ c \in DOMAIN chosen
    /\ \/ q \in chosen[c].winner
       \/ chosen[c].mode = "explicit" /\ chosen[c].winner \subseteq E

\* A provider a resolved descriptor names wins its capabilities, save those a
\* provider of the seed took.
LEMMA DependencyWins ==
    ASSUME NEW s \in Selection, NEW E, NEW C, NEW d \in C,
           NEW q \in NamedBy(s, E, d) \cap Providers(s), NEW c \in s.providesFor[q],
           NEW chosen, chosen = Resolution(Ask(s, E, C))
    PROVE  WonOrOverridden(E, chosen, q, c)
  <1> DEFINE ask == Ask(s, E, C)
  <1>1. q \in s.enabled /\ q \in Ids /\ c \in Names
    BY SelectionFields DEF Providers
  <1>2. <<c, q>> \in ask.requests["dependency"]
    BY <1>1 DEF Ask, DependencyRequests, PairsProviding
  <1>3. ask.requests["explicit"] = PairsProviding(s, E)
    BY DEF Ask
  <1>11. chosen = Resolution(ask)
    OBVIOUS
  <1> HIDE DEF ask
  <1>4. q \in Named(ask, "dependency", c) /\ c \in Asked(ask, "dependency")
    BY <1>2 DEF Named, Asked
  <1>5. c \in ActiveSlots(ask)
    BY <1>4 DEF ActiveSlots, RequiredSlots
  <1>6. 2 \in TiersNaming(ask, c)
    BY <1>4 DEF TiersNaming, Tiers
  <1>7. DecidingTier(ask, c) \in {1, 2}
    BY <1>6, DecidingTierHighest DEF TiersNaming
  <1>8. chosen[c] = SlotOf(ask, c) /\ c \in DOMAIN chosen
    BY <1>11, <1>5 DEF Resolution
  <1>9. CASE DecidingTier(ask, c) = 1
    <2>1. SlotOf(ask, c).mode = "explicit" /\ SlotOf(ask, c).winner = Named(ask, "explicit", c)
      BY <1>6, <1>9 DEF SlotOf, Tiers
    <2>2. Named(ask, "explicit", c) \subseteq E
      BY <1>3 DEF Named, PairsProviding
    <2> QED
      BY <1>8, <2>1, <2>2 DEF WonOrOverridden
  <1>10. CASE DecidingTier(ask, c) = 2
    <2>1. SlotOf(ask, c).winner = Named(ask, "dependency", c)
      BY <1>6, <1>10 DEF SlotOf, Tiers
    <2> QED
      BY <1>4, <1>8, <2>1 DEF WonOrOverridden
  <1> QED
    BY <1>7, <1>9, <1>10 DEF WonOrOverridden

\* A dependency on a provider is dropped from a composition only for providers the
\* seed selected, which take part.
THEOREM OverridesComeFromSeed == Spec => []OverriddenOnlyBySeed
  <1>1. IInv => OverriddenOnlyBySeed
    <2> SUFFICES ASSUME IInv, phase = "done", NEW d \in composed,
                        NEW q \in (request.dependencies[d] \cap Providers(request)) \ composed,
                        NEW c \in request.providesFor[q]
                 PROVE  slots[c].mode = "explicit" /\ slots[c].winner \subseteq composed
      BY DEF OverriddenOnlyBySeed
    <2>1. /\ request \in Selection /\ explicit \subseteq request.enabled /\ Settled
          /\ composed = Composition(request, explicit, slots)
          /\ \A g \in explicit : request.members[g] \subseteq explicit
      BY DEF IInv, TypeOK, OpenedMembers
    <2>2. composed \subseteq request.enabled /\ d \in request.enabled /\ q \in request.enabled
      BY <2>1, CompositionEnabled DEF Providers
    <2>3. d \in resolvedIds
      BY <2>1, ComposedWithinClosure DEF Settled
    <2> DEFINE roots == explicit \cup ImplicitSelected(request)
               R == RewrittenEdges(request, slots) \cup MemberEdges(request, Winners(slots))
    <2>4. composed = Reach(roots, R)
      BY <2>1 DEF Composition
    <2>5. explicit \subseteq composed
      BY <2>4, ReachHoldsRoots
    <2>6. q \in NamedBy(request, explicit, d)
      BY <2>1, <2>5 DEF NamedBy
    <2>7. WonOrOverridden(explicit, slots, q, c)
      BY <2>1, <2>3, <2>6, DependencyWins DEF Settled
    <2>8. q \notin slots[c].winner
      <3> SUFFICES ASSUME q \in slots[c].winner PROVE FALSE
        OBVIOUS
      <3>1. q \notin Losers(request, slots)
        BY <2>7 DEF WonOrOverridden, Losers, Won
      <3>2. <<d, q>> \in R
        BY <2>2, <3>1 DEF RewrittenEdges
      <3> QED
        BY <2>4, <3>2, ReachClosed DEF Closed
    <2> QED
      BY <2>5, <2>7, <2>8 DEF WonOrOverridden
  <1> QED
    BY <1>1, AlwaysIInv, PTL
-----------------------------------------------------------------------------
\* What the steps before found and the later ones rely on without asking again.
Warranted ==
    /\ phase \in {"groups", "passes", "compose", "done"} =>
          \A k \in DOMAIN Checks : ~Fails(request, Checks[k])
    /\ request.roots \subseteq explicit /\ explicit \subseteq Explicit(request)
    /\ phase \in {"compose", "done"} => ~Unanswerable(Ask(request, explicit, resolvedIds))
    /\ phase = "done" => ~UnmetDependency(request, slots, composed)

LEMMA InitWarranted == Init => Warranted
  BY ReachHoldsRoots DEF Init, Warranted, Explicit

\* The members of a grouping that is explicitly selected are so by definition.
LEMMA OpenGroupWarranted == ASSUME NEW g PROVE IInv /\ Warranted /\ OpenGroup(g) => Warranted'
  <1> SUFFICES ASSUME IInv, Warranted, OpenGroup(g) PROVE Warranted'
    OBVIOUS
  <1> DEFINE R == {e \in request.enabled \X Names : e[2] \in request.members[e[1]]}
  <1>1. /\ request \in Selection /\ g \in explicit /\ explicit \subseteq request.enabled
        /\ request.members[g] \subseteq request.enabled
        /\ explicit' = explicit \cup request.members[g] /\ request' = request /\ phase' = phase
        /\ phase = "groups"
    BY DEF IInv, TypeOK, OpenGroup
  <1>2. request.enabled \subseteq Names
    BY <1>1, NamesAssumption, SelectionFields
  <1>3. ASSUME NEW m \in request.members[g] PROVE m \in Reach(request.roots, R)
    <2>1. <<g, m>> \in R
      BY <1>1, <1>2
    <2>2. g \in Reach(request.roots, R)
      BY <1>1 DEF Warranted, Explicit
    <2> HIDE DEF R
    <2> QED
      BY <2>1, <2>2, ReachStep
  <1>4. explicit' \subseteq Explicit(request)
    BY <1>1, <1>3 DEF Warranted, Explicit
  <1> QED
    BY <1>1, <1>4 DEF Warranted

LEMMA PassWarranted == Warranted /\ Pass => Warranted'
  <1> SUFFICES ASSUME Warranted, Pass PROVE Warranted'
    OBVIOUS
  <1> DEFINE closed == Closure(request, explicit, providerRoots)
             ask == Ask(request, explicit, closed)
             chosen == Resolution(ask)
  <1>1. RejectProviders(ask) \/ (~Unanswerable(ask) /\ Decide(closed, chosen))
    BY DEF Pass
  <1>2. phase = "passes"
    BY DEF Pass
  <1> HIDE DEF closed, chosen
  <1>3. CASE RejectProviders(ask)
    BY <1>2, <1>3 DEF RejectProviders, Fail, Warranted
  <1>4. CASE ~Unanswerable(ask) /\ Decide(closed, chosen)
    <2>1. /\ resolvedIds' = closed /\ UNCHANGED <<request, explicit>>
          /\ phase' \in {"passes", "compose", "failed"}
      BY <1>2, <1>4 DEF Decide, Fail
    <2>2. ~Unanswerable(Ask(request, explicit, resolvedIds))'
      BY <1>4, <2>1
    <2> QED
      BY <1>2, <2>1, <2>2 DEF Warranted
  <1> QED
    BY <1>1, <1>3, <1>4

LEMMA ComposeWarranted == Warranted /\ Compose => Warranted'
  <1> SUFFICES ASSUME Warranted, Compose PROVE Warranted'
    OBVIOUS
  <1>1. /\ UNCHANGED <<request, explicit, resolvedIds, slots>>
        /\ phase = "compose" /\ phase' \in {"done", "failed"}
        /\ phase' = "done" => ~UnmetDependency(request, slots, composed')
    BY DEF Compose, Fail
  <1> QED
    BY <1>1 DEF Warranted

LEMMA StepWarranted == IInv /\ Warranted /\ [Next]_vars => Warranted'
  <1> SUFFICES ASSUME IInv, Warranted, [Next]_vars PROVE Warranted'
    OBVIOUS
  <1>1. ASSUME NEW k \in DOMAIN Checks, Reject(k) PROVE Warranted'
    BY <1>1 DEF Warranted, Reject, Fail
  <1>2. CASE Accept
    BY <1>2 DEF Warranted, Accept
  <1>3. ASSUME NEW g \in pendingGroups, RejectGroup(g) PROVE Warranted'
    BY <1>3 DEF Warranted, RejectGroup, Fail
  <1>4. CASE StartPasses
    BY <1>4 DEF Warranted, StartPasses
  <1>5. CASE UNCHANGED vars
    BY <1>5 DEF Warranted, vars
  <1> QED
    BY <1>1, <1>2, <1>3, <1>4, <1>5, OpenGroupWarranted, PassWarranted, ComposeWarranted DEF Next

LEMMA AlwaysWarranted == Spec => [](IInv /\ Warranted)
  <1>1. IInv /\ Warranted /\ [Next]_vars => (IInv /\ Warranted)'
    BY StepInv, StepWarranted
  <1> QED
    BY <1>1, InitInv, InitWarranted, PTL DEF Spec
-----------------------------------------------------------------------------
\* Where no id reaches itself, a finite set has an id none of the set leads to.
LEMMA FirstInOrder ==
    ASSUME NEW R, \A e \in R : e[1] \notin Reach({e[2]}, R),
           NEW S, IsFiniteSet(S), S # {}
    PROVE  \E x \in S : \A e \in R : e[2] = x => Behind(S, R, e[1]) = {}
  <1> DEFINE T == {Behind(S, R, x) : x \in S}
  <1>1. T \subseteq FiniteSubsetsOf(S) /\ T # {}
    <2>1. \A x : Behind(S, R, x) \in FiniteSubsetsOf(S)
      BY FS_FiniteSubsetsOfFinite DEF Behind
    <2> QED
      BY <2>1
  <1>2. PICK x \in S : \A B \in T : <<B, Behind(S, R, x)>> \notin StrictSubsetOrdering(S)
    BY <1>1, FS_StrictSubsetOrderingWellFounded, WFMin
  <1>3. ASSUME NEW e \in R, e[2] = x, NEW y \in S, e[1] \in Reach({y}, R) PROVE FALSE
    <2>1. /\ Behind(S, R, y) \subseteq Behind(S, R, x)
          /\ x \in Behind(S, R, x) \ Behind(S, R, y)
      BY <1>3, BehindGrows
    <2>2. Behind(S, R, y) \in SUBSET S /\ Behind(S, R, x) \in SUBSET S
      BY DEF Behind
    <2>3. <<Behind(S, R, y), Behind(S, R, x)>> \in StrictSubsetOrdering(S)
      BY <2>1, <2>2 DEF StrictSubsetOrdering
    <2> QED
      BY <1>2, <2>3
  <1> QED
    BY <1>3 DEF Behind

\* Every edge a pass walks is one the composition keeps.
LEMMA PassEdgesKept ==
    ASSUME NEW s, NEW choice
    PROVE  StrippedEdges(s) \cup MemberEdges(s, {})
              \subseteq RewrittenEdges(s, choice) \cup MemberEdges(s, Winners(choice))
  BY DEF StrippedEdges, MemberEdges, RewrittenEdges, Losers

\* Every edge a pass walks can activate its target.
LEMMA PassEdgesActivate ==
    ASSUME NEW s \in Selection
    PROVE  StrippedEdges(s) \cup MemberEdges(s, {}) \subseteq Activation(s)
  BY NamesAssumption, SelectionFields DEF StrippedEdges, MemberEdges, Activation

\* The winners a composition lacks.
Lost(s, E, choice) == Winners(choice) \ Composition(s, E, choice)

\* What a pass closed and the composition lacks is activated by a winner it lacks.
LEMMA LostBehindWinner ==
    ASSUME NEW s \in Selection, NEW E, NEW choice,
           NEW d \in Closure(s, E, Winners(choice)) \ Composition(s, E, choice)
    PROVE  Behind(Lost(s, E, choice), Activation(s), d) # {}
  <1> DEFINE X == Composition(s, E, choice)
             Q == StrippedEdges(s) \cup MemberEdges(s, {})
             R == RewrittenEdges(s, choice) \cup MemberEdges(s, Winners(choice))
             roots == E \cup ImplicitSelected(s) \cup Winners(choice)
  <1>1. X = Reach(E \cup ImplicitSelected(s), R) /\ d \in Reach(roots, Q) /\ d \notin X
    BY DEF Composition, Closure
  <1>2. Q \subseteq R /\ Q \subseteq Activation(s)
    BY PassEdgesKept, PassEdgesActivate
  <1>3. roots \ X \subseteq Winners(choice)
    BY <1>1, ReachHoldsRoots
  <1> HIDE DEF Q, R, X, roots
  <1>4. Closed(X, Q)
    BY <1>1, <1>2, ReachClosed DEF Closed
  <1>5. d \notin Reach(X, Q)
    BY <1>1, <1>4, ReachLeast
  <1>6. PICK w \in roots \ X : d \in Reach({w}, Q)
    <2>1. d \in Reach(roots, Q)
      BY <1>1
    <2>2. Behind(roots \ X, Q, d) # {}
      BY <1>5, <2>1, ReachFromOne
    <2> QED
      BY <2>2 DEF Behind
  <1>7. Reach({w}, Q) \subseteq Reach({w}, Activation(s))
    BY <1>2, ReachHoldsRoots, ReachMonotone
  <1> QED
    BY <1>3, <1>6, <1>7 DEF X, Behind, Lost

\* The winner of a slot is named at the tier the slot reports, and no higher tier names
\* a provider for it.
LEMMA DecidedAtMode ==
    ASSUME NEW ask, NEW c \in DOMAIN Resolution(ask), Resolution(ask)[c].winner # {}
    PROVE  LET slot == Resolution(ask)[c]
           IN  /\ c \in ActiveSlots(ask)
               /\ slot.mode \in Modes /\ slot.winner = Named(ask, slot.mode, c)
               /\ slot.mode # "explicit" => Named(ask, "explicit", c) = {}
               /\ slot.mode = "default" => Named(ask, "dependency", c) = {}
  <1> DEFINE k == DecidingTier(ask, c)
  <1>1. c \in ActiveSlots(ask) /\ Resolution(ask)[c] = SlotOf(ask, c)
    BY DEF Resolution
  <1>2. TiersNaming(ask, c) # {}
    BY <1>1 DEF SlotOf
  <1>3. k \in 1..3 /\ \A j \in TiersNaming(ask, c) : k <= j
    BY <1>2, DecidingTierHighest DEF TiersNaming
  <1>4. SlotOf(ask, c).mode = Tiers[k] /\ SlotOf(ask, c).winner = Named(ask, Tiers[k], c)
    BY <1>2 DEF SlotOf
  <1> HIDE DEF k
  <1>5. Tiers[k] \in Modes
    BY <1>3 DEF Tiers, Modes
  <1>6. k # 1 => Named(ask, "explicit", c) = {}
    BY <1>3 DEF TiersNaming, Tiers
  <1>7. k = 3 => Named(ask, "dependency", c) = {}
    BY <1>3 DEF TiersNaming, Tiers
  <1>8. /\ Tiers[k] # "explicit" => k # 1
        /\ Tiers[k] = "default" => k = 3
    BY <1>3 DEF Tiers
  <1> QED
    BY <1>1, <1>4, <1>5, <1>6, <1>7, <1>8

\* The winner of a slot is an enabled provider of its capability.
LEMMA WinnerProvides ==
    ASSUME NEW s \in Selection, NEW E, NEW C, NEW ask, ask = Ask(s, E, C),
           ~NamesUnknownProvider(ask),
           NEW c \in DOMAIN Resolution(ask), NEW w \in Resolution(ask)[c].winner
    PROVE  w \in Providers(s) /\ c \in s.providesFor[w] /\ c \in Names
  <1>1. PICK mode \in Modes : w \in Named(ask, mode, c)
    BY DecidedAtMode
  <1>2. PICK r \in ask.requests[mode] : r[1] = c /\ r[2] = w
    BY <1>1 DEF Named
  <1>3. c \in Names
    BY <1>2, RequestsEnabled
  <1>4. w \in ask.candidates[c]
    BY <1>2 DEF NamesUnknownProvider
  <1>5. ask.candidates[c] = {p \in s.enabled : c \in s.providesFor[p]}
    BY <1>3 DEF Ask, Candidates
  <1> QED
    BY <1>3, <1>4, <1>5 DEF Providers

\* A slot a tier asks about is one for which it names a provider.
LEMMA AskedForIsNamed ==
    ASSUME NEW ask, NEW mode, NEW c, Named(ask, mode, c) = {}
    PROVE  c \notin Asked(ask, mode)
  <1> SUFFICES ASSUME NEW r \in ask.requests[mode], r[1] = c
               PROVE  FALSE
    BY DEF Asked
  <1>1. r[2] \in Named(ask, mode, c)
    BY DEF Named
  <1> QED
    BY <1>1

\* A slot filled by default takes part, or a resolved descriptor depends on it: had one
\* named a provider of it, that tier would have decided.
LEMMA DefaultSlotNeeded ==
    ASSUME NEW s \in Selection, NEW E, \A g \in E : s.members[g] \subseteq E,
           NEW C, NEW ask, ask = Ask(s, E, C),
           NEW c \in DOMAIN Resolution(ask), Resolution(ask)[c].winner # {},
           Resolution(ask)[c].mode = "default"
    PROVE  c \in C \/ \E d \in C : c \in s.dependencies[d]
  <1>1. /\ c \in ActiveSlots(ask)
        /\ Named(ask, "explicit", c) = {} /\ Named(ask, "dependency", c) = {}
    BY DecidedAtMode
  <1>2. /\ ask.active = C \cap Provided(s) /\ ask.required = RequiredCapabilities(s, C)
        /\ ask.requests["explicit"] = PairsProviding(s, E)
        /\ ask.requests["dependency"] = DependencyRequests(s, E, C)
    BY DEF Ask
  <1>3. c \notin Asked(ask, "explicit") /\ c \notin Asked(ask, "dependency")
    BY <1>1, AskedForIsNamed
  <1>4. CASE c \in ask.active
    BY <1>2, <1>4
  <1>5. CASE c \in ask.required
    <2> SUFFICES ASSUME NEW r \in PairsProviding(s, UNION {s.dependencies[d] : d \in C}), r[1] = c
                 PROVE  FALSE
      BY <1>2, <1>5 DEF RequiredCapabilities
    <2>1. PICK d \in C : r[2] \in s.dependencies[d]
      BY DEF PairsProviding
    <2>2. CASE r[2] \in NamedBy(s, E, d)
      <3>1. r \in DependencyRequests(s, E, C)
        BY <2>2 DEF DependencyRequests, PairsProviding
      <3> QED
        BY <1>2, <1>3, <3>1 DEF Asked
    <2>3. CASE r[2] \notin NamedBy(s, E, d)
      <3>1. r[2] \in E
        BY <2>1, <2>3 DEF NamedBy
      <3>2. r \in PairsProviding(s, E)
        BY <3>1 DEF PairsProviding
      <3> QED
        BY <1>2, <1>3, <3>2 DEF Asked
    <2> QED
      BY <2>2, <2>3
  <1> QED
    BY <1>1, <1>3, <1>4, <1>5 DEF ActiveSlots, RequiredSlots

\* The choice of providers that the explicitly selected ids E lead to, and the ids C it
\* was made for.
SettledOn(s, E, C, choice) ==
    /\ s \in Selection /\ E \subseteq s.enabled
    /\ \A g \in E : s.members[g] \subseteq E
    /\ C = Closure(s, E, Winners(choice))
    /\ choice = Resolution(Ask(s, E, C)) /\ ~NamesUnknownProvider(Ask(s, E, C))

\* X is the composition of the choice, which meets every dependency it keeps, and
\* keeps those on capabilities.
Complete(s, E, choice, X) ==
    /\ X = Composition(s, E, choice)
    /\ ~UnmetDependency(s, choice, X)
    /\ \A d \in X : s.dependencies[d] \cap Losers(s, choice) \cap Provided(s) = {}

\* A winner a complete composition lacks is activated by something that another winner
\* it lacks activates.
LEMMA LostWinnerActivated ==
    ASSUME NEW s, NEW E, NEW C, NEW choice, SettledOn(s, E, C, choice),
           NEW X, Complete(s, E, choice, X),
           NEW w \in Lost(s, E, choice)
    PROVE  \E e \in Activation(s) :
              e[2] = w /\ Behind(Lost(s, E, choice), Activation(s), e[1]) # {}
  <1> DEFINE R == RewrittenEdges(s, choice) \cup MemberEdges(s, Winners(choice))
             ask == Ask(s, E, C)
  <1>0. /\ s \in Selection /\ E \in SUBSET s.enabled /\ \A g \in E : s.members[g] \subseteq E
        /\ ~NamesUnknownProvider(ask) /\ choice = Resolution(ask)
        /\ C = Closure(s, E, Winners(choice)) /\ X = Composition(s, E, choice)
        /\ w \in Winners(choice) \ X
    BY DEF SettledOn, Complete, Lost
  <1>1. PICK c \in DOMAIN choice : w \in choice[c].winner
    BY <1>0 DEF Winners
  <1>2. w \in Providers(s) /\ c \in s.providesFor[w] /\ c \in Names
    BY <1>0, <1>1, WinnerProvides
  <1>3. /\ w \in s.enabled /\ w \in Names /\ s.enabled \subseteq Names /\ w \notin Losers(s, choice)
        /\ c \in Provided(s)
    BY <1>0, <1>1, <1>2, NamesAssumption, SelectionFields DEF Providers, Losers, Won, Provided
  <1>4. /\ choice[c].mode \in Modes /\ choice[c].winner = Named(ask, choice[c].mode, c)
        /\ choice[c].winner # {}
    BY <1>0, <1>1, DecidedAtMode
  <1>5. /\ ask.requests["explicit"] = PairsProviding(s, E)
        /\ ask.requests["dependency"] = DependencyRequests(s, E, C)
        /\ ask.requests["default"] = DefaultRequests(s)
    BY DEF Ask
  <1>6. E \subseteq X /\ Closed(X, R)
    BY <1>0, ReachHoldsRoots, ReachClosed DEF Composition
  <1>7. C \subseteq s.enabled /\ X \subseteq s.enabled
    <2>1. Winners(choice) \subseteq s.enabled
      BY <1>0, <1>1, WinnerProvides DEF Winners, Providers
    <2> QED
      BY <1>0, <2>1, ClosureEnabled, CompositionEnabled
  <1>8. ASSUME NEW d \in C \ X
        PROVE  Behind(Lost(s, E, choice), Activation(s), d) # {}
    BY <1>0, LostBehindWinner
  <1>9. CASE choice[c].mode = "explicit"
    BY <1>0, <1>1, <1>4, <1>5, <1>6, <1>9 DEF Named, PairsProviding
  <1>10. CASE choice[c].mode = "dependency"
    <2>1. PICK d \in C : w \in NamedBy(s, E, d)
      BY <1>1, <1>4, <1>5, <1>10 DEF Named, DependencyRequests, PairsProviding
    <2>2. <<d, w>> \in R
      <3>1. CASE w \in s.dependencies[d]
        BY <1>3, <1>7, <3>1 DEF RewrittenEdges
      <3>2. CASE w \in s.members[d]
        BY <1>0, <1>3, <1>7, <3>2 DEF MemberEdges
      <3> QED
        BY <2>1, <3>1, <3>2 DEF NamedBy
    <2>3. d \notin X
      BY <1>0, <1>6, <2>2 DEF Closed
    <2>4. <<d, w>> \in Activation(s)
      BY <1>3, <1>7, <2>1 DEF NamedBy, Activation
    <2> QED
      BY <1>8, <2>1, <2>3, <2>4
  <1>11. CASE choice[c].mode = "default"
    <2>1. c \in s.defaultFor[w]
      BY <1>1, <1>4, <1>5, <1>11 DEF Named, DefaultRequests
    <2>2. c \notin X
      <3>1. c \in X => <<c, w>> \in R
        BY <1>1, <1>3, <1>7, <1>11, <2>1 DEF RewrittenEdges, DefaultEdges, Won
      <3> QED
        BY <1>0, <1>6, <3>1 DEF Closed
    <2>3. <<c, w>> \in Activation(s)
      BY <1>2, <1>3, <2>1 DEF Activation
    <2>4. CASE c \in C
      BY <1>8, <2>2, <2>3, <2>4
    <2>5. CASE \E d \in C : c \in s.dependencies[d]
      <3>1. PICK d \in C : c \in s.dependencies[d]
        BY <2>5
      <3>2. d \notin X
        BY <1>3, <2>2, <3>1 DEF Complete, UnmetDependency, KeptDependencies
      <3>3. PICK v \in Lost(s, E, choice) : d \in Reach({v}, Activation(s))
        BY <1>8, <3>2 DEF Behind
      <3>4. <<d, c>> \in Activation(s)
        BY <1>2, <1>7, <3>1 DEF Activation
      <3>5. c \in Reach({v}, Activation(s))
        BY <3>3, <3>4, ReachStep
      <3> QED
        BY <2>3, <3>5 DEF Behind
    <2> QED
      BY <1>0, <1>1, <1>4, <1>11, <2>4, <2>5, DefaultSlotNeeded
  <1> QED
    BY <1>4, <1>9, <1>10, <1>11 DEF Modes

\* Where activation has no cycle, a complete composition has every winner, and with the
\* winners all the last pass closed.
LEMMA CompleteHoldsClosure ==
    ASSUME NEW s, NEW E, NEW C, NEW choice, SettledOn(s, E, C, choice),
           NEW X, Complete(s, E, choice, X),
           Acyclic(Activation(s))
    PROVE  C \subseteq X
  <1>1. Lost(s, E, choice) \subseteq Names
    BY NamesAssumption, SelectionFields, WinnerProvides DEF Lost, Winners, Providers, SettledOn
  <1>2. IsFiniteSet(Lost(s, E, choice))
    BY <1>1, NamesAssumption, FS_Subset
  <1>3. \A w \in Lost(s, E, choice) :
           \E e \in Activation(s) : e[2] = w /\ Behind(Lost(s, E, choice), Activation(s), e[1]) # {}
    BY LostWinnerActivated
  <1>4. Lost(s, E, choice) = {}
    BY <1>2, <1>3, FirstInOrder DEF Acyclic
  <1>5. \A d : Behind({}, Activation(s), d) = {}
    BY DEF Behind
  <1> QED
    BY <1>4, <1>5, LostBehindWinner DEF SettledOn, Complete

LEMMA DoneHoldsClosure ==
    IInv /\ Warranted /\ phase = "done" /\ Acyclic(Activation(request)) /\ ~CapabilityDropped
        => resolvedIds \subseteq composed
  <1> SUFFICES ASSUME IInv, Warranted, phase = "done", Acyclic(Activation(request)), ~CapabilityDropped
               PROVE  resolvedIds \subseteq composed
    OBVIOUS
  <1>1. /\ request \in Selection /\ explicit \in SUBSET request.enabled
        /\ \A g \in explicit : request.members[g] \subseteq explicit
        /\ Settled /\ composed = Composition(request, explicit, slots)
    BY DEF IInv, TypeOK, OpenedMembers
  <1>2. ~NamesUnknownProvider(Ask(request, explicit, resolvedIds))
    BY DEF Warranted, Unanswerable
  <1>3. Complete(request, explicit, slots, composed)
    BY <1>1 DEF Warranted, Complete, CapabilityDropped
  <1>4. SettledOn(request, explicit, resolvedIds, slots)
    BY <1>1, <1>2 DEF Settled, SettledOn
  <1> QED
    BY <1>1, <1>3, <1>4, CompleteHoldsClosure

\* Where activation has no cycle and no capability is dropped, the composition is all the
\* last provider choice was made for: nothing was asked on account of a descriptor that
\* takes no part.
THEOREM NothingLost == Spec => []NothingLostWithoutCycle
  <1>1. IInv /\ Warranted => NothingLostWithoutCycle
    BY DoneHoldsClosure DEF NothingLostWithoutCycle
  <1> QED
    BY <1>1, AlwaysWarranted, PTL

\* On the same conditions every slot the composition requires is filled by a provider
\* that takes part.
THEOREM RequiredServed == Spec => []RequiredSlotsServed
  <1>1. IInv /\ Warranted => RequiredSlotsServed
    <2> SUFFICES ASSUME IInv, Warranted, phase = "done", Acyclic(Activation(request)), ~CapabilityDropped,
                        NEW c \in RequiredSlots(Ask(request, explicit, composed))
                 PROVE  c \in DOMAIN slots /\ slots[c].winner # {} /\ slots[c].winner \subseteq composed
      BY DEF RequiredSlotsServed
    <2> DEFINE ask == Ask(request, explicit, resolvedIds)
    <2>1. composed = resolvedIds
      BY DoneHoldsClosure, ComposedWithinClosure DEF IInv, Settled
    <2>2. slots = Resolution(ask) /\ ~Unanswerable(ask) /\ c \in RequiredSlots(ask)
      BY <2>1 DEF IInv, Settled, Warranted
    <2> HIDE DEF ask
    <2>3. c \in DOMAIN slots /\ slots[c] = SlotOf(ask, c)
      BY <2>2 DEF Resolution, ActiveSlots
    <2>4. TiersNaming(ask, c) # {}
      BY <2>2 DEF Unanswerable, LeavesRequiredUnfilled
    <2>5. SlotOf(ask, c).winner # {}
      BY <2>4, DecidingTierHighest DEF SlotOf, TiersNaming
    <2>6. Winners(slots) \subseteq resolvedIds
      <3>1. resolvedIds = Closure(request, explicit, Winners(slots))
        BY DEF IInv, Settled
      <3>2. Winners(slots) \subseteq Closure(request, explicit, Winners(slots))
        BY ReachHoldsRoots DEF Closure
      <3> QED
        BY <3>1, <3>2
    <2> QED
      BY <2>1, <2>3, <2>5, <2>6 DEF Winners
  <1> QED
    BY <1>1, AlwaysWarranted, PTL
-----------------------------------------------------------------------------
\* The origins of a composition are read off a finished answer.
LEMMA AnsweredFacts ==
    ASSUME IInv, Warranted, Answered
    PROVE  /\ request \in Selection /\ request.enabled \subseteq Ids
           /\ explicit \subseteq request.enabled /\ request.roots \subseteq explicit
           /\ \A g \in explicit : request.members[g] \subseteq explicit
           /\ slots = Resolution(Ask(request, explicit, resolvedIds))
           /\ ~Unanswerable(Ask(request, explicit, resolvedIds))
           /\ composed = Composition(request, explicit, slots)
           /\ composed \subseteq request.enabled /\ explicit \subseteq composed
           /\ \A d \in composed : Dependencies(d) \subseteq composed
  <1>1. /\ phase = "done" /\ request \in Selection /\ explicit \subseteq request.enabled /\ Settled
        /\ pendingGroups = {} /\ composed = Composition(request, explicit, slots)
    BY DEF IInv, TypeOK, Answered
  <1>2. request.enabled \subseteq Ids
    BY <1>1, SelectionFields
  <1>3. composed \subseteq request.enabled /\ explicit \subseteq composed
    BY <1>1, CompositionEnabled, ReachHoldsRoots DEF Composition
  <1>4. \A d \in composed : Dependencies(d) \subseteq composed
    BY <1>1 DEF Warranted, UnmetDependency, Dependencies
  <1> QED
    BY <1>1, <1>2, <1>3, <1>4 DEF Settled, Warranted, IInv, OpenedMembers

\* The dependencies of a grouping are its members.
LEMMA GroupingHoldsMembers ==
    ASSUME request \in Selection, FromComposition(request), NEW g \in Groupings(request)
    PROVE  request.members[g] = request.dependencies[g]
  <1>1. g \in Ids /\ request.members[g] # {}
    BY SelectionFields DEF Groupings
  <1> QED
    BY <1>1 DEF FromComposition

\* What the run chose is explicitly selected, and composed.
LEMMA ChosenExplicit ==
    ASSUME IInv, Warranted, Answered, NEW seed \in SeedSplits(request)
    PROVE  ChosenByRun(seed) \subseteq explicit
  <1> DEFINE R == {e \in ComposedGroupings \X Names : e[2] \in Dependencies(e[1])}
  <1>1. NamedByRun(seed) \subseteq explicit
    BY AnsweredFacts DEF NamedByRun, SeedSplits
  <1>2. ASSUME NEW e \in R, e[1] \in explicit PROVE e[2] \in explicit
    <2>1. e[1] \in Groupings(request) /\ e[2] \in request.dependencies[e[1]]
      BY DEF ComposedGroupings, Dependencies, KeptDependencies
    <2>2. e[2] \in request.members[e[1]]
      BY <2>1, AnsweredFacts, GroupingHoldsMembers DEF Answered
    <2> QED
      BY <1>2, <2>2, AnsweredFacts
  <1>3. Closed(explicit, R)
    BY <1>2 DEF Closed
  <1> HIDE DEF R
  <1>4. Reach(NamedByRun(seed), R) \subseteq explicit
    BY <1>1, <1>3, ReachLeast
  <1> QED
    BY <1>4 DEF ChosenByRun, R

\* A slot with a candidate the run selected is decided by it.
LEMMA ExplicitDecides ==
    ASSUME NEW s \in Selection, NEW E, NEW C, NEW ask, ask = Ask(s, E, C), ~Unanswerable(ask),
           NEW c, NEW p \in E, p \in s.enabled, c \in s.providesFor[p], c \in DOMAIN Resolution(ask)
    PROVE  Resolution(ask)[c].winner = {p} /\ Resolution(ask)[c].mode = "explicit"
  <1>1. p \in Ids /\ c \in Names
    BY SelectionFields
  <1>2. <<c, p>> \in ask.requests["explicit"]
    BY <1>1 DEF Ask, PairsProviding
  <1>3. p \in Named(ask, "explicit", c) /\ c \in Asked(ask, "explicit")
    BY <1>2 DEF Named, Asked
  <1>4. 1 \in TiersNaming(ask, c)
    BY <1>3 DEF TiersNaming, Tiers
  <1>5. DecidingTier(ask, c) = 1
    BY <1>4, DecidingTierHighest DEF TiersNaming
  <1>6. Resolution(ask)[c] = SlotOf(ask, c)
    BY DEF Resolution
  <1>7. Resolution(ask)[c].winner = Named(ask, "explicit", c) /\ Resolution(ask)[c].mode = "explicit"
    BY <1>4, <1>5, <1>6 DEF SlotOf, Tiers
  <1>8. \A q \in Named(ask, "explicit", c) : q = p
    BY <1>3 DEF Unanswerable, Contradictory, Modes
  <1> QED
    BY <1>3, <1>7, <1>8

\* Slot rows report what the provider choice decided, for every composition and every
\* way its seed was put together.
THEOREM SlotRowsTrue == Spec => []NamedSlotsDecided
  <1>1. IInv /\ Warranted => NamedSlotsDecided
    <2> SUFFICES ASSUME IInv, Warranted, Answered, NEW seed \in SeedSplits(request),
                        NEW c \in DOMAIN SlotRows(seed)
                 PROVE  /\ SlotRows(seed)[c].named <=> slots[c].winner \cap ChosenByRun(seed) # {}
                        /\ SlotRows(seed)[c].named
                             => slots[c].mode = "explicit" /\ slots[c].winner \subseteq composed
      BY DEF NamedSlotsDecided
    <2> DEFINE ask == Ask(request, explicit, resolvedIds)
               chosen == ChosenByRun(seed)
    <2>1. /\ request \in Selection /\ slots = Resolution(ask) /\ ~Unanswerable(ask)
          /\ request.enabled \subseteq Ids /\ explicit \subseteq composed /\ composed \subseteq request.enabled
      BY AnsweredFacts
    <2>2. chosen \subseteq explicit
      BY ChosenExplicit
    <2>3. c \in DOMAIN slots /\ c \in Names
      BY <2>1, NamesAssumption DEF SlotRows
    <2>4. Candidates(request)[c] = {p \in request.enabled : c \in request.providesFor[p]}
      BY <2>3 DEF Candidates
    <2>5. SlotRows(seed)[c].named <=> (Candidates(request)[c] \cap composed) \cap chosen # {}
      BY DEF SlotRows
    <2> HIDE DEF ask, chosen
    <2>6. ASSUME NEW p \in (Candidates(request)[c] \cap composed) \cap chosen
          PROVE  slots[c].winner = {p} /\ slots[c].mode = "explicit"
      BY <2>1, <2>2, <2>3, <2>4, ExplicitDecides DEF ask
    <2>7. ASSUME NEW p \in slots[c].winner \cap chosen
          PROVE  p \in (Candidates(request)[c] \cap composed) \cap chosen
      <3>1. p \in Providers(request) /\ c \in request.providesFor[p]
        BY <2>1, <2>3, WinnerProvides DEF ask, Unanswerable
      <3> QED
        BY <2>1, <2>2, <2>4, <3>1 DEF Providers
    <2>8. (Candidates(request)[c] \cap composed) \cap chosen # {} <=> slots[c].winner \cap chosen # {}
      BY <2>6, <2>7
    <2>9. (Candidates(request)[c] \cap composed) \cap chosen # {}
            => slots[c].mode = "explicit" /\ slots[c].winner \subseteq composed
      BY <2>6
    <2> QED
      BY <2>5, <2>8, <2>9 DEF chosen
  <1> QED
    BY <1>1, AlwaysWarranted, PTL

\* Whatever is reached is a root or one edge away from what is reached.
LEMMA ReachLast ==
    ASSUME NEW roots, NEW R, NEW x \in Reach(roots, R)
    PROVE  x \in roots \/ \E e \in R : e[1] \in Reach(roots, R) /\ e[2] = x
  <1> DEFINE S == roots \cup {e[2] : e \in {f \in R : f[1] \in Reach(roots, R)}}
  <1>1. S \subseteq Reach(roots, R)
    BY ReachHoldsRoots, ReachStep
  <1>2. Closed(S, R)
    BY <1>1 DEF Closed
  <1>3. Reach(roots, R) \subseteq S
    BY <1>2, ReachLeast
  <1> QED
    BY <1>3

\* An explicitly selected id the seed does not name is a member of an explicit grouping.
LEMMA ExplicitByGrouping ==
    ASSUME IInv, Warranted, Answered, NEW d \in explicit \ request.roots
    PROVE  \E g \in ComposedGroupings : d \in request.members[g]
  <1> DEFINE R == {e \in request.enabled \X Names : e[2] \in request.members[e[1]]}
  <1>1. d \in Reach(request.roots, R)
    BY DEF Warranted, Explicit
  <1>2. Reach(request.roots, R) \subseteq explicit
    <2>1. Closed(explicit, R)
      BY AnsweredFacts DEF Closed
    <2> HIDE DEF R
    <2> QED
      BY <2>1, AnsweredFacts, ReachLeast
  <1>3. \E e \in R : e[1] \in Reach(request.roots, R) /\ e[2] = d
    <2> HIDE DEF R
    <2> QED
      BY <1>1, ReachLast
  <1>4. PICK e \in R : e[1] \in explicit /\ e[2] = d
    BY <1>2, <1>3
  <1> QED
    BY <1>4, AnsweredFacts DEF ComposedGroupings, Groupings

\* A composed descriptor a composed grouping depends on comes by way of groupings.
LEMMA HeldByGrouping ==
    ASSUME NEW g \in ComposedGroupings, NEW d \in composed, d \in Dependencies(g)
    PROVE  d \in FromGroupings
  <1> DEFINE roots == (UNION {Dependencies(h) : h \in ComposedGroupings}) \cap composed
  <1>1. d \in roots
    OBVIOUS
  <1> HIDE DEF roots
  <1>2. d \in Reach(roots, {e \in composed \X composed : e[2] \in Dependencies(e[1])})
    BY <1>1, ReachHoldsRoots
  <1> QED
    BY <1>2 DEF FromGroupings, roots

\* No composed descriptor lost the provider choice.
LEMMA ComposedKept ==
    ASSUME IInv, Warranted, Answered, NEW d \in composed
    PROVE  d \notin Losers(request, slots)
  <1> SUFFICES ASSUME d \in Losers(request, slots) PROVE FALSE
    OBVIOUS
  <1> DEFINE ask == Ask(request, explicit, resolvedIds)
  <1>1. /\ request \in Selection /\ slots = Resolution(ask) /\ ~Unanswerable(ask)
        /\ explicit \subseteq request.enabled /\ composed = Composition(request, explicit, slots)
    BY AnsweredFacts
  <1>2. d \in Providers(request)
    BY DEF Losers
  <1>3. explicit \cap Providers(request) \subseteq Winners(slots)
    BY <1>1, ExplicitWins
  <1>4. d \in Winners(slots)
    BY <1>1, <1>2, <1>3, OnlyWinnersComposed
  <1> HIDE DEF ask
  <1>5. PICK c \in DOMAIN slots : d \in slots[c].winner
    BY <1>4 DEF Winners
  <1>6. c \in request.providesFor[d]
    BY <1>1, <1>5, WinnerProvides DEF ask, Unanswerable
  <1> QED
    BY <1>5, <1>6 DEF Losers, Won

\* A composed descriptor that stands in no other row was needed by a composed package.
LEMMA PulledNeeded ==
    ASSUME IInv, Warranted, Answered, request.roots # {}, NEW seed \in SeedSplits(request),
           NEW d \in composed, d \notin request.roots, d \notin FromGroupings, d \notin InSlotRow(seed)
    PROVE  \E e \in composed \ Groupings(request) : d \in Dependencies(e)
  <1> DEFINE R == RewrittenEdges(request, slots) \cup MemberEdges(request, Winners(slots))
  <1>1. /\ request \in Selection /\ request.enabled \subseteq Ids /\ composed \subseteq request.enabled
        /\ composed = Reach(explicit \cup ImplicitSelected(request), R)
    BY AnsweredFacts DEF Composition
  <1>2. ImplicitSelected(request) = {}
    BY DEF ImplicitSelected
  <1>3. \A g \in ComposedGroupings : d \notin request.members[g]
    <2> SUFFICES ASSUME NEW g \in ComposedGroupings, d \in request.members[g] PROVE FALSE
      OBVIOUS
    <2>1. d \in request.dependencies[g]
      BY <1>1, GroupingHoldsMembers DEF ComposedGroupings, Answered
    <2> QED
      BY <2>1, ComposedKept, HeldByGrouping DEF Dependencies, KeptDependencies
  <1>4. d \notin explicit
    BY <1>3, ExplicitByGrouping
  <1>5. PICK e \in R : e[1] \in composed /\ e[2] = d
    <2> HIDE DEF R
    <2> QED
      BY <1>1, <1>2, <1>4, ReachLast
  <1>6. CASE e \in MemberEdges(request, Winners(slots))
    <2>1. e[1] \in ComposedGroupings /\ d \in request.members[e[1]]
      BY <1>5, <1>6 DEF MemberEdges, ComposedGroupings, Groupings
    <2> QED
      BY <1>3, <2>1
  <1>7. CASE e \in DefaultEdges(request, slots)
    <2>1. e[1] \in DOMAIN slots /\ d \in slots[e[1]].winner
      BY <1>5, <1>7 DEF DefaultEdges, Won
    <2>2. e[1] \in request.providesFor[d] /\ e[1] \in Names
      BY <2>1, AnsweredFacts, WinnerProvides DEF Unanswerable
    <2>3. d \in Candidates(request)[e[1]]
      BY <1>1, <2>2 DEF Candidates
    <2>4. e[1] \in DOMAIN SlotRows(seed) /\ d \in SlotRows(seed)[e[1]].chosen
      BY <1>5, <2>1, <2>3 DEF SlotRows
    <2> QED
      BY <2>4 DEF InSlotRow
  <1>8. CASE e \in RewrittenEdges(request, slots) /\ e \notin DefaultEdges(request, slots)
    <2>1. d \in request.dependencies[e[1]]
      BY <1>5, <1>8 DEF RewrittenEdges
    <2>2. d \in Dependencies(e[1])
      BY <2>1, ComposedKept DEF Dependencies, KeptDependencies
    <2>3. e[1] \notin ComposedGroupings
      BY <2>2, HeldByGrouping
    <2> QED
      BY <1>5, <2>2, <2>3 DEF ComposedGroupings
  <1> QED
    BY <1>5, <1>6, <1>7, <1>8

\* What comes by way of groupings takes part.
LEMMA FromGroupingsComposed == FromGroupings \subseteq composed
  <1> DEFINE roots == (UNION {Dependencies(g) : g \in ComposedGroupings}) \cap composed
             R == {e \in composed \X composed : e[2] \in Dependencies(e[1])}
  <1>1. Closed(composed, R)
    BY DEF Closed
  <1>2. roots \subseteq composed
    OBVIOUS
  <1> HIDE DEF roots, R
  <1>3. Reach(roots, R) \subseteq composed
    BY <1>1, <1>2, ReachLeast
  <1> QED
    BY <1>3 DEF FromGroupings, roots, R

\* The rows beside the slots, as one set each.
LEMMA RowSets ==
    ASSUME NEW seed
    PROVE  LET rows   == OriginRows(seed)
               placed == InSlotRow(seed)
           IN  /\ DOMAIN rows = {"named", "base", "groupings", "viaGroupings", "pulled"}
               /\ rows["named"] = (NamedByRun(seed) \ Groupings(request)) \ placed
               /\ rows["base"] = (seed.base \cap composed) \ placed
               /\ rows["groupings"] = (ComposedGroupings \ placed) \ seed.base
               /\ rows["viaGroupings"]
                    = ((FromGroupings \ NamedByRun(seed)) \ placed) \ Groupings(request)
               /\ rows["pulled"] = composed \ (seed.base \cup FromGroupings \cup NamedByRun(seed)
                                                 \cup placed \cup ComposedGroupings)
  BY DEF OriginRows

\* Every descriptor of a composition stands in the rows of its origins once, and a pulled
\* one is there because a package needed it, for every catalog and seed.
THEOREM OriginsCover == Spec => []OriginsCoverOnce
  <1>1. IInv /\ Warranted => OriginsCoverOnce
    <2> SUFFICES ASSUME IInv, Warranted, Answered, NEW seed \in SeedSplits(request)
                 PROVE  LET rows   == OriginRows(seed)
                            placed == InSlotRow(seed)
                            groupedRows == {"named", "groupings", "viaGroupings", "pulled"}
                        IN  /\ composed = placed \cup UNION {rows[r] : r \in DOMAIN rows}
                            /\ \A r \in DOMAIN rows : rows[r] \cap placed = {}
                            /\ \A r \in groupedRows : \A t \in groupedRows \ {r} : rows[r] \cap rows[t] = {}
                            /\ rows.pulled \cap rows.base = {}
                            /\ request.roots # {} =>
                                \A d \in rows.pulled : \E e \in composed \ Groupings(request) : d \in Dependencies(e)
      BY DEF OriginsCoverOnce
    <2> DEFINE rows == OriginRows(seed)
               placed == InSlotRow(seed)
    <2>1. /\ DOMAIN rows = {"named", "base", "groupings", "viaGroupings", "pulled"}
          /\ rows["named"] = (NamedByRun(seed) \ Groupings(request)) \ placed
          /\ rows["base"] = (seed.base \cap composed) \ placed
          /\ rows["groupings"] = (ComposedGroupings \ placed) \ seed.base
          /\ rows["viaGroupings"] = ((FromGroupings \ NamedByRun(seed)) \ placed) \ Groupings(request)
          /\ rows["pulled"] = composed \ (seed.base \cup FromGroupings \cup NamedByRun(seed)
                                            \cup placed \cup ComposedGroupings)
      BY RowSets
    <2>2. placed \subseteq composed
      BY DEF InSlotRow, SlotRows
    <2>3. /\ NamedByRun(seed) \subseteq composed /\ FromGroupings \subseteq composed
          /\ ComposedGroupings = Groupings(request) \cap composed
      BY FromGroupingsComposed DEF NamedByRun, ComposedGroupings
    <2>4. ASSUME request.roots # {}, NEW d \in rows["pulled"]
          PROVE  \E e \in composed \ Groupings(request) : d \in Dependencies(e)
      <3>1. d \notin request.roots
        BY <2>1 DEF SeedSplits, NamedByRun
      <3> QED
        BY <2>1, <2>4, <3>1, PulledNeeded
    <2> HIDE DEF rows, placed
    <2>5. UNION {rows[r] : r \in DOMAIN rows}
            = rows["named"] \cup rows["base"] \cup rows["groupings"] \cup rows["viaGroupings"] \cup rows["pulled"]
      BY <2>1
    <2>6. composed = placed \cup UNION {rows[r] : r \in DOMAIN rows}
      BY <2>1, <2>2, <2>3, <2>5
    <2>7. \A r \in DOMAIN rows : rows[r] \cap placed = {}
      BY <2>1
    <2>8. \A r \in {"named", "groupings", "viaGroupings", "pulled"} :
          \A t \in {"named", "groupings", "viaGroupings", "pulled"} \ {r} : rows[r] \cap rows[t] = {}
      BY <2>1, <2>3
    <2> QED
      BY <2>1, <2>4, <2>6, <2>7, <2>8 DEF rows, placed
  <1> QED
    BY <1>1, AlwaysWarranted, PTL
-----------------------------------------------------------------------------
\* The contract, and the passes that settle before their cap.

\* The contract speaks of the same requests, asks and outcomes.
LEMMA SameReach ==
    ASSUME NEW roots, NEW R
    PROVE  Contract!Reach(roots, R) = Reach(roots, R)
  BY DEF Contract!Reach, Reach, Contract!ClosedSupersets, ClosedSupersets,
     Contract!Field, Field, Contract!Closed, Closed

LEMMA SameAnswering ==
    ASSUME NEW ask
    PROVE  /\ Contract!Resolution(ask) = Resolution(ask)
           /\ Contract!Unanswerable(ask) <=> Unanswerable(ask)
  <1>1. Contract!Resolution(ask) = Resolution(ask)
    BY DEF Contract!Resolution, Resolution, Contract!SlotOf, SlotOf, Contract!ActiveSlots, ActiveSlots,
       Contract!RequiredSlots, RequiredSlots, Contract!TiersNaming, TiersNaming,
       Contract!DecidingTier, DecidingTier, Contract!Named, Named, Contract!Asked, Asked,
       Contract!Tiers, Tiers
  <1>2. Contract!Unanswerable(ask) <=> Unanswerable(ask)
    BY DEF Contract!Unanswerable, Unanswerable, Contract!Contradictory, Contradictory,
       Contract!NamesUnknownProvider, NamesUnknownProvider, Contract!Asked, Asked, Contract!Named, Named,
       Contract!LeavesRequiredUnfilled, LeavesRequiredUnfilled, Contract!RequiredSlots, RequiredSlots,
       Contract!TiersNaming, TiersNaming, Contract!Tiers, Tiers, Contract!Modes, Modes
  <1> QED
    BY <1>1, <1>2

LEMMA SameGraphs ==
    ASSUME NEW s
    PROVE  /\ Contract!Providers(s) = Providers(s)
           /\ Contract!Provided(s) = Provided(s)
           /\ Contract!ImplicitSelected(s) = ImplicitSelected(s)
           /\ Contract!StrippedEdges(s) = StrippedEdges(s)
           /\ Contract!Explicit(s) = Explicit(s)
  <1>1. Contract!Providers(s) = Providers(s)
    BY DEF Contract!Providers, Providers
  <1>2. Contract!Provided(s) = Provided(s)
    BY DEF Contract!Provided, Provided
  <1>3. Contract!ImplicitSelected(s) = ImplicitSelected(s)
    BY <1>1 DEF Contract!ImplicitSelected, ImplicitSelected
  <1>4. Contract!StrippedEdges(s) = StrippedEdges(s)
    BY <1>1 DEF Contract!StrippedEdges, StrippedEdges
  <1>5. Contract!Explicit(s) = Explicit(s)
    BY SameReach DEF Contract!Explicit, Explicit
  <1> QED
    BY <1>1, <1>2, <1>3, <1>4, <1>5

LEMMA SameAsk ==
    ASSUME NEW s, NEW E, NEW C
    PROVE  Contract!Ask(s, E, C) = Ask(s, E, C)
  BY DEF Contract!Ask, Ask, Contract!Candidates, Candidates, Contract!Provided, Provided,
     Contract!RequiredCapabilities, RequiredCapabilities, Contract!PairsProviding, PairsProviding,
     Contract!DependencyRequests, DependencyRequests, Contract!NamedBy, NamedBy,
     Contract!DefaultRequests, DefaultRequests

LEMMA SameClosure ==
    ASSUME NEW s, NEW E, NEW W
    PROVE  Contract!Closure(s, E, W) = Closure(s, E, W)
  <1>1. Contract!MemberEdges(s, {}) = MemberEdges(s, {})
    BY SameGraphs DEF Contract!MemberEdges, MemberEdges
  <1> QED
    BY <1>1, SameGraphs, SameReach DEF Contract!Closure, Closure

LEMMA SameComposition ==
    ASSUME NEW s, NEW E, NEW choice, NEW X
    PROVE  /\ Contract!Winners(choice) = Winners(choice)
           /\ Contract!Composition(s, E, choice) = Composition(s, E, choice)
           /\ Contract!UnknownMember(s, X) <=> UnknownMember(s, X)
           /\ Contract!UnmetDependency(s, choice, X) <=> UnmetDependency(s, choice, X)
  <1>1. Contract!Winners(choice) = Winners(choice)
    BY DEF Contract!Winners, Winners
  <1>2. Contract!Losers(s, choice) = Losers(s, choice)
    BY SameGraphs DEF Contract!Losers, Losers, Contract!Won, Won
  <1>3. Contract!MemberEdges(s, Winners(choice)) = MemberEdges(s, Winners(choice))
    BY SameGraphs DEF Contract!MemberEdges, MemberEdges
  <1>4. Contract!RewrittenEdges(s, choice) = RewrittenEdges(s, choice)
    BY <1>2 DEF Contract!RewrittenEdges, RewrittenEdges, Contract!DefaultEdges, DefaultEdges,
       Contract!Won, Won
  <1>5. Contract!Composition(s, E, choice) = Composition(s, E, choice)
    BY <1>1, <1>3, <1>4, SameGraphs, SameReach DEF Contract!Composition, Composition
  <1>6. Contract!UnknownMember(s, X) <=> UnknownMember(s, X)
    BY DEF Contract!UnknownMember, UnknownMember
  <1>7. Contract!UnmetDependency(s, choice, X) <=> UnmetDependency(s, choice, X)
    BY <1>2 DEF Contract!UnmetDependency, UnmetDependency, Contract!KeptDependencies, KeptDependencies
  <1> QED
    BY <1>1, <1>5, <1>6, <1>7

LEMMA SameChecks ==
    ASSUME NEW s
    PROVE  /\ Contract!Checks = Checks
           /\ \A k \in DOMAIN Checks : Contract!Fails(s, Checks[k]) <=> Fails(s, Checks[k])
           /\ Contract!Selection = Selection
  <1>1. Contract!Checks = Checks
    BY DEF Contract!Checks, Checks
  <1>2. /\ Contract!UndeclaredCapability(s) <=> UndeclaredCapability(s)
        /\ Contract!UnknownSeed(s) <=> UnknownSeed(s)
        /\ Contract!TwoDefaults(s) <=> TwoDefaults(s)
        /\ Contract!TwoSelectedProviders(s) <=> TwoSelectedProviders(s)
    BY DEF Contract!UndeclaredCapability, UndeclaredCapability, Contract!UnknownSeed, UnknownSeed,
       Contract!TwoDefaults, TwoDefaults, Contract!TwoSelectedProviders, TwoSelectedProviders
  <1>3. Contract!OrdinaryPairs(s) = OrdinaryPairs(s)
    BY SameGraphs DEF Contract!OrdinaryPairs, OrdinaryPairs
  <1>4. Contract!UnavailableDependency(s) <=> UnavailableDependency(s)
    BY <1>3, SameGraphs, SameReach DEF Contract!UnavailableDependency, UnavailableDependency
  <1>5. \A k \in DOMAIN Checks : Contract!Fails(s, Checks[k]) <=> Fails(s, Checks[k])
    BY <1>2, <1>4 DEF Contract!Fails, Fails, Checks
  <1>6. Contract!Selection = Selection
    BY DEF Contract!Selection, Selection
  <1> QED
    BY <1>1, <1>5, <1>6

-----------------------------------------------------------------------------
\* What two sets do not share.
Differing(V, W) == (V \ W) \cup (W \ V)

\* The ways one choice bears on another, in the words of selection.
LEMMA BearingEdges ==
    ASSUME NEW s \in Selection
    PROVE  /\ StrippedEdges(s) \cup MemberEdges(s, {}) \subseteq Contract!Bearing(s)
           /\ \A d \in s.enabled : \A c \in s.dependencies[d] \cap Provided(s) :
                 <<d, c>> \in Contract!Bearing(s)
           /\ \A d \in s.enabled : \A p \in (s.dependencies[d] \cup s.members[d]) \cap s.enabled :
                 \A c \in s.providesFor[p] : <<d, c>> \in Contract!Bearing(s)
           /\ \A p \in s.enabled : \A c \in s.providesFor[p] : <<c, p>> \in Contract!Bearing(s)
  <1>1. Contract!MemberEdges(s, {}) = MemberEdges(s, {})
    BY SameGraphs DEF Contract!MemberEdges, MemberEdges
  <1>2. \A p \in s.enabled : s.providesFor[p] \subseteq Names
    BY SelectionFields
  <1> QED
    BY <1>1, <1>2, SameGraphs DEF Contract!Bearing

\* The slot of a capability depends on an ask only through what the ask says of it.
LEMMA SlotOfSame ==
    ASSUME NEW a, NEW b, NEW c,
           \A mode \in Modes : Named(a, mode, c) = Named(b, mode, c),
           c \in a.active <=> c \in b.active,
           c \in a.required <=> c \in b.required
    PROVE  (c \in ActiveSlots(a) <=> c \in ActiveSlots(b)) /\ SlotOf(a, c) = SlotOf(b, c)
  <1>1. \A mode \in Modes : c \in Asked(a, mode) <=> c \in Asked(b, mode)
    <2>1. ASSUME NEW ask, NEW mode
          PROVE  c \in Asked(ask, mode) <=> Named(ask, mode, c) # {}
      BY DEF Asked, Named
    <2> QED
      BY <2>1
  <1>2. c \in RequiredSlots(a) <=> c \in RequiredSlots(b)
    BY <1>1 DEF RequiredSlots, Modes
  <1>3. c \in ActiveSlots(a) <=> c \in ActiveSlots(b)
    BY <1>2 DEF ActiveSlots
  <1>4. \A k \in 1..3 : Tiers[k] \in Modes
    BY DEF Tiers, Modes
  <1>5. TiersNaming(a, c) = TiersNaming(b, c)
    BY <1>4 DEF TiersNaming
  <1>6. DecidingTier(a, c) = DecidingTier(b, c)
    BY <1>5 DEF DecidingTier
  <1>7. CASE TiersNaming(a, c) = {}
    BY <1>3, <1>5, <1>7 DEF SlotOf
  <1>8. CASE TiersNaming(a, c) # {}
    <2>1. DecidingTier(a, c) \in 1..3
      BY <1>8, DecidingTierHighest DEF TiersNaming
    <2>2. Named(a, Tiers[DecidingTier(a, c)], c) = Named(b, Tiers[DecidingTier(b, c)], c)
      BY <1>4, <1>6, <2>1
    <2>3. (c \in RequiredSlots(a)) = (c \in RequiredSlots(b))
      BY <1>2
    <2>4. \A ask : TiersNaming(ask, c) # {} =>
             SlotOf(ask, c) = [winner |-> Named(ask, Tiers[DecidingTier(ask, c)], c),
                               mode |-> Tiers[DecidingTier(ask, c)], required |-> c \in RequiredSlots(ask)]
      BY DEF SlotOf
    <2>5. SlotOf(a, c) = SlotOf(b, c)
      BY <1>5, <1>6, <1>8, <2>2, <2>3, <2>4
    <2> QED
      BY <1>3, <2>5
  <1> QED
    BY <1>3, <1>7, <1>8

\* What C asks of a capability and D does not, a descriptor of C alone asks.
LEMMA AskGrows ==
    ASSUME NEW s \in Selection, NEW E, NEW C \in SUBSET s.enabled, NEW D, NEW c,
           \/ c \in Ask(s, E, C).active /\ c \notin Ask(s, E, D).active
           \/ c \in Ask(s, E, C).required /\ c \notin Ask(s, E, D).required
           \/ ~(Named(Ask(s, E, C), "dependency", c) \subseteq Named(Ask(s, E, D), "dependency", c))
    PROVE  \E d \in C \ D : d = c \/ <<d, c>> \in Contract!Bearing(s)
  <1>1. \A Z : /\ Ask(s, E, Z).active = Z \cap Provided(s)
               /\ Ask(s, E, Z).required = RequiredCapabilities(s, Z)
               /\ Ask(s, E, Z).requests["dependency"] = DependencyRequests(s, E, Z)
    BY DEF Ask
  <1>2. CASE c \in Ask(s, E, C).active /\ c \notin Ask(s, E, D).active
    BY <1>1, <1>2
  <1>3. CASE c \in Ask(s, E, C).required /\ c \notin Ask(s, E, D).required
    <2> DEFINE Requires(d) ==
                  \/ c \in s.dependencies[d] \cap Provided(s)
                  \/ \E p \in s.dependencies[d] \cap s.enabled : c \in s.providesFor[p]
    <2>1. \A p \in s.enabled : p \in Ids /\ s.providesFor[p] \subseteq Names
      BY SelectionFields
    <2>2. ASSUME NEW Z
          PROVE  c \in RequiredCapabilities(s, Z) <=> \E d \in Z : Requires(d)
      <3> DEFINE needed == UNION {s.dependencies[d] : d \in Z}
      <3>1. c \in needed \cap Provided(s) <=> \E d \in Z : c \in s.dependencies[d] \cap Provided(s)
        OBVIOUS
      <3>2. ASSUME NEW r \in PairsProviding(s, needed), r[1] = c
            PROVE  \E d \in Z : \E p \in s.dependencies[d] \cap s.enabled : c \in s.providesFor[p]
        BY <3>2 DEF PairsProviding
      <3>3. ASSUME NEW d \in Z, NEW p \in s.dependencies[d] \cap s.enabled, c \in s.providesFor[p]
            PROVE  \E r \in PairsProviding(s, needed) : r[1] = c
        <4>1. <<c, p>> \in PairsProviding(s, needed)
          BY <2>1, <3>3 DEF PairsProviding
        <4> QED
          BY <4>1
      <3>4. c \in RequiredCapabilities(s, Z)
               <=> c \in needed \cap Provided(s) \/ \E r \in PairsProviding(s, needed) : r[1] = c
        BY DEF RequiredCapabilities
      <3> HIDE DEF needed
      <3> QED
        BY <3>1, <3>2, <3>3, <3>4
    <2>3. PICK d \in C : Requires(d) /\ d \notin D
      BY <1>1, <1>3, <2>2
    <2> QED
      BY <2>3, BearingEdges
  <1>4. CASE ~(Named(Ask(s, E, C), "dependency", c) \subseteq Named(Ask(s, E, D), "dependency", c))
    <2>1. PICK r \in DependencyRequests(s, E, C) : r[1] = c /\ r[2] \notin Named(Ask(s, E, D), "dependency", c)
      BY <1>1, <1>4 DEF Named
    <2>2. r \notin DependencyRequests(s, E, D)
      BY <1>1, <2>1 DEF Named
    <2>3. PICK d \in C : r[2] \in NamedBy(s, E, d)
      BY <2>1 DEF DependencyRequests, PairsProviding
    <2>4. d \notin D
      BY <2>1, <2>2, <2>3 DEF DependencyRequests, PairsProviding
    <2>5. r[2] \in s.enabled /\ c \in s.providesFor[r[2]] /\ r[2] \in s.dependencies[d] \cup s.members[d]
      BY <2>1, <2>3 DEF DependencyRequests, PairsProviding, NamedBy
    <2> QED
      BY <2>3, <2>4, <2>5, BearingEdges
  <1> QED
    BY <1>2, <1>3, <1>4

\* A provider wins for C and not for D only if a descriptor that one of the two lacks
\* bears on its capability.
LEMMA WinnerOfOneOnly ==
    ASSUME NEW s \in Selection, NEW E, NEW C \in SUBSET s.enabled, NEW D \in SUBSET s.enabled,
           ~NamesUnknownProvider(Ask(s, E, C)),
           NEW p \in Winners(Resolution(Ask(s, E, C))) \ Winners(Resolution(Ask(s, E, D)))
    PROVE  \E d \in Differing(C, D), c \in Names :
              (d = c \/ <<d, c>> \in Contract!Bearing(s)) /\ <<c, p>> \in Contract!Bearing(s)
  <1> DEFINE a == Ask(s, E, C)
             b == Ask(s, E, D)
  <1>1. PICK c \in DOMAIN Resolution(a) : p \in Resolution(a)[c].winner
    BY DEF Winners
  <1>2. c \in Names /\ <<c, p>> \in Contract!Bearing(s)
    BY <1>1, WinnerProvides, BearingEdges DEF Providers
  <1>3. CASE \E d \in Differing(C, D) : d = c \/ <<d, c>> \in Contract!Bearing(s)
    BY <1>2, <1>3
  <1>4. CASE ~\E d \in Differing(C, D) : d = c \/ <<d, c>> \in Contract!Bearing(s)
    <2>1. /\ c \in a.active => c \in b.active
          /\ c \in a.required => c \in b.required
          /\ Named(a, "dependency", c) \subseteq Named(b, "dependency", c)
      BY <1>4, AskGrows DEF Differing
    <2>2. /\ c \in b.active => c \in a.active
          /\ c \in b.required => c \in a.required
          /\ Named(b, "dependency", c) \subseteq Named(a, "dependency", c)
      BY <1>4, AskGrows DEF Differing
    <2>3. Named(a, "explicit", c) = Named(b, "explicit", c) /\ Named(a, "default", c) = Named(b, "default", c)
      BY DEF Named, Ask
    <2> HIDE DEF a, b
    <2>4. \A mode \in Modes : Named(a, mode, c) = Named(b, mode, c)
      <3>1. Named(a, "dependency", c) = Named(b, "dependency", c)
        BY <2>1, <2>2
      <3> QED
        BY <2>3, <3>1 DEF Modes
    <2>5. (c \in ActiveSlots(a) <=> c \in ActiveSlots(b)) /\ SlotOf(a, c) = SlotOf(b, c)
      BY <2>1, <2>2, <2>4, SlotOfSame
    <2>6. p \in Winners(Resolution(b))
      BY <1>1, <2>5 DEF Resolution, Winners
    <2> QED
      BY <2>6 DEF a, b
  <1> QED
    BY <1>3, <1>4

\* What one choice of providers closes and another does not, a provider of the one alone
\* bears on.
LEMMA ClosedByOneOnly ==
    ASSUME NEW s \in Selection, NEW E, NEW V, NEW W,
           NEW d \in Closure(s, E, V) \ Closure(s, E, W)
    PROVE  Behind(Differing(V, W), Contract!Bearing(s), d) # {}
  <1> DEFINE Q == StrippedEdges(s) \cup MemberEdges(s, {})
             more == E \cup ImplicitSelected(s) \cup V
             roots == E \cup ImplicitSelected(s) \cup W
  <1>1. d \in Reach(more, Q) /\ d \notin Reach(roots, Q)
    BY DEF Closure
  <1>2. more \ roots \subseteq Differing(V, W)
    BY DEF Differing
  <1>3. Q \subseteq Contract!Bearing(s)
    BY BearingEdges
  <1> HIDE DEF Q, more, roots
  <1>4. PICK q \in more \ roots : d \in Reach({q}, Q)
    <2>1. Behind(more \ roots, Q, d) # {}
      BY <1>1, ReachFromOne
    <2> QED
      BY <2>1 DEF Behind
  <1>5. Reach({q}, Q) \subseteq Reach({q}, Contract!Bearing(s))
    BY <1>3, ReachHoldsRoots, ReachMonotone
  <1> QED
    BY <1>2, <1>4, <1>5 DEF Behind

\* The providers a choice leads to.
Chosen(s, E, W) == Winners(Resolution(Ask(s, E, Closure(s, E, W))))

\* Where two choices lead to different ones, a provider that one of the two lacks bears
\* on each provider that makes the difference.
LEMMA DifferenceBears ==
    ASSUME NEW s \in Selection, NEW E \in SUBSET s.enabled,
           NEW V \in SUBSET s.enabled, NEW W \in SUBSET s.enabled,
           ~Unanswerable(Ask(s, E, Closure(s, E, V))), ~Unanswerable(Ask(s, E, Closure(s, E, W))),
           NEW p \in Differing(Chosen(s, E, V), Chosen(s, E, W))
    PROVE  \E e \in Contract!Bearing(s) :
              e[2] = p /\ Behind(Differing(V, W), Contract!Bearing(s), e[1]) # {}
  <1> DEFINE C == Closure(s, E, V)
             D == Closure(s, E, W)
  <1>1. C \in SUBSET s.enabled /\ D \in SUBSET s.enabled
    BY ClosureEnabled
  <1>2. PICK d \in Differing(C, D), c \in Names :
           (d = c \/ <<d, c>> \in Contract!Bearing(s)) /\ <<c, p>> \in Contract!Bearing(s)
    <2>1. CASE p \in Chosen(s, E, V) \ Chosen(s, E, W)
      BY <1>1, <2>1, WinnerOfOneOnly DEF Chosen, Unanswerable
    <2>2. CASE p \in Chosen(s, E, W) \ Chosen(s, E, V)
      BY <1>1, <2>2, WinnerOfOneOnly DEF Chosen, Unanswerable, Differing
    <2> QED
      BY <2>1, <2>2 DEF Differing
  <1>3. Differing(V, W) = Differing(W, V)
    BY DEF Differing
  <1>4. Behind(Differing(V, W), Contract!Bearing(s), d) # {}
    BY <1>2, <1>3, ClosedByOneOnly DEF Differing
  <1>5. PICK q \in Differing(V, W) : d \in Reach({q}, Contract!Bearing(s))
    BY <1>4 DEF Behind
  <1>6. c \in Reach({q}, Contract!Bearing(s))
    BY <1>2, <1>5, ReachStep
  <1>7. Behind(Differing(V, W), Contract!Bearing(s), c) # {}
    BY <1>6 DEF Behind
  <1> QED
    BY <1>2, <1>7

-----------------------------------------------------------------------------
\* The choices that bear on a provider.
Bearers(s, p) == Behind(s.enabled, Contract!Bearing(s), p)

\* Each provider that makes a difference between the last two choices has at least as
\* many choices bearing on it as passes were made.
Deep(s, passes, V, W) ==
    \A p \in Differing(V, W) : Cardinality(Bearers(s, p)) >= passes

LEMMA BearersFinite ==
    ASSUME NEW s \in Selection, NEW p
    PROVE  /\ IsFiniteSet(Bearers(s, p)) /\ Cardinality(Bearers(s, p)) \in Nat
           /\ IsFiniteSet(s.enabled) /\ Cardinality(s.enabled) \in Nat
           /\ Cardinality(Bearers(s, p)) <= Cardinality(s.enabled)
  <1>1. IsFiniteSet(s.enabled)
    BY NamesAssumption, SelectionFields, FS_Subset
  <1>2. Bearers(s, p) \in SUBSET s.enabled
    BY DEF Bearers, Behind
  <1> QED
    BY <1>1, <1>2, FS_Subset, FS_CardinalityType

\* Where no choice bears on itself, one more choice bears on a provider than on any that
\* bears on it.
LEMMA BearersGrow ==
    ASSUME NEW s \in Selection, Contract!Stratified(s),
           NEW q \in s.enabled, NEW e \in Contract!Bearing(s),
           e[1] \in Reach({q}, Contract!Bearing(s)), e[2] \in s.enabled
    PROVE  Cardinality(Bearers(s, e[2])) >= Cardinality(Bearers(s, q)) + 1
  <1>1. \A b \in Contract!Bearing(s) : b[1] \notin Reach({b[2]}, Contract!Bearing(s))
    BY SameReach DEF Contract!Stratified
  <1>2. /\ Bearers(s, q) \subseteq Bearers(s, e[2])
        /\ e[2] \in Bearers(s, e[2]) \ Bearers(s, q)
    BY <1>1, BehindGrows DEF Bearers
  <1>3. /\ Cardinality(Bearers(s, q)) <= Cardinality(Bearers(s, e[2]))
        /\ Cardinality(Bearers(s, q)) # Cardinality(Bearers(s, e[2]))
    BY <1>2, BearersFinite, FS_Subset
  <1> QED
    BY <1>3, BearersFinite

\* The first pass: some choice bears on every provider, its own.
LEMMA FirstDeep ==
    ASSUME NEW s \in Selection, NEW V \in SUBSET s.enabled, NEW W \in SUBSET s.enabled
    PROVE  Deep(s, 1, V, W)
  <1> SUFFICES ASSUME NEW p \in Differing(V, W) PROVE Cardinality(Bearers(s, p)) >= 1
    BY DEF Deep
  <1>1. p \in Bearers(s, p)
    BY ReachHoldsRoots DEF Differing, Bearers, Behind
  <1>2. Cardinality(Bearers(s, p)) # 0
    BY <1>1, BearersFinite, FS_EmptySet
  <1> QED
    BY <1>2, BearersFinite

\* Every further pass: what still differs lies one choice deeper.
LEMMA NextDeep ==
    ASSUME NEW s \in Selection, Contract!Stratified(s), NEW E \in SUBSET s.enabled, NEW passes \in Nat,
           NEW V \in SUBSET s.enabled, NEW W \in SUBSET s.enabled, Deep(s, passes, V, W),
           ~Unanswerable(Ask(s, E, Closure(s, E, V))), ~Unanswerable(Ask(s, E, Closure(s, E, W)))
    PROVE  Deep(s, passes + 1, Chosen(s, E, V), Chosen(s, E, W))
  <1> SUFFICES ASSUME NEW p \in Differing(Chosen(s, E, V), Chosen(s, E, W))
               PROVE  Cardinality(Bearers(s, p)) >= passes + 1
    BY DEF Deep
  <1>1. PICK e \in Contract!Bearing(s) :
           e[2] = p /\ Behind(Differing(V, W), Contract!Bearing(s), e[1]) # {}
    BY DifferenceBears
  <1>2. PICK q \in Differing(V, W) : e[1] \in Reach({q}, Contract!Bearing(s))
    BY <1>1 DEF Behind
  <1>3. p \in s.enabled
    <2>1. Chosen(s, E, V) \subseteq s.enabled /\ Chosen(s, E, W) \subseteq s.enabled
      BY ClosureEnabled, ResolutionType DEF Chosen
    <2> QED
      BY <2>1 DEF Differing
  <1>4. q \in s.enabled
    BY DEF Differing
  <1>5. Cardinality(Bearers(s, p)) >= Cardinality(Bearers(s, q)) + 1
    BY <1>1, <1>2, <1>3, <1>4, BearersGrow
  <1>6. Cardinality(Bearers(s, q)) >= passes
    BY DEF Deep
  <1> QED
    BY <1>5, <1>6, BearersFinite

\* No provider is deeper than there are descriptors.
LEMMA NoDeeper ==
    ASSUME NEW s \in Selection, NEW V \in SUBSET s.enabled, NEW W \in SUBSET s.enabled,
           Deep(s, Cardinality(s.enabled) + 1, V, W)
    PROVE  V = W
  <1>1. \A p \in Differing(V, W) : FALSE
    BY BearersFinite DEF Deep
  <1> QED
    BY <1>1 DEF Differing

-----------------------------------------------------------------------------
\* Where the last pass came from: the providers V it started from, what it closed and
\* chose for them, and how deep the difference lies that it made.
Traced ==
    /\ phase \in {"passes", "compose", "done"} => providerRoots \subseteq Providers(request)
    /\ phase \in {"passes", "compose", "done"} /\ pass > 0 =>
          \E V \in SUBSET request.enabled :
              /\ resolvedIds = Closure(request, explicit, V)
              /\ slots = Resolution(Ask(request, explicit, resolvedIds))
              /\ ~Unanswerable(Ask(request, explicit, resolvedIds))
              /\ providerRoots = Winners(slots)
              /\ Contract!Stratified(request) => Deep(request, pass, V, providerRoots)

LEMMA InitTraced == Init => Traced
  BY DEF Init, Traced

LEMMA StartPassesTraced == IInv /\ StartPasses => Traced'
  <1> SUFFICES ASSUME IInv, StartPasses PROVE Traced'
    OBVIOUS
  <1>1. /\ request' = request /\ pass' = pass /\ pass = 0
        /\ providerRoots' \subseteq Providers(request)
    BY DEF IInv, StartPasses
  <1> QED
    BY <1>1 DEF Traced

LEMMA DecideTraced ==
    ASSUME IInv, Traced, phase = "passes",
           NEW closed, closed = Closure(request, explicit, providerRoots),
           NEW ask, ask = Ask(request, explicit, closed), ~Unanswerable(ask),
           Decide(closed, Resolution(ask))
    PROVE  Traced'
  <1> DEFINE chosen == Resolution(ask)
  <1>1. /\ resolvedIds' = closed /\ slots' = chosen /\ providerRoots' = Winners(chosen)
        /\ pass' = pass + 1 /\ request' = request /\ explicit' = explicit
    BY DEF Decide
  <1>2. /\ request \in Selection /\ explicit \in SUBSET request.enabled
        /\ providerRoots \in SUBSET request.enabled /\ pass \in Nat
    BY MaxPassesType DEF IInv, TypeOK
  <1>3. Winners(chosen) = Chosen(request, explicit, providerRoots)
    BY DEF Chosen
  <1>4. Winners(chosen) \subseteq Providers(request)
    BY <1>2, WinnerProvides DEF Winners, Unanswerable
  <1>5. Winners(chosen) \in SUBSET request.enabled
    BY <1>4 DEF Providers
  <1>6. ASSUME Contract!Stratified(request)
        PROVE  Deep(request, pass + 1, providerRoots, Winners(chosen))
    <2>1. CASE pass = 0
      BY <1>2, <1>5, <2>1, FirstDeep
    <2>2. CASE pass > 0
      <3>1. PICK V \in SUBSET request.enabled :
               /\ resolvedIds = Closure(request, explicit, V)
               /\ slots = Resolution(Ask(request, explicit, resolvedIds))
               /\ ~Unanswerable(Ask(request, explicit, resolvedIds))
               /\ providerRoots = Winners(slots)
               /\ Deep(request, pass, V, providerRoots)
        BY <1>6, <2>2 DEF Traced
      <3>2. providerRoots = Chosen(request, explicit, V)
        BY <3>1 DEF Chosen
      <3>3. Deep(request, pass + 1, Chosen(request, explicit, V), Chosen(request, explicit, providerRoots))
        BY <1>2, <1>6, <3>1, NextDeep
      <3> QED
        BY <1>3, <3>2, <3>3
    <2> QED
      BY <1>2, <2>1, <2>2
  <1> HIDE DEF chosen
  <1>7. /\ resolvedIds' = Closure(request', explicit', providerRoots)
        /\ slots' = Resolution(Ask(request', explicit', resolvedIds'))
        /\ ~Unanswerable(Ask(request', explicit', resolvedIds'))
        /\ providerRoots' = Winners(slots')
    BY <1>1 DEF chosen
  <1>8. Contract!Stratified(request') => Deep(request', pass', providerRoots, providerRoots')
    BY <1>1, <1>6
  <1>9. providerRoots \in SUBSET request'.enabled /\ providerRoots' \subseteq Providers(request')
    BY <1>1, <1>2, <1>4
  <1> QED
    BY <1>7, <1>8, <1>9 DEF Traced

LEMMA StepTraced == IInv /\ Traced /\ [Next]_vars => Traced'
  <1> SUFFICES ASSUME IInv, Traced, [Next]_vars PROVE Traced'
    OBVIOUS
  <1>1. ASSUME NEW k \in DOMAIN Checks, Reject(k) PROVE Traced'
    BY <1>1 DEF Traced, Reject, Fail
  <1>2. CASE Accept
    BY <1>2 DEF Traced, Accept
  <1>3. ASSUME NEW g \in pendingGroups, OpenGroup(g) PROVE Traced'
    BY <1>3 DEF Traced, OpenGroup
  <1>4. ASSUME NEW g \in pendingGroups, RejectGroup(g) PROVE Traced'
    BY <1>4 DEF Traced, RejectGroup, Fail
  <1>5. CASE StartPasses
    BY <1>5, StartPassesTraced
  <1>6. CASE Pass
    <2> DEFINE closed == Closure(request, explicit, providerRoots)
               ask == Ask(request, explicit, closed)
    <2>1. phase = "passes" /\ (RejectProviders(ask) \/ (~Unanswerable(ask) /\ Decide(closed, Resolution(ask))))
      BY <1>6 DEF Pass
    <2> HIDE DEF ask
    <2>2. CASE RejectProviders(ask)
      BY <2>2 DEF RejectProviders, Fail, Traced
    <2>3. CASE ~Unanswerable(ask) /\ Decide(closed, Resolution(ask))
      BY <2>1, <2>3, DecideTraced DEF ask
    <2> QED
      BY <2>1, <2>2, <2>3
  <1>7. CASE Compose
    BY <1>7 DEF Traced, Compose, Fail
  <1>8. CASE UNCHANGED vars
    BY <1>8 DEF Traced, vars
  <1> QED
    BY <1>1, <1>2, <1>3, <1>4, <1>5, <1>6, <1>7, <1>8 DEF Next

LEMMA AlwaysTraced == Spec => [](IInv /\ Warranted /\ Traced)
  <1>1. IInv /\ Warranted /\ Traced /\ [Next]_vars => (IInv /\ Warranted /\ Traced)'
    BY StepInv, StepWarranted, StepTraced
  <1> QED
    BY <1>1, InitInv, InitWarranted, InitTraced, PTL DEF Spec

-----------------------------------------------------------------------------
\* Once every grouping was opened, the explicitly selected ids are all there are.
LEMMA ExplicitComplete ==
    IInv /\ Warranted /\ phase \in {"passes", "compose", "done"} => explicit = Explicit(request)
  <1> SUFFICES ASSUME IInv, Warranted, phase \in {"passes", "compose", "done"}
               PROVE  explicit = Explicit(request)
    OBVIOUS
  <1> DEFINE R == {e \in request.enabled \X Names : e[2] \in request.members[e[1]]}
  <1>1. Closed(explicit, R)
    BY DEF IInv, OpenedMembers, Closed
  <1>2. request.roots \subseteq explicit
    BY DEF Warranted
  <1> HIDE DEF R
  <1>3. Reach(request.roots, R) \subseteq explicit
    BY <1>1, <1>2, ReachLeast
  <1> QED
    BY <1>3 DEF Warranted, Explicit, R

\* What the contract makes of a request whose groupings were all opened.
LEMMA SameChoice ==
    ASSUME explicit = Explicit(request)
    PROVE  \A W : /\ Contract!AskOf(request, W) = Ask(request, explicit, Closure(request, explicit, W))
                  /\ Contract!SlotsOf(request, W) = Resolution(Ask(request, explicit, Closure(request, explicit, W)))
                  /\ Contract!Coherent(request, W) <=>
                        /\ ~Unanswerable(Ask(request, explicit, Closure(request, explicit, W)))
                        /\ Chosen(request, explicit, W) = W
  <1> SUFFICES ASSUME NEW W
               PROVE  /\ Contract!AskOf(request, W) = Ask(request, explicit, Closure(request, explicit, W))
                      /\ Contract!SlotsOf(request, W) = Resolution(Ask(request, explicit, Closure(request, explicit, W)))
                      /\ Contract!Coherent(request, W) <=>
                            /\ ~Unanswerable(Ask(request, explicit, Closure(request, explicit, W)))
                            /\ Chosen(request, explicit, W) = W
    OBVIOUS
  <1>1. Contract!AskOf(request, W) = Ask(request, explicit, Closure(request, explicit, W))
    BY SameGraphs, SameAsk, SameClosure DEF Contract!AskOf
  <1>2. Contract!SlotsOf(request, W) = Resolution(Ask(request, explicit, Closure(request, explicit, W)))
    BY <1>1, SameAnswering DEF Contract!SlotsOf
  <1>3. Contract!Coherent(request, W) <=>
            /\ ~Unanswerable(Ask(request, explicit, Closure(request, explicit, W)))
            /\ Chosen(request, explicit, W) = W
    BY <1>1, SameAnswering, SameComposition DEF Contract!Coherent, Chosen
  <1> QED
    BY <1>1, <1>2, <1>3

\* A request the contract lets selection refuse may be refused.
LEMMA RefusalImplements ==
    ASSUME phase \notin {"done", "failed"}, phase' = "failed", request' = request,
           Contract!Refusable(request)
    PROVE  Contract!Next
  <1>1. Outcome = Contract!Pending /\ Outcome' = Contract!Refusal
    BY DEF Outcome, Contract!Pending, Contract!Refusal
  <1> QED
    BY <1>1 DEF Contract!Next, Contract!Refuse

\* A grouping that names an id that is not enabled makes that id selected explicitly.
LEMMA GroupUnknown ==
    ASSUME IInv, Warranted, NEW g \in pendingGroups, RejectGroup(g)
    PROVE  ~(Explicit(request) \subseteq request.enabled)
  <1> DEFINE R == {e \in request.enabled \X Names : e[2] \in request.members[e[1]]}
  <1>1. /\ request \in Selection /\ g \in request.enabled /\ g \in explicit
        /\ ~(request.members[g] \subseteq request.enabled)
    BY DEF IInv, TypeOK, RejectGroup
  <1>2. PICK m \in request.members[g] : m \notin request.enabled
    BY <1>1
  <1>3. <<g, m>> \in R
    BY <1>1, SelectionFields
  <1>4. g \in Reach(request.roots, R)
    BY <1>1 DEF Warranted, Explicit
  <1> HIDE DEF R
  <1>5. m \in Reach(request.roots, R)
    BY <1>3, <1>4, ReachStep
  <1>6. m \in Explicit(request)
    BY <1>5 DEF Explicit, R
  <1> QED
    BY <1>2, <1>6

\* Such a seed is ill-formed.
LEMMA RejectGroupImplements ==
    ASSUME IInv, Warranted, NEW g \in pendingGroups, RejectGroup(g)
    PROVE  Contract!Next
  <1>1. phase = "groups" /\ phase' = "failed" /\ request' = request
    BY DEF RejectGroup, Fail
  <1>2. Contract!Refusable(request)
    BY GroupUnknown, SameGraphs DEF Contract!Refusable, Contract!WellFormed
  <1> QED
    BY <1>1, <1>2, RefusalImplements

\* A choice of providers that has not settled at the cap has a choice that bears on itself.
LEMMA CapMeansFeedback ==
    ASSUME IInv, Traced, phase = "passes", pass + 1 = MaxPasses(request),
           NEW closed, closed = Closure(request, explicit, providerRoots),
           ~Repeats(closed, Resolution(Ask(request, explicit, closed)))
    PROVE  ~Contract!Stratified(request)
  <1> SUFFICES ASSUME Contract!Stratified(request) PROVE FALSE
    OBVIOUS
  <1>1. /\ request \in Selection /\ providerRoots \in SUBSET request.enabled
        /\ pass \in Nat /\ Cardinality(request.enabled) \in Nat
    BY MaxPassesType, BearersFinite DEF IInv, TypeOK
  <1>2. pass = Cardinality(request.enabled) + 1 /\ pass > 0
    BY <1>1 DEF MaxPasses
  <1>3. PICK V \in SUBSET request.enabled :
           /\ resolvedIds = Closure(request, explicit, V)
           /\ slots = Resolution(Ask(request, explicit, resolvedIds))
           /\ providerRoots = Winners(slots)
           /\ Deep(request, pass, V, providerRoots)
    BY <1>2 DEF Traced
  <1>4. V = providerRoots
    BY <1>1, <1>2, <1>3, NoDeeper
  <1> QED
    BY <1>3, <1>4 DEF Repeats

LEMMA PassImplements ==
    ASSUME IInv, Warranted, Traced, Pass
    PROVE  [Contract!Next]_(Contract!contractVars)
  <1> DEFINE closed == Closure(request, explicit, providerRoots)
             ask == Ask(request, explicit, closed)
  <1>1. phase = "passes" /\ (RejectProviders(ask) \/ Decide(closed, Resolution(ask)))
    BY DEF Pass
  <1>2. explicit = Explicit(request) /\ providerRoots \in SUBSET Providers(request)
    BY <1>1, ExplicitComplete DEF Traced
  <1>3. CASE RejectProviders(ask)
    <2>1. Contract!Unanswerable(Contract!AskOf(request, providerRoots))
      BY <1>2, <1>3, SameChoice, SameAnswering DEF RejectProviders
    <2>2. Contract!Refusable(request)
      BY <1>2, <2>1, SameGraphs DEF Contract!Refusable
    <2> QED
      BY <1>1, <1>3, <2>2, RefusalImplements DEF RejectProviders, Fail
  <1>4. CASE Decide(closed, Resolution(ask))
    <2>1. request' = request /\ phase' \in {"passes", "compose", "failed"}
      BY <1>1, <1>4 DEF Decide, Fail
    <2>2. CASE phase' = "failed"
      <3>1. ~Repeats(closed, Resolution(ask)) /\ pass + 1 = MaxPasses(request)
        BY <1>1, <1>4, <2>2 DEF Decide
      <3>2. Contract!Refusable(request)
        BY <1>1, <3>1, CapMeansFeedback DEF Contract!Refusable
      <3> QED
        BY <1>1, <2>1, <2>2, <3>2, RefusalImplements
    <2>3. CASE phase' # "failed"
      BY <1>1, <2>1, <2>3 DEF Outcome, Contract!contractVars
    <2> QED
      BY <2>2, <2>3
  <1> QED
    BY <1>1, <1>3, <1>4

\* A settled choice is coherent; its composition is the answer, or the reason to refuse.
LEMMA ComposeImplements ==
    ASSUME IInv, Warranted, Traced, Compose
    PROVE  Contract!Next
  <1> DEFINE W == Winners(slots)
  <1>1. /\ phase = "compose" /\ phase' \in {"done", "failed"} /\ request' = request /\ slots' = slots
        /\ composed' = Composition(request, explicit, slots)
    BY DEF Compose, Fail
  <1>2. explicit = Explicit(request) /\ request \in Selection
    BY <1>1, ExplicitComplete DEF IInv, TypeOK
  <1>3. /\ slots = Resolution(Ask(request, explicit, Closure(request, explicit, W)))
        /\ ~Unanswerable(Ask(request, explicit, Closure(request, explicit, W)))
    BY <1>1 DEF IInv, Settled, Warranted
  <1>4. Contract!Coherent(request, W) /\ Contract!SlotsOf(request, W) = slots
    BY <1>2, <1>3, SameChoice DEF Chosen
  <1>5. W \in SUBSET Contract!Providers(request)
    BY <1>2, <1>3, SameGraphs, WinnerProvides DEF Winners, Unanswerable
  <1>6. /\ Contract!Composition(request, Contract!Explicit(request), slots) = composed'
        /\ Contract!Flawed(request, slots)
               <=> UnknownMember(request, composed') \/ UnmetDependency(request, slots, composed')
    BY <1>1, <1>2, SameGraphs, SameComposition DEF Contract!Flawed
  <1> HIDE DEF W
  <1>7. CASE phase' = "failed"
    <2>1. Contract!Flawed(request, slots)
      BY <1>6, <1>7 DEF Compose
    <2>2. Contract!Refusable(request)
      BY <1>4, <1>5, <2>1 DEF Contract!Refusable
    <2> QED
      BY <1>1, <1>7, <2>2, RefusalImplements
  <1>8. CASE phase' = "done"
    <2>1. ~Contract!Flawed(request, slots)
      BY <1>6, <1>8 DEF Compose, Fail
    <2>2. Contract!WellFormed(request)
      BY <1>1, <1>2, SameChecks, SameGraphs DEF Contract!WellFormed, IInv, Warranted
    <2>3. Outcome = Contract!Pending /\ Outcome' = Contract!Answer(slots, composed') /\ Outcome' # Contract!Pending
      BY <1>1, <1>8 DEF Outcome, Contract!Pending, Contract!Answer
    <2>4. Contract!Compose
      BY <1>1, <1>4, <1>5, <1>6, <2>1, <2>2, <2>3 DEF Contract!Compose
    <2> QED
      BY <2>4 DEF Contract!Next
  <1> QED
    BY <1>1, <1>7, <1>8

\* Selection keeps its contract for every catalog and seed: what it answers is the
\* coherent composition of a well-formed request, and it refuses only what is ill-formed,
\* unanswerable at some choice, flawed in its composition, or has a choice that bears on
\* itself.  (selectDescriptorsWithProviders, selectSingleVersionDescriptors)
THEOREM Refinement == Spec => ImplementsContract
  <1>1. Init => Contract!Init
    BY SelectionsAssumption, SameChecks DEF Init, Contract!Init, Outcome, Contract!Pending
  <1>2. IInv /\ Warranted /\ Traced /\ [Next]_vars => [Contract!Next]_(Contract!contractVars)
    <2> SUFFICES ASSUME IInv, Warranted, Traced, [Next]_vars
                 PROVE  [Contract!Next]_(Contract!contractVars)
      OBVIOUS
    <2>1. ASSUME NEW k \in DOMAIN Checks, Reject(k) PROVE Contract!Next
      <3>1. phase = "check" /\ phase' = "failed" /\ request' = request /\ Fails(request, Checks[k])
        BY <2>1 DEF Reject, Fail
      <3>2. Contract!Refusable(request)
        BY <3>1, SameChecks DEF Contract!Refusable, Contract!WellFormed
      <3> QED
        BY <3>1, <3>2, RefusalImplements
    <2>2. CASE Accept \/ StartPasses \/ \E g \in pendingGroups : OpenGroup(g)
      <3>1. request' = request /\ phase \notin {"done", "failed"} /\ phase' \notin {"done", "failed"}
        BY <2>2 DEF Accept, StartPasses, OpenGroup
      <3> QED
        BY <3>1 DEF Outcome, Contract!contractVars
    <2>3. CASE UNCHANGED vars
      BY <2>3 DEF vars, Outcome, Contract!contractVars
    <2> QED
      BY <2>1, <2>2, <2>3, RejectGroupImplements, PassImplements, ComposeImplements DEF Next
  <1> QED
    BY <1>1, <1>2, AlwaysTraced, PTL DEF Spec, ImplementsContract, Contract!Spec

\* A step keeps the reason for striking.
LEMMA StepCapped ==
    ASSUME IInv, Traced, CapCutsNothingShort, [Next]_vars
    PROVE  CapCutsNothingShort'
  <1> SUFFICES ASSUME failure' = "convergence", failure # "convergence"
               PROVE  request' = request /\ ~Contract!Stratified(request)
    <2>1. request' = request
      BY DEF Next, Reject, Accept, OpenGroup, RejectGroup, StartPasses, Pass, RejectProviders, Decide,
             Compose, vars
    <2> QED
      BY <2>1 DEF CapCutsNothingShort
  <1> DEFINE closed == Closure(request, explicit, providerRoots)
             ask == Ask(request, explicit, closed)
  <1>1. Pass
    BY DEF Next, Reject, Accept, OpenGroup, RejectGroup, StartPasses, Compose, Fail, vars, Checks
  <1>2. phase = "passes" /\ Decide(closed, Resolution(ask))
    BY <1>1 DEF Pass, RejectProviders, Fail
  <1>3. ~Repeats(closed, Resolution(ask)) /\ pass + 1 = MaxPasses(request) /\ request' = request
    BY <1>2 DEF Decide
  <1> QED
    BY <1>2, <1>3, CapMeansFeedback

\* The cap on passes is high enough for every catalog and seed in which no choice of
\* providers bears on itself.  (iteration === descriptors.length + 1)
THEOREM CapIsEnough == Spec => []CapCutsNothingShort
  <1>1. Init => CapCutsNothingShort
    BY DEF Init, CapCutsNothingShort
  <1>2. IInv /\ Warranted /\ Traced /\ CapCutsNothingShort /\ [Next]_vars => CapCutsNothingShort'
    BY StepCapped
  <1> QED
    BY <1>1, <1>2, AlwaysTraced, PTL DEF Spec
-----------------------------------------------------------------------------
(***************************************************************************)
(* The steps end as SelectionRequests says: each pass is a turn.           *)
(***************************************************************************)

\* What is left after each of the turns up to some number.
AfterTurns(s, E, n, g) == g = [k \in 0..n |-> IF k = 0 THEN Start(s, E) ELSE Turn(s, E, g[k - 1])]

LEMMA TurnsExist ==
    ASSUME NEW s, NEW E, NEW M \in Nat
    PROVE  \E g : AfterTurns(s, E, M, g)
  <1> DEFINE T == {n \in Nat : ~\E g : AfterTurns(s, E, n, g)}
  <1> SUFFICES ASSUME M \in T PROVE FALSE
    OBVIOUS
  <1>1. PICK n \in T : \A j \in T : n <= j
    BY LeastNatural
  <1>2. CASE n = 0
    <2> DEFINE g == [k \in 0..0 |-> Start(s, E)]
    <2>1. g = [k \in 0..0 |-> IF k = 0 THEN Start(s, E) ELSE Turn(s, E, g[k - 1])]
      OBVIOUS
    <2> QED
      BY <1>2, <2>1 DEF AfterTurns
  <1>3. CASE n # 0
    <2>1. n - 1 \in Nat /\ n - 1 \notin T /\ n \in Nat
      BY <1>1, <1>3
    <2>2. PICK h : AfterTurns(s, E, n - 1, h)
      BY <2>1
    <2> DEFINE g == [k \in 0..n |-> IF k = n THEN Turn(s, E, h[n - 1]) ELSE h[k]]
    <2>3. \A k \in 0..(n - 1) : g[k] = h[k]
      BY <2>1
    <2>4. ASSUME NEW k \in 0..n
          PROVE  g[k] = IF k = 0 THEN Start(s, E) ELSE Turn(s, E, g[k - 1])
      <3>1. CASE k = n
        BY <1>3, <2>1, <2>3, <3>1
      <3>2. CASE k # n
        <4>1. k \in 0..(n - 1) /\ (k # 0 => k - 1 \in 0..(n - 1))
          BY <2>1, <3>2
        <4>2. h[k] = IF k = 0 THEN Start(s, E) ELSE Turn(s, E, h[k - 1])
          BY <2>2, <4>1 DEF AfterTurns
        <4> QED
          BY <2>3, <4>1, <4>2
      <3> QED
        BY <3>1, <3>2
    <2>5. g = [k \in 0..n |-> IF k = 0 THEN Start(s, E) ELSE Turn(s, E, g[k - 1])]
      BY <2>4
    <2> HIDE DEF g
    <2>6. AfterTurns(s, E, n, g)
      BY <2>5 DEF AfterTurns
    <2> QED
      BY <1>1, <2>6
  <1> QED
    BY <1>2, <1>3

\* The turns of a request, as Settlement takes them.
Turns(s, E) ==
    CHOOSE g : g = [k \in 0..MaxPasses(s) |-> IF k = 0 THEN Start(s, E) ELSE Turn(s, E, g[k - 1])]

LEMMA TurnsTaken ==
    ASSUME NEW s, NEW E, MaxPasses(s) \in Nat
    PROVE  /\ Turns(s, E)[0] = Start(s, E)
           /\ \A k \in 1..MaxPasses(s) : Turns(s, E)[k] = Turn(s, E, Turns(s, E)[k - 1])
           /\ Settlement(s, E) = Turns(s, E)[MaxPasses(s)]
  <1>1. PICK h : AfterTurns(s, E, MaxPasses(s), h)
    BY TurnsExist
  <1>2. h = [k \in 0..MaxPasses(s) |-> IF k = 0 THEN Start(s, E) ELSE Turn(s, E, h[k - 1])]
    BY <1>1 DEF AfterTurns
  <1> DEFINE g == Turns(s, E)
  <1>3. g = [k \in 0..MaxPasses(s) |-> IF k = 0 THEN Start(s, E) ELSE Turn(s, E, g[k - 1])]
    BY <1>2 DEF Turns
  <1>4. Settlement(s, E) = g[MaxPasses(s)]
    BY DEF Settlement, Turns
  <1> HIDE DEF g
  <1>5. g[0] = Start(s, E)
    BY <1>3
  <1>6. \A k \in 1..MaxPasses(s) : g[k] = Turn(s, E, g[k - 1])
    BY <1>3
  <1> QED
    BY <1>4, <1>5, <1>6 DEF g

\* A turn that is not open is the last: the others leave it as it is.
LEMMA NotOpenIsLast ==
    ASSUME NEW s, NEW E, MaxPasses(s) \in Nat,
           NEW k \in 0..MaxPasses(s), Turns(s, E)[k].status # "open"
    PROVE  Settlement(s, E) = Turns(s, E)[k]
  <1> DEFINE g == Turns(s, E)
             M == MaxPasses(s)
             T == {n \in k..M : g[n] # g[k]}
  <1>1. \A n \in 1..M : g[n] = Turn(s, E, g[n - 1])
    BY TurnsTaken
  <1>2. M \in Nat /\ g[k].status # "open"
    OBVIOUS
  <1> HIDE DEF g, M
  <1>3. T = {}
    <2> SUFFICES ASSUME T # {} PROVE FALSE
      OBVIOUS
    <2>1. T \in SUBSET Nat
      BY <1>2 DEF M
    <2>2. PICK n \in T : \A j \in T : n <= j
      BY <2>1, LeastNatural
    <2>3. n \in k..M /\ g[n] # g[k] /\ n # k /\ k \in 0..M
      BY <2>2 DEF M
    <2>4. n - 1 \in k..M /\ n \in 1..M /\ n - 1 \notin T
      BY <1>2, <2>2, <2>3
    <2>5. g[n - 1] = g[k]
      BY <2>4
    <2>6. g[n] = g[n - 1]
      BY <1>1, <1>2, <2>4, <2>5 DEF Turn
    <2> QED
      BY <2>3, <2>5, <2>6
  <1>4. M \in k..M
    BY <1>2 DEF M
  <1>5. g[M] = g[k]
    BY <1>3, <1>4
  <1> QED
    BY <1>5, TurnsTaken DEF g, M

-----------------------------------------------------------------------------
\* The state of the loop, as a turn leaves it.
AsTurn(status) ==
    [status |-> status, closed |-> resolvedIds, winners |-> providerRoots, slots |-> slots]

\* The loop is as far as the turns are, and what was settled is what they settle.
Following ==
    /\ phase \in {"check", "groups"} => resolvedIds = {} /\ slots = <<>>
    /\ phase = "passes" => Turns(request, explicit)[pass] = AsTurn("open")
    /\ phase = "compose" => Settlement(request, explicit) = AsTurn("settled")
    /\ EndsAsOutcome

\* What the checks, the groupings or the turns refuse has no outcome.
LEMMA RefusedOutcome ==
    ASSUME NEW s,
           \/ TwoDefaults(s) \/ TwoSelectedProviders(s)
           \/ ~(Explicit(s) \subseteq s.enabled)
           \/ Settlement(s, Explicit(s)).status # "settled"
    PROVE  OutcomeOf(s) = Refused
  <1> DEFINE E == Explicit(s)
             last == Settlement(s, E)
  <1>1. \/ TwoDefaults(s) \/ TwoSelectedProviders(s)
        \/ ~(E \subseteq s.enabled) \/ last.status # "settled"
    OBVIOUS
  <1>2. OutcomeOf(s) = OutcomeFrom(s, E, last)
    BY DEF OutcomeOf
  <1> HIDE DEF E, last
  <1> QED
    BY <1>1, <1>2 DEF OutcomeFrom

\* A step that neither answers nor fails keeps what was said of the ends.
LEMMA NotAnEnd ==
    ASSUME EndsAsOutcome, phase' # "done", request' = request,
           \/ failure' = failure \/ failure' \in {"capability", "seed", "version", "requirement"}
           \/ OutcomeOf(request) = Refused
    PROVE  EndsAsOutcome'
  BY DEF EndsAsOutcome

LEMMA InitFollowing == Init => Following
  BY DEF Init, Following, EndsAsOutcome

LEMMA RejectFollowing ==
    ASSUME Following, NEW k \in DOMAIN Checks, Reject(k)
    PROVE  Following'
  <1>1. /\ phase = "check" /\ phase' = "failed" /\ failure' = Checks[k] /\ request' = request
        /\ Fails(request, Checks[k])
    BY DEF Reject, Fail
  <1>2. Checks[k] \in {"capability", "seed", "version"} \/ OutcomeOf(request) = Refused
    <2>1. CASE Checks[k] = "default"
      BY <1>1, <2>1, RefusedOutcome DEF Fails
    <2>2. CASE Checks[k] = "selected"
      BY <1>1, <2>2, RefusedOutcome DEF Fails
    <2>3. Checks[k] \in {"capability", "seed", "version", "default", "selected"}
      BY DEF Checks
    <2> QED
      BY <2>1, <2>2, <2>3
  <1>3. EndsAsOutcome'
    BY <1>1, <1>2, NotAnEnd DEF Following
  <1> QED
    BY <1>1, <1>3 DEF Following

LEMMA RejectGroupFollowing ==
    ASSUME IInv, Warranted, Following, NEW g \in pendingGroups, RejectGroup(g)
    PROVE  Following'
  <1>1. phase' = "failed" /\ request' = request
    BY DEF RejectGroup, Fail
  <1>2. OutcomeOf(request) = Refused
    BY GroupUnknown, RefusedOutcome
  <1>3. EndsAsOutcome'
    BY <1>1, <1>2, NotAnEnd DEF Following
  <1> QED
    BY <1>1, <1>3 DEF Following

\* The first turn starts where the loop does.
LEMMA StartPassesFollowing ==
    ASSUME IInv, Following, StartPasses
    PROVE  Following'
  <1>1. /\ phase = "groups" /\ phase' = "passes" /\ pass' = 0 /\ failure' = failure
        /\ request' = request /\ explicit' = explicit
        /\ providerRoots' = explicit \cap Providers(request)
        /\ resolvedIds' = {} /\ slots' = <<>>
    BY DEF StartPasses, IInv, Following
  <1>2. MaxPasses(request) \in Nat
    BY MaxPassesType DEF IInv, TypeOK
  <1>3. Turns(request, explicit)[0] = Start(request, explicit)
    BY <1>2, TurnsTaken
  <1>4. Turns(request', explicit')[pass'] = AsTurn("open")'
    BY <1>1, <1>3 DEF Start, AsTurn
  <1>5. EndsAsOutcome'
    BY <1>1, NotAnEnd DEF Following
  <1> QED
    BY <1>1, <1>4, <1>5 DEF Following

\* A pass is the turn of its number.
LEMMA PassFollowing ==
    ASSUME IInv, Warranted, Following, Pass
    PROVE  Following'
  <1> DEFINE closed == Closure(request, explicit, providerRoots)
             ask == Ask(request, explicit, closed)
             chosen == Resolution(ask)
             turn == Turns(request, explicit)[pass + 1]
  <1>1. /\ phase = "passes"
        /\ RejectProviders(ask) \/ (~Unanswerable(ask) /\ Decide(closed, chosen))
    BY DEF Pass
  <1>2. /\ MaxPasses(request) \in Nat /\ pass \in Nat /\ pass < MaxPasses(request)
        /\ explicit = Explicit(request)
    BY <1>1, MaxPassesType, ExplicitComplete DEF IInv, TypeOK
  <1>3. pass + 1 \in 1..MaxPasses(request) /\ (pass + 1) - 1 = pass
    BY <1>2
  <1>4. turn = Turn(request, explicit, Turns(request, explicit)[pass])
    BY <1>2, <1>3, TurnsTaken
  <1>5. Turns(request, explicit)[pass] = AsTurn("open")
    BY <1>1 DEF Following
  <1>6. turn = TurnOver(request, explicit, AsTurn("open"), closed)
    BY <1>4, <1>5 DEF Turn, AsTurn
  <1> HIDE DEF closed
  <1>7. turn = IF Unanswerable(ask) THEN Stuck ELSE Turned(AsTurn("open"), closed, chosen)
    BY <1>6 DEF TurnOver
  <1> HIDE DEF ask, chosen, turn
  <1>8. turn.status # "open" => Settlement(request, explicit) = turn
    BY <1>2, <1>3, NotOpenIsLast DEF turn
  <1>9. CASE RejectProviders(ask)
    <2>1. phase' = "failed" /\ request' = request /\ Unanswerable(ask)
      BY <1>9 DEF RejectProviders, Fail
    <2>2. turn.status = "refused"
      BY <1>7, <2>1 DEF Stuck
    <2>3. OutcomeOf(request) = Refused
      BY <1>2, <1>8, <2>2, RefusedOutcome
    <2>4. EndsAsOutcome'
      BY <2>1, <2>3, NotAnEnd DEF Following
    <2> QED
      BY <2>1, <2>4 DEF Following
  <1>10. CASE ~Unanswerable(ask) /\ Decide(closed, chosen)
    <2>1. /\ resolvedIds' = closed /\ slots' = chosen /\ providerRoots' = Winners(chosen)
          /\ pass' = pass + 1 /\ request' = request /\ explicit' = explicit
      BY <1>10 DEF Decide
    <2>2. turn = [status |-> IF Repeats(closed, chosen) THEN "settled" ELSE "open",
                  closed |-> closed, winners |-> Winners(chosen), slots |-> chosen]
      BY <1>7, <1>10 DEF Turned, AsTurn, Repeats
    <2>3. CASE Repeats(closed, chosen)
      <3>1. phase' = "compose" /\ failure' = failure
        BY <1>10, <2>3 DEF Decide
      <3>2. turn = AsTurn("settled")'
        BY <2>1, <2>2, <2>3 DEF AsTurn
      <3>3. Settlement(request, explicit) = AsTurn("settled")'
        BY <1>8, <2>2, <2>3, <3>2
      <3>4. EndsAsOutcome'
        BY <2>1, <3>1, NotAnEnd DEF Following
      <3> QED
        BY <2>1, <3>1, <3>3, <3>4 DEF Following
    <2>4. CASE ~Repeats(closed, chosen) /\ pass + 1 < MaxPasses(request)
      <3>1. phase' = "passes" /\ failure' = failure
        BY <1>1, <1>2, <1>10, <2>4 DEF Decide
      <3>2. turn = AsTurn("open")'
        BY <2>1, <2>2, <2>4 DEF AsTurn
      <3>3. Turns(request', explicit')[pass'] = AsTurn("open")'
        BY <2>1, <3>2 DEF turn
      <3>4. EndsAsOutcome'
        BY <2>1, <3>1, NotAnEnd DEF Following
      <3> QED
        BY <3>1, <3>3, <3>4 DEF Following
    <2>5. CASE ~Repeats(closed, chosen) /\ pass + 1 = MaxPasses(request)
      <3>1. phase' = "failed"
        BY <1>2, <1>10, <2>5 DEF Decide, Fail
      <3>2. Settlement(request, explicit) = turn
        BY <1>2, <2>5, TurnsTaken DEF turn
      <3>3. OutcomeOf(request) = Refused
        BY <1>2, <2>2, <2>5, <3>2, RefusedOutcome
      <3>4. EndsAsOutcome'
        BY <2>1, <3>1, <3>3, NotAnEnd DEF Following
      <3> QED
        BY <3>1, <3>4 DEF Following
    <2> QED
      BY <1>2, <2>3, <2>4, <2>5
  <1> QED
    BY <1>1, <1>9, <1>10

\* What is composed is composed from what the turns settled.
LEMMA ComposeFollowing ==
    ASSUME IInv, Warranted, Following, Compose
    PROVE  Following'
  <1>1. /\ phase = "compose" /\ phase' \in {"done", "failed"}
        /\ composed' = Composition(request, explicit, slots)
        /\ request' = request /\ slots' = slots
    BY DEF Compose, Fail
  <1>2. explicit = Explicit(request) /\ explicit \subseteq request.enabled
    BY <1>1, ExplicitComplete DEF IInv
  <1>3. ~TwoDefaults(request) /\ ~TwoSelectedProviders(request)
    <2>1. ~Fails(request, Checks[4]) /\ ~Fails(request, Checks[5])
      BY <1>1 DEF Warranted, Checks
    <2>2. Checks[4] = "default" /\ Checks[5] = "selected"
      BY DEF Checks
    <2> QED
      BY <2>1, <2>2 DEF Fails
  <1> DEFINE last == Settlement(request, explicit)
  <1>4. last.status = "settled" /\ last.slots = slots
    BY <1>1 DEF Following, AsTurn
  <1>5. OutcomeOf(request) = OutcomeFrom(request, explicit, last)
    BY <1>2 DEF OutcomeOf
  <1> HIDE DEF last
  <1>6. OutcomeOf(request) = SettledOutcome(request, slots, composed')
    BY <1>1, <1>2, <1>3, <1>4, <1>5 DEF OutcomeFrom
  <1>7. CASE UnknownMember(request, composed')
    <2>1. OutcomeOf(request) = Refused /\ phase' = "failed"
      BY <1>6, <1>7 DEF SettledOutcome, Compose, Fail
    <2>2. EndsAsOutcome'
      BY <1>1, <2>1, NotAnEnd DEF Following
    <2> QED
      BY <2>1, <2>2 DEF Following
  <1>8. CASE ~UnknownMember(request, composed') /\ phase' = "failed"
    <2>1. failure' = "requirement"
      BY <1>8 DEF Compose, Fail
    <2>2. EndsAsOutcome'
      BY <1>1, <1>8, <2>1, NotAnEnd DEF Following
    <2> QED
      BY <1>8, <2>2 DEF Following
  <1>9. CASE ~UnknownMember(request, composed') /\ phase' = "done"
    <2>1. failure' = failure
      BY <1>9 DEF Compose, Fail
    <2>2. Outcome' = OutcomeOf(request)
      BY <1>1, <1>6, <1>9 DEF SettledOutcome, Outcome
    <2>3. EndsAsOutcome'
      BY <1>1, <2>1, <2>2 DEF EndsAsOutcome, Following
    <2> QED
      BY <1>9, <2>3 DEF Following
  <1> QED
    BY <1>1, <1>7, <1>8, <1>9

LEMMA StepFollowing == IInv /\ Warranted /\ Following /\ [Next]_vars => Following'
  <1> SUFFICES ASSUME IInv, Warranted, Following, [Next]_vars PROVE Following'
    OBVIOUS
  <1>1. CASE Accept \/ \E g \in pendingGroups : OpenGroup(g)
    <2>1. /\ phase' = "groups" /\ phase \in {"check", "groups"}
          /\ UNCHANGED <<request, failure, resolvedIds, slots>>
      BY <1>1 DEF Accept, OpenGroup
    <2>2. EndsAsOutcome'
      BY <2>1, NotAnEnd DEF Following
    <2> QED
      BY <2>1, <2>2 DEF Following
  <1>2. CASE UNCHANGED vars
    BY <1>2 DEF vars, Following, EndsAsOutcome, AsTurn, Outcome
  <1> QED
    BY <1>1, <1>2, RejectFollowing, RejectGroupFollowing, StartPassesFollowing, PassFollowing,
       ComposeFollowing DEF Next

\* The passes of the code and the function of the request that the version search
\* calls end alike, for every catalog and seed: with the same slots and composition, or
\* both in a refusal.  (selectSingleVersionDescriptors)
THEOREM StepsEndAlike == Spec => []EndsAsOutcome
  <1>1. IInv /\ Warranted /\ Following /\ [Next]_vars => (IInv /\ Warranted /\ Following)'
    BY StepInv, StepWarranted, StepFollowing
  <1>2. Following => EndsAsOutcome
    BY DEF Following
  <1> QED
    BY <1>1, <1>2, InitInv, InitWarranted, InitFollowing, PTL DEF Spec

-----------------------------------------------------------------------------
\* The second part: the build-time hosts.  What holds of a React build and of a Nuxt
\* application between any two of their steps, whatever is edited: what each took from the
\* workspace is the function of the workspace it saw then, and where nothing was edited that
\* is the workspace there is.

ReactFields == {"phase", "options", "virtual", "held", "routes", "loader", "current",
                "builds", "before", "seen", "read"}
LoaderFields == {"capabilities", "discovered", "selected", "slots", "contribution", "config"}

\* There is a React host; a build is composed; its contributions are there as well.
Hosted == react.phase \in {"created", "contribute", "configure", "built", "threw"}
Building == react.phase \in {"contribute", "configure", "built"}
Taken == react.phase \in {"configure", "built"}

\* What is composed when the configuration is evaluated.
First(r) ==
    IF r.options.run THEN RunSelection(r.before, r.options)
    ELSE CapabilitySelection(r.before, r.virtual, r.options)

\* Contributions go with a composition.
Fits(source, selection) ==
    source # Nothing => source.plan = PlanOf(selection) /\ source.modules \subseteq Composed(selection)

ReactShape == DOMAIN react = ReactFields /\ DOMAIN react.loader = LoaderFields

ReactHeld ==
    Hosted =>
        /\ react.held # Nothing => react.held = First(react)
        /\ react.options.run => react.held # Nothing /\ Fits(react.loader.contribution, react.held)
        /\ ~react.options.run =>
            /\ react.virtual = Virtual(react.before, react.options)
            /\ react.routes = RouteConfig(First(react))
            /\ ~react.options.contributions => react.loader.contribution = Nothing

ReactBuilds ==
    /\ Building =>
        /\ react.current # Nothing
        /\ react.current = IF react.held # Nothing THEN react.held
                           ELSE CapabilitySelection(react.seen, react.virtual, react.options)
    /\ Taken =>
        /\ react.loader.capabilities = react.current.items
        /\ react.loader.discovered = Present(react.current.discovered)
        /\ react.loader.selected = react.current.seed.selected
        /\ react.loader.slots = react.current.slots
        /\ Fits(react.loader.contribution, react.current)
    /\ react.phase = "built" =>
        /\ react.read \in Workspaces
        /\ react.loader.config # Nothing
        /\ react.loader.config = CreateConfig(react.read, react.loader.capabilities, react.options.config)

ReactUnedited ==
    /\ Hosted => react.before = disk
    /\ Building => react.seen = disk
    /\ (Taken \/ (Hosted /\ react.options.run)) /\ react.options.contributions =>
        /\ react.loader.contribution # Nothing
        /\ react.loader.contribution =
            ContributionSource(disk, IF react.options.run THEN react.held ELSE react.current)

ReactInv == ReactShape /\ ReactHeld /\ ReactBuilds /\ (edits = 0 => ReactUnedited)

-----------------------------------------------------------------------------
NuxtFields == {"phase", "options", "bootstrap", "layers", "public", "plugin", "reported",
               "assets", "imports", "before", "seen", "read"}

AsksBootstrap(o) == o.shared \/ (o.extensions # Nothing /\ o.extensions.enabled)

Started == nuxt.phase \in {"configured", "composed", "mounted", "set up"}
ModuleComposed == nuxt.phase \in {"composed", "mounted", "set up"}
Mounted == nuxt.phase \in {"mounted", "set up"}

\* The rows of layers before the module mounts any, and the keys after it did.
ConfigRow(n) == <<Root(ProjectDir)>> \o n.options.own
                    \o (IF n.options.shared THEN LayerPaths(n.bootstrap) ELSE <<>>)

ToldBy(o, b) == Over(PublishedSlots(o, b), Over(b.public, o.host))

WithScopes(n, public) ==
    LET config == ModuleConfig(n.read, n.options)
    IN  IF config = Nothing THEN public
        ELSE Over(ScopeKeys(n.read, config, n.bootstrap), Over(ComposableDefaults(config), public))

NuxtShape == DOMAIN nuxt = NuxtFields

NuxtOptions == nuxt.phase # "absent" =>
    \E setup \in Setups : setup.nuxt # Nothing /\ nuxt.options = setup.nuxt

NuxtBootstraps ==
    /\ Started => nuxt.before \in Workspaces
    /\ Started /\ nuxt.options.shared =>
        nuxt.bootstrap # Nothing /\ nuxt.bootstrap = Bootstrap(nuxt.before, nuxt.options)
    /\ ModuleComposed =>
        /\ nuxt.seen \in Workspaces
        /\ AsksBootstrap(nuxt.options) => nuxt.bootstrap # Nothing
        /\ ~nuxt.options.shared /\ nuxt.bootstrap # Nothing =>
            nuxt.bootstrap = Bootstrap(nuxt.seen, nuxt.options)
        /\ nuxt.options.contributions /\ nuxt.bootstrap # Nothing =>
            nuxt.plugin # Nothing /\ nuxt.plugin = ContributionPlugin(nuxt.seen, nuxt.bootstrap)

NuxtMounts ==
    /\ Started /\ ~Mounted => nuxt.layers = ConfigRow(nuxt) /\ nuxt.public = nuxt.options.host
    /\ Mounted /\ nuxt.bootstrap # Nothing =>
        /\ nuxt.layers = WithFileOnly(ConfigRow(nuxt), nuxt.bootstrap)
        /\ nuxt.reported = IF nuxt.options.reporter THEN LogReport(nuxt.options, nuxt.bootstrap) ELSE Nothing
    /\ nuxt.phase = "mounted" /\ nuxt.bootstrap # Nothing =>
        nuxt.public = ToldBy(nuxt.options, nuxt.bootstrap)
    /\ nuxt.phase = "set up" /\ nuxt.bootstrap # Nothing =>
        nuxt.public = WithScopes(nuxt, ToldBy(nuxt.options, nuxt.bootstrap))

NuxtUnedited ==
    /\ Started => nuxt.before = disk
    /\ ModuleComposed => nuxt.seen = disk

NuxtInv == NuxtShape /\ NuxtOptions /\ NuxtBootstraps /\ NuxtMounts /\ (edits = 0 => NuxtUnedited)

HostsInv == disk \in Workspaces /\ edits \in Nat /\ ReactInv /\ NuxtInv

-----------------------------------------------------------------------------
\* The steps of a React build keep its part of the invariant.

\* What a build contributes is of its composition: the plan names the ids it resolved and
\* the modules are of those.
LEMMA SourceFits ==
    ASSUME NEW ws, NEW selection
    PROVE  Fits(ContributionSource(ws, selection), selection)
  <1> DEFINE physical == {c \in selection.items : ~IsGrouping(c)}
             place(c) == ws.dirs[c.dir.name]
             name == [id \in Present(physical) |-> EntryOf(physical, id).packageName]
             sources == [id \in Present(physical) |->
                            [name          |-> name[id],
                             contributions |-> place(EntryOf(physical, id)).manifest.contributions]]
             entries == ContributionEntries(name, sources)
             unread == \E c \in physical : place(c) = Nothing \/ place(c).manifest \in {Nothing, Broken}
  <1>1. ContributionSource(ws, selection) =
            IF unread \/ entries = Nothing THEN Nothing ELSE [modules |-> entries, plan |-> PlanOf(selection)]
    BY DEF ContributionSource
  <1>2. entries # Nothing => entries \subseteq DOMAIN name
    BY DEF ContributionEntries
  <1>3. DOMAIN name \subseteq Composed(selection)
    BY DEF Present, Composed
  <1> HIDE DEF entries, name, unread
  <1> QED
    BY <1>1, <1>2, <1>3 DEF Fits

LEMMA SealedIsFirst ==
    ASSUME NEW ws, NEW o, SealedRun(ws, o) # Nothing
    PROVE  SealedRun(ws, o) = RunSelection(ws, o)
  BY DEF SealedRun, WithEntries

-----------------------------------------------------------------------------
LEMMA ConfigureReact ==
    ASSUME ReactInv, ReactConfigure, disk \in Workspaces
    PROVE  ReactInv'
  <1> DEFINE virtual == Virtual(disk, react.options)
             selection == CapabilitySelection(disk, virtual, react.options)
  <1>1. react.phase = "start" /\ ~react.options.run /\ UNCHANGED <<disk, edits>>
        /\ Prepared(virtual, selection)
    BY DEF ReactConfigure
  <1>2. ReactShape
    BY DEF ReactInv
  <1>3. CASE selection = Nothing
    <2>1. react' = [react EXCEPT !.phase = "refused"]
      BY <1>1, <1>3 DEF Prepared, RefuseConfiguration
    <2>2. ReactShape' /\ react'.phase = "refused"
      BY <1>2, <2>1 DEF ReactShape, ReactFields
    <2> QED
      BY <2>2 DEF ReactInv, ReactHeld, ReactBuilds, ReactUnedited, Hosted, Building, Taken
  <1>4. CASE selection # Nothing
    <2> DEFINE held == IF react.options.contributions THEN selection ELSE Nothing
    <2>1. react' = [react EXCEPT !.phase = "created", !.before = disk, !.virtual = virtual,
                                 !.held = held, !.routes = RouteConfig(selection), !.loader = NoLoader]
      BY <1>1, <1>4 DEF Prepared, Created
    <2> HIDE DEF virtual, selection
    <2>2. /\ DOMAIN react' = ReactFields /\ react'.loader = NoLoader
          /\ react'.phase = "created" /\ react'.before = disk /\ react'.virtual = virtual
          /\ react'.held = held /\ react'.routes = RouteConfig(selection)
          /\ react'.options = react.options
      BY <1>2, <2>1 DEF ReactShape, ReactFields
    <2> HIDE DEF held
    <2>3. ReactShape'
      BY <2>2 DEF ReactShape, NoLoader, LoaderFields
    <2>4. First(react') = selection
      BY <1>1, <2>2 DEF First, selection
    <2>5. ReactHeld'
      <3>1. react'.loader.contribution = Nothing
        BY <2>2 DEF NoLoader
      <3>2. react'.held # Nothing => react'.held = selection
        BY <2>2 DEF held
      <3> QED
        BY <1>1, <2>2, <2>4, <3>1, <3>2 DEF ReactHeld, virtual
    <2>6. ReactBuilds' /\ ReactUnedited'
      BY <1>1, <2>2 DEF ReactBuilds, ReactUnedited, Hosted, Building, Taken
    <2> QED
      BY <2>3, <2>5, <2>6 DEF ReactInv
  <1> QED
    BY <1>3, <1>4

\* The closure taken over whole.
LEMMA TakenOverIs ==
    ASSUME NEW loader, DOMAIN loader = LoaderFields, NEW selection, NEW source
    PROVE  LET after == TakenOver(loader, selection, source)
           IN  /\ DOMAIN after = LoaderFields
               /\ after.capabilities = selection.items
               /\ after.discovered = Present(selection.discovered)
               /\ after.selected = selection.seed.selected
               /\ after.slots = selection.slots
               /\ after.contribution = source
  BY DEF TakenOver, LoaderFields

LEMMA SealReact ==
    ASSUME ReactInv, ReactSeal, disk \in Workspaces
    PROVE  ReactInv'
  <1> DEFINE selection == SealedRun(disk, react.options)
             source == IF react.options.contributions /\ selection # Nothing
                       THEN ContributionSource(disk, selection) ELSE NoLoader.contribution
  <1>1. react.phase = "start" /\ react.options.run /\ UNCHANGED <<disk, edits>>
        /\ SealedWith(selection, source)
    BY DEF ReactSeal, SealedOver
  <1>2. ReactShape
    BY DEF ReactInv
  <1>3. CASE selection = Nothing \/ (react.options.contributions /\ source = Nothing)
    <2>1. react' = [react EXCEPT !.phase = "refused"]
      BY <1>1, <1>3 DEF SealedWith, RefuseConfiguration
    <2>2. ReactShape' /\ react'.phase = "refused"
      BY <1>2, <2>1 DEF ReactShape, ReactFields
    <2> QED
      BY <2>2 DEF ReactInv, ReactHeld, ReactBuilds, ReactUnedited, Hosted, Building, Taken
  <1>4. CASE selection # Nothing /\ (react.options.contributions => source # Nothing)
    <2> DEFINE loader == TakenOver(NoLoader, selection, source)
    <2>1. react' = [react EXCEPT !.phase = "created", !.before = disk, !.virtual = Nothing,
                                 !.held = selection, !.routes = {}, !.loader = loader]
      BY <1>1, <1>4 DEF SealedWith, Created
    <2>2. DOMAIN loader = LoaderFields /\ loader.contribution = source
      BY TakenOverIs DEF NoLoader, LoaderFields
    <2>3. Fits(source, selection)
      BY SourceFits DEF Fits, NoLoader
    <2>4. react.options.contributions => source # Nothing /\ source = ContributionSource(disk, selection)
      BY <1>4
    <2>5. selection = RunSelection(disk, react.options)
      BY <1>4, SealedIsFirst
    <2> HIDE DEF loader, source, selection
    <2>6. /\ DOMAIN react' = ReactFields /\ react'.loader = loader
          /\ react'.phase = "created" /\ react'.before = disk
          /\ react'.held = selection /\ react'.options = react.options
      BY <1>2, <2>1 DEF ReactShape, ReactFields
    <2>7. ReactShape'
      BY <2>2, <2>6 DEF ReactShape
    <2>8. First(react') = selection
      BY <1>1, <2>5, <2>6 DEF First
    <2>9. ReactHeld'
      BY <1>1, <1>4, <2>2, <2>3, <2>6, <2>8 DEF ReactHeld
    <2>10. ReactBuilds'
      BY <2>6 DEF ReactBuilds, Building, Taken
    <2>11. ReactUnedited'
      BY <1>1, <2>2, <2>4, <2>6 DEF ReactUnedited, Building, Taken
    <2> QED
      BY <2>7, <2>9, <2>10, <2>11 DEF ReactInv
  <1> QED
    BY <1>3, <1>4

\* A build that throws leaves everything else as it was.
LEMMA ThrowReact ==
    ASSUME ReactInv, Hosted, Throw, UNCHANGED <<disk, edits>>
    PROVE  ReactInv'
  <1>1. ReactShape /\ ReactHeld /\ (edits = 0 => ReactUnedited)
    BY DEF ReactInv
  <1>2. /\ DOMAIN react' = ReactFields /\ react'.phase = "threw" /\ react'.loader = react.loader
        /\ react'.options = react.options /\ react'.held = react.held /\ react'.virtual = react.virtual
        /\ react'.routes = react.routes /\ react'.before = react.before
    BY <1>1 DEF Throw, ReactShape, ReactFields
  <1>3. First(react') = First(react)
    BY <1>2 DEF First
  <1>4. ReactShape' /\ ReactHeld' /\ ReactBuilds'
    BY <1>1, <1>2, <1>3 DEF ReactShape, ReactHeld, ReactBuilds, Hosted, Building, Taken
  <1>5. edits' = 0 => ReactUnedited'
    BY <1>1, <1>2 DEF ReactUnedited, Hosted, Building, Taken
  <1> QED
    BY <1>4, <1>5 DEF ReactInv

LEMMA ResolveReact ==
    ASSUME ReactInv, ReactResolve, disk \in Workspaces
    PROVE  ReactInv'
  <1> DEFINE selection == BuildSelection(react, disk)
  <1>1. react.phase \in {"created", "built", "threw"} /\ Resolved(selection) /\ UNCHANGED <<disk, edits>>
    BY DEF ReactResolve
  <1>2. ReactShape /\ ReactHeld /\ (edits = 0 => ReactUnedited) /\ Hosted
    BY <1>1 DEF ReactInv, Hosted
  <1>3. CASE selection = Nothing
    BY <1>1, <1>2, <1>3, ThrowReact DEF Resolved
  <1>4. CASE selection # Nothing
    <2>1. react' = [react EXCEPT !.phase = "contribute", !.current = selection, !.seen = disk,
                                 !.loader.capabilities = selection.items,
                                 !.loader.discovered = Present(selection.discovered)]
      BY <1>1, <1>4 DEF Resolved
    <2>2. selection = IF react.held # Nothing THEN react.held
                      ELSE CapabilitySelection(disk, react.virtual, react.options)
      BY DEF BuildSelection
    <2> HIDE DEF selection
    <2>3. /\ DOMAIN react' = ReactFields /\ DOMAIN react'.loader = LoaderFields
          /\ react'.phase = "contribute" /\ react'.current = selection /\ react'.seen = disk
          /\ react'.loader.contribution = react.loader.contribution
          /\ react'.options = react.options /\ react'.held = react.held /\ react'.virtual = react.virtual
          /\ react'.routes = react.routes /\ react'.before = react.before
      BY <1>2, <2>1 DEF ReactShape, ReactFields, LoaderFields
    <2>4. First(react') = First(react)
      BY <2>3 DEF First
    <2>5. ReactShape' /\ ReactHeld'
      BY <1>2, <2>3, <2>4 DEF ReactShape, ReactHeld
    <2>6. ReactBuilds'
      BY <1>4, <2>2, <2>3 DEF ReactBuilds, Taken
    <2>7. edits' = 0 => ReactUnedited'
      BY <1>1, <1>2, <2>3 DEF ReactUnedited, Hosted, Building, Taken
    <2> QED
      BY <2>5, <2>6, <2>7 DEF ReactInv
  <1> QED
    BY <1>3, <1>4

LEMMA ContributeReact ==
    ASSUME ReactInv, ReactContribute, disk \in Workspaces
    PROVE  ReactInv'
  <1> DEFINE o == react.options
             source == IF o.contributions /\ ~o.run THEN ContributionSource(disk, react.current)
                       ELSE react.loader.contribution
  <1>1. /\ react.phase = "contribute" /\ UNCHANGED <<disk, edits>>
        /\ IF o.contributions /\ source = Nothing THEN Throw
           ELSE react' = [react EXCEPT !.phase = "configure",
                                       !.loader = TakenOver(react.loader, react.current, source)]
    BY DEF ReactContribute
  <1>2. ReactShape /\ ReactHeld /\ ReactBuilds /\ (edits = 0 => ReactUnedited) /\ Hosted /\ Building
    BY <1>1 DEF ReactInv, Hosted, Building
  <1>3. CASE o.contributions /\ source = Nothing
    BY <1>1, <1>2, <1>3, ThrowReact
  <1>4. CASE ~(o.contributions /\ source = Nothing)
    <2> DEFINE loader == TakenOver(react.loader, react.current, source)
    <2>1. react' = [react EXCEPT !.phase = "configure", !.loader = loader]
      BY <1>1, <1>4
    <2>2. /\ DOMAIN loader = LoaderFields /\ loader.contribution = source
          /\ loader.capabilities = react.current.items
          /\ loader.discovered = Present(react.current.discovered)
          /\ loader.selected = react.current.seed.selected
          /\ loader.slots = react.current.slots
      BY <1>2, TakenOverIs DEF ReactShape
    <2>3. react.options.run => react.current = react.held
      BY <1>2 DEF ReactHeld, ReactBuilds
    <2>4. Fits(source, react.current)
      BY <1>2, <2>3, SourceFits DEF ReactHeld, Fits
    <2>5. /\ react.options.contributions => source # Nothing
          /\ react.options.contributions /\ ~react.options.run =>
                source = ContributionSource(disk, react.current)
          /\ react.options.run \/ ~react.options.contributions => source = react.loader.contribution
      BY <1>4
    <2> HIDE DEF loader, source
    <2>6. /\ DOMAIN react' = ReactFields /\ react'.loader = loader /\ react'.phase = "configure"
          /\ react'.current = react.current /\ react'.seen = react.seen
          /\ react'.options = react.options /\ react'.held = react.held /\ react'.virtual = react.virtual
          /\ react'.routes = react.routes /\ react'.before = react.before
      BY <1>2, <2>1 DEF ReactShape, ReactFields
    <2>7. First(react') = First(react)
      BY <2>6 DEF First
    <2>8. ReactShape'
      BY <2>2, <2>6 DEF ReactShape
    <2>9. ReactHeld'
      BY <1>2, <2>2, <2>5, <2>6, <2>7 DEF ReactHeld
    <2>10. ReactBuilds'
      BY <1>2, <2>2, <2>4, <2>6 DEF ReactBuilds
    <2>11. edits' = 0 => ReactUnedited'
      BY <1>1, <1>2, <2>2, <2>5, <2>6 DEF ReactUnedited
    <2> QED
      BY <2>8, <2>9, <2>10, <2>11 DEF ReactInv
  <1> QED
    BY <1>3, <1>4

LEMMA EmitReact ==
    ASSUME ReactInv, ReactEmit, disk \in Workspaces
    PROVE  ReactInv'
  <1> DEFINE config == CreateConfig(disk, react.loader.capabilities, react.options.config)
  <1>1. react.phase = "configure" /\ Emitted(config) /\ UNCHANGED <<disk, edits>>
    BY DEF ReactEmit
  <1>2. /\ ReactShape /\ ReactHeld /\ ReactBuilds /\ (edits = 0 => ReactUnedited)
        /\ Hosted /\ Building /\ Taken
    BY <1>1 DEF ReactInv, Hosted, Building, Taken
  <1>3. CASE config = Nothing
    BY <1>1, <1>2, <1>3, ThrowReact DEF Emitted
  <1>4. CASE config # Nothing
    <2>1. react' = [react EXCEPT !.phase = "built", !.builds = react.builds + 1, !.read = disk,
                                 !.loader.config = config]
      BY <1>1, <1>4 DEF Emitted
    <2> HIDE DEF config
    <2>2. /\ DOMAIN react' = ReactFields /\ DOMAIN react'.loader = LoaderFields
          /\ react'.phase = "built" /\ react'.read = disk /\ react'.loader.config = config
          /\ react'.current = react.current /\ react'.seen = react.seen
          /\ react'.options = react.options /\ react'.held = react.held /\ react'.virtual = react.virtual
          /\ react'.routes = react.routes /\ react'.before = react.before
      BY <1>2, <2>1 DEF ReactShape, ReactFields, LoaderFields
    <2>3. /\ react'.loader.capabilities = react.loader.capabilities
          /\ react'.loader.discovered = react.loader.discovered
          /\ react'.loader.selected = react.loader.selected
          /\ react'.loader.slots = react.loader.slots
          /\ react'.loader.contribution = react.loader.contribution
      BY <1>2, <2>1 DEF ReactShape, ReactFields, LoaderFields
    <2>4. First(react') = First(react)
      BY <2>2 DEF First
    <2>5. ReactShape' /\ ReactHeld'
      BY <1>2, <2>2, <2>3, <2>4 DEF ReactShape, ReactHeld
    <2>6. ReactBuilds'
      BY <1>2, <1>4, <2>2, <2>3 DEF ReactBuilds, config
    <2>7. edits' = 0 => ReactUnedited'
      BY <1>1, <1>2, <2>2, <2>3 DEF ReactUnedited
    <2> QED
      BY <2>5, <2>6, <2>7 DEF ReactInv
  <1> QED
    BY <1>3, <1>4

LEMMA EditReact ==
    ASSUME ReactInv, edits \in Nat, Edit, UNCHANGED react
    PROVE  ReactInv'
  <1>1. edits' # 0
    BY DEF Edit
  <1>2. First(react') = First(react)
    BY DEF First
  <1>3. ReactShape' /\ ReactHeld' /\ ReactBuilds'
    BY <1>2 DEF ReactInv, ReactShape, ReactHeld, ReactBuilds, Hosted, Building, Taken
  <1> QED
    BY <1>1, <1>3 DEF ReactInv

LEMMA StartReact ==
    ASSUME HostsInit
    PROVE  ReactInv
  <1>1. PICK setup \in Setups :
            react = IF setup.react = Nothing THEN Absent(IdleReact(Nothing)) ELSE IdleReact(setup.react)
    BY DEF HostsInit
  <1>2. ReactShape /\ react.phase \in {"absent", "start"}
    BY <1>1 DEF ReactShape, ReactFields, LoaderFields, Absent, IdleReact, NoLoader
  <1> QED
    BY <1>2 DEF ReactInv, ReactHeld, ReactBuilds, ReactUnedited, Hosted, Building, Taken

-----------------------------------------------------------------------------
\* What is composed once is loaded and contributed.

LEMMA InvOneComposition == ReactInv => OneComposition
  <1> SUFFICES ASSUME ReactInv, react.phase = "built" PROVE OneComposition
    BY DEF OneComposition
  <1> DEFINE first == First(react)
             source == react.loader.contribution
  <1>1. /\ ReactHeld /\ ReactBuilds /\ Hosted /\ Building /\ Taken
    BY DEF ReactInv, Hosted, Building, Taken
  <1>2. react.held # Nothing \/ react.seen = react.before => react.current = first
    BY <1>1 DEF ReactHeld, ReactBuilds, First
  <1>3. /\ CapabilityModule(react.loader).resolved = Composed(react.current)
        /\ CapabilityModule(react.loader).slots = react.current.slots
        /\ CapabilityModule(react.loader).discovered = Present(react.current.discovered)
        /\ react.loader.capabilities = react.current.items
    BY <1>1 DEF ReactBuilds, CapabilityModule, Composed
  <1>4. RouteConfig([items |-> react.loader.capabilities]) = RouteConfig(react.current)
    BY <1>3 DEF RouteConfig
  <1>5. ~react.options.run => react.routes = RouteConfig(first)
    BY <1>1 DEF ReactHeld
  <1>6. source # Nothing =>
            /\ source.plan = [selected |-> Composed(react.current), catalog |-> Present(react.current.discovered)]
            /\ source.modules \subseteq Composed(react.current)
    BY <1>1 DEF ReactBuilds, Fits, PlanOf
  <1> QED
    BY <1>2, <1>3, <1>4, <1>5, <1>6 DEF OneComposition, First

-----------------------------------------------------------------------------
\* The last of a finite row of places.
LEMMA LastPlace ==
    ASSUME NEW n \in Nat, NEW places \in SUBSET (1..n), places # {}
    PROVE  Max(places) \in places
  <1> DEFINE T == {n - k : k \in places}
  <1>0. \A k \in places : n - k \in Nat /\ k \in Int
    OBVIOUS
  <1>1. T \in SUBSET Nat /\ T # {}
    BY <1>0
  <1>2. PICK t \in T : \A u \in T : t <= u
    BY <1>1, LeastNatural
  <1>3. PICK k \in places : t = n - k
    BY <1>2
  <1>4. ASSUME NEW j \in places PROVE k >= j
    <2>1. n - j \in T /\ n - k <= n - j
      BY <1>2, <1>3
    <2> QED
      BY <1>0, <1>3, <2>1
  <1> QED
    BY <1>3, <1>4 DEF Max

LEMMA SourceIsFragment ==
    ASSUME NEW ws \in Workspaces, NEW config, NEW env, NEW scope,
           SourceFragment(ws, config, env, scope) # Nothing
    PROVE  IsFragment(SourceFragment(ws, config, env, scope))
  <1> DEFINE files == Readable(ws, SourceDirs(config, env), scope)
             row == ws.configs
  <1>1. files # {} /\ SourceFragment(ws, config, env, scope) = row[Max(files)].files[scope]
    BY DEF SourceFragment
  <1>2. Len(row) \in Nat /\ DOMAIN row = 1..Len(row)
    BY FragmentsAssumption
  <1>3. files \in SUBSET (1..Len(row))
    BY <1>2 DEF Readable
  <1>4. Max(files) \in files
    BY <1>1, <1>2, <1>3, LastPlace
  <1>5. scope \in DOMAIN row[Max(files)].files /\ row[Max(files)].files[scope] \notin {Nothing, Broken}
        /\ Max(files) \in DOMAIN row
    BY <1>4 DEF Readable
  <1>6. IsFragment(row[Max(files)].files[scope])
    BY <1>5, FragmentsAssumption
  <1> QED
    BY <1>1, <1>6

LEMMA FragmentIsFragment ==
    ASSUME NEW ws \in Workspaces, NEW config, NEW env, NEW scope, NEW schema,
           FragmentOf(ws, config, env, scope, schema) # Nothing
    PROVE  IsFragment(FragmentOf(ws, config, env, scope, schema))
  <1> DEFINE left == SourceFragment(ws, config, env, scope)
             right == EnvFragment(config, env, scope, schema)
             below == IF left = Nothing THEN NoFragment ELSE left
             merged == [public  |-> Over(right.public, below.public),
                        private |-> Over(right.private, below.private),
                        extra   |-> Nothing]
  <1>1. FragmentOf(ws, config, env, scope, schema) = IF right = Nothing THEN left ELSE merged
    BY DEF FragmentOf, MergeFragment
  <1>2. IsFragment(merged)
    BY ExtrasAssumption DEF IsFragment, Over, Visibilities
  <1> HIDE DEF left, right, merged
  <1>3. CASE right = Nothing
    BY <1>1, <1>3, SourceIsFragment DEF left
  <1>4. CASE right # Nothing
    BY <1>1, <1>2, <1>4
  <1> QED
    BY <1>3, <1>4

-----------------------------------------------------------------------------
\* What is resolved is enabled and has one row an id; the configuration is of these rows.

\* An outcome composes only what is enabled.
LEMMA OutcomeEnabled ==
    ASSUME NEW s
    PROVE  OutcomeOf(s).composed \subseteq s.enabled
  <1> DEFINE seeds == Explicit(s)
             settlement == Settlement(s, seeds)
             taken == Composition(s, seeds, settlement.slots)
  <1>1. OutcomeOf(s) = OutcomeFrom(s, seeds, settlement)
    BY DEF OutcomeOf
  <1> HIDE DEF settlement, seeds
  <1>2. CASE OutcomeOf(s) = Refused
    BY <1>2 DEF Refused
  <1>3. CASE OutcomeOf(s) # Refused
    <2>1. seeds \subseteq s.enabled /\ OutcomeOf(s) = SettledOutcome(s, settlement.slots, taken)
      BY <1>1, <1>3 DEF OutcomeFrom
    <2>2. taken \subseteq s.enabled
      BY <2>1, CompositionEnabled
    <2> HIDE DEF taken
    <2>3. OutcomeOf(s).composed = taken
      BY <1>3, <2>1 DEF SettledOutcome
    <2> QED
      BY <2>2, <2>3
  <1> QED
    BY <1>2, <1>3

LEMMA EntryOfId ==
    ASSUME NEW items, NEW id \in Present(items)
    PROVE  EntryOf(items, id) \in items /\ EntryOf(items, id).id = id
  BY DEF EntryOf, Present

Unique(items) == \A e, f \in items : e.id = f.id => e = f

\* What an answer of the one resolution is.
LEMMA ResolveIs ==
    ASSUME NEW items, NEW groups, NEW input, Resolve(items, groups, input) # Nothing
    PROVE  LET resolution == Resolve(items, groups, input)
               seed       == SeedOf(input)
               outcome    == OutcomeOf(SelectionAsked(items, groups, seed))
           IN  /\ seed # Nothing /\ resolution.seed = seed
               /\ resolution.discovered = items
               /\ resolution.slots = outcome.slots
               /\ resolution.items = {EntryOf(items, id) : id \in outcome.composed}
               /\ outcome.composed \subseteq Enabled(items)
               /\ Composed(resolution) = outcome.composed
               /\ Unique(items)
               /\ resolution.items \subseteq items
  <1> DEFINE resolution == Resolve(items, groups, input)
             seed == SeedOf(input)
             asked == SelectionAsked(items, groups, seed)
             outcome == OutcomeOf(asked)
             unmet == UnmetDependency(asked, outcome.slots, outcome.composed)
  <1>1. seed # Nothing /\ resolution = ResolveAsked(items, input, seed, asked)
    BY DEF Resolve, ResolveSeed
  <1>2. resolution = Answer(items, seed, asked, outcome) /\ Unique(items)
    BY <1>1 DEF ResolveAsked, Unique
  <1>3. outcome.composed \subseteq Enabled(items)
    BY OutcomeEnabled DEF SelectionAsked, FieldOf
  <1>4. resolution = IF outcome = Refused \/ unmet THEN Nothing
                     ELSE [seed |-> seed, discovered |-> items,
                           items |-> {EntryOf(items, id) : id \in outcome.composed},
                           slots |-> outcome.slots]
    BY <1>2 DEF Answer
  <1> HIDE DEF outcome, seed, unmet
  <1>5. /\ resolution.seed = seed /\ resolution.discovered = items /\ resolution.slots = outcome.slots
        /\ resolution.items = {EntryOf(items, id) : id \in outcome.composed}
    BY <1>4
  <1>6. Enabled(items) \subseteq Present(items)
    BY DEF Enabled, Present
  <1>7. \A id \in outcome.composed : EntryOf(items, id) \in items /\ EntryOf(items, id).id = id
    BY <1>3, <1>6, EntryOfId
  <1>8. Composed(resolution) = outcome.composed
    BY <1>5, <1>7 DEF Composed, Present
  <1> QED
    BY <1>1, <1>2, <1>3, <1>5, <1>7, <1>8 DEF seed, outcome

\* What a host composes is an answer of the one resolution.
LEMMA SelectionIsResolved ==
    ASSUME NEW ws, NEW virtual, NEW o, CapabilitySelection(ws, virtual, o) # Nothing
    PROVE  \E items, groups : CapabilitySelection(ws, virtual, o) = Resolve(items, groups, o.seed)
  BY DEF CapabilitySelection, SelectionAmong, ResolveCapabilities

LEMMA RunIsResolved ==
    ASSUME NEW ws, NEW o, RunSelection(ws, o) # Nothing
    PROVE  \E items, groups : RunSelection(ws, o) = Resolve(items, groups, o.seed)
  BY DEF RunSelection, SelectionAmong, ResolveCapabilities

\* So is what a build is composed of.
LEMMA CurrentIsResolved ==
    ASSUME ReactInv, Building
    PROVE  \E items, groups :
                /\ react.current = Resolve(items, groups, react.options.seed)
                /\ react.current # Nothing
  <1>1. ReactHeld /\ ReactBuilds /\ Hosted
    BY DEF ReactInv, Building, Hosted
  <1>2. CASE react.held # Nothing /\ react.options.run
    <2>1. react.current = RunSelection(react.before, react.options) /\ react.current # Nothing
      BY <1>1, <1>2 DEF ReactHeld, ReactBuilds, First
    <2> QED
      BY <2>1, RunIsResolved
  <1>3. CASE react.held # Nothing /\ ~react.options.run
    <2>1. /\ react.current = CapabilitySelection(react.before, react.virtual, react.options)
          /\ react.current # Nothing
      BY <1>1, <1>3 DEF ReactHeld, ReactBuilds, First
    <2> QED
      BY <2>1, SelectionIsResolved
  <1>4. CASE react.held = Nothing
    <2>1. /\ react.current = CapabilitySelection(react.seen, react.virtual, react.options)
          /\ react.current # Nothing
      BY <1>1, <1>4 DEF ReactBuilds
    <2> QED
      BY <2>1, SelectionIsResolved
  <1> QED
    BY <1>2, <1>3, <1>4

-----------------------------------------------------------------------------
\* The one with the namespaces is the configuration unless it is switched off.
LEMMA ConfigIs ==
    ASSUME NEW ws, NEW capabilities, NEW config, config.enabled,
           CreateConfig(ws, capabilities, config) # Nothing
    PROVE  LET fragments == Fragments(ws, capabilities, config)
           IN  /\ CreateConfig(ws, capabilities, config) = Namespaces(fragments)
               /\ \A c \in capabilities : ~FailsValidation(config, c, SchemaOf(ws, c), fragments[c.id])
  <1> DEFINE fragments == Fragments(ws, capabilities, config)
             refused == \E c \in capabilities :
                            SchemaOf(ws, c) = Broken \/ FailsValidation(config, c, SchemaOf(ws, c), fragments[c.id])
             all == Namespaces(fragments)
  <1>1. CreateConfig(ws, capabilities, config) =
            IF ~config.enabled THEN NoConfig ELSE IF refused THEN Nothing ELSE all
    BY DEF CreateConfig
  <1> HIDE DEF all, refused
  <1>2. ~refused /\ CreateConfig(ws, capabilities, config) = all
    BY <1>1
  <1> QED
    BY <1>2 DEF all, refused

\* What takes part has a row, which holds nothing or a fragment.
LEMMA FragmentsAre ==
    ASSUME NEW ws \in Workspaces, NEW capabilities, NEW config
    PROVE  LET fragments == Fragments(ws, capabilities, config)
           IN  /\ DOMAIN fragments = Present(capabilities)
               /\ \A id \in Present(capabilities) : fragments[id] = Nothing \/ IsFragment(fragments[id])
  <1> DEFINE env == RuntimeEnv(ws, config)
             row(id) == FragmentOf(ws, config, env, id, SchemaOf(ws, EntryOf(capabilities, id)))
  <1>1. Fragments(ws, capabilities, config) = [id \in Present(capabilities) |-> row(id)]
    BY DEF Fragments
  <1>2. ASSUME NEW id \in Present(capabilities), row(id) # Nothing PROVE IsFragment(row(id))
    BY <1>2, FragmentIsFragment
  <1> HIDE DEF row
  <1> QED
    BY <1>1, <1>2

\* What the namespaces hold of a scope the private values of "public" do not meet.
LEMMA NamespacesAre ==
    ASSUME NEW fragments
    PROVE  LET config == Namespaces(fragments)
               spilt  == DOMAIN Spilt(fragments)
               filled(v) == {scope \in DOMAIN fragments :
                                fragments[scope] # Nothing /\ DOMAIN fragments[scope][v] # {}}
           IN  /\ \A v \in Visibilities : DOMAIN config[v] \subseteq filled(v)
               /\ DOMAIN config.stray \subseteq spilt
               /\ filled("public") \ spilt \subseteq DOMAIN config.public
               /\ \A scope \in DOMAIN config.public \ spilt : config.public[scope] = fragments[scope].public
               /\ filled("private") \ {"public"} = DOMAIN config.private
               /\ \A scope \in DOMAIN config.private : config.private[scope] = fragments[scope].private
  <1> DEFINE filled(v) == {scope \in DOMAIN fragments :
                                fragments[scope] # Nothing /\ DOMAIN fragments[scope][v] # {}}
             spilt == Spilt(fragments)
             shown == filled("public") \ (DOMAIN spilt \ Later)
             visible == [scope \in shown |-> IF scope \in DOMAIN spilt
                                              THEN Over(fragments[scope].public, Spread(spilt[scope]))
                                              ELSE fragments[scope].public]
             hidden == [scope \in filled("private") \ {"public"} |-> fragments[scope].private]
             stray == [key \in DOMAIN spilt \ shown |-> spilt[key]]
  <1>1. Namespaces(fragments) = [public |-> visible, private |-> hidden, stray |-> stray]
    BY DEF Namespaces
  <1>2. /\ DOMAIN visible = shown
        /\ \A scope \in shown \ DOMAIN spilt : visible[scope] = fragments[scope].public
    OBVIOUS
  <1>3. /\ DOMAIN hidden = filled("private") \ {"public"}
        /\ \A scope \in DOMAIN hidden : hidden[scope] = fragments[scope].private
    OBVIOUS
  <1>4. DOMAIN stray \subseteq DOMAIN spilt
    OBVIOUS
  <1>5. shown \subseteq filled("public") /\ filled("public") \ DOMAIN spilt \subseteq shown
    OBVIOUS
  <1> HIDE DEF visible, hidden, stray, shown, filled, spilt
  <1>6. /\ Namespaces(fragments).public = visible
        /\ Namespaces(fragments).private = hidden
        /\ Namespaces(fragments).stray = stray
    BY <1>1
  <1>7. \A v \in Visibilities : DOMAIN Namespaces(fragments)[v] \subseteq filled(v)
    BY <1>2, <1>3, <1>5, <1>6 DEF Visibilities
  <1>8. /\ filled("public") \ DOMAIN spilt \subseteq DOMAIN Namespaces(fragments).public
        /\ \A scope \in DOMAIN Namespaces(fragments).public \ DOMAIN spilt :
                Namespaces(fragments).public[scope] = fragments[scope].public
    BY <1>2, <1>5, <1>6
  <1> QED
    BY <1>3, <1>4, <1>6, <1>7, <1>8 DEF filled, spilt

\* A scope the private values of "public" do not meet reads what its fragment holds.
LEMMA ScopesRead ==
    ASSUME NEW ws \in Workspaces, NEW capabilities, NEW config, NEW id \in Present(capabilities),
           id \notin DOMAIN Spilt(Fragments(ws, capabilities, config)),
           id = "public" => DOMAIN Spilt(Fragments(ws, capabilities, config)) = {}
    PROVE  LET fragments == Fragments(ws, capabilities, config)
               emitted   == Namespaces(fragments)
               module    == [public |-> emitted.public, stray |-> emitted.stray]
           IN  /\ ScopeOf(module, "public", id) =
                        IF fragments[id] = Nothing THEN NoValues ELSE fragments[id].public
               /\ ScopeOf(emitted, "private", id) =
                        IF fragments[id] = Nothing THEN NoValues ELSE fragments[id].private
  <1> DEFINE fragments == Fragments(ws, capabilities, config)
             emitted == Namespaces(fragments)
             module == [public |-> emitted.public, stray |-> emitted.stray]
             spilt == DOMAIN Spilt(fragments)
             filled(v) == {scope \in DOMAIN fragments :
                                fragments[scope] # Nothing /\ DOMAIN fragments[scope][v] # {}}
  <1>1. DOMAIN fragments = Present(capabilities) /\ (fragments[id] = Nothing \/ IsFragment(fragments[id]))
    BY FragmentsAre
  <1>2. /\ DOMAIN emitted.public \subseteq filled("public") /\ DOMAIN emitted.private \subseteq filled("private")
        /\ DOMAIN emitted.stray \subseteq spilt
        /\ filled("public") \ spilt \subseteq DOMAIN emitted.public
        /\ \A scope \in DOMAIN emitted.public \ spilt : emitted.public[scope] = fragments[scope].public
        /\ filled("private") \ {"public"} = DOMAIN emitted.private
        /\ \A scope \in DOMAIN emitted.private : emitted.private[scope] = fragments[scope].private
    BY NamespacesAre DEF Visibilities
  <1>3. id = "public" /\ fragments[id] # Nothing => Spilt(fragments) = fragments[id].private
    BY <1>1 DEF Spilt
  <1>4. id \notin spilt /\ (id = "public" => spilt = {})
    OBVIOUS
  <1> HIDE DEF fragments, emitted, spilt
  <1>5. fragments[id] # Nothing => \A v \in Visibilities :
                DOMAIN fragments[id][v] = {} => fragments[id][v] = NoValues
    BY <1>1 DEF IsFragment, NoValues
  <1>6. module.public = emitted.public /\ module.stray = emitted.stray
    OBVIOUS
  <1> HIDE DEF module
  <1>7. ScopeOf(module, "public", id) = IF fragments[id] = Nothing THEN NoValues ELSE fragments[id].public
    <2>1. id \notin DOMAIN module.stray
      BY <1>2, <1>4, <1>6
    <2>2. CASE id \in DOMAIN emitted.public
      BY <1>2, <1>4, <1>6, <2>2 DEF ScopeOf
    <2>3. CASE id \notin DOMAIN emitted.public
      <3>1. ScopeOf(module, "public", id) = NoValues
        BY <1>6, <2>1, <2>3 DEF ScopeOf
      <3>2. fragments[id] = Nothing \/ DOMAIN fragments[id].public = {}
        BY <1>1, <1>2, <1>4, <2>3
      <3> QED
        BY <1>5, <3>1, <3>2 DEF Visibilities
    <2> QED
      BY <2>2, <2>3
  <1>8. ScopeOf(emitted, "private", id) = IF fragments[id] = Nothing THEN NoValues ELSE fragments[id].private
    <2>1. CASE id \in DOMAIN emitted.private
      BY <1>2, <2>1 DEF ScopeOf
    <2>2. CASE id \notin DOMAIN emitted.private
      <3>1. ScopeOf(emitted, "private", id) = NoValues
        BY <2>2 DEF ScopeOf
      <3>2. fragments[id] = Nothing \/ DOMAIN fragments[id].private = {}
        BY <1>1, <1>2, <1>3, <1>4, <2>2 DEF spilt
      <3> QED
        BY <1>5, <3>1, <3>2 DEF Visibilities
    <2> QED
      BY <2>1, <2>2
  <1> QED
    BY <1>7, <1>8 DEF module, emitted, fragments

LEMMA InvEmittedChecked == ReactInv => EmittedChecked
  <1> SUFFICES ASSUME ReactInv, react.phase = "built", react.options.config.enabled PROVE EmittedChecked
    BY DEF EmittedChecked
  <1> DEFINE capabilities == react.loader.capabilities
             config == react.options.config
             ws == react.read
             fragments == Fragments(ws, capabilities, config)
             spilt == DOMAIN Spilt(fragments)
             emitted == react.loader.config
             public(c) == ScopeOf(ConfigModule(react.loader), "public", c.id)
             private(c) == ScopeOf(ServerConfigModule(react.loader, TRUE), "private", c.id)
             whole(c, extra) == [public |-> public(c), private |-> private(c), extra |-> extra]
  <1>1. ReactBuilds /\ Building
    BY DEF ReactInv, Building
  <1>2. /\ ws \in Workspaces
        /\ emitted = Namespaces(fragments)
        /\ \A c \in capabilities : ~FailsValidation(config, c, SchemaOf(ws, c), fragments[c.id])
    BY <1>1, ConfigIs DEF ReactBuilds
  <1>3. DOMAIN fragments = Present(capabilities)
        /\ \A id \in Present(capabilities) : fragments[id] = Nothing \/ IsFragment(fragments[id])
    BY <1>2, FragmentsAre
  <1>4. /\ \A v \in Visibilities : DOMAIN emitted[v] \subseteq Present(capabilities)
        /\ DOMAIN emitted.stray \subseteq spilt
    BY <1>2, <1>3, NamespacesAre
  <1>5. ASSUME config.validation # Nothing, NEW c \in capabilities,
               c.id \notin spilt, c.id = "public" => spilt = {},
               SchemaOf(ws, c) # Nothing,
               Policy(config, c) = "startup"
                  \/ (Policy(config, c) = "optional" /\ whole(c, Nothing) # NoFragment)
        PROVE  \E extra \in Extras : Accepts(SchemaOf(ws, c), whole(c, extra))
    <2> DEFINE fragment == fragments[c.id]
    <2>1. c.id \in Present(capabilities)
      BY DEF Present
    <2>2. /\ public(c) = IF fragment = Nothing THEN NoValues ELSE fragment.public
          /\ private(c) = IF fragment = Nothing THEN NoValues ELSE fragment.private
      BY <1>2, <1>5, <2>1, ScopesRead DEF ConfigModule, ServerConfigModule
    <2>3. fragment = Nothing \/ IsFragment(fragment)
      BY <1>3, <2>1
    <2> HIDE DEF public, private, fragments, capabilities
    <2>4. ShouldValidate(Policy(config, c), SchemaOf(ws, c), fragment)
      BY <1>5, <2>2 DEF ShouldValidate, NoFragment
    <2>5. Accepts(SchemaOf(ws, c), IF fragment = Nothing THEN NoFragment ELSE fragment)
      BY <1>2, <1>5, <2>4 DEF FailsValidation
    <2>6. CASE fragment = Nothing
      <3>1. whole(c, Nothing) = NoFragment
        BY <2>2, <2>6 DEF NoFragment
      <3> QED
        BY <2>5, <2>6, <3>1, ExtrasAssumption
    <2>7. CASE fragment # Nothing
      <3>1. fragment.extra \in Extras /\ fragment = whole(c, fragment.extra)
        BY <2>2, <2>3, <2>7 DEF IsFragment
      <3> QED
        BY <2>5, <2>7, <3>1
    <2> QED
      BY <2>6, <2>7
  <1> QED
    BY <1>4, <1>5 DEF EmittedChecked

-----------------------------------------------------------------------------
\* The flag of the command line.

\* The first key of the command line is the flag, and no key stands before it.
LEMMA FlagFirst ==
    ASSUME NEW s, 1 \in DOMAIN CliKeys(s)
    PROVE  /\ CliKeys(s)[1] = Flag(IF s.cliKeys = Nothing THEN s.key ELSE s.cliKeys[1].key)
           /\ \A k \in DOMAIN CliKeys(s) : k \in Int /\ 1 <= k
  <1>1. CASE s.cliKeys = Nothing
    <2>1. CliKeys(s) = <<Flag(s.key)>>
      BY <1>1 DEF CliKeys
    <2> QED
      BY <1>1, <2>1
  <1>2. CASE s.cliKeys # Nothing
    <2>1. CliKeys(s) =
            [n \in 1..2 * Len(s.cliKeys) |->
                IF n % 2 = 1 THEN Flag(s.cliKeys[(n + 1) \div 2].key) ELSE s.cliKeys[(n + 1) \div 2]]
      BY <1>2 DEF CliKeys
    <2>2. \A k \in DOMAIN CliKeys(s) : k \in Int /\ 1 <= k
      BY <2>1
    <2>3. (1 + 1) \div 2 = 1 /\ 1 % 2 = 1
      OBVIOUS
    <2>4. CliKeys(s)[1] = Flag(s.cliKeys[1].key)
      BY <2>1, <2>3
    <2> QED
      BY <1>2, <2>2, <2>4
  <1> QED
    BY <1>1, <1>2

LEMMA FirstGivenIs ==
    ASSUME NEW values, 1 \in DOMAIN values, \A k \in DOMAIN values : k \in Int /\ 1 <= k,
           ~Blank(values[1])
    PROVE  FirstGiven(values) = values[1]
  <1> DEFINE given == {k \in DOMAIN values : ~Blank(values[k])}
  <1>1. 1 \in given /\ \A k \in given : k \in Int /\ 1 <= k
    OBVIOUS
  <1> HIDE DEF given
  <1>2. \A k \in given : (\A j \in given : k <= j) => k = 1
    BY <1>1
  <1>3. (CHOOSE k \in given : \A j \in given : k <= j) = 1
    BY <1>1, <1>2
  <1> QED
    BY <1>1, <1>3 DEF FirstGiven, given

\* A flag that was given a value is what the seed is read from.
LEMMA FlagIsRead ==
    ASSUME NEW s, 1 \in DOMAIN CliKeys(s),
           ~Blank(CliValue(s.argv, Flag(IF s.cliKeys = Nothing THEN s.key ELSE s.cliKeys[1].key)))
    PROVE  SeedText(s) = CliValue(s.argv, Flag(IF s.cliKeys = Nothing THEN s.key ELSE s.cliKeys[1].key))
  <1> DEFINE values == [k \in DOMAIN CliKeys(s) |-> CliValue(s.argv, CliKeys(s)[k])]
             key == IF s.cliKeys = Nothing THEN s.key ELSE s.cliKeys[1].key
  <1>1. CliKeys(s)[1] = Flag(key) /\ \A k \in DOMAIN CliKeys(s) : k \in Int /\ 1 <= k
    BY FlagFirst
  <1>2. values[1] = CliValue(s.argv, Flag(key))
    BY <1>1
  <1>3. 1 \in DOMAIN values /\ \A k \in DOMAIN values : k \in Int /\ 1 <= k
    BY <1>1
  <1> HIDE DEF values
  <1>4. FirstGiven(values) = values[1]
    BY <1>2, <1>3, FirstGivenIs
  <1>5. values[1] # <<>>
    BY <1>2 DEF Blank
  <1> QED
    BY <1>2, <1>4, <1>5 DEF SeedText, values

LEMMA InvFlagHeard == ReactInv => FlagHeard
  <1> DEFINE seed == react.options.seed
             key == IF seed.cliKeys = Nothing THEN seed.key ELSE seed.cliKeys[1].key
             value == CliValue(seed.argv, Flag(key))
  <1> SUFFICES ASSUME ReactInv, react.phase = "built", seed.selectionSeed, 1 \in DOMAIN CliKeys(seed),
                      SpecsOf(seed.selected) = {}, ~Blank(value), SpecsIn(value) # {}
               PROVE  react.loader.selected = {IdOf(spec) : spec \in SpecsIn(value)}
    BY DEF FlagHeard
  <1>1. SeedText(seed) = value
    BY FlagIsRead
  <1> HIDE DEF value
  <1>2. Requested(seed) = SpecsIn(value)
    BY <1>1 DEF Requested
  <1>3. SeedOf(seed) = SeedFrom(seed, SpecsIn(value), SpecsIn(value), SpecsOf(seed.baseDescriptors))
    BY <1>2 DEF SeedOf
  <1>4. ReactBuilds /\ Building /\ Taken
    BY DEF ReactInv, Building, Taken
  <1>5. SeedOf(seed) # Nothing /\ react.current.seed = SeedOf(seed)
    BY <1>4, CurrentIsResolved, ResolveIs
  <1>6. SeedOf(seed).selected = {IdOf(spec) : spec \in SpecsIn(value)}
    BY <1>3, <1>5 DEF SeedFrom
  <1> QED
    BY <1>4, <1>5, <1>6 DEF ReactBuilds

-----------------------------------------------------------------------------
\* The steps of a Nuxt application, and of both hosts.

\* Who refuses keeps its options.
LEMMA RefuseNuxt ==
    ASSUME NuxtInv, nuxt.phase # "absent", Refuse, UNCHANGED <<disk, edits>>
    PROVE  NuxtInv'
  <1>1. NuxtShape /\ NuxtOptions
    BY DEF NuxtInv
  <1>2. DOMAIN nuxt' = NuxtFields /\ nuxt'.phase = "refused" /\ nuxt'.options = nuxt.options
    BY <1>1 DEF Refuse, NuxtShape, NuxtFields
  <1>3. NuxtShape' /\ NuxtOptions'
    BY <1>1, <1>2 DEF NuxtShape, NuxtOptions
  <1>4. ~Started' /\ ~ModuleComposed' /\ ~Mounted' /\ nuxt'.phase \notin {"mounted", "set up"}
    BY <1>2 DEF Started, ModuleComposed, Mounted
  <1> QED
    BY <1>3, <1>4 DEF NuxtInv, NuxtBootstraps, NuxtMounts, NuxtUnedited

LEMMA StartNuxt ==
    ASSUME NuxtInv, NuxtStart, disk \in Workspaces
    PROVE  NuxtInv'
  <1> DEFINE o == nuxt.options
             bootstrap == IF o.shared THEN Bootstrap(disk, o) ELSE Nothing
             paths == IF o.shared THEN LayerPaths(bootstrap) ELSE <<>>
  <1>1. nuxt.phase = "start" /\ Configured(o, bootstrap) /\ UNCHANGED <<disk, edits>>
    BY DEF NuxtStart
  <1>2. NuxtShape /\ NuxtOptions
    BY DEF NuxtInv
  <1>3. CASE o.shared /\ bootstrap = Nothing
    <2>1. Refuse
      BY <1>1, <1>3 DEF Configured
    <2> QED
      BY <1>1, <2>1, RefuseNuxt
  <1>4. CASE ~(o.shared /\ bootstrap = Nothing)
    <2> DEFINE row == <<Root(ProjectDir)>> \o o.own \o paths
    <2>1. nuxt' = [nuxt EXCEPT !.phase = "configured", !.before = disk, !.bootstrap = bootstrap,
                               !.layers = row, !.public = o.host]
      BY <1>1, <1>4 DEF Configured
    <2>2. o.shared => bootstrap # Nothing /\ bootstrap = Bootstrap(disk, o)
      BY <1>4
    <2>3. row = <<Root(ProjectDir)>> \o o.own \o (IF o.shared THEN LayerPaths(bootstrap) ELSE <<>>)
      OBVIOUS
    <2> HIDE DEF bootstrap, row
    <2>4. /\ DOMAIN nuxt' = NuxtFields /\ nuxt'.phase = "configured" /\ nuxt'.options = o
          /\ nuxt'.before = disk /\ nuxt'.bootstrap = bootstrap /\ nuxt'.layers = row
          /\ nuxt'.public = o.host
      BY <1>2, <2>1 DEF NuxtShape, NuxtFields
    <2>5. NuxtShape' /\ NuxtOptions'
      BY <1>1, <1>2, <2>4 DEF NuxtShape, NuxtOptions
    <2>6. NuxtBootstraps'
      BY <1>1, <2>2, <2>4 DEF NuxtBootstraps, Started, ModuleComposed
    <2>7. row = ConfigRow(nuxt')
      BY <2>3, <2>4 DEF ConfigRow
    <2>8. NuxtMounts'
      BY <2>4, <2>7 DEF NuxtMounts, Started, Mounted
    <2>9. NuxtUnedited'
      BY <1>1, <2>4 DEF NuxtUnedited, ModuleComposed
    <2> QED
      BY <2>5, <2>6, <2>8, <2>9 DEF NuxtInv
  <1> QED
    BY <1>3, <1>4

LEMMA ComposeNuxt ==
    ASSUME NuxtInv, NuxtCompose, disk \in Workspaces
    PROVE  NuxtInv'
  <1> DEFINE o == nuxt.options
             bootstrap == ModuleBootstrap(nuxt, disk)
             plugin == IF o.contributions /\ bootstrap # Nothing THEN ContributionPlugin(disk, bootstrap) ELSE Nothing
  <1>1. nuxt.phase = "configured" /\ ComposedFrom(o, bootstrap, plugin) /\ UNCHANGED <<disk, edits>>
    BY DEF NuxtCompose, ComposedWith
  <1>2. /\ NuxtShape /\ NuxtOptions /\ NuxtBootstraps /\ NuxtMounts
        /\ (edits = 0 => NuxtUnedited) /\ Started /\ ~Mounted
    BY <1>1 DEF NuxtInv, Started, Mounted
  <1>3. CASE (AsksBootstrap(o) /\ bootstrap = Nothing) \/ (o.contributions /\ plugin = Nothing)
    <2>1. Refuse
      BY <1>1, <1>3 DEF ComposedFrom, AsksBootstrap
    <2> QED
      BY <1>1, <2>1, RefuseNuxt
  <1>4. CASE (AsksBootstrap(o) => bootstrap # Nothing) /\ (o.contributions => plugin # Nothing)
    <2>1. nuxt' = [nuxt EXCEPT !.phase = "composed", !.bootstrap = bootstrap, !.seen = disk, !.plugin = plugin]
      BY <1>1, <1>4 DEF ComposedFrom, AsksBootstrap
    <2>2. /\ o.shared => bootstrap = nuxt.bootstrap
          /\ ~o.shared /\ bootstrap # Nothing => bootstrap = Bootstrap(disk, o)
      BY DEF ModuleBootstrap
    <2>3. o.contributions /\ bootstrap # Nothing => plugin # Nothing /\ plugin = ContributionPlugin(disk, bootstrap)
      BY <1>4
    <2> HIDE DEF bootstrap, plugin
    <2>4. /\ DOMAIN nuxt' = NuxtFields /\ nuxt'.phase = "composed" /\ nuxt'.options = o
          /\ nuxt'.before = nuxt.before /\ nuxt'.bootstrap = bootstrap /\ nuxt'.layers = nuxt.layers
          /\ nuxt'.public = nuxt.public /\ nuxt'.seen = disk /\ nuxt'.plugin = plugin
      BY <1>2, <2>1 DEF NuxtShape, NuxtFields
    <2>5. NuxtShape' /\ NuxtOptions'
      BY <1>1, <1>2, <2>4 DEF NuxtShape, NuxtOptions
    <2>6. NuxtBootstraps'
      BY <1>2, <1>4, <2>2, <2>3, <2>4 DEF NuxtBootstraps
    <2>7. ConfigRow(nuxt') = ConfigRow(nuxt)
      BY <2>2, <2>4 DEF ConfigRow
    <2>8. NuxtMounts'
      BY <1>2, <2>4, <2>7 DEF NuxtMounts, Mounted
    <2>9. edits' = 0 => NuxtUnedited'
      BY <1>1, <1>2, <2>4 DEF NuxtUnedited
    <2> QED
      BY <2>5, <2>6, <2>8, <2>9 DEF NuxtInv
  <1> QED
    BY <1>3, <1>4

LEMMA MountNuxt ==
    ASSUME NuxtInv, NuxtMount, disk \in Workspaces
    PROVE  NuxtInv'
  <1> DEFINE o == nuxt.options
             b == nuxt.bootstrap
             layers == WithFileOnly(nuxt.layers, b)
             reported == IF o.reporter THEN LogReport(o, b) ELSE Nothing
             public == Over(PublishedSlots(o, b), Over(b.public, nuxt.public))
  <1>1. /\ nuxt.phase = "composed" /\ UNCHANGED <<disk, edits>>
        /\ nuxt' = IF b = Nothing THEN [nuxt EXCEPT !.phase = "mounted"]
                   ELSE [nuxt EXCEPT !.phase = "mounted", !.reported = reported,
                                     !.layers = layers, !.public = public]
    BY DEF NuxtMount
  <1>2. /\ NuxtShape /\ NuxtOptions /\ NuxtBootstraps /\ NuxtMounts
        /\ (edits = 0 => NuxtUnedited) /\ Started /\ ModuleComposed /\ ~Mounted
    BY <1>1 DEF NuxtInv, Started, ModuleComposed, Mounted
  <1>3. nuxt.layers = ConfigRow(nuxt) /\ nuxt.public = o.host
    BY <1>2 DEF NuxtMounts
  <1>4. layers = WithFileOnly(ConfigRow(nuxt), b) /\ public = ToldBy(o, b)
    BY <1>3 DEF ToldBy
  <1> HIDE DEF layers, reported, public
  <1>5. /\ DOMAIN nuxt' = NuxtFields /\ nuxt'.phase = "mounted" /\ nuxt'.options = o
        /\ nuxt'.before = nuxt.before /\ nuxt'.bootstrap = b
        /\ nuxt'.seen = nuxt.seen /\ nuxt'.plugin = nuxt.plugin
        /\ b # Nothing => nuxt'.layers = layers /\ nuxt'.reported = reported /\ nuxt'.public = public
    BY <1>1, <1>2 DEF NuxtShape, NuxtFields
  <1>6. NuxtShape' /\ NuxtOptions'
    BY <1>1, <1>2, <1>5 DEF NuxtShape, NuxtOptions
  <1>7. NuxtBootstraps'
    BY <1>2, <1>5 DEF NuxtBootstraps
  <1>8. ConfigRow(nuxt') = ConfigRow(nuxt)
    BY <1>5 DEF ConfigRow
  <1>9. Mounted' /\ nuxt'.phase # "set up"
    BY <1>5 DEF Mounted
  <1>10. NuxtMounts'
    BY <1>4, <1>5, <1>8, <1>9 DEF NuxtMounts, reported
  <1>11. edits' = 0 => NuxtUnedited'
    BY <1>1, <1>2, <1>5 DEF NuxtUnedited
  <1> QED
    BY <1>6, <1>7, <1>10, <1>11 DEF NuxtInv

LEMMA ApplyConfigNuxt ==
    ASSUME NuxtInv, NuxtApplyConfig, disk \in Workspaces
    PROVE  NuxtInv'
  <1> DEFINE o == nuxt.options
             b == nuxt.bootstrap
             config == ModuleConfig(disk, o)
             imports == RegistersImports(o, config)
             assets == ServesPublicFiles(disk, config)
             public == IF config = Nothing THEN nuxt.public
                       ELSE Over(ScopeKeys(disk, config, b), Over(ComposableDefaults(config), nuxt.public))
  <1>1. /\ nuxt.phase = "mounted" /\ UNCHANGED <<disk, edits>>
        /\ IF ConfigRefused(disk, config, b) THEN Refuse
           ELSE nuxt' = [nuxt EXCEPT !.phase = "set up", !.read = disk, !.imports = imports,
                                     !.assets = assets, !.public = public]
    BY DEF NuxtApplyConfig
  <1>2. /\ NuxtShape /\ NuxtOptions /\ NuxtBootstraps /\ NuxtMounts
        /\ (edits = 0 => NuxtUnedited) /\ Started /\ ModuleComposed /\ Mounted
    BY <1>1 DEF NuxtInv, Started, ModuleComposed, Mounted
  <1>3. CASE ConfigRefused(disk, config, b)
    BY <1>1, <1>3, RefuseNuxt
  <1>4. CASE ~ConfigRefused(disk, config, b)
    <2>1. nuxt' = [nuxt EXCEPT !.phase = "set up", !.read = disk, !.imports = imports,
                               !.assets = assets, !.public = public]
      BY <1>1, <1>4
    <2> HIDE DEF imports, assets, public
    <2>2. /\ DOMAIN nuxt' = NuxtFields /\ nuxt'.phase = "set up" /\ nuxt'.options = o
          /\ nuxt'.before = nuxt.before /\ nuxt'.bootstrap = b /\ nuxt'.read = disk
          /\ nuxt'.seen = nuxt.seen /\ nuxt'.plugin = nuxt.plugin
          /\ nuxt'.layers = nuxt.layers /\ nuxt'.reported = nuxt.reported /\ nuxt'.public = public
      BY <1>2, <2>1 DEF NuxtShape, NuxtFields
    <2>3. NuxtShape' /\ NuxtOptions'
      BY <1>1, <1>2, <2>2 DEF NuxtShape, NuxtOptions
    <2>4. NuxtBootstraps'
      BY <1>2, <2>2 DEF NuxtBootstraps
    <2>5. ConfigRow(nuxt') = ConfigRow(nuxt)
      BY <2>2 DEF ConfigRow
    <2>6. public = WithScopes(nuxt', nuxt.public)
      BY <2>2 DEF WithScopes, public
    <2>7. b # Nothing => nuxt.public = ToldBy(o, b)
      BY <1>1, <1>2 DEF NuxtMounts
    <2>8. Mounted'
      BY <2>2 DEF Mounted
    <2>9. NuxtMounts'
      BY <1>2, <2>2, <2>5, <2>6, <2>7, <2>8 DEF NuxtMounts
    <2>10. edits' = 0 => NuxtUnedited'
      BY <1>1, <1>2, <2>2 DEF NuxtUnedited
    <2> QED
      BY <2>3, <2>4, <2>9, <2>10 DEF NuxtInv
  <1> QED
    BY <1>3, <1>4

LEMMA EditNuxt ==
    ASSUME NuxtInv, edits \in Nat, Edit, UNCHANGED nuxt
    PROVE  NuxtInv'
  <1>1. edits' # 0
    BY DEF Edit
  <1>2. NuxtShape' /\ NuxtOptions' /\ NuxtBootstraps' /\ NuxtMounts'
    BY DEF NuxtInv, NuxtShape, NuxtOptions, NuxtBootstraps, NuxtMounts, Started, ModuleComposed, Mounted
  <1> QED
    BY <1>1, <1>2 DEF NuxtInv

LEMMA InitNuxt ==
    ASSUME HostsInit
    PROVE  NuxtInv
  <1>1. PICK setup \in Setups :
            nuxt = IF setup.nuxt = Nothing THEN Absent(IdleNuxt(Nothing)) ELSE IdleNuxt(setup.nuxt)
    BY DEF HostsInit
  <1>2. /\ NuxtShape /\ nuxt.phase \in {"absent", "start"}
        /\ nuxt.phase # "absent" => setup.nuxt # Nothing /\ nuxt.options = setup.nuxt
    BY <1>1 DEF NuxtShape, NuxtFields, Absent, IdleNuxt
  <1>3. ~Started /\ ~ModuleComposed /\ ~Mounted /\ nuxt.phase \notin {"mounted", "set up"}
    BY <1>2 DEF Started, ModuleComposed, Mounted
  <1> QED
    BY <1>2, <1>3 DEF NuxtInv, NuxtOptions, NuxtBootstraps, NuxtMounts, NuxtUnedited

-----------------------------------------------------------------------------
LEMMA KeepReact ==
    ASSUME ReactInv, UNCHANGED <<disk, edits, react>>
    PROVE  ReactInv'
  BY DEF ReactInv, ReactShape, ReactHeld, ReactBuilds, ReactUnedited, Hosted, Building, Taken, First

LEMMA KeepNuxt ==
    ASSUME NuxtInv, UNCHANGED <<disk, edits, nuxt>>
    PROVE  NuxtInv'
  BY DEF NuxtInv, NuxtShape, NuxtOptions, NuxtBootstraps, NuxtMounts, NuxtUnedited, Started, ModuleComposed, Mounted

LEMMA HostsStart == HostsInit => HostsInv
  <1> SUFFICES ASSUME HostsInit PROVE HostsInv
    OBVIOUS
  <1>1. disk \in Workspaces /\ edits \in Nat
    BY WorkspacesAssumption DEF HostsInit
  <1> QED
    BY <1>1, StartReact, InitNuxt DEF HostsInv

LEMMA HostsStep == HostsInv /\ [HostsNext]_hostVars => HostsInv'
  <1> SUFFICES ASSUME HostsInv, [HostsNext]_hostVars PROVE HostsInv'
    OBVIOUS
  <1> USE DEF HostsInv
  <1>1. CASE ReactNext /\ UNCHANGED nuxt
    <2>1. UNCHANGED <<disk, edits>>
      BY <1>1 DEF ReactNext, ReactConfigure, ReactSeal, ReactResolve, ReactContribute, ReactEmit
    <2>2. ReactInv'
      BY <1>1, ConfigureReact, SealReact, ResolveReact, ContributeReact, EmitReact DEF ReactNext
    <2> QED
      BY <1>1, <2>1, <2>2, KeepNuxt
  <1>2. CASE NuxtNext /\ UNCHANGED react
    <2>1. UNCHANGED <<disk, edits>>
      BY <1>2 DEF NuxtNext, NuxtStart, NuxtCompose, NuxtMount, NuxtApplyConfig
    <2>2. NuxtInv'
      BY <1>2, StartNuxt, ComposeNuxt, MountNuxt, ApplyConfigNuxt DEF NuxtNext
    <2> QED
      BY <1>2, <2>1, <2>2, KeepReact
  <1>3. CASE Edit /\ UNCHANGED <<react, nuxt>>
    <2>1. disk' \in Workspaces /\ edits' \in Nat
      BY <1>3, WorkspacesAssumption DEF Edit
    <2> QED
      BY <1>3, <2>1, EditReact, EditNuxt
  <1>4. CASE UNCHANGED hostVars
    BY <1>4, KeepReact, KeepNuxt DEF hostVars
  <1> QED
    BY <1>1, <1>2, <1>3, <1>4 DEF HostsNext

LEMMA HostsInvariant == HostsSpec => []HostsInv
  BY HostsStart, HostsStep, PTL DEF HostsSpec

-----------------------------------------------------------------------------
\* Rows: what is in a row of layers, and what is in it once.

LEMMA OnceOver ==
    ASSUME NEW s, NEW D, DOMAIN s = D, NEW x
    PROVE  OnceIn(s, x) <=> \E k \in D : \A j \in D : s[j] = x <=> j = k
  BY DEF OnceIn

LEMMA ToSetOver ==
    ASSUME NEW s, NEW D, DOMAIN s = D, NEW x
    PROVE  x \in ToSet(s) <=> \E k \in D : s[k] = x
  BY DEF ToSet

\* A finite set as a row: each of its elements, once.
LEMMA RowOfSet ==
    ASSUME NEW S, IsFiniteSet(S)
    PROVE  /\ SetToSeq(S) \in Seq(S) /\ ToSet(SetToSeq(S)) = S
           /\ \A x \in S : OnceIn(SetToSeq(S), x)
  <1> DEFINE row == SetToSeq(S)
             n == Cardinality(S)
  <1>1. n \in Nat /\ ExistsBijection(1..n, S)
    BY FS_CardinalityType
  <1>0. row = CHOOSE g \in [1..n -> S] : IsInjective(g)
    BY DEF SetToSeq
  <1> DEFINE places == 1..n
  <1>2. PICK f : f \in Bijection(places, S)
    BY <1>1 DEF ExistsBijection
  <1> HIDE DEF row, n, places
  <1>3. f \in [places -> S] /\ IsInjective(f)
    <2>1. f \in [places -> S] /\ \A a, b \in places : f[a] = f[b] => a = b
      BY <1>2, Fun_BijectionProperties
    <2> QED
      BY <2>1 DEF IsInjective
  <1>4. row \in [places -> S] /\ IsInjective(row)
    BY <1>0, <1>3 DEF places
  <1>5. row \in Injection(places, S)
    BY <1>4, Fun_IsInj DEF IsInjective
  <1>6. Cardinality(places) = Cardinality(S)
    <2>1. Cardinality(1..n) = n
      BY <1>1, FS_Interval
    <2> QED
      BY <2>1 DEF places, n
  <1>7. row \in Surjection(places, S)
    BY <1>5, <1>6, FS_Injection
  <1>8. \A x \in S : \E k \in places : row[k] = x
    BY <1>7, Fun_SurjectionProperties
  <1>9. row \in Seq(S)
    BY <1>1, <1>4, SeqDef DEF places
  <1>10. DOMAIN row = places
    BY <1>4
  <1>11. ToSet(row) = S
    BY <1>4, <1>8, <1>10 DEF ToSet
  <1>12. \A x \in S : OnceIn(row, x)
    BY <1>4, <1>8, <1>10 DEF OnceIn, IsInjective
  <1> QED
    BY <1>9, <1>11, <1>12 DEF row

LEMMA ConcatSet ==
    ASSUME NEW S, NEW s \in Seq(S), NEW t \in Seq(S)
    PROVE  s \o t \in Seq(S) /\ ToSet(s \o t) = ToSet(s) \cup ToSet(t)
  <1> DEFINE row == s \o t
             m == Len(s)
             n == Len(t)
  <1>1. m \in Nat /\ n \in Nat /\ DOMAIN s = 1..m /\ DOMAIN t = 1..n
    BY LenProperties
  <1>2. /\ row \in Seq(S) /\ Len(row) = m + n
        /\ \A k \in 1..m + n : row[k] = IF k <= m THEN s[k] ELSE t[k - m]
    BY ConcatProperties
  <1>3. DOMAIN row = 1..m + n
    BY <1>2, LenProperties
  <1> HIDE DEF row, m, n
  <1>4. ASSUME NEW x \in ToSet(row) PROVE x \in ToSet(s) \cup ToSet(t)
    <2>1. PICK k \in 1..m + n : row[k] = x
      BY <1>3, <1>4, ToSetOver
    <2>2. CASE k <= m
      BY <1>1, <1>2, <2>1, <2>2, ToSetOver
    <2>3. CASE ~(k <= m)
      <3>1. k - m \in 1..n /\ x = t[k - m]
        BY <1>1, <1>2, <2>1, <2>3
      <3> QED
        BY <1>1, <3>1, ToSetOver
    <2> QED
      BY <2>2, <2>3
  <1>5. ASSUME NEW x \in ToSet(s) PROVE x \in ToSet(row)
    <2>1. PICK k \in 1..m : s[k] = x
      BY <1>1, <1>5, ToSetOver
    <2>2. k \in 1..m + n /\ row[k] = x
      BY <1>1, <1>2, <2>1
    <2> QED
      BY <1>3, <2>2, ToSetOver
  <1>6. ASSUME NEW x \in ToSet(t) PROVE x \in ToSet(row)
    <2>1. PICK k \in 1..n : t[k] = x
      BY <1>1, <1>6, ToSetOver
    <2>2. k + m \in 1..m + n /\ ~(k + m <= m) /\ (k + m) - m = k
      BY <1>1
    <2>3. row[k + m] = x
      BY <1>2, <2>1, <2>2
    <2> QED
      BY <1>3, <2>2, <2>3, ToSetOver
  <1> QED
    BY <1>2, <1>4, <1>5, <1>6 DEF row

LEMMA ConcatOnce ==
    ASSUME NEW S, NEW s \in Seq(S), NEW t \in Seq(S), NEW x
    PROVE  OnceIn(s \o t, x) <=>
                \/ OnceIn(s, x) /\ x \notin ToSet(t)
                \/ x \notin ToSet(s) /\ OnceIn(t, x)
  <1> DEFINE row == s \o t
             m == Len(s)
             n == Len(t)
  <1>1. m \in Nat /\ n \in Nat /\ DOMAIN s = 1..m /\ DOMAIN t = 1..n
    BY LenProperties
  <1>2. /\ row \in Seq(S) /\ Len(row) = m + n
        /\ \A k \in 1..m + n : row[k] = IF k <= m THEN s[k] ELSE t[k - m]
    BY ConcatProperties
  <1>3. DOMAIN row = 1..m + n
    BY <1>2, LenProperties
  <1> HIDE DEF row, m, n
  <1>3a. /\ OnceIn(s, x) <=> \E k \in 1..m : \A j \in 1..m : s[j] = x <=> j = k
         /\ x \in ToSet(s) <=> \E k \in 1..m : s[k] = x
    BY <1>1 DEF OnceIn, ToSet
  <1>3b. /\ OnceIn(t, x) <=> \E k \in 1..n : \A j \in 1..n : t[j] = x <=> j = k
         /\ x \in ToSet(t) <=> \E k \in 1..n : t[k] = x
    BY <1>1 DEF OnceIn, ToSet
  <1>3c. OnceIn(row, x) <=> \E k \in 1..m + n : \A j \in 1..m + n : row[j] = x <=> j = k
    BY <1>3 DEF OnceIn
  <1>4. \A k \in 1..m : k \in 1..m + n /\ row[k] = s[k]
    BY <1>1, <1>2
  <1>5. \A k \in 1..n : k + m \in 1..m + n /\ row[k + m] = t[k] /\ k + m > m
    <2> TAKE k \in 1..n
    <2>1. k + m \in 1..m + n /\ ~(k + m <= m) /\ (k + m) - m = k
      BY <1>1
    <2> QED
      BY <1>1, <1>2, <2>1
  <1>6. \A k \in 1..m + n : k \in 1..m \/ \E j \in 1..n : k = j + m
    <2> TAKE k \in 1..m + n
    <2>1. CASE k <= m
      BY <1>1, <2>1
    <2>2. CASE ~(k <= m)
      <3>1. k - m \in 1..n /\ k = (k - m) + m
        BY <1>1, <2>2
      <3> QED
        BY <3>1
    <2> QED
      BY <2>1, <2>2
  <1>7. ASSUME OnceIn(s, x), x \notin ToSet(t) PROVE OnceIn(row, x)
    <2>1. PICK k \in 1..m : \A j \in 1..m : s[j] = x <=> j = k
      BY <1>1, <1>7, <1>3a, <1>3b, <1>3c
    <2>2. \A j \in 1..n : t[j] # x
      BY <1>1, <1>7, <1>3a, <1>3b
    <2>3. \A j \in 1..m + n : row[j] = x <=> j = k
      <3> TAKE j \in 1..m + n
      <3>1. CASE j \in 1..m
        BY <1>4, <2>1, <3>1
      <3>2. ASSUME NEW i \in 1..n, j = i + m PROVE row[j] = x <=> j = k
        <4>1. row[j] = t[i] /\ j > m
          BY <1>5, <3>2
        <4>2. row[j] # x
          BY <2>2, <4>1
        <4>3. j # k
          BY <1>1, <4>1
        <4> QED
          BY <4>2, <4>3
      <3> QED
        BY <1>6, <3>1, <3>2
    <2> QED
      BY <1>3, <1>4, <2>3, <1>3a, <1>3b, <1>3c
  <1>8. ASSUME x \notin ToSet(s), OnceIn(t, x) PROVE OnceIn(row, x)
    <2>1. PICK k \in 1..n : \A j \in 1..n : t[j] = x <=> j = k
      BY <1>1, <1>8, <1>3a, <1>3b, <1>3c
    <2>2. \A j \in 1..m : s[j] # x
      BY <1>1, <1>8, <1>3a, <1>3b
    <2>3. \A j \in 1..m + n : row[j] = x <=> j = k + m
      <3> TAKE j \in 1..m + n
      <3>1. CASE j \in 1..m
        <4>1. row[j] # x /\ j # k + m
          BY <1>1, <1>4, <2>2, <3>1
        <4> QED
          BY <4>1
      <3>2. ASSUME NEW i \in 1..n, j = i + m PROVE row[j] = x <=> j = k + m
        <4>1. row[j] = t[i] /\ (j = k + m <=> i = k)
          BY <1>1, <1>5, <3>2
        <4> QED
          BY <2>1, <4>1
      <3> QED
        BY <1>6, <3>1, <3>2
    <2> QED
      BY <1>3, <1>5, <2>3, <1>3a, <1>3b, <1>3c
  <1>9. ASSUME OnceIn(row, x)
        PROVE  (OnceIn(s, x) /\ x \notin ToSet(t)) \/ (x \notin ToSet(s) /\ OnceIn(t, x))
    <2>1. PICK k \in 1..m + n : \A j \in 1..m + n : row[j] = x <=> j = k
      BY <1>3, <1>9, <1>3a, <1>3b, <1>3c
    <2>2. CASE k \in 1..m
      <3>1. \A j \in 1..m : s[j] = x <=> j = k
        BY <1>4, <2>1
      <3>2. \A j \in 1..n : t[j] # x
        <4> TAKE j \in 1..n
        <4>1. row[j + m] = t[j] /\ j + m # k /\ j + m \in 1..m + n
          BY <1>1, <1>5, <2>2
        <4> QED
          BY <2>1, <4>1
      <3> QED
        BY <1>1, <2>2, <3>1, <3>2, <1>3a, <1>3b
    <2>3. ASSUME NEW i \in 1..n, k = i + m PROVE x \notin ToSet(s) /\ OnceIn(t, x)
      <3>1. \A j \in 1..m : s[j] # x
        <4> TAKE j \in 1..m
        <4>1. row[j] = s[j] /\ j # k /\ j \in 1..m + n
          BY <1>1, <1>4, <2>3
        <4> QED
          BY <2>1, <4>1
      <3>2. \A j \in 1..n : t[j] = x <=> j = i
        <4> TAKE j \in 1..n
        <4>1. row[j + m] = t[j] /\ (j + m = k <=> j = i) /\ j + m \in 1..m + n
          BY <1>1, <1>5, <2>3
        <4> QED
          BY <2>1, <4>1
      <3> QED
        BY <1>1, <3>1, <3>2, <1>3a, <1>3b
    <2> QED
      BY <1>6, <2>2, <2>3
  <1> QED
    BY <1>7, <1>8, <1>9 DEF row

-----------------------------------------------------------------------------
\* What a Nuxt application discovers: finitely many, and one of each directory.

LEMMA FiniteImage ==
    ASSUME NEW S, IsFiniteSet(S), NEW f, DOMAIN f = S
    PROVE  IsFiniteSet({f[x] : x \in S})
  <1> DEFINE T == {f[x] : x \in S}
             g == [x \in S |-> f[x]]
  <1>1. g \in [S -> T] /\ \A t \in T : \E x \in S : g[x] = t
    OBVIOUS
  <1> HIDE DEF g, T
  <1>2. g \in Surjection(S, T)
    BY <1>1, Fun_IsSurj
  <1>3. IsFiniteSet(T)
    BY <1>2, FS_Surjection
  <1> QED
    BY <1>3 DEF T

\* The nearest of the manifests that are there is finite.
LEMMA NearestFinite ==
    ASSUME NEW ws \in Workspaces, Nearest(ws.manifests) \notin {Nothing, Broken}
    PROVE  IsFiniteSet(Nearest(ws.manifests))
  <1> DEFINE there == {k \in DOMAIN ws.manifests : ws.manifests[k] # Nothing}
  <1>1. there # {} /\ Nearest(ws.manifests) = ws.manifests[Min(there)]
    BY DEF Nearest
  <1>2. there \in SUBSET Nat
    BY FilesAssumption
  <1>3. PICK k \in there : \A j \in there : k <= j
    BY <1>1, <1>2, LeastNatural
  <1>4. Min(there) \in there
    <2> HIDE DEF there
    <2> QED
      BY <1>3 DEF Min
  <1>5. ws.manifests[Min(there)] \in {Nothing, Broken} \/ IsFiniteSet(ws.manifests[Min(there)])
    <2>1. Min(there) \in DOMAIN ws.manifests
      BY <1>4
    <2> HIDE DEF there
    <2> QED
      BY <2>1, FilesAssumption
  <1> QED
    BY <1>1, <1>5

\* Groupings are finite, stand at synthetic directories and are nested in nothing.
LEMMA VirtualFacts ==
    ASSUME NEW ws \in Workspaces, NEW o, IsFiniteSet(o.virtualDescriptors), Virtual(ws, o) # Nothing
    PROVE  /\ IsFiniteSet(Virtual(ws, o))
           /\ \A e \in Virtual(ws, o) : e.dir = VirtualDirectory(e.id) /\ e.nested = FALSE
  <1> DEFINE given == {Entry(doc, doc.id, VirtualDirectory(doc.id), FALSE, "options") : doc \in o.virtualDescriptors}
             manifest == Nearest(ws.manifests)
             bundled == {Entry(doc, doc.id, VirtualDirectory(doc.id), FALSE, "manifest") : doc \in manifest}
  <1>1. IsFiniteSet(given) /\ \A e \in given : e.dir = VirtualDirectory(e.id) /\ e.nested = FALSE
    <2> DEFINE docs == o.virtualDescriptors
               f == [doc \in docs |-> Entry(doc, doc.id, VirtualDirectory(doc.id), FALSE, "options")]
    <2>0. IsFiniteSet({f[doc] : doc \in docs})
      BY FiniteImage
    <2>1. IsFiniteSet(given)
      BY <2>0
    <2> QED
      BY <2>1 DEF Entry
  <1>2. \A e \in bundled : e.dir = VirtualDirectory(e.id) /\ e.nested = FALSE
    BY DEF Entry
  <1>3. Bundles(ws) # Nothing => Bundles(ws) = bundled /\ manifest \notin {Nothing, Broken}
    BY DEF Bundles
  <1>4. manifest \notin {Nothing, Broken} => IsFiniteSet(bundled)
    <2> SUFFICES ASSUME manifest \notin {Nothing, Broken} PROVE IsFiniteSet(bundled)
      OBVIOUS
    <2>1. IsFiniteSet(manifest)
      BY NearestFinite
    <2> HIDE DEF manifest
    <2> DEFINE f == [doc \in manifest |-> Entry(doc, doc.id, VirtualDirectory(doc.id), FALSE, "manifest")]
    <2>2. IsFiniteSet({f[doc] : doc \in manifest})
      BY <2>1, FiniteImage
    <2> QED
      BY <2>2
  <1>5. Virtual(ws, o) = IF ~o.bundles THEN given
                         ELSE IF Bundles(ws) = Nothing THEN Nothing ELSE given \cup Bundles(ws)
    BY DEF Virtual
  <1> HIDE DEF given, bundled, manifest
  <1>6. CASE ~o.bundles
    BY <1>1, <1>5, <1>6
  <1>7. CASE o.bundles
    <2>1. Virtual(ws, o) = given \cup bundled /\ IsFiniteSet(bundled)
      BY <1>3, <1>4, <1>5, <1>7
    <2>2. IsFiniteSet(given \cup bundled)
      BY <1>1, <2>1, FS_Union
    <2> QED
      BY <1>1, <1>2, <2>1, <2>2
  <1> QED
    BY <1>6, <1>7

\* The one entry a directory has for itself.
OwnEntry(ws, d) == Entry(ws.dirs[d].document, EntryId(ws.dirs[d].document, d), Physical(d), FALSE, d)

\* What is discovered is finite, stands in its directory, and but for what is nested is
\* one entry for each.
LEMMA DiscoveredFacts ==
    ASSUME NEW ws \in Workspaces, NEW o, Discovered(ws, o) # Nothing
    PROVE  /\ IsFiniteSet(Discovered(ws, o))
           /\ \A e \in Discovered(ws, o) : e.dir = Physical(e.file)
           /\ \A e \in Discovered(ws, o) : e.nested = TRUE \/ e = OwnEntry(ws, e.file)
  <1> DEFINE document(d) == ws.dirs[d].document
             nested(d) == {Entry(n, n.id, Physical(d), TRUE, d) : n \in NestedIn(document(d), o)}
             expanded(d) == {OwnEntry(ws, d)} \cup nested(d)
             all == {expanded(d) : d \in Files(ws)}
  <1>1. \A d \in Files(ws) : ~Unreadable(document(d), o)
    BY DEF Discovered
  <1>2. Discovered(ws, o) = UNION all
    <2>1. Discovered(ws, o) = UNION {Expand(document(d), d, o) : d \in Files(ws)}
      BY <1>1 DEF Discovered
    <2>2. \A d : Expand(document(d), d, o) = expanded(d)
      BY DEF Expand, OwnEntry
    <2> HIDE DEF expanded
    <2> QED
      BY <2>1, <2>2
  <1>3. \A d \in Files(ws) : IsFiniteSet(NestedIn(document(d), o))
    <2> TAKE d \in Files(ws)
    <2>1. document(d) # Broken /\ NestedIn(document(d), o) # Broken
      BY <1>1 DEF Unreadable
    <2>2. document(d) = Broken \/ document(d).nested = Broken \/ IsFiniteSet(document(d).nested)
      BY FilesAssumption
    <2> HIDE DEF document
    <2>3. CASE o.nestedField
      BY <2>1, <2>2, <2>3 DEF NestedIn
    <2>4. CASE ~o.nestedField
      BY <2>4, FS_EmptySet DEF NestedIn
    <2> QED
      BY <2>3, <2>4
  <1>4. \A d \in Files(ws) : IsFiniteSet(expanded(d))
    <2> TAKE d \in Files(ws)
    <2> DEFINE docs == NestedIn(document(d), o)
    <2>1. IsFiniteSet(docs)
      BY <1>3
    <2> HIDE DEF docs
    <2> DEFINE f == [n \in docs |-> Entry(n, n.id, Physical(d), TRUE, d)]
    <2>2. IsFiniteSet({f[n] : n \in docs})
      BY <2>1, FiniteImage
    <2>3. IsFiniteSet(nested(d))
      BY <2>2 DEF docs
    <2>4. IsFiniteSet({OwnEntry(ws, d)})
      BY FS_Singleton
    <2> HIDE DEF nested
    <2> QED
      BY <2>3, <2>4, FS_Union
  <1>5. IsFiniteSet(UNION all)
    <2>1. IsFiniteSet(Files(ws))
      BY FilesAssumption, FS_Subset DEF Files
    <2> HIDE DEF expanded
    <2> DEFINE f == [d \in Files(ws) |-> expanded(d)]
    <2>2. IsFiniteSet({f[d] : d \in Files(ws)})
      BY <2>1, FiniteImage
    <2>3. IsFiniteSet(all)
      BY <2>2
    <2> QED
      BY <1>4, <2>3, FS_UNION
  <1>6. \A d \in Files(ws) : \A e \in expanded(d) :
            e.dir = Physical(e.file) /\ (e.nested = TRUE \/ e = OwnEntry(ws, e.file))
    BY DEF Entry, OwnEntry
  <1> HIDE DEF expanded
  <1> QED
    BY <1>2, <1>5, <1>6

-----------------------------------------------------------------------------
\* The entries of Nuxt are finite, and two with a layer have two directories.
LEMMA NuxtEntriesFacts ==
    ASSUME NEW ws \in Workspaces, NEW o, IsFiniteSet(o.virtualDescriptors), NuxtEntries(ws, o) # Nothing
    PROVE  /\ IsFiniteSet(NuxtEntries(ws, o))
           /\ \A e, f \in NuxtEntries(ws, o) :
                (RegistersLayer(e) /\ RegistersLayer(f) /\ e.dir = f.dir) => e = f
  <1> DEFINE found == Discovered(ws, o)
             virtual == Virtual(ws, o)
  <1>1. found # Nothing /\ virtual # Nothing
        /\ NuxtEntries(ws, o) = {NuxtEntry(ws, e) : e \in found \cup virtual}
    BY DEF NuxtEntries, EntriesOf
  <1>2. IsFiniteSet(found) /\ IsFiniteSet(virtual)
    BY <1>1, DiscoveredFacts, VirtualFacts
  <1>3. \A e \in found : e.dir = Physical(e.file) /\ (e.nested = TRUE \/ e = OwnEntry(ws, e.file))
    BY <1>1, DiscoveredFacts
  <1>4. \A e \in virtual : e.dir = VirtualDirectory(e.id)
    BY <1>1, VirtualFacts
  <1> HIDE DEF found, virtual
  <1>5. IsFiniteSet(NuxtEntries(ws, o))
    <2>1. IsFiniteSet(found \cup virtual)
      BY <1>2, FS_Union
    <2> DEFINE both == found \cup virtual
    <2> HIDE DEF both
    <2> DEFINE f == [e \in both |-> NuxtEntry(ws, e)]
    <2>2. IsFiniteSet({f[e] : e \in both})
      BY <2>1, FiniteImage DEF both
    <2> QED
      BY <1>1, <2>2 DEF both
  <1>6. ASSUME NEW e \in found \cup virtual, RegistersLayer(NuxtEntry(ws, e))
        PROVE  e = OwnEntry(ws, NuxtEntry(ws, e).dir.name)
    <2>1. NuxtEntry(ws, e).dir.kind = "disk"
      BY <1>6 DEF RegistersLayer, NuxtEntry
    <2>2. NuxtEntry(ws, e).dir = e.dir
      BY <2>1 DEF NuxtEntry, VirtualDirectory
    <2>3. e.nested # TRUE
      BY <2>1 DEF NuxtEntry, VirtualDirectory
    <2>4. e \notin virtual
      <3> SUFFICES ASSUME e \in virtual PROVE FALSE
        OBVIOUS
      <3>1. e.dir = VirtualDirectory(e.id)
        BY <1>4
      <3>2. VirtualDirectory(e.id).kind = "virtual"
        BY DEF VirtualDirectory
      <3> QED
        BY <2>1, <2>2, <3>1, <3>2
    <2>5. e.dir = Physical(e.file) /\ e = OwnEntry(ws, e.file)
      BY <1>3, <2>3, <2>4
    <2> QED
      BY <2>2, <2>5 DEF Physical
  <1>7. ASSUME NEW e \in NuxtEntries(ws, o), NEW f \in NuxtEntries(ws, o),
               RegistersLayer(e), RegistersLayer(f), e.dir = f.dir
        PROVE  e = f
    <2>1. PICK d \in found \cup virtual : e = NuxtEntry(ws, d)
      BY <1>1
    <2>2. PICK g \in found \cup virtual : f = NuxtEntry(ws, g)
      BY <1>1
    <2>3. d = OwnEntry(ws, e.dir.name) /\ g = OwnEntry(ws, f.dir.name)
      BY <1>6, <1>7, <2>1, <2>2
    <2> QED
      BY <1>7, <2>1, <2>2, <2>3
  <1> QED
    BY <1>5, <1>7

-----------------------------------------------------------------------------
\* The bootstrap's layers behind the row of nuxt.config.

LEMMA HeadTailIs ==
    ASSUME NEW S, NEW x \in S, NEW t \in Seq(S)
    PROVE  /\ <<x>> \in Seq(S) /\ <<x>> \o t \in Seq(S) /\ <<x>> \o t # <<>>
           /\ Head(<<x>> \o t) = x /\ Tail(<<x>> \o t) = t
  <1> DEFINE front == <<x>>
             row == front \o t
  <1>1. front \in Seq(S) /\ Len(front) = 1 /\ front[1] = x
    OBVIOUS
  <1>2. Len(t) \in Nat
    BY LenProperties
  <1> HIDE DEF front
  <1>3. /\ row \in Seq(S) /\ Len(row) = 1 + Len(t)
        /\ \A k \in 1..1 + Len(t) : row[k] = IF k <= 1 THEN front[k] ELSE t[k - 1]
    <2>1. /\ row \in Seq(S) /\ Len(row) = Len(front) + Len(t)
          /\ \A k \in 1..Len(front) + Len(t) : row[k] = IF k <= Len(front) THEN front[k] ELSE t[k - Len(front)]
      BY <1>1, ConcatProperties
    <2> HIDE DEF row
    <2> QED
      BY <1>1, <2>1
  <1> HIDE DEF row
  <1>4. row # <<>>
    BY <1>2, <1>3, EmptySeq
  <1>5. Head(row) = x
    <2>1. Head(row) = row[1]
      BY <1>3, <1>4
    <2>2. row[1] = front[1]
      BY <1>2, <1>3
    <2> QED
      BY <1>1, <2>1, <2>2
  <1>6. /\ Tail(row) \in Seq(S) /\ Len(Tail(row)) = Len(t)
        /\ \A k \in 1..Len(t) : Tail(row)[k] = row[k + 1]
    BY <1>2, <1>3, <1>4, HeadTailProperties
  <1>7. \A k \in 1..Len(t) : Tail(row)[k] = t[k]
    <2> TAKE k \in 1..Len(t)
    <2>1. k + 1 \in 1..1 + Len(t) /\ ~(k + 1 <= 1) /\ (k + 1) - 1 = k
      BY <1>2
    <2> QED
      BY <1>3, <1>6, <2>1
  <1>8. Tail(row) = t
    BY <1>6, <1>7, SeqEqual
  <1> QED
    BY <1>1, <1>3, <1>4, <1>5, <1>8 DEF row, front

\* What is put behind the first of a row, before the rest.
LEMMA RowsMounted ==
    ASSUME NEW S, NEW root \in S, NEW added \in Seq(S), NEW own \in Seq(S), NEW paths \in Seq(S),
           \A x \in ToSet(added) : OnceIn(added, x),
           \A x \in ToSet(paths) : OnceIn(paths, x),
           ToSet(added) \cap ToSet(<<root>> \o own \o paths) = {}
    PROVE  LET row    == <<root>> \o own \o paths
               layers == <<Head(row)>> \o added \o Tail(row)
           IN  /\ row # <<>> /\ layers # <<>> /\ Head(layers) = root
               /\ ToSet(<<root>> \o own) = {root} \cup ToSet(own)
               /\ ToSet(row) = {root} \cup ToSet(own) \cup ToSet(paths)
               /\ ToSet(layers) = {root} \cup ToSet(added) \cup ToSet(own) \cup ToSet(paths)
               /\ \A x \in ToSet(layers) :
                    (x \in ToSet(<<root>> \o own) => OnceIn(<<root>> \o own, x) /\ x \notin ToSet(paths))
                        => OnceIn(layers, x)
  <1> DEFINE front == <<root>>
             rest == own \o paths
             row == front \o own \o paths
             layers == <<Head(row)>> \o added \o Tail(row)
  <1>1. front \in Seq(S) /\ rest \in Seq(S) /\ ToSet(rest) = ToSet(own) \cup ToSet(paths)
    <2>1. front \in Seq(S)
      OBVIOUS
    <2> QED
      BY <2>1, ConcatSet
  <1>2. row = front \o rest
    BY <1>1, ConcatAssociative
  <1>3. row # <<>> /\ Head(row) = root /\ Tail(row) = rest
    BY <1>1, <1>2, HeadTailIs
  <1>4. layers = (front \o added) \o rest /\ layers = front \o (added \o rest)
    <2>1. (front \o added) \o rest = front \o (added \o rest)
      BY <1>1, ConcatAssociative
    <2>2. layers = (front \o added) \o rest
      <3> HIDE DEF row, rest
      <3> QED
        BY <1>3
    <2> HIDE DEF layers, front, rest
    <2> QED
      BY <2>1, <2>2
  <1>5. ToSet(front) = {root} /\ \A x : OnceIn(front, x) <=> x = root
    <2>1. DOMAIN front = {1} /\ front[1] = root
      OBVIOUS
    <2> HIDE DEF front
    <2> QED
      BY <2>1 DEF ToSet, OnceIn
  <1> HIDE DEF front, rest, row, layers
  <1>6. /\ front \o added \in Seq(S) /\ ToSet(front \o added) = {root} \cup ToSet(added)
        /\ front \o own \in Seq(S) /\ ToSet(front \o own) = {root} \cup ToSet(own)
        /\ added \o rest \in Seq(S)
    BY <1>1, <1>5, ConcatSet
  <1> DEFINE former == front \o added
  <1>6a. former = front \o added /\ layers = former \o rest
    BY <1>4
  <1>6b. former \in Seq(S)
    BY <1>6
  <1> HIDE DEF former
  <1>7. ToSet(row) = {root} \cup ToSet(own) \cup ToSet(paths)
    <2>1. ToSet(row) = ToSet(front) \cup ToSet(rest)
      BY <1>1, <1>2, ConcatSet
    <2> QED
      BY <1>1, <1>5, <2>1
  <1>8. ToSet(layers) = {root} \cup ToSet(added) \cup ToSet(own) \cup ToSet(paths)
    <2>1. ToSet(former \o rest) = ToSet(former) \cup ToSet(rest)
      BY <1>1, <1>6b, ConcatSet
    <2>2. ToSet(layers) = ToSet(former) \cup ToSet(rest)
      BY <1>6a, <2>1
    <2>3. ToSet(former) = {root} \cup ToSet(added)
      BY <1>6 DEF former
    <2> QED
      BY <1>1, <2>2, <2>3
  <1>9. layers # <<>> /\ Head(layers) = root
    <2>1. <<root>> \o (added \o rest) # <<>> /\ Head(<<root>> \o (added \o rest)) = root
      BY <1>6, HeadTailIs
    <2> QED
      BY <1>4, <2>1 DEF front
  <1>10. ToSet(added) \cap ToSet(row) = {}
    BY DEF row, front
  <1>11. ASSUME NEW x \in ToSet(layers),
                x \in ToSet(front \o own) => OnceIn(front \o own, x) /\ x \notin ToSet(paths)
         PROVE  OnceIn(layers, x)
    <2>1. OnceIn(layers, x) <=>
                \/ OnceIn(front \o added, x) /\ x \notin ToSet(rest)
                \/ x \notin ToSet(front \o added) /\ OnceIn(rest, x)
      <3>1. OnceIn(former \o rest, x) <=>
                \/ OnceIn(former, x) /\ x \notin ToSet(rest)
                \/ x \notin ToSet(former) /\ OnceIn(rest, x)
        BY <1>1, <1>6b, ConcatOnce
      <3> QED
        BY <1>6a, <3>1
    <2>2. OnceIn(front \o added, x) <=>
                \/ x = root /\ x \notin ToSet(added)
                \/ x # root /\ OnceIn(added, x)
      <3>1. OnceIn(front \o added, x) <=>
                \/ OnceIn(front, x) /\ x \notin ToSet(added)
                \/ x \notin ToSet(front) /\ OnceIn(added, x)
        BY <1>1, ConcatOnce
      <3>2. (OnceIn(front, x) <=> x = root) /\ (x \in ToSet(front) <=> x = root)
        BY <1>5
      <3> QED
        BY <3>1, <3>2
    <2>3. OnceIn(rest, x) <=>
                \/ OnceIn(own, x) /\ x \notin ToSet(paths)
                \/ x \notin ToSet(own) /\ OnceIn(paths, x)
      BY <1>1, ConcatOnce DEF rest
    <2>4. OnceIn(front \o own, x) <=>
                \/ x = root /\ x \notin ToSet(own)
                \/ x # root /\ OnceIn(own, x)
      BY <1>1, <1>5, ConcatOnce
    <2>5. CASE x \in ToSet(added)
      <3>1. x \notin ToSet(row)
        BY <1>10, <2>5
      <3>2. x # root /\ x \notin ToSet(rest)
        BY <1>1, <1>7, <3>1
      <3>3. OnceIn(added, x)
        BY <2>5
      <3> QED
        BY <2>1, <2>2, <3>2, <3>3
    <2>6. CASE x \notin ToSet(added) /\ x \in ToSet(front \o own)
      <3>1. OnceIn(front \o own, x) /\ x \notin ToSet(paths)
        BY <1>11, <2>6
      <3>2. CASE x = root
        BY <1>1, <2>1, <2>2, <2>4, <2>6, <3>1, <3>2
      <3>3. CASE x # root
        BY <1>6, <2>1, <2>3, <2>4, <2>6, <3>1, <3>3
      <3> QED
        BY <3>2, <3>3
    <2>7. CASE x \notin ToSet(added) /\ x \notin ToSet(front \o own)
      <3>1. x # root /\ x \notin ToSet(own) /\ x \in ToSet(paths)
        BY <1>6, <1>8, <2>7
      <3>2. OnceIn(paths, x)
        BY <3>1
      <3> QED
        BY <1>6, <2>1, <2>3, <2>7, <3>1, <3>2
    <2> QED
      BY <2>5, <2>6, <2>7
  <1> QED
    BY <1>3, <1>6, <1>7, <1>8, <1>9, <1>11 DEF row, layers, front

-----------------------------------------------------------------------------
\* What a bootstrap is made of: its extensions are finite, at most one with a layer for
\* each directory, and it tells of those, or there is nothing to tell of.
LEMMA BootstrapFacts ==
    ASSUME NEW ws \in Workspaces, NEW o, IsFiniteSet(o.virtualDescriptors), Bootstrap(ws, o) # Nothing
    PROVE  LET b == Bootstrap(ws, o)
           IN  /\ IsFiniteSet(b.resolved)
               /\ \A e, f \in b.resolved :
                    (RegistersLayer(e) /\ RegistersLayer(f) /\ e.dir = f.dir) => e = f
               /\ b.active = {e \in b.resolved : RegistersLayer(e)}
               /\ \/ b.resolved = {} /\ b.discovered = {} /\ b.public = NoKeys
                  \/ /\ "extensionSelection" \in DOMAIN b.public
                     /\ b.public["extensionSelection"] =
                            [kind |-> "selection", discovered |-> Present(b.discovered),
                             resolved |-> Present(b.resolved), selected |-> b.selected]
  <1> DEFINE b == Bootstrap(ws, o)
             x == o.extensions
             entries == IF x.enabled THEN NuxtEntries(ws, o) ELSE {}
             groups == {e \in entries : GroupsExtensions(e)}
             seed == SeedOf(x.seed)
             named == \E spec \in seed.specs : NamedSelector(x.seed, spec)
             base == IF x.enabled THEN seed.base ELSE {}
             resolution == Resolve(entries, groups, x.seed)
  <1>1. b = IF entries = Nothing \/ seed = Nothing THEN Nothing
            ELSE IF entries = {} /\ (~x.enabled \/ ~named) THEN EmptyBootstrap({}, seed, base)
            ELSE BootstrapOf(resolution)
    BY DEF Bootstrap, BootstrapWith
  <1>2. entries # Nothing =>
            /\ IsFiniteSet(entries)
            /\ \A e, f \in entries : (RegistersLayer(e) /\ RegistersLayer(f) /\ e.dir = f.dir) => e = f
    <2>1. CASE x.enabled
      BY <2>1, NuxtEntriesFacts
    <2>2. CASE ~x.enabled
      BY <2>2, FS_EmptySet
    <2> QED
      BY <2>1, <2>2
  <1>3. resolution # Nothing => resolution.items \subseteq entries
    BY ResolveIs
  <1> HIDE DEF b, entries, groups, seed, named, base, resolution
  <1>4. b # Nothing /\ entries # Nothing
    BY <1>1 DEF b
  <1>5. CASE b = EmptyBootstrap({}, seed, base)
    <2>1. b.resolved = {} /\ b.active = {} /\ b.discovered = {} /\ b.public = NoKeys
      BY <1>5 DEF EmptyBootstrap
    <2> QED
      BY <2>1, FS_EmptySet DEF b
  <1>6. CASE b = BootstrapOf(resolution)
    <2>1. resolution # Nothing
      BY <1>4, <1>6 DEF BootstrapOf
    <2> DEFINE active == {e \in resolution.items : RegistersLayer(e)}
    <2>2. /\ b.discovered = resolution.discovered /\ b.resolved = resolution.items
          /\ b.active = active /\ b.selected = resolution.seed.selected
          /\ b.public = SelectionConfig(resolution.discovered, resolution, active)
      BY <1>6, <2>1 DEF BootstrapOf
    <2>3. IsFiniteSet(b.resolved) /\ b.resolved \subseteq entries
      BY <1>2, <1>3, <1>4, <2>1, <2>2, FS_Subset
    <2> HIDE DEF active
    <2>4. /\ "extensionSelection" \in DOMAIN b.public
          /\ b.public["extensionSelection"] =
                [kind |-> "selection", discovered |-> Present(resolution.discovered),
                 resolved |-> Composed(resolution), selected |-> resolution.seed.selected]
      BY <2>2 DEF SelectionConfig, Over, Keyed
    <2>5. Composed(resolution) = Present(b.resolved)
      BY <2>2 DEF Composed
    <2> QED
      BY <1>2, <1>4, <2>2, <2>3, <2>4, <2>5 DEF b, active
  <1> QED
    BY <1>1, <1>4, <1>5, <1>6

-----------------------------------------------------------------------------
\* What the application is told.

\* The layers of a bootstrap: the directory of each extension that extends, once.
LEMMA LayerPathsFacts ==
    ASSUME NEW S, NEW b, IsFiniteSet({e \in b.active : ExtendsLayer(e)}),
           \A e \in b.active : e.dir \in S,
           \A e, f \in b.active : (ExtendsLayer(e) /\ ExtendsLayer(f) /\ e.dir = f.dir) => e = f
    PROVE  /\ LayerPaths(b) \in Seq(S)
           /\ \A x : x \in ToSet(LayerPaths(b)) <=> \E e \in b.active : ExtendsLayer(e) /\ e.dir = x
           /\ \A x \in ToSet(LayerPaths(b)) : OnceIn(LayerPaths(b), x)
  <1> DEFINE T == {e \in b.active : ExtendsLayer(e)}
             row == SetToSeq(T)
             places == DOMAIN row
             paths == [k \in places |-> row[k].dir]
  <1>1. paths = LayerPaths(b)
    BY DEF LayerPaths
  <1>2. /\ row \in Seq(T) /\ ToSet(row) = T
        /\ \A x \in T : OnceIn(row, x)
    BY RowOfSet
  <1>3. T \subseteq b.active /\ \A e : e \in T <=> e \in b.active /\ ExtendsLayer(e)
    OBVIOUS
  <1> HIDE DEF T, row
  <1>4. Len(row) \in Nat /\ places = 1..Len(row) /\ \A k \in places : row[k] \in T
    BY <1>2, LenProperties, ElementOfSeq
  <1> HIDE DEF places
  <1>5. DOMAIN paths = places /\ \A k \in places : paths[k] = row[k].dir
    OBVIOUS
  <1>6. paths \in Seq(S)
    <2>1. \A k \in places : row[k].dir \in S
      BY <1>3, <1>4
    <2>2. paths \in [1..Len(row) -> S]
      BY <1>4, <1>5, <2>1
    <2> HIDE DEF paths
    <2> QED
      BY <1>4, <2>2, SeqDef
  <1> HIDE DEF paths
  <1>7. \A e \in T : \E k \in places : \A j \in places : row[j] = e <=> j = k
    BY <1>2 DEF OnceIn, places
  <1>8. \A x : x \in ToSet(paths) <=> \E k \in places : row[k].dir = x
    <2> TAKE x
    <2>1. x \in ToSet(paths) <=> \E k \in places : paths[k] = x
      BY <1>5, ToSetOver
    <2> QED
      BY <1>5, <2>1
  <1>9. \A x : x \in ToSet(paths) <=> \E e \in b.active : ExtendsLayer(e) /\ e.dir = x
    <2> TAKE x
    <2>1. ASSUME NEW e \in b.active, ExtendsLayer(e), e.dir = x PROVE x \in ToSet(paths)
      <3>1. PICK k \in places : \A j \in places : row[j] = e <=> j = k
        BY <1>3, <1>7, <2>1
      <3> QED
        BY <1>8, <2>1, <3>1
    <2>2. ASSUME x \in ToSet(paths) PROVE \E e \in b.active : ExtendsLayer(e) /\ e.dir = x
      <3>1. PICK k \in places : row[k].dir = x
        BY <1>8, <2>2
      <3> QED
        BY <1>3, <1>4, <3>1
    <2> QED
      BY <2>1, <2>2
  <1>10. ASSUME NEW x \in ToSet(paths) PROVE OnceIn(paths, x)
    <2>1. PICK k \in places : row[k].dir = x
      BY <1>8, <1>10
    <2>2. PICK i \in places : \A j \in places : row[j] = row[k] <=> j = i
      BY <1>4, <1>7
    <2>3. \A j \in places : row[j].dir = x => row[j] = row[k]
      BY <1>3, <1>4, <2>1
    <2>4. \A j \in places : paths[j] = x <=> j = i
      BY <1>5, <2>1, <2>2, <2>3
    <2> QED
      BY <1>5, <2>4, OnceOver
  <1> QED
    BY <1>1, <1>6, <1>9, <1>10

LEMMA OverAt ==
    ASSUME NEW f, NEW g, NEW key
    PROVE  /\ key \in DOMAIN Over(f, g) <=> key \in DOMAIN f \/ key \in DOMAIN g
           /\ key \in DOMAIN f => Over(f, g)[key] = f[key]
           /\ key \notin DOMAIN f /\ key \in DOMAIN g => Over(f, g)[key] = g[key]
  BY DEF Over

\* What the scopes of the runtime configuration leave of what was told.
LEMMA KeptKeys ==
    ASSUME NEW key \in {"extensionSelection", "providerSelection"}, NEW public, ~ScopesWrite(nuxt)
    PROVE  /\ key \in DOMAIN WithScopes(nuxt, public) <=> key \in DOMAIN public
           /\ key \in DOMAIN public => WithScopes(nuxt, public)[key] = public[key]
  <1> DEFINE config == ModuleConfig(nuxt.read, nuxt.options)
             scopes == ScopeKeys(nuxt.read, config, nuxt.bootstrap)
             defaults == ComposableDefaults(config)
  <1>1. WithScopes(nuxt, public) = IF config = Nothing THEN public ELSE Over(scopes, Over(defaults, public))
    BY DEF WithScopes
  <1>2. config # Nothing => key \notin DOMAIN scopes
    BY DEF ScopesWrite
  <1>3. key \notin DOMAIN defaults
    BY DEF ComposableDefaults, Keyed
  <1> HIDE DEF config, scopes, defaults
  <1>4. CASE config = Nothing
    BY <1>1, <1>4
  <1>5. CASE config # Nothing
    <2>1. /\ key \in DOMAIN Over(defaults, public) <=> key \in DOMAIN public
          /\ key \in DOMAIN public => Over(defaults, public)[key] = public[key]
      BY <1>3, OverAt
    <2> DEFINE under == Over(defaults, public)
    <2> HIDE DEF under
    <2>2. /\ key \in DOMAIN Over(scopes, under) <=> key \in DOMAIN under
          /\ key \in DOMAIN under => Over(scopes, under)[key] = under[key]
      BY <1>2, <1>5, OverAt
    <2> QED
      BY <1>1, <1>5, <2>1, <2>2 DEF under
  <1> QED
    BY <1>4, <1>5

\* What the application is told, where no scope writes there.
LEMMA ToldFacts ==
    ASSUME NEW b, NEW o, NEW public, public = WithScopes(nuxt, ToldBy(o, b)), ~ScopesWrite(nuxt)
    PROVE  /\ b.public = NoKeys /\ "extensionSelection" \notin DOMAIN o.host =>
                "extensionSelection" \notin DOMAIN public
           /\ "extensionSelection" \in DOMAIN b.public =>
                /\ "extensionSelection" \in DOMAIN public
                /\ public["extensionSelection"] = b.public["extensionSelection"]
           /\ o.providers => ToldSlots(public) = b.slots
  <1> DEFINE published == PublishedSlots(o, b)
             under == Over(b.public, o.host)
             told == Over(published, under)
  <1>1. told = ToldBy(o, b)
    BY DEF ToldBy
  <1>2. /\ "extensionSelection" \notin DOMAIN published
        /\ o.providers => /\ "providerSelection" \in DOMAIN published
                          /\ published["providerSelection"] = [kind |-> "slots", slots |-> b.slots]
    BY DEF PublishedSlots, Keyed, NoKeys
  <1>3. \A key \in {"extensionSelection", "providerSelection"} :
            /\ key \in DOMAIN public <=> key \in DOMAIN told
            /\ key \in DOMAIN told => public[key] = told[key]
    BY <1>1, KeptKeys
  <1> HIDE DEF published, told
  <1>4. \A key : /\ key \in DOMAIN told <=> key \in DOMAIN published \/ key \in DOMAIN under
                 /\ key \in DOMAIN published => told[key] = published[key]
                 /\ key \notin DOMAIN published /\ key \in DOMAIN under => told[key] = under[key]
    BY OverAt DEF told
  <1>5. \A key : /\ key \in DOMAIN under <=> key \in DOMAIN b.public \/ key \in DOMAIN o.host
                 /\ key \in DOMAIN b.public => under[key] = b.public[key]
    BY OverAt DEF under
  <1> HIDE DEF under
  <1>6. DOMAIN NoKeys = {}
    BY DEF NoKeys
  <1>7. o.providers => ToldSlots(public) = b.slots
    <2> SUFFICES ASSUME o.providers PROVE ToldSlots(public) = b.slots
      OBVIOUS
    <2>1. "providerSelection" \in DOMAIN public
          /\ public["providerSelection"] = [kind |-> "slots", slots |-> b.slots]
      BY <1>2, <1>3, <1>4
    <2> QED
      BY <2>1 DEF ToldSlots
  <1>8. b.public = NoKeys /\ "extensionSelection" \notin DOMAIN o.host =>
                "extensionSelection" \notin DOMAIN public
    BY <1>2, <1>3, <1>4, <1>5, <1>6
  <1>9. "extensionSelection" \in DOMAIN b.public =>
                /\ "extensionSelection" \in DOMAIN public
                /\ public["extensionSelection"] = b.public["extensionSelection"]
    BY <1>2, <1>3, <1>4, <1>5
  <1> QED
    BY <1>7, <1>8, <1>9

-----------------------------------------------------------------------------
\* Mounted as told.

\* What is known of the bootstrap of an application that is set up.
LEMMA BootstrapHeld ==
    ASSUME NuxtInv, nuxt.phase = "set up", nuxt.bootstrap # Nothing
    PROVE  /\ \E ws \in Workspaces : nuxt.bootstrap = Bootstrap(ws, nuxt.options)
           /\ IsFiniteSet(nuxt.options.virtualDescriptors)
           /\ nuxt.options.own \in Seq({nuxt.options.own[k] : k \in DOMAIN nuxt.options.own})
           /\ nuxt.layers = WithFileOnly(ConfigRow(nuxt), nuxt.bootstrap)
           /\ nuxt.public = WithScopes(nuxt, ToldBy(nuxt.options, nuxt.bootstrap))
  <1>1. Started /\ ModuleComposed /\ Mounted /\ nuxt.phase # "absent"
    BY DEF Started, ModuleComposed, Mounted
  <1>2. /\ nuxt.layers = WithFileOnly(ConfigRow(nuxt), nuxt.bootstrap)
        /\ nuxt.public = WithScopes(nuxt, ToldBy(nuxt.options, nuxt.bootstrap))
    BY <1>1 DEF NuxtInv, NuxtMounts
  <1>3. PICK setup \in Setups : setup.nuxt # Nothing /\ nuxt.options = setup.nuxt
    BY <1>1 DEF NuxtInv, NuxtOptions
  <1>4. /\ IsFiniteSet(setup.nuxt.virtualDescriptors)
        /\ setup.nuxt.own \in Seq({setup.nuxt.own[k] : k \in DOMAIN setup.nuxt.own})
    BY <1>3, SetupsAssumption
  <1>5. \E ws \in Workspaces : nuxt.bootstrap = Bootstrap(ws, nuxt.options)
    <2>1. CASE nuxt.options.shared
      BY <1>1, <2>1 DEF NuxtInv, NuxtBootstraps
    <2>2. CASE ~nuxt.options.shared
      BY <1>1, <2>2 DEF NuxtInv, NuxtBootstraps
    <2> QED
      BY <2>1, <2>2
  <1> QED
    BY <1>2, <1>3, <1>4, <1>5

\* The rows of a bootstrap, mounted behind the project's own layer.
LEMMA LayersMounted ==
    ASSUME NEW n, n.options.own \in Seq({n.options.own[k] : k \in DOMAIN n.options.own}),
           IsFiniteSet(n.bootstrap.resolved),
           \A e, f \in n.bootstrap.resolved :
                (RegistersLayer(e) /\ RegistersLayer(f) /\ e.dir = f.dir) => e = f,
           n.bootstrap.active = {e \in n.bootstrap.resolved : RegistersLayer(e)}
    PROVE  LET b      == n.bootstrap
               own    == n.options.own
               layers == WithFileOnly(ConfigRow(n), b)
               root   == Root(ProjectDir)
               front  == <<root>> \o own
               Extended(dir) == n.options.shared /\ \E e \in b.resolved : ExtendsLayer(e) /\ e.dir = dir
           IN  /\ layers # <<>> /\ Head(layers) = root
               /\ \A dir \in ToSet(layers) :
                    dir \in ToSet(front) \/ \E e \in b.resolved : e.dir = dir
               /\ \A e \in b.resolved :
                    RegistersLayer(e) /\ (n.options.shared \/ ~e.configFile) => e.dir \in ToSet(layers)
               /\ \A dir \in ToSet(layers) :
                    (dir \in ToSet(front) => OnceIn(front, dir) /\ ~Extended(dir)) => OnceIn(layers, dir)
  <1> DEFINE b == n.bootstrap
             own == n.options.own
             root == Root(ProjectDir)
             dirs == {e.dir : e \in b.resolved}
             S == {root} \cup {own[k] : k \in DOMAIN own} \cup dirs
             shared == n.options.shared
             paths == IF shared THEN LayerPaths(b) ELSE <<>>
             front == <<root>> \o own
             row == <<root>> \o own \o paths
             fileOnly == {f \in b.active : ~f.configFile}
             added == {e.dir : e \in fileOnly} \ ToSet(row)
             roots == SetToSeq(added)
             layers == WithFileOnly(ConfigRow(n), b)
  <1>1. root \in S /\ own \in Seq(S) /\ dirs \subseteq S
    BY SeqMonotonic
  <1>2. \A e \in b.active : e \in b.resolved /\ e.dir \in S
    OBVIOUS
  <1>3. row = ConfigRow(n)
    BY DEF ConfigRow
  <1>3a. /\ IsFiniteSet(b.resolved)
         /\ \A e, f \in b.resolved : (RegistersLayer(e) /\ RegistersLayer(f) /\ e.dir = f.dir) => e = f
         /\ b.active = {e \in b.resolved : RegistersLayer(e)}
    OBVIOUS
  <1> HIDE DEF S, root, b, own
  <1>4. /\ paths \in Seq(S)
        /\ \A x : x \in ToSet(paths) <=> shared /\ \E e \in b.resolved : ExtendsLayer(e) /\ e.dir = x
        /\ \A x \in ToSet(paths) : OnceIn(paths, x)
    <2>1. CASE shared
      <3>1. IsFiniteSet({e \in b.active : ExtendsLayer(e)})
        BY <1>3a, FS_Subset
      <3>2. \A e, f \in b.active : (ExtendsLayer(e) /\ ExtendsLayer(f) /\ e.dir = f.dir) => e = f
        BY <1>3a DEF ExtendsLayer, RegistersLayer
      <3>3. /\ LayerPaths(b) \in Seq(S)
            /\ \A x : x \in ToSet(LayerPaths(b)) <=> \E e \in b.active : ExtendsLayer(e) /\ e.dir = x
            /\ \A x \in ToSet(LayerPaths(b)) : OnceIn(LayerPaths(b), x)
        BY <1>2, <3>1, <3>2, LayerPathsFacts
      <3>4. paths = LayerPaths(b)
        BY <2>1
      <3>5. \A e \in b.resolved : ExtendsLayer(e) => e \in b.active
        BY <1>3a DEF ExtendsLayer, RegistersLayer
      <3> HIDE DEF paths
      <3> QED
        BY <1>2, <2>1, <3>3, <3>4, <3>5
    <2>2. CASE ~shared
      <3>1. paths = <<>> /\ DOMAIN <<>> = {} /\ <<>> \in Seq(S)
        BY <2>2
      <3>2. ToSet(paths) = {}
        BY <3>1 DEF ToSet
      <3> QED
        BY <2>2, <3>1, <3>2
    <2> QED
      BY <2>1, <2>2
  <1> HIDE DEF paths
  <1>5. /\ roots \in Seq(added) /\ ToSet(roots) = added
        /\ \A x \in ToSet(roots) : OnceIn(roots, x)
    <2>1. IsFiniteSet(fileOnly)
      BY <1>3a, FS_Subset
    <2> HIDE DEF fileOnly
    <2> DEFINE f == [e \in fileOnly |-> e.dir]
    <2>2. DOMAIN f = fileOnly /\ \A e \in fileOnly : f[e] = e.dir
      OBVIOUS
    <2> HIDE DEF f
    <2>3. IsFiniteSet({f[e] : e \in fileOnly})
      BY <2>1, <2>2, FiniteImage
    <2>4. {e.dir : e \in fileOnly} = {f[e] : e \in fileOnly}
      BY <2>2
    <2>5. IsFiniteSet(added)
      BY <2>3, <2>4, FS_Subset
    <2> HIDE DEF added
    <2> QED
      BY <2>5, RowOfSet
  <1>6. \A x : x \in added <=>
            x \notin ToSet(row) /\ \E e \in b.resolved : RegistersLayer(e) /\ ~e.configFile /\ e.dir = x
    BY <1>3a
  <1>7. layers = IF row = <<>> THEN SetToSeq({e.dir : e \in fileOnly} \ ToSet(row))
                 ELSE <<Head(row)>> \o roots \o Tail(row)
    BY <1>3 DEF WithFileOnly
  <1>8. \A x \in added : x \in S
    BY <1>2, <1>6
  <1>9. roots \in Seq(S)
    BY <1>5, <1>8, SeqMonotonic
  <1> HIDE DEF added, roots, layers
  <1>10. ToSet(roots) \cap ToSet(<<root>> \o own \o paths) = {}
    BY <1>5, <1>6
  <1>11. LET line == <<root>> \o own \o paths
             mounted == <<Head(line)>> \o roots \o Tail(line)
         IN  /\ line # <<>> /\ mounted # <<>> /\ Head(mounted) = root
             /\ ToSet(<<root>> \o own) = {root} \cup ToSet(own)
             /\ ToSet(line) = {root} \cup ToSet(own) \cup ToSet(paths)
             /\ ToSet(mounted) = {root} \cup ToSet(roots) \cup ToSet(own) \cup ToSet(paths)
             /\ \A x \in ToSet(mounted) :
                  (x \in ToSet(<<root>> \o own) => OnceIn(<<root>> \o own, x) /\ x \notin ToSet(paths))
                      => OnceIn(mounted, x)
    <2>1. root \in S /\ own \in Seq(S) /\ paths \in Seq(S)
      BY <1>1, <1>4
    <2>2. (\A x \in ToSet(roots) : OnceIn(roots, x)) /\ \A x \in ToSet(paths) : OnceIn(paths, x)
      BY <1>4, <1>5
    <2> QED
      BY <1>9, <1>10, <2>1, <2>2, RowsMounted
  <1>12. layers = <<Head(row)>> \o roots \o Tail(row)
    BY <1>7, <1>11
  <1>13. /\ layers # <<>> /\ Head(layers) = root
         /\ ToSet(front) = {root} \cup ToSet(own)
         /\ ToSet(row) = {root} \cup ToSet(own) \cup ToSet(paths)
         /\ ToSet(layers) = {root} \cup ToSet(roots) \cup ToSet(own) \cup ToSet(paths)
         /\ \A x \in ToSet(layers) :
              (x \in ToSet(front) => OnceIn(front, x) /\ x \notin ToSet(paths)) => OnceIn(layers, x)
    BY <1>11, <1>12
  <1> HIDE DEF front, row
  <1>14. ASSUME NEW dir \in ToSet(layers)
         PROVE  dir \in ToSet(front) \/ \E e \in b.resolved : e.dir = dir
    BY <1>4, <1>5, <1>6, <1>13, <1>14
  <1>15. ASSUME NEW e \in b.resolved, RegistersLayer(e), shared \/ ~e.configFile
         PROVE  e.dir \in ToSet(layers)
    <2>1. CASE e.configFile /\ shared
      BY <1>4, <1>13, <2>1 DEF ExtendsLayer
    <2>2. CASE ~e.configFile
      BY <1>5, <1>6, <1>13, <1>15, <2>2
    <2> QED
      BY <1>15, <2>1, <2>2
  <1>16. ASSUME NEW dir \in ToSet(layers),
                dir \in ToSet(front) => /\ OnceIn(front, dir)
                                        /\ ~(shared /\ \E e \in b.resolved : ExtendsLayer(e) /\ e.dir = dir)
         PROVE  OnceIn(layers, dir)
    BY <1>4, <1>13, <1>16
  <1> QED
    BY <1>13, <1>14, <1>15, <1>16 DEF front, layers, root, b, own

LEMMA InvMountedAsTold ==
    ASSUME NuxtInv PROVE MountedAsTold
  <1>0. SUFFICES ASSUME nuxt.phase = "set up", nuxt.bootstrap # Nothing PROVE MountedAsTold
    BY DEF MountedAsTold
  <1> DEFINE b == nuxt.bootstrap
             o == nuxt.options
             layers == nuxt.layers
             root == Root(ProjectDir)
             front == <<root>> \o o.own
             shared == o.shared
             Extended(dir) == shared /\ \E e \in b.resolved : ExtendsLayer(e) /\ e.dir = dir
             told == ToldSelection(nuxt.public)
  <1>1. /\ \E ws \in Workspaces : b = Bootstrap(ws, o)
        /\ IsFiniteSet(o.virtualDescriptors)
        /\ o.own \in Seq({o.own[k] : k \in DOMAIN o.own})
        /\ layers = WithFileOnly(ConfigRow(nuxt), b)
        /\ nuxt.public = WithScopes(nuxt, ToldBy(o, b))
    BY <1>0, BootstrapHeld
  <1>2. /\ IsFiniteSet(b.resolved)
        /\ \A e, f \in b.resolved : (RegistersLayer(e) /\ RegistersLayer(f) /\ e.dir = f.dir) => e = f
        /\ b.active = {e \in b.resolved : RegistersLayer(e)}
        /\ \/ b.resolved = {} /\ b.discovered = {} /\ b.public = NoKeys
           \/ /\ "extensionSelection" \in DOMAIN b.public
              /\ b.public["extensionSelection"] =
                     [kind |-> "selection", discovered |-> Present(b.discovered),
                      resolved |-> Present(b.resolved), selected |-> b.selected]
    <2>1. PICK ws \in Workspaces : b = Bootstrap(ws, o)
      BY <1>1
    <2> HIDE DEF b, o
    <2>2. Bootstrap(ws, o) # Nothing
      BY <1>0, <2>1 DEF b
    <2> QED
      BY <1>1, <2>1, <2>2, BootstrapFacts
  <1>3. /\ layers # <<>> /\ Head(layers) = root
        /\ \A dir \in ToSet(layers) : dir \in ToSet(front) \/ \E e \in b.resolved : e.dir = dir
        /\ \A e \in b.resolved : RegistersLayer(e) /\ (shared \/ ~e.configFile) => e.dir \in ToSet(layers)
        /\ \A dir \in ToSet(layers) :
             (dir \in ToSet(front) => OnceIn(front, dir) /\ ~Extended(dir)) => OnceIn(layers, dir)
    BY <1>1, <1>2, LayersMounted
  <1>4. ~ScopesWrite(nuxt) =>
            /\ b.discovered # {} \/ "extensionSelection" \notin DOMAIN o.host => Present(b.resolved) = told.resolved
            /\ o.providers => ToldSlots(nuxt.public) = b.slots
    <2> SUFFICES ASSUME ~ScopesWrite(nuxt)
                 PROVE  /\ b.discovered # {} \/ "extensionSelection" \notin DOMAIN o.host
                                => Present(b.resolved) = told.resolved
                        /\ o.providers => ToldSlots(nuxt.public) = b.slots
      OBVIOUS
    <2> DEFINE public == nuxt.public
    <2>1. /\ b.public = NoKeys /\ "extensionSelection" \notin DOMAIN o.host =>
                "extensionSelection" \notin DOMAIN public
          /\ "extensionSelection" \in DOMAIN b.public =>
                /\ "extensionSelection" \in DOMAIN public
                /\ public["extensionSelection"] = b.public["extensionSelection"]
          /\ o.providers => ToldSlots(public) = b.slots
      BY <1>1, ToldFacts
    <2>2. told = IF "extensionSelection" \in DOMAIN public /\ public["extensionSelection"].kind = "selection"
                 THEN [discovered |-> public["extensionSelection"].discovered,
                       resolved |-> public["extensionSelection"].resolved,
                       selected |-> public["extensionSelection"].selected,
                       notInjected |-> public["extensionSelection"].discovered
                                        \ public["extensionSelection"].resolved]
                 ELSE [discovered |-> {}, resolved |-> {}, selected |-> {}, notInjected |-> {}]
      BY DEF ToldSelection
    <2> HIDE DEF b, o, public, told
    <2>3. CASE b.resolved = {} /\ b.discovered = {} /\ b.public = NoKeys
      <3>1. Present(b.resolved) = {}
        BY <2>3 DEF Present
      <3>2. "extensionSelection" \notin DOMAIN o.host => told.resolved = {}
        BY <2>1, <2>2, <2>3
      <3> QED
        BY <2>1, <2>3, <3>1, <3>2 DEF public
    <2>4. CASE /\ "extensionSelection" \in DOMAIN b.public
               /\ b.public["extensionSelection"] =
                     [kind |-> "selection", discovered |-> Present(b.discovered),
                      resolved |-> Present(b.resolved), selected |-> b.selected]
      <3>1. "extensionSelection" \in DOMAIN public
            /\ public["extensionSelection"].kind = "selection"
            /\ public["extensionSelection"].resolved = Present(b.resolved)
        BY <2>1, <2>4
      <3>2. told.resolved = Present(b.resolved)
        BY <2>2, <3>1
      <3> QED
        BY <2>1, <3>2 DEF public
    <2> QED
      BY <1>2, <2>3, <2>4
  <1> HIDE DEF b, o, layers, front, told
  <1>5. \A dir \in ToSet(layers) :
            (dir \in ToSet(front) =>
                /\ OnceIn(front, dir)
                /\ o.shared => \A e \in b.resolved : e.dir = dir => ~ExtendsLayer(e))
            => OnceIn(layers, dir)
    BY <1>3
  <1>6. \A dir \in ToSet(layers) \ ToSet(front) : \E e \in b.resolved : e.dir = dir
    BY <1>3
  <1> QED
    BY <1>3, <1>4, <1>5, <1>6 DEF MountedAsTold, b, o, layers, front, told, Present

-----------------------------------------------------------------------------
\* The hosts see one descriptor alike: groupings, packages, and what a run serves.

\* One descriptor as the two hosts see it, and two catalogs of the same descriptors.
Same(c, e) == c.id = e.id /\ c.dir = e.dir /\ c.descriptor = e.descriptor

Alike(items, entries) ==
    /\ \A c \in items : \E e \in entries : Same(c, e)
    /\ \A e \in entries : \E c \in items : Same(c, e)

\* A grouping stands at its synthetic directory, a package at one of the disk.
Placed(items) ==
    \A c \in items :
        /\ IsGrouping(c) => c.dir = VirtualDirectory(c.id)
        /\ ~IsGrouping(c) => c.dir.kind = "disk"

\* What an entry is to React.
ItemFor(virtual, c, e) ==
    /\ c.id = e.id /\ c.descriptor = e.descriptor
    /\ e.nested = TRUE \/ e \in virtual => IsGrouping(c) /\ c.dir = VirtualDirectory(e.id)
    /\ e.nested # TRUE /\ e \notin virtual =>
        c.dir = e.dir /\ ~IsGrouping(c)

LEMMA ItemsAlike ==
    ASSUME NEW ws \in Workspaces, NEW o, IsFiniteSet(o.virtualDescriptors),
           Discovered(ws, o) # Nothing, Virtual(ws, o) # Nothing, NEW items,
           \A c \in items : \E e \in Discovered(ws, o) \cup Virtual(ws, o) : ItemFor(Virtual(ws, o), c, e),
           \A e \in Discovered(ws, o) \cup Virtual(ws, o) : \E c \in items : ItemFor(Virtual(ws, o), c, e)
    PROVE  /\ NuxtEntries(ws, o) # Nothing => Alike(items, NuxtEntries(ws, o))
           /\ Placed(items)
  <1> DEFINE found == Discovered(ws, o)
             virtual == Virtual(ws, o)
             all == found \cup virtual
  <1>1. /\ \A e \in found : e.dir = Physical(e.file)
        /\ \A e \in virtual : e.dir = VirtualDirectory(e.id) /\ e.nested = FALSE
    BY DiscoveredFacts, VirtualFacts
  <1>2. NuxtEntries(ws, o) = {NuxtEntry(ws, e) : e \in all}
    BY DEF NuxtEntries, EntriesOf
  <1>3. (\A c \in items : \E e \in all : ItemFor(virtual, c, e))
        /\ \A e \in all : \E c \in items : ItemFor(virtual, c, e)
    OBVIOUS
  <1>4. \A e : /\ NuxtEntry(ws, e).id = e.id /\ NuxtEntry(ws, e).descriptor = e.descriptor
               /\ e.nested = TRUE => NuxtEntry(ws, e).dir = VirtualDirectory(e.id)
               /\ e.nested = FALSE => NuxtEntry(ws, e).dir = e.dir
    BY DEF NuxtEntry
  <1>4a. \A e \in all : e.nested \in BOOLEAN
    <2>1. \A e \in found : e.nested = TRUE \/ e = OwnEntry(ws, e.file)
      BY DiscoveredFacts
    <2>2. \A d : OwnEntry(ws, d).nested = FALSE
      BY DEF OwnEntry, Entry
    <2> HIDE DEF found, virtual
    <2> QED
      BY <1>1, <2>1, <2>2
  <1> HIDE DEF found, virtual
  <1>5. ASSUME NEW c, NEW e \in all, ItemFor(virtual, c, e)
        PROVE  Same(c, NuxtEntry(ws, e))
    <2>1. c.id = NuxtEntry(ws, e).id /\ c.descriptor = NuxtEntry(ws, e).descriptor
      BY <1>4, <1>5 DEF ItemFor
    <2>2. CASE e.nested = TRUE
      <3>1. c.dir = NuxtEntry(ws, e).dir
        BY <1>4, <1>5, <2>2 DEF ItemFor
      <3> QED
        BY <2>1, <3>1 DEF Same
    <2>3. CASE e.nested = FALSE /\ e \in virtual
      <3>1. c.dir = NuxtEntry(ws, e).dir
        BY <1>1, <1>4, <1>5, <2>3 DEF ItemFor
      <3> QED
        BY <2>1, <3>1 DEF Same
    <2>4. CASE e.nested = FALSE /\ e \notin virtual
      <3>1. c.dir = NuxtEntry(ws, e).dir
        <4>1. e.nested # TRUE
          BY <2>4
        <4>2. c.dir = e.dir
          BY <1>5, <2>4, <4>1 DEF ItemFor
        <4>3. NuxtEntry(ws, e).dir = e.dir
          BY <1>4, <2>4
        <4> QED
          BY <4>2, <4>3
      <3> QED
        BY <2>1, <3>1 DEF Same
    <2> QED
      BY <1>4a, <2>2, <2>3, <2>4
  <1>6. ASSUME NEW c, NEW e \in all, ItemFor(virtual, c, e)
        PROVE  /\ IsGrouping(c) => c.dir = VirtualDirectory(c.id)
               /\ ~IsGrouping(c) => c.dir.kind = "disk"
    <2>1. CASE e.nested = TRUE \/ e \in virtual
      BY <1>6, <2>1 DEF ItemFor
    <2>2. CASE e.nested # TRUE /\ e \notin virtual
      <3>1. c.dir = Physical(e.file) /\ ~IsGrouping(c)
        BY <1>1, <1>6, <2>2 DEF ItemFor
      <3>2. Physical(e.file).kind = "disk" /\ Physical(e.file).name = e.file
        BY DEF Physical
      <3> QED
        BY <3>1, <3>2
    <2> QED
      BY <2>1, <2>2
  <1>7. Placed(items)
    BY <1>3, <1>6 DEF Placed
  <1>8. Alike(items, NuxtEntries(ws, o))
    BY <1>2, <1>3, <1>5 DEF Alike
  <1> QED
    BY <1>7, <1>8

\* The capabilities a host discovers are such items, and a run's are.
LEMMA GroupingFor ==
    ASSUME NEW virtual, NEW e, e.nested = TRUE \/ e \in virtual
    PROVE  ItemFor(virtual, GroupingOf(e), e)
  BY DEF ItemFor, GroupingOf, IsGrouping

LEMMA CapabilityFor ==
    ASSUME NEW ws, NEW o, NEW virtual, NEW e, e.nested # TRUE, e \notin virtual, ~Unnamed(ws.dirs[e.file])
    PROVE  LET c == Capability(e, ws.dirs[e.file], o)
           IN  ItemFor(virtual, c, e) /\ ItemFor(virtual, [c EXCEPT !.routes = FALSE], e)
  BY DEF ItemFor, Capability, IsGrouping, Unnamed

\* What an entry with a directory of its own is to a host, and to a run.
PackageFor(ws, o, e) ==
    {Capability(e, ws.dirs[e.file], o), [Capability(e, ws.dirs[e.file], o) EXCEPT !.routes = FALSE]}

LEMMA SelectionItems ==
    ASSUME NEW ws \in Workspaces, NEW o, IsFiniteSet(o.virtualDescriptors), NEW f,
           Discovered(ws, o) # Nothing, Virtual(ws, o) # Nothing,
           \A e \in Discovered(ws, o) : e.nested = FALSE => ~Unnamed(ws.dirs[e.file]),
           \A e \in Discovered(ws, o) : e.nested = TRUE => f[e] = GroupingOf(e),
           \A e \in Discovered(ws, o) : e.nested = FALSE =>
                f[e] \in PackageFor(ws, o, e),
           NEW items,
           items = {f[e] : e \in Discovered(ws, o)} \cup {GroupingOf(e) : e \in Virtual(ws, o)}
    PROVE  /\ NuxtEntries(ws, o) # Nothing => Alike(items, NuxtEntries(ws, o))
           /\ Placed(items)
  <1> DEFINE found == Discovered(ws, o)
             virtual == Virtual(ws, o)
  <1>1. \A e \in found : e.nested = TRUE \/ (e.nested = FALSE /\ e \notin virtual)
    <2>1. /\ \A e \in found : e.dir = Physical(e.file) /\ (e.nested = TRUE \/ e = OwnEntry(ws, e.file))
          /\ \A e \in virtual : e.dir = VirtualDirectory(e.id)
      BY DiscoveredFacts, VirtualFacts
    <2>2. \A d : OwnEntry(ws, d).nested = FALSE
      BY DEF OwnEntry, Entry
    <2>3. \A d, id : Physical(d) # VirtualDirectory(id)
      BY DEF Physical, VirtualDirectory
    <2> HIDE DEF found, virtual
    <2> QED
      BY <2>1, <2>2, <2>3
  <1>2. \A e \in found : ItemFor(virtual, f[e], e)
    <2> TAKE e \in found
    <2>1. CASE e.nested = TRUE
      <3>1. f[e] = GroupingOf(e)
        BY <2>1
      <3>2. ItemFor(virtual, GroupingOf(e), e)
        BY <2>1, GroupingFor
      <3> QED
        BY <3>1, <3>2
    <2>2. CASE e.nested = FALSE /\ e \notin virtual
      <3>1. e.nested # TRUE /\ ~Unnamed(ws.dirs[e.file])
        BY <2>2
      <3> DEFINE c == Capability(e, ws.dirs[e.file], o)
                 d == [c EXCEPT !.routes = FALSE]
      <3>2. f[e] \in {c, d}
        BY <2>2 DEF PackageFor
      <3>3. ItemFor(virtual, c, e) /\ ItemFor(virtual, d, e)
        BY <2>2, <3>1, CapabilityFor
      <3> HIDE DEF c, d
      <3> QED
        BY <3>2, <3>3
    <2> QED
      BY <1>1, <2>1, <2>2
  <1>3. \A e \in virtual : ItemFor(virtual, GroupingOf(e), e)
    BY GroupingFor
  <1>4. /\ \A c \in items : \E e \in found \cup virtual : ItemFor(virtual, c, e)
        /\ \A e \in found \cup virtual : \E c \in items : ItemFor(virtual, c, e)
    <2> HIDE DEF found, virtual
    <2>1. items = {f[e] : e \in found} \cup {GroupingOf(e) : e \in virtual}
      BY DEF found, virtual
    <2> QED
      BY <1>2, <1>3, <2>1
  <1> QED
    BY <1>4, ItemsAlike

\* The first composition of a React host is the one resolution of the descriptors Nuxt
\* discovers in that workspace, each as React sees it.
OwnGroups(items) == {c \in items : IsGrouping(c)}

LEMMA NestedOrNot ==
    ASSUME NEW ws \in Workspaces, NEW o, Discovered(ws, o) # Nothing, NEW e \in Discovered(ws, o)
    PROVE  e.nested = TRUE \/ (e.nested = FALSE /\ e.file \in Files(ws))
  <1>1. e.nested = TRUE \/ e = OwnEntry(ws, e.file)
    BY DiscoveredFacts
  <1>2. \A d : OwnEntry(ws, d).nested = FALSE
    BY DEF OwnEntry, Entry
  <1>3. \A d : \A x \in Expand(ws.dirs[d].document, d, o) : x.file = d
    BY DEF Expand, Entry
  <1>4. PICK d \in Files(ws) : e \in Expand(ws.dirs[d].document, d, o)
    BY DEF Discovered
  <1> QED
    BY <1>1, <1>2, <1>3, <1>4

LEMMA CapabilityItems ==
    ASSUME NEW ws \in Workspaces, NEW o, IsFiniteSet(o.virtualDescriptors),
           CapabilitySelection(ws, Virtual(ws, o), o) # Nothing
    PROVE  \E items :
                /\ CapabilitySelection(ws, Virtual(ws, o), o) = Resolve(items, OwnGroups(items), o.seed)
                /\ Discovered(ws, o) # Nothing /\ Virtual(ws, o) # Nothing
                /\ NuxtEntries(ws, o) # Nothing => Alike(items, NuxtEntries(ws, o))
                /\ Placed(items)
  <1> DEFINE found == Discovered(ws, o)
             virtual == Virtual(ws, o)
             item(e) == IF e.nested THEN GroupingOf(e) ELSE Capability(e, ws.dirs[e.file], o)
             capabilities == {item(e) : e \in found}
             groupings == {GroupingOf(e) : e \in virtual}
             refused == \/ ~o.descriptorPaths /\ ~ws.present
                        \/ o.activation = "both"
                        \/ found = Nothing
                        \/ \E e \in found : ~e.nested /\ (Unnamed(ws.dirs[e.file]) \/ LacksEntry(ws.dirs[e.file], o))
             items == capabilities \cup groupings
  <1>1. DiscoverCapabilities(ws, o) = IF refused THEN Nothing ELSE capabilities
    BY DEF DiscoverCapabilities, Capabilities
  <1>2. CapabilitySelection(ws, virtual, o) =
            IF virtual = Nothing \/ DiscoverCapabilities(ws, o) = Nothing THEN Nothing
            ELSE Resolve(DiscoverCapabilities(ws, o) \cup groupings,
                         OwnGroups(DiscoverCapabilities(ws, o) \cup groupings), o.seed)
    BY DEF CapabilitySelection, SelectionAmong, ResolveCapabilities, OwnGroups
  <1>3. virtual # Nothing /\ ~refused /\ CapabilitySelection(ws, virtual, o) = Resolve(items, OwnGroups(items), o.seed)
    <2> HIDE DEF virtual, refused, capabilities, groupings
    <2> QED
      BY <1>1, <1>2 DEF virtual
  <1>4. found # Nothing /\ \A e \in found : e.nested = FALSE => ~Unnamed(ws.dirs[e.file])
    BY <1>3
  <1> DEFINE f == [e \in found |-> item(e)]
  <1>5. /\ \A e \in found : e.nested = TRUE => f[e] = GroupingOf(e)
        /\ \A e \in found : e.nested = FALSE => f[e] = Capability(e, ws.dirs[e.file], o)
        /\ capabilities = {f[e] : e \in found}
    OBVIOUS
  <1> HIDE DEF f, capabilities
  <1>6. items = {f[e] : e \in found} \cup {GroupingOf(e) : e \in virtual}
    BY <1>5
  <1> HIDE DEF items
  <1>7. (NuxtEntries(ws, o) # Nothing => Alike(items, NuxtEntries(ws, o))) /\ Placed(items)
    <2>1. virtual # Nothing /\ found # Nothing
      BY <1>3, <1>4
    <2>2. \A e \in found : e.nested = FALSE => f[e] \in PackageFor(ws, o, e)
      BY <1>5 DEF PackageFor
    <2>3. \A e \in found : e.nested = TRUE => f[e] = GroupingOf(e)
      BY <1>5
    <2> QED
      BY <1>4, <1>6, <2>1, <2>2, <2>3, SelectionItems
  <1> QED
    BY <1>3, <1>4, <1>7

LEMMA RunSelectionItems ==
    ASSUME NEW ws \in Workspaces, NEW o, IsFiniteSet(o.virtualDescriptors),
           RunSelection(ws, o) # Nothing
    PROVE  \E items :
                /\ RunSelection(ws, o) = Resolve(items, OwnGroups(items), o.seed)
                /\ Discovered(ws, o) # Nothing /\ Virtual(ws, o) # Nothing
                /\ NuxtEntries(ws, o) # Nothing => Alike(items, NuxtEntries(ws, o))
                /\ Placed(items)
  <1> DEFINE found == Discovered(ws, o)
             virtual == Virtual(ws, o)
             item(e) == IF e.nested THEN GroupingOf(e)
                        ELSE [Capability(e, ws.dirs[e.file], o) EXCEPT !.routes = FALSE]
             capabilities == {item(e) : e \in found}
             groupings == {GroupingOf(e) : e \in virtual}
             refused == \/ found = Nothing
                        \/ \E d \in Files(ws) : Unnamed(ws.dirs[d])
                        \/ \E d, e \in Files(ws) : d # e /\ ws.dirs[d].manifest.name = ws.dirs[e].manifest.name
             items == capabilities \cup groupings
  <1>1. RunItems(ws, o, found) = IF refused THEN Nothing ELSE capabilities
    BY DEF RunItems
  <1>2. RunSelection(ws, o) =
            IF virtual = Nothing \/ RunItems(ws, o, found) = Nothing THEN Nothing
            ELSE Resolve(RunItems(ws, o, found) \cup groupings,
                         OwnGroups(RunItems(ws, o, found) \cup groupings), o.seed)
    BY DEF RunSelection, SelectionAmong, ResolveCapabilities, OwnGroups
  <1>3. virtual # Nothing /\ ~refused /\ RunSelection(ws, o) = Resolve(items, OwnGroups(items), o.seed)
    <2> HIDE DEF virtual, refused, capabilities, groupings
    <2> QED
      BY <1>1, <1>2
  <1>4. found # Nothing /\ \A d \in Files(ws) : ~Unnamed(ws.dirs[d])
    BY <1>3
  <1>4a. \A e \in found : e.nested = FALSE => ~Unnamed(ws.dirs[e.file])
    <2> TAKE e \in found
    <2>1. e.nested = TRUE \/ (e.nested = FALSE /\ e.file \in Files(ws))
      BY <1>4, NestedOrNot
    <2> QED
      BY <1>4, <2>1
  <1> DEFINE f == [e \in found |-> item(e)]
  <1>5. /\ \A e \in found : e.nested = TRUE => f[e] = GroupingOf(e)
        /\ \A e \in found : e.nested = FALSE =>
                f[e] = [Capability(e, ws.dirs[e.file], o) EXCEPT !.routes = FALSE]
        /\ capabilities = {f[e] : e \in found}
    OBVIOUS
  <1> HIDE DEF f, capabilities
  <1>6. items = {f[e] : e \in found} \cup {GroupingOf(e) : e \in virtual}
    BY <1>5
  <1> HIDE DEF items
  <1>7. (NuxtEntries(ws, o) # Nothing => Alike(items, NuxtEntries(ws, o))) /\ Placed(items)
    <2>1. virtual # Nothing /\ found # Nothing
      BY <1>3, <1>4
    <2>2. \A e \in found : e.nested = FALSE =>
                f[e] \in PackageFor(ws, o, e)
      BY <1>5 DEF PackageFor
    <2>3. \A e \in found : e.nested = TRUE => f[e] = GroupingOf(e)
      BY <1>5
    <2> QED
      BY <1>4a, <1>6, <2>1, <2>2, <2>3, SelectionItems
  <1> QED
    BY <1>3, <1>4, <1>7

-----------------------------------------------------------------------------
\* Catalogs that are alike are asked and resolved alike.

LEMMA AlikeIds ==
    ASSUME NEW items, NEW entries, Alike(items, entries)
    PROVE  Present(items) = Present(entries) /\ Enabled(items) = Enabled(entries)
  <1>1. \A c, e : Same(c, e) => c.id = e.id /\ c.descriptor = e.descriptor
    BY DEF Same
  <1>2. Present(items) = Present(entries)
    BY <1>1 DEF Present, Alike
  <1>3. \A id : id \in Enabled(items) <=> \E c \in items : c.id = id /\ ~c.descriptor.disabled
    BY DEF Enabled
  <1>4. \A id : id \in Enabled(entries) <=> \E e \in entries : e.id = id /\ ~e.descriptor.disabled
    BY DEF Enabled
  <1>5. ASSUME NEW id \in Enabled(items) PROVE id \in Enabled(entries)
    <2>1. PICK c \in items : c.id = id /\ ~c.descriptor.disabled
      BY <1>3, <1>5
    <2>2. PICK e \in entries : Same(c, e)
      BY DEF Alike
    <2> QED
      BY <1>1, <1>4, <2>1, <2>2
  <1>6. ASSUME NEW id \in Enabled(entries) PROVE id \in Enabled(items)
    <2>1. PICK e \in entries : e.id = id /\ ~e.descriptor.disabled
      BY <1>4, <1>6
    <2>2. PICK c \in items : Same(c, e)
      BY DEF Alike
    <2> QED
      BY <1>1, <1>3, <2>1, <2>2
  <1> QED
    BY <1>2, <1>5, <1>6

LEMMA EntriesAlike ==
    ASSUME NEW items, NEW entries, Alike(items, entries), Unique(items), Unique(entries),
           NEW id \in Present(items)
    PROVE  /\ EntryOf(items, id) \in items /\ EntryOf(entries, id) \in entries
           /\ Same(EntryOf(items, id), EntryOf(entries, id))
  <1> DEFINE c == EntryOf(items, id)
             e == EntryOf(entries, id)
  <1>1. c \in items /\ c.id = id
    BY EntryOfId
  <1>2. id \in Present(entries)
    BY AlikeIds
  <1>3. e \in entries /\ e.id = id
    BY <1>2, EntryOfId
  <1> HIDE DEF c, e
  <1>4. PICK f \in entries : Same(c, f)
    BY <1>1 DEF Alike
  <1>5. f.id = id
    BY <1>1, <1>4 DEF Same
  <1>6. f = e
    BY <1>3, <1>5 DEF Unique
  <1> QED
    BY <1>1, <1>3, <1>4, <1>6 DEF c, e

\* Alike catalogs ask descriptor selection for one thing.
LEMMA AlikeAsked ==
    ASSUME NEW items, NEW entries, Alike(items, entries), Unique(items), Unique(entries), NEW seed,
           NEW groups, NEW others,
           \A c \in items : \A e \in entries : Same(c, e) => (c \in groups <=> e \in others)
    PROVE  SelectionAsked(items, groups, seed) = SelectionAsked(entries, others, seed)
  <1> DEFINE c(id) == EntryOf(items, id)
             e(id) == EntryOf(entries, id)
             enabled == Enabled(items)
  <1>1. enabled = Enabled(entries) /\ enabled \subseteq Present(items)
    BY AlikeIds DEF Enabled, Present
  <1>2. \A id \in enabled : c(id).descriptor = e(id).descriptor /\ (c(id) \in groups <=> e(id) \in others)
    <2> TAKE id \in enabled
    <2>1. c(id) \in items /\ e(id) \in entries /\ Same(c(id), e(id))
      BY <1>1, EntriesAlike
    <2> QED
      BY <2>1 DEF Same
  <1> HIDE DEF enabled, c, e
  <1>3. [id \in Ids |-> IF id \in enabled THEN c(id).descriptor.dependencies ELSE {}]
            = [id \in Ids |-> IF id \in enabled THEN e(id).descriptor.dependencies ELSE {}]
    BY <1>2
  <1>4. [id \in Ids |-> IF id \in enabled THEN c(id).descriptor.providesFor ELSE {}]
            = [id \in Ids |-> IF id \in enabled THEN e(id).descriptor.providesFor ELSE {}]
    BY <1>2
  <1>5. [id \in Ids |-> IF id \in enabled THEN c(id).descriptor.defaultFor ELSE {}]
            = [id \in Ids |-> IF id \in enabled THEN e(id).descriptor.defaultFor ELSE {}]
    BY <1>2
  <1>6. [id \in Ids |-> IF id \in enabled
                        THEN IF c(id) \in groups THEN c(id).descriptor.dependencies ELSE {} ELSE {}]
            = [id \in Ids |-> IF id \in enabled
                              THEN IF e(id) \in others THEN e(id).descriptor.dependencies ELSE {} ELSE {}]
    BY <1>2
  <1> QED
    BY <1>1, <1>3, <1>4, <1>5, <1>6 DEF SelectionAsked, FieldOf, enabled, c, e

\* The one resolution of two alike catalogs: one seed, one composition, alike.
LEMMA ResolveAlike ==
    ASSUME NEW items, NEW entries, Alike(items, entries), NEW input, NEW groups, NEW others,
           \A c \in items : \A e \in entries : Same(c, e) => (c \in groups <=> e \in others),
           Resolve(items, groups, input) # Nothing, Resolve(entries, others, input) # Nothing
    PROVE  LET one   == Resolve(items, groups, input)
               other == Resolve(entries, others, input)
           IN  /\ one.seed = other.seed /\ one.slots = other.slots
               /\ Present(one.discovered) = Present(other.discovered)
               /\ Alike(one.items, other.items)
               /\ Unique(one.items) /\ Unique(other.items)
  <1> DEFINE seed == SeedOf(input)
             one == Resolve(items, groups, input)
             other == Resolve(entries, others, input)
             outcome == OutcomeOf(SelectionAsked(items, groups, seed))
             outcome2 == OutcomeOf(SelectionAsked(entries, others, seed))
  <1>1. /\ one.seed = seed /\ one.discovered = items /\ one.slots = outcome.slots
        /\ one.items = {EntryOf(items, id) : id \in outcome.composed}
        /\ outcome.composed \subseteq Enabled(items)
        /\ Unique(items) /\ one.items \subseteq items
    BY ResolveIs
  <1>2. /\ other.seed = seed /\ other.discovered = entries /\ other.slots = outcome2.slots
        /\ other.items = {EntryOf(entries, id) : id \in outcome2.composed}
        /\ Unique(entries) /\ other.items \subseteq entries
    BY ResolveIs
  <1>3. outcome2 = outcome
    BY <1>1, <1>2, AlikeAsked
  <1>4. Present(one.discovered) = Present(other.discovered)
    BY <1>1, <1>2, AlikeIds
  <1>5. \A id \in outcome.composed : Same(EntryOf(items, id), EntryOf(entries, id))
    <2>1. Enabled(items) \subseteq Present(items)
      BY DEF Enabled, Present
    <2> HIDE DEF outcome, one, other, outcome2
    <2> QED
      BY <1>1, <1>2, <2>1, EntriesAlike
  <1> HIDE DEF outcome, one, other, outcome2
  <1>6. Alike(one.items, other.items)
    BY <1>1, <1>2, <1>3, <1>5 DEF Alike
  <1>7. Unique(one.items) /\ Unique(other.items)
    BY <1>1, <1>2 DEF Unique
  <1> QED
    BY <1>1, <1>2, <1>3, <1>4, <1>6, <1>7 DEF one, other

-----------------------------------------------------------------------------
\* Where nothing is enabled the hosts differ in what they compute, and not in what follows.

\* Nothing enabled, no slot.
LEMMA EmptyTurn ==
    ASSUME NEW s, s.enabled = {}, NEW E, NEW state, state.slots = <<>>
    PROVE  Turn(s, E, state).slots = <<>>
  <1> DEFINE closed == Closure(s, E, state.winners)
             ask == Ask(s, E, closed)
             decided == Resolution(ask)
  <1>1. Provided(s) = {}
    BY DEF Provided
  <1>2. ask.active = {} /\ ask.required = {}
    <2>1. ask.active = closed \cap Provided(s) /\ ask.required = RequiredCapabilities(s, closed)
      BY DEF Ask
    <2>2. RequiredCapabilities(s, closed) = {}
      BY <1>1 DEF RequiredCapabilities, PairsProviding
    <2> QED
      BY <1>1, <2>1, <2>2
  <1>2a. \A providers : PairsProviding(s, providers) = {}
    BY DEF PairsProviding
  <1>2b. ask.requests["explicit"] = {} /\ ask.requests["dependency"] = {}
    BY <1>2a DEF Ask, DependencyRequests
  <1>3. ActiveSlots(ask) = {}
    <2> HIDE DEF ask
    <2> QED
      BY <1>2, <1>2b DEF ActiveSlots, RequiredSlots, Asked
  <1>4. decided = <<>>
    <2> HIDE DEF ask
    <2>1. decided = [c \in {} |-> SlotOf(ask, c)]
      BY <1>3 DEF Resolution
    <2>2. DOMAIN decided = {}
      BY <2>1
    <2> QED
      BY <2>1
  <1>5. Turn(s, E, state) = state \/ Turn(s, E, state) = Stuck \/ Turn(s, E, state) = Turned(state, closed, decided)
    BY DEF Turn, TurnOver
  <1> HIDE DEF decided, closed
  <1>6. Stuck.slots = <<>> /\ Turned(state, closed, decided).slots = decided
    BY DEF Stuck, Turned
  <1> QED
    BY <1>4, <1>5, <1>6

LEMMA EmptyOutcome ==
    ASSUME NEW s, s.enabled = {}
    PROVE  OutcomeOf(s).slots = <<>>
  <1> DEFINE E == Explicit(s)
             last == Settlement(s, E)
             turns == Turns(s, E)
  <1>1. MaxPasses(s) = 2
    BY FS_EmptySet DEF MaxPasses
  <1>2. turns[0] = Start(s, E) /\ turns[1] = Turn(s, E, turns[0]) /\ turns[2] = Turn(s, E, turns[1])
        /\ last = turns[2]
    <2>1. \A k \in 1..2 : turns[k] = Turn(s, E, turns[k - 1])
      BY <1>1, TurnsTaken
    <2>2. turns[0] = Start(s, E) /\ last = turns[2]
      BY <1>1, TurnsTaken
    <2> HIDE DEF turns, last, E
    <2>3. 1 \in 1..2 /\ 2 \in 1..2 /\ 1 - 1 = 0 /\ 2 - 1 = 1
      OBVIOUS
    <2> QED
      BY <2>1, <2>2, <2>3
  <1> HIDE DEF turns
  <1>3. turns[0].slots = <<>>
    BY <1>2 DEF Start
  <1>4. turns[1].slots = <<>>
    BY <1>2, <1>3, EmptyTurn
  <1>5. last.slots = <<>>
    BY <1>2, <1>4, EmptyTurn
  <1>6. OutcomeOf(s) = OutcomeFrom(s, E, last)
    BY DEF OutcomeOf
  <1> HIDE DEF E, last
  <1>7. OutcomeOf(s) \in {Refused, SettledOutcome(s, last.slots, Composition(s, E, last.slots))}
    BY <1>6 DEF OutcomeFrom
  <1>8. Refused.slots = <<>> /\ \A c : SettledOutcome(s, last.slots, c).slots = last.slots
                                     \/ SettledOutcome(s, last.slots, c).slots = <<>>
    BY DEF Refused, SettledOutcome
  <1> QED
    BY <1>5, <1>7, <1>8

\* Without a descriptor nothing was asked for, and nothing is answered.
LEMMA EmptyResolution ==
    ASSUME NEW groups, NEW input, Resolve({}, groups, input) # Nothing
    PROVE  LET resolution == Resolve({}, groups, input)
           IN  /\ resolution.items = {} /\ resolution.discovered = {} /\ resolution.slots = <<>>
               /\ resolution.seed = SeedOf(input) /\ resolution.seed.selected = {}
  <1> DEFINE resolution == Resolve({}, groups, input)
             seed == SeedOf(input)
             asked == SelectionAsked({}, groups, seed)
             outcome == OutcomeOf(asked)
  <1>1. /\ seed # Nothing /\ resolution.seed = seed
        /\ resolution.discovered = {} /\ resolution.slots = outcome.slots
        /\ resolution.items \subseteq {}
    BY ResolveIs
  <1>2. asked.enabled = {} /\ asked.roots = seed.selected \cup seed.base
    BY DEF SelectionAsked, Enabled
  <1>3. ~UnknownSeed(asked)
    <2>1. resolution = ResolveAsked({}, input, seed, asked)
      BY <1>1 DEF Resolve, ResolveSeed
    <2> HIDE DEF resolution, seed, asked
    <2> QED
      BY <2>1 DEF ResolveAsked, resolution
  <1>4. seed.selected = {}
    <2> HIDE DEF seed, asked
    <2> QED
      BY <1>2, <1>3 DEF UnknownSeed
  <1>5. outcome.slots = <<>>
    BY <1>2, EmptyOutcome
  <1> QED
    BY <1>1, <1>4, <1>5

-----------------------------------------------------------------------------
\* A composition and a bootstrap that match: their slots, reports and contributions.

\* A React composition and a Nuxt bootstrap of one product.
Matches(selection, b) ==
    /\ Present(selection.discovered) = Present(b.discovered)
    /\ Alike(selection.items, b.resolved)
    /\ Unique(selection.items) /\ Unique(b.resolved) /\ Placed(selection.items)
    /\ selection.slots = b.slots
    /\ selection.seed.requested = b.requested
    /\ selection.seed.selected = b.selected
    /\ selection.seed.base = b.base
    /\ b.public = NoKeys => b.selected = {}

LEMMA SameGroups ==
    ASSUME NEW items, NEW entries, Placed(items), NEW c \in items, NEW e \in entries, Same(c, e)
    PROVE  c \in OwnGroups(items) <=> e \in {f \in entries : GroupsExtensions(f)}
  <1>1. c \in OwnGroups(items) <=> IsGrouping(c)
    BY DEF OwnGroups
  <1>2. e \in {f \in entries : GroupsExtensions(f)} <=> c.dir = VirtualDirectory(c.id)
    BY DEF GroupsExtensions, Same
  <1>3. IsGrouping(c) => c.dir = VirtualDirectory(c.id)
    BY DEF Placed
  <1>4. c.dir = VirtualDirectory(c.id) => c.dir.kind # "disk"
    BY DEF VirtualDirectory
  <1>5. ~IsGrouping(c) => c.dir.kind = "disk"
    BY DEF Placed
  <1> QED
    BY <1>1, <1>2, <1>3, <1>4, <1>5

LEMMA SelectionMatches ==
    ASSUME NEW ws, NEW o, NEW items, o.extensions.enabled,
           Alike(items, NuxtEntries(ws, o)), Placed(items),
           Resolve(items, OwnGroups(items), o.extensions.seed) # Nothing,
           Bootstrap(ws, o) # Nothing
    PROVE  Matches(Resolve(items, OwnGroups(items), o.extensions.seed), Bootstrap(ws, o))
  <1> DEFINE entries == NuxtEntries(ws, o)
             input == o.extensions.seed
             seed == SeedOf(input)
             b == Bootstrap(ws, o)
             selection == Resolve(items, OwnGroups(items), input)
             others == {e \in entries : GroupsExtensions(e)}
             other == Resolve(entries, others, input)
             named == \E spec \in seed.specs : NamedSelector(input, spec)
  <1>1. b = IF entries = Nothing \/ seed = Nothing THEN Nothing
            ELSE IF entries = {} /\ (~o.extensions.enabled \/ ~named) THEN EmptyBootstrap({}, seed, seed.base)
            ELSE BootstrapOf(other)
    BY DEF Bootstrap, BootstrapWith
  <1>2. selection.seed = seed /\ selection.items \subseteq items
    BY ResolveIs
  <1>3. Placed(selection.items)
    BY <1>2 DEF Placed
  <1>4. CASE entries = {} /\ b = EmptyBootstrap({}, seed, seed.base)
    <2>1. items = {}
      BY <1>4 DEF Alike
    <2>2. /\ selection.items = {} /\ selection.discovered = {} /\ selection.slots = <<>>
          /\ selection.seed.selected = {}
      BY <2>1, EmptyResolution
    <2> HIDE DEF b, selection, seed
    <2>3. /\ b.resolved = {} /\ b.discovered = {} /\ b.slots = <<>> /\ b.requested = seed.requested
          /\ b.selected = seed.selected /\ b.base = seed.base
      BY <1>4 DEF EmptyBootstrap
    <2>4. Alike(selection.items, b.resolved) /\ Unique(selection.items) /\ Unique(b.resolved)
      BY <2>2, <2>3 DEF Alike, Unique
    <2>5. Matches(selection, b)
      BY <1>2, <1>3, <2>2, <2>3, <2>4 DEF Matches
    <2> QED
      BY <2>5 DEF b, selection
  <1>5. CASE b = BootstrapOf(other)
    <2>1. other # Nothing
      BY <1>5 DEF BootstrapOf
    <2>2. /\ selection.seed = other.seed /\ selection.slots = other.slots
          /\ Present(selection.discovered) = Present(other.discovered)
          /\ Alike(selection.items, other.items)
          /\ Unique(selection.items) /\ Unique(other.items)
      <3>1. \A c \in items : \A e \in entries : Same(c, e) => (c \in OwnGroups(items) <=> e \in others)
        BY SameGroups
      <3>2. Alike(items, entries) /\ selection # Nothing
        OBVIOUS
      <3> HIDE DEF entries, others, input
      <3> QED
        BY <2>1, <3>1, <3>2, ResolveAlike
    <2>3. /\ b.requested = other.seed.requested /\ b.selected = other.seed.selected
          /\ b.base = other.seed.base /\ b.discovered = other.discovered
          /\ b.resolved = other.items /\ b.slots = other.slots
          /\ "extensionSelection" \in DOMAIN b.public
      <3> DEFINE active == {e \in other.items : RegistersLayer(e)}
      <3> HIDE DEF other, active
      <3>1. /\ b.requested = other.seed.requested /\ b.selected = other.seed.selected
            /\ b.base = other.seed.base /\ b.discovered = other.discovered
            /\ b.resolved = other.items /\ b.slots = other.slots
            /\ b.public = SelectionConfig(other.discovered, other, active)
        <4> HIDE DEF b
        <4> QED
          BY <1>5, <2>1 DEF BootstrapOf, active
      <3>2. "extensionSelection" \in DOMAIN SelectionConfig(other.discovered, other, active)
        BY DEF SelectionConfig, Over, Keyed
      <3> QED
        BY <3>1, <3>2
    <2>4. b.public # NoKeys
      BY <2>3 DEF NoKeys
    <2> HIDE DEF b, selection, other
    <2>5. Matches(selection, b)
      BY <1>3, <2>2, <2>3, <2>4 DEF Matches
    <2> QED
      BY <2>5 DEF b, selection
  <1>6. entries # Nothing /\ seed # Nothing
    BY <1>1
  <1> QED
    BY <1>1, <1>4, <1>5, <1>6

\* The hosts load the same contributions under the same plan.
LEMMA ContributionsAlike ==
    ASSUME NEW ws, NEW selection, NEW b, Matches(selection, b),
           ContributionSource(ws, selection) # Nothing, ContributionPlugin(ws, b) # Nothing
    PROVE  ContributionPlugin(ws, b) = ContributionSource(ws, selection)
  <1> DEFINE place(c) == ws.dirs[c.dir.name]
             own == {c \in selection.items : ~IsGrouping(c)}
             name == [id \in Present(own) |-> EntryOf(own, id).packageName]
             sources == [id \in Present(own) |->
                            [name          |-> name[id],
                             contributions |-> place(EntryOf(own, id)).manifest.contributions]]
             modules == ContributionEntries(name, sources)
             unread == \E c \in own : place(c) = Nothing \/ place(c).manifest \in {Nothing, Broken}
             theirs == {e \in b.resolved :
                          e.dir.kind = "disk" /\ place(e) # Nothing /\ place(e).manifest # Nothing}
             manifests == [id \in Present(theirs) |-> place(EntryOf(theirs, id)).manifest]
             titles == [id \in Present(theirs) |-> manifests[id].name]
             entries == ContributionEntries(titles, manifests)
             unnamed == \E e \in theirs : place(e).manifest = Broken \/ place(e).manifest.name = Nothing
  <1>1. ContributionSource(ws, selection) =
            IF unread \/ modules = Nothing THEN Nothing ELSE [modules |-> modules, plan |-> PlanOf(selection)]
    BY DEF ContributionSource
  <1>2. ContributionPlugin(ws, b) =
            IF unnamed \/ entries = Nothing THEN Nothing
            ELSE [modules |-> entries,
                  plan |-> [selected |-> Present(b.resolved), catalog |-> Present(b.discovered)]]
    BY DEF ContributionPlugin
  <1>3. modules # Nothing => modules = {id \in Present(own) : sources[id].contributions # "none"}
    BY DEF ContributionEntries
  <1>4. entries # Nothing => entries = {id \in Present(theirs) : manifests[id].contributions # "none"}
    BY DEF ContributionEntries
  <1> HIDE DEF modules, entries
  <1>5. modules # Nothing /\ entries # Nothing /\ ~unread
    <2> HIDE DEF unread, unnamed
    <2> QED
      BY <1>1, <1>2
  <1>6. /\ Alike(selection.items, b.resolved) /\ Unique(selection.items) /\ Unique(b.resolved)
        /\ Placed(selection.items) /\ Present(selection.discovered) = Present(b.discovered)
    BY DEF Matches
  <1>7. \A c \in selection.items : c \in own <=> c.dir.kind = "disk"
    <2> TAKE c \in selection.items
    <2>1. /\ IsGrouping(c) => c.dir = VirtualDirectory(c.id)
          /\ ~IsGrouping(c) => c.dir.kind = "disk"
      BY <1>6 DEF Placed
    <2>2. VirtualDirectory(c.id).kind # "disk"
      BY DEF VirtualDirectory
    <2>3. c \in own <=> ~IsGrouping(c)
      OBVIOUS
    <2> HIDE DEF own
    <2> QED
      BY <2>1, <2>2, <2>3
  <1>8. own \subseteq selection.items /\ theirs \subseteq b.resolved
    OBVIOUS
  <1>9. \A c \in own : place(c) # Nothing /\ place(c).manifest # Nothing
    BY <1>5
  <1>10. Alike(own, theirs)
    <2>1. ASSUME NEW c \in own PROVE \E e \in theirs : Same(c, e)
      <3>1. PICK e \in b.resolved : Same(c, e)
        BY <1>6, <1>8 DEF Alike
      <3>2. e.dir = c.dir
        BY <3>1 DEF Same
      <3>3. c.dir.kind = "disk" /\ place(c) # Nothing /\ place(c).manifest # Nothing
        BY <1>7, <1>8, <1>9
      <3> QED
        BY <3>1, <3>2, <3>3
    <2>2. ASSUME NEW e \in theirs PROVE \E c \in own : Same(c, e)
      <3>1. PICK c \in selection.items : Same(c, e)
        BY <1>6, <1>8 DEF Alike
      <3>2. e.dir = c.dir /\ e.dir.kind = "disk"
        BY <3>1 DEF Same
      <3> QED
        BY <1>7, <3>1, <3>2
    <2> HIDE DEF own, theirs
    <2> QED
      BY <2>1, <2>2 DEF Alike
  <1>11. Unique(own) /\ Unique(theirs)
    BY <1>6, <1>8 DEF Unique
  <1> HIDE DEF own, theirs
  <1>12. Present(own) = Present(theirs)
    BY <1>10, AlikeIds
  <1>13. \A id \in Present(own) : sources[id].contributions = manifests[id].contributions
    <2> TAKE id \in Present(own)
    <2>1. EntryOf(own, id).dir = EntryOf(theirs, id).dir
      BY <1>10, <1>11, EntriesAlike DEF Same
    <2> QED
      BY <1>12, <2>1
  <1>14. modules = entries
    <2> HIDE DEF sources, manifests
    <2> QED
      BY <1>3, <1>4, <1>5, <1>12, <1>13
  <1>15. PlanOf(selection) = [selected |-> Present(b.resolved), catalog |-> Present(b.discovered)]
    <2>1. Present(selection.items) = Present(b.resolved)
      BY <1>6, AlikeIds
    <2> QED
      BY <1>6, <2>1 DEF PlanOf, Composed
  <1> HIDE DEF unread, unnamed
  <1> QED
    BY <1>1, <1>2, <1>14, <1>15

-----------------------------------------------------------------------------
\* Two hosts that are asked alike and see one workspace compose what matches.

\* What decides of a host's options what it finds.
LooksAlike(n, r) ==
    /\ n.nestedField = r.nestedField /\ n.schema = r.schema
    /\ n.virtualDescriptors = r.virtualDescriptors /\ n.bundles = r.bundles

LEMMA SameSources ==
    ASSUME NEW n, NEW r, LooksAlike(n, r), NEW ws
    PROVE  /\ Discovered(ws, n) = Discovered(ws, r) /\ Virtual(ws, n) = Virtual(ws, r)
           /\ NuxtEntries(ws, n) = NuxtEntries(ws, r)
  <1>1. \A doc : NestedIn(doc, n) = NestedIn(doc, r)
    BY DEF NestedIn, LooksAlike
  <1>2. \A doc : Unreadable(doc, n) <=> Unreadable(doc, r)
    BY <1>1 DEF Unreadable, LooksAlike
  <1>3. \A doc, d : Expand(doc, d, n) = Expand(doc, d, r)
    BY <1>1 DEF Expand
  <1>4. Discovered(ws, n) = Discovered(ws, r)
    <2>1. (\E d \in Files(ws) : Unreadable(ws.dirs[d].document, n))
            <=> \E d \in Files(ws) : Unreadable(ws.dirs[d].document, r)
      BY <1>2
    <2>2. {Expand(ws.dirs[d].document, d, n) : d \in Files(ws)}
            = {Expand(ws.dirs[d].document, d, r) : d \in Files(ws)}
      BY <1>3
    <2> QED
      BY <2>1, <2>2 DEF Discovered
  <1>5. Virtual(ws, n) = Virtual(ws, r)
    BY DEF Virtual, LooksAlike
  <1> QED
    BY <1>4, <1>5 DEF NuxtEntries

\* What a build of an unedited workspace is composed of.
LEMMA CurrentItems ==
    ASSUME ReactInv, disk \in Workspaces, edits = 0, Building,
           IsFiniteSet(react.options.virtualDescriptors)
    PROVE  \E items :
                /\ react.current = Resolve(items, OwnGroups(items), react.options.seed)
                /\ react.current # Nothing
                /\ NuxtEntries(disk, react.options) # Nothing => Alike(items, NuxtEntries(disk, react.options))
                /\ Placed(items)
                /\ ~react.options.run =>
                    react.current = CapabilitySelection(disk, Virtual(disk, react.options), react.options)
  <1> DEFINE o == react.options
             virtual == Virtual(disk, o)
  <1>1. ReactHeld /\ ReactBuilds /\ Hosted /\ react.before = disk /\ react.seen = disk
    BY DEF ReactInv, ReactUnedited, Building, Hosted
  <1>2. react.current # Nothing
    BY <1>1 DEF ReactBuilds
  <1>3. CASE o.run
    <2>1. react.current = RunSelection(disk, o)
      BY <1>1, <1>3 DEF ReactHeld, ReactBuilds, First
    <2>2. RunSelection(disk, o) # Nothing
      BY <1>2, <2>1
    <2> HIDE DEF o
    <2>3. \E items :
                /\ RunSelection(disk, o) = Resolve(items, OwnGroups(items), o.seed)
                /\ Discovered(disk, o) # Nothing /\ Virtual(disk, o) # Nothing
                /\ NuxtEntries(disk, o) # Nothing => Alike(items, NuxtEntries(disk, o))
                /\ Placed(items)
      BY <2>2, RunSelectionItems DEF o
    <2> QED
      BY <1>2, <1>3, <2>1, <2>3 DEF o
  <1>4. CASE ~o.run
    <2>1. react.current = CapabilitySelection(disk, virtual, o)
      BY <1>1, <1>4 DEF ReactHeld, ReactBuilds, First
    <2>2. CapabilitySelection(disk, virtual, o) # Nothing
      BY <1>2, <2>1
    <2> HIDE DEF o
    <2>3. \E items :
                /\ CapabilitySelection(disk, Virtual(disk, o), o) = Resolve(items, OwnGroups(items), o.seed)
                /\ Discovered(disk, o) # Nothing /\ Virtual(disk, o) # Nothing
                /\ NuxtEntries(disk, o) # Nothing => Alike(items, NuxtEntries(disk, o))
                /\ Placed(items)
      BY <2>2, CapabilityItems DEF o
    <2> QED
      BY <1>2, <1>4, <2>1, <2>3 DEF o
  <1> QED
    BY <1>3, <1>4

\* So a build and an application asked alike match.
LEMMA HostsMatch ==
    ASSUME HostsInv, react.phase = "built", nuxt.phase = "set up", edits = 0, AskedAlike
    PROVE  /\ nuxt.bootstrap # Nothing /\ nuxt.bootstrap = Bootstrap(disk, nuxt.options)
           /\ IsFiniteSet(nuxt.options.virtualDescriptors)
           /\ nuxt.seen = disk
           /\ Matches(react.current, nuxt.bootstrap)
           /\ ~react.options.run => ReactReport(disk, react.options) = ReportOf(react.current)
           /\ react.current # Nothing
  <1> DEFINE n == nuxt.options
             r == react.options
             b == nuxt.bootstrap
  <1>1. /\ Started /\ ModuleComposed /\ Mounted /\ Building /\ ReactInv /\ NuxtInv /\ disk \in Workspaces
        /\ nuxt.phase # "absent"
    BY DEF HostsInv, Started, ModuleComposed, Mounted, Building
  <1>2. /\ n.extensions # Nothing /\ n.extensions.enabled /\ n.extensions.seed = r.seed /\ LooksAlike(n, r)
    BY DEF AskedAlike, LooksAlike
  <1>3. nuxt.before = disk /\ nuxt.seen = disk
    BY <1>1 DEF NuxtInv, NuxtUnedited
  <1>4. b # Nothing /\ b = Bootstrap(disk, n)
    <2>1. AsksBootstrap(n)
      BY <1>2 DEF AsksBootstrap
    <2>2. b # Nothing
      BY <1>1, <2>1 DEF NuxtInv, NuxtBootstraps
    <2>3. CASE n.shared
      BY <1>1, <1>3, <2>2, <2>3 DEF NuxtInv, NuxtBootstraps
    <2>4. CASE ~n.shared
      BY <1>1, <1>3, <2>2, <2>4 DEF NuxtInv, NuxtBootstraps
    <2> QED
      BY <2>2, <2>3, <2>4
  <1>5. IsFiniteSet(n.virtualDescriptors) /\ IsFiniteSet(r.virtualDescriptors)
    <2>1. PICK setup \in Setups : setup.nuxt # Nothing /\ nuxt.options = setup.nuxt
      BY <1>1 DEF NuxtInv, NuxtOptions
    <2>2. IsFiniteSet(n.virtualDescriptors)
      BY <2>1, SetupsAssumption
    <2> QED
      BY <1>2, <2>2 DEF LooksAlike
  <1>6. PICK items :
            /\ react.current = Resolve(items, OwnGroups(items), r.seed)
            /\ react.current # Nothing
            /\ NuxtEntries(disk, r) # Nothing => Alike(items, NuxtEntries(disk, r))
            /\ Placed(items)
            /\ ~r.run => react.current = CapabilitySelection(disk, Virtual(disk, r), r)
    BY <1>1, <1>5, CurrentItems
  <1> HIDE DEF n, r, b
  <1>7. NuxtEntries(disk, n) = NuxtEntries(disk, r) /\ NuxtEntries(disk, n) # Nothing
    <2>1. NuxtEntries(disk, n) # Nothing
      BY <1>2, <1>4 DEF Bootstrap, BootstrapWith
    <2> QED
      BY <1>2, <2>1, SameSources
  <1>8. Matches(react.current, b)
    <2>1. Resolve(items, OwnGroups(items), n.extensions.seed) = react.current
      BY <1>2, <1>6
    <2>2. Matches(Resolve(items, OwnGroups(items), n.extensions.seed), Bootstrap(disk, n))
      BY <1>2, <1>4, <1>6, <1>7, <2>1, SelectionMatches
    <2> QED
      BY <1>4, <2>1, <2>2
  <1>9. ~r.run => ReactReport(disk, r) = ReportOf(react.current)
    BY <1>6 DEF ReactReport
  <1> QED
    BY <1>3, <1>4, <1>5, <1>6, <1>8, <1>9 DEF n, r, b

-----------------------------------------------------------------------------
\* The hosts agree.

\* What an application is told of a bootstrap that matches a composition.
LEMMA ToldAlike ==
    ASSUME nuxt.bootstrap # Nothing,
           nuxt.public = WithScopes(nuxt, ToldBy(nuxt.options, nuxt.bootstrap)),
           \E ws \in Workspaces : nuxt.bootstrap = Bootstrap(ws, nuxt.options),
           IsFiniteSet(nuxt.options.virtualDescriptors),
           KeysKept, NEW selection, Matches(selection, nuxt.bootstrap)
    PROVE  LET told == ToldSelection(nuxt.public)
           IN  /\ told.discovered = Present(selection.discovered)
               /\ told.resolved = Composed(selection)
               /\ told.selected = selection.seed.selected
               /\ nuxt.options.providers => ToldSlots(nuxt.public) = selection.slots
  <1> DEFINE b == nuxt.bootstrap
             o == nuxt.options
             public == nuxt.public
             told == ToldSelection(public)
  <1>1. /\ b.public = NoKeys /\ "extensionSelection" \notin DOMAIN o.host =>
                "extensionSelection" \notin DOMAIN public
        /\ "extensionSelection" \in DOMAIN b.public =>
                /\ "extensionSelection" \in DOMAIN public
                /\ public["extensionSelection"] = b.public["extensionSelection"]
        /\ o.providers => ToldSlots(public) = b.slots
    <2>1. public = WithScopes(nuxt, ToldBy(o, b)) /\ ~ScopesWrite(nuxt)
      BY DEF KeysKept
    <2> QED
      BY <2>1, ToldFacts
  <1>2. \/ b.resolved = {} /\ b.discovered = {} /\ b.public = NoKeys
        \/ /\ "extensionSelection" \in DOMAIN b.public
           /\ b.public["extensionSelection"] =
                  [kind |-> "selection", discovered |-> Present(b.discovered),
                   resolved |-> Present(b.resolved), selected |-> b.selected]
    <2>1. PICK ws \in Workspaces : b = Bootstrap(ws, o)
      OBVIOUS
    <2> HIDE DEF b, o
    <2>2. Bootstrap(ws, o) # Nothing
      BY <2>1 DEF b
    <2> QED
      BY <2>1, <2>2, BootstrapFacts DEF o
  <1>3. /\ Present(selection.discovered) = Present(b.discovered)
        /\ Composed(selection) = Present(b.resolved)
        /\ selection.slots = b.slots /\ selection.seed.selected = b.selected
        /\ b.public = NoKeys => b.selected = {}
    BY AlikeIds DEF Matches, Composed
  <1>4. "extensionSelection" \notin DOMAIN o.host
    BY DEF KeysKept
  <1>5. told = IF "extensionSelection" \in DOMAIN public /\ public["extensionSelection"].kind = "selection"
               THEN [discovered |-> public["extensionSelection"].discovered,
                     resolved |-> public["extensionSelection"].resolved,
                     selected |-> public["extensionSelection"].selected,
                     notInjected |-> public["extensionSelection"].discovered
                                      \ public["extensionSelection"].resolved]
               ELSE [discovered |-> {}, resolved |-> {}, selected |-> {}, notInjected |-> {}]
    BY DEF ToldSelection
  <1> HIDE DEF b, o, public, told
  <1>6. told.discovered = Present(b.discovered) /\ told.resolved = Present(b.resolved)
        /\ told.selected = b.selected
    <2>1. CASE b.resolved = {} /\ b.discovered = {} /\ b.public = NoKeys
      <3>1. Present(b.resolved) = {} /\ Present(b.discovered) = {} /\ b.selected = {}
        BY <1>3, <2>1 DEF Present
      <3>2. told.discovered = {} /\ told.resolved = {} /\ told.selected = {}
        BY <1>1, <1>4, <1>5, <2>1
      <3> QED
        BY <3>1, <3>2
    <2>2. CASE /\ "extensionSelection" \in DOMAIN b.public
               /\ b.public["extensionSelection"] =
                     [kind |-> "selection", discovered |-> Present(b.discovered),
                      resolved |-> Present(b.resolved), selected |-> b.selected]
      <3>1. /\ "extensionSelection" \in DOMAIN public
            /\ public["extensionSelection"].kind = "selection"
            /\ public["extensionSelection"].discovered = Present(b.discovered)
            /\ public["extensionSelection"].resolved = Present(b.resolved)
            /\ public["extensionSelection"].selected = b.selected
        BY <1>1, <2>2
      <3> QED
        BY <1>5, <3>1
    <2> QED
      BY <1>2, <2>1, <2>2
  <1> QED
    BY <1>1, <1>3, <1>6 DEF told, b, o, public

LEMMA ReportsAlike ==
    ASSUME NEW o, o.providers, NEW selection, selection # Nothing, NEW b, Matches(selection, b)
    PROVE  LogReport(o, b) = ReportOf(selection)
  <1>1. /\ Present(selection.discovered) = Present(b.discovered)
        /\ Composed(selection) = Present(b.resolved)
        /\ selection.slots = b.slots /\ selection.seed.selected = b.selected
        /\ selection.seed.requested = b.requested /\ selection.seed.base = b.base
    BY AlikeIds DEF Matches, Composed
  <1>2. LogReport(o, b) = Report([requested |-> b.requested, selected |-> b.selected, base |-> b.base],
                                 Present(b.discovered), Present(b.resolved), b.slots)
    BY DEF LogReport
  <1>3. ReportOf(selection) = Report(selection.seed, Present(b.discovered), Present(b.resolved), b.slots)
    BY <1>1 DEF ReportOf
  <1> QED
    BY <1>1, <1>2, <1>3 DEF Report

LEMMA InvHostsAgree ==
    ASSUME HostsInv PROVE HostsAgree
  <1>0. SUFFICES ASSUME react.phase = "built", nuxt.phase = "set up", edits = 0, AskedAlike
                 PROVE  HostsAgree
    BY DEF HostsAgree
  <1> DEFINE module == CapabilityModule(react.loader)
             told == ToldSelection(nuxt.public)
             current == react.current
             b == nuxt.bootstrap
  <1>1. /\ b # Nothing /\ b = Bootstrap(disk, nuxt.options)
        /\ IsFiniteSet(nuxt.options.virtualDescriptors)
        /\ nuxt.seen = disk
        /\ Matches(current, b)
        /\ ~react.options.run => ReactReport(disk, react.options) = ReportOf(current)
        /\ current # Nothing
    BY <1>0, HostsMatch
  <1>2. /\ NuxtInv /\ ReactInv /\ disk \in Workspaces
        /\ Started /\ ModuleComposed /\ Mounted /\ Building /\ Taken /\ Hosted
    BY <1>0 DEF HostsInv, Started, ModuleComposed, Mounted, Building, Taken, Hosted
  <1>3. /\ module.discovered = Present(current.discovered) /\ module.resolved = Composed(current)
        /\ module.selected = current.seed.selected /\ module.slots = current.slots
    BY <1>2 DEF ReactInv, ReactBuilds, CapabilityModule, Composed
  <1>4. KeysKept =>
            /\ <<module.discovered, module.resolved, module.selected>>
                = <<told.discovered, told.resolved, told.selected>>
            /\ nuxt.options.providers => ToldSlots(nuxt.public) = module.slots
    <2> SUFFICES ASSUME KeysKept
                 PROVE  /\ <<module.discovered, module.resolved, module.selected>>
                            = <<told.discovered, told.resolved, told.selected>>
                        /\ nuxt.options.providers => ToldSlots(nuxt.public) = module.slots
      OBVIOUS
    <2>1. /\ told.discovered = Present(current.discovered)
          /\ told.resolved = Composed(current)
          /\ told.selected = current.seed.selected
          /\ nuxt.options.providers => ToldSlots(nuxt.public) = current.slots
      <3>1. nuxt.public = WithScopes(nuxt, ToldBy(nuxt.options, nuxt.bootstrap))
        BY <1>0, <1>1, <1>2, BootstrapHeld
      <3> QED
        BY <1>1, <1>2, <3>1, ToldAlike
    <2> HIDE DEF module, told
    <2> QED
      BY <1>3, <2>1
  <1>5. react.options.contributions /\ nuxt.options.contributions => nuxt.plugin = react.loader.contribution
    <2> SUFFICES ASSUME react.options.contributions, nuxt.options.contributions
                 PROVE  nuxt.plugin = react.loader.contribution
      OBVIOUS
    <2>1. nuxt.plugin # Nothing /\ nuxt.plugin = ContributionPlugin(disk, b)
      BY <1>1, <1>2 DEF NuxtInv, NuxtBootstraps
    <2>2. react.loader.contribution # Nothing /\ react.loader.contribution = ContributionSource(disk, current)
      BY <1>0, <1>2 DEF ReactInv, ReactUnedited, ReactHeld, ReactBuilds
    <2> QED
      BY <1>1, <2>1, <2>2, ContributionsAlike
  <1>6. ~react.options.run /\ nuxt.options.providers /\ nuxt.options.reporter =>
            nuxt.reported = ReactReport(disk, react.options)
    <2> SUFFICES ASSUME ~react.options.run, nuxt.options.providers, nuxt.options.reporter
                 PROVE  nuxt.reported = ReactReport(disk, react.options)
      OBVIOUS
    <2>1. nuxt.reported = LogReport(nuxt.options, b)
      BY <1>1, <1>2 DEF NuxtInv, NuxtMounts
    <2>2. LogReport(nuxt.options, b) = ReportOf(current)
      BY <1>1, ReportsAlike
    <2> QED
      BY <1>1, <2>1, <2>2
  <1> HIDE DEF module, told
  <1> QED
    BY <1>4, <1>5, <1>6 DEF HostsAgree, module, told

-----------------------------------------------------------------------------
LEMMA HostsParts == HostsInv => ReactInv /\ NuxtInv
  BY DEF HostsInv

\* A React build loads and contributes what was composed when its configuration was
\* evaluated: always, where that is held or comes from a sealed run, and elsewhere if
\* nothing was edited.  (lorionReact, createCapabilityLoader, createContributionSource)
THEOREM BuildsOneComposition == HostsSpec => []OneComposition
  <1>1. HostsInv => OneComposition
    BY HostsParts, InvOneComposition
  <1> QED
    BY <1>1, HostsInvariant, PTL

\* What a build emits under a scope is what the scope's schema accepted as a whole, and
\* nothing is emitted under a scope that takes no part.  A scope whose name is a private
\* key of a scope called "public", and that scope itself, are excepted: the code writes
\* those private values among the public scopes.  (createReactRuntimeConfig,
\* validateReactRuntimeConfig, projectRuntimeConfigNamespaces)
THEOREM EmitsChecked == HostsSpec => []EmittedChecked
  <1>1. HostsInv => EmittedChecked
    BY HostsParts, InvEmittedChecked
  <1> QED
    BY <1>1, HostsInvariant, PTL

\* A flag that is given a value decides what is selected, unless the host's options do.
\* (resolveCliKeys, readDescriptorSelectionSeed, resolveRequestedSelection)
THEOREM HearsFlag == HostsSpec => []FlagHeard
  <1>1. HostsInv => FlagHeard
    BY HostsParts, InvFlagHeard
  <1> QED
    BY <1>1, HostsInvariant, PTL

\* The layers that are mounted, each once and the project's in front, are those of the
\* extensions and slots the application is told of, whatever is edited between nuxt.config
\* and the module's setup.  (createNuxtExtensionBootstrap, createNuxtExtensionLayerPaths,
\* registerFileOnlyExtensionLayers, getNuxtExtensionSelection)
THEOREM MountsAsTold == HostsSpec => []MountedAsTold
  <1>1. HostsInv => MountedAsTold
    BY HostsParts, InvMountedAsTold
  <1> QED
    BY <1>1, HostsInvariant, PTL

\* Two hosts asked alike in a workspace nobody edits tell, contribute and print the same.
\* (resolveDiscoveredCapabilitySelection, createNuxtExtensionBootstrap,
\* capabilityLoaderFromRun, describeCapabilityComposition)
THEOREM HostsCompose == HostsSpec => []HostsAgree
  <1>1. HostsInv => HostsAgree
    BY InvHostsAgree
  <1> QED
    BY <1>1, HostsInvariant, PTL
=============================================================================
