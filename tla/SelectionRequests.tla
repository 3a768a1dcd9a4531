-------------------------- MODULE SelectionRequests --------------------------
(***************************************************************************)
(* The catalogs and seeds descriptor selection resolves, one version per   *)
(* id, and what its parts read off them: which checks a request fails      *)
(* before any provider is chosen, what a set of resolved descriptors asks  *)
(* of provider selection, the graphs resolution walks, and the answer it   *)
(* ends with.                                                              *)
(***************************************************************************)
EXTENDS ProviderSelection, Reachability, FiniteSets

CONSTANTS
    Names,       \* every id a descriptor or a seed can write
    Ids          \* the ids the workspace declares a descriptor for

(***************************************************************************)
(* roots are the selected and the base descriptors of the seed: selection  *)
(* treats them alike.  Dependencies are the keys of the dependency map:    *)
(* every version range is satisfied.                                       *)
(***************************************************************************)
Selection ==
    [enabled:      SUBSET Ids,
     dependencies: [Ids -> SUBSET Names],
     providesFor:  [Ids -> SUBSET Names],
     defaultFor:   [Ids -> SUBSET Names],
     members:      [Ids -> SUBSET Names],
     roots:        SUBSET Names]

ASSUME NamesAssumption == Ids \subseteq Names /\ IsFiniteSet(Names)

Providers(s) == {d \in s.enabled : s.providesFor[d] # {}}

Candidates(s) == [c \in Names |-> {p \in s.enabled : c \in s.providesFor[p]}]

\* The capabilities that have candidates.
Provided(s) == UNION {s.providesFor[p] : p \in s.enabled}

\* Without a seed every descriptor that is not a provider is selected.
ImplicitSelected(s) == IF s.roots = {} THEN s.enabled \ Providers(s) ELSE {}

-----------------------------------------------------------------------------
\* The checks made before a provider is chosen, in the order they are made.

UndeclaredCapability(s) == \E d \in s.enabled : ~(s.providesFor[d] \cup s.defaultFor[d] \subseteq Ids)

UnknownSeed(s) == ~(s.roots \subseteq s.enabled)

\* Ordinary dependencies no provider choice can remove.
OrdinaryPairs(s) ==
    LET kept == Names \ Providers(s)
    IN  {e \in s.enabled \X kept : e[2] \in s.dependencies[e[1]]}

UnavailableDependency(s) ==
    ~(Reach(s.roots \cup ImplicitSelected(s), OrdinaryPairs(s)) \subseteq s.enabled)

TwoDefaults(s) ==
    \E d, e \in s.enabled : d # e /\ s.defaultFor[d] \cap s.defaultFor[e] # {}

TwoSelectedProviders(s) ==
    \E d, e \in s.roots \cap s.enabled : d # e /\ s.providesFor[d] \cap s.providesFor[e] # {}

Checks == <<"capability", "seed", "version", "default", "selected">>

Fails(s, check) ==
    CASE check = "capability" -> UndeclaredCapability(s)
      [] check = "seed"       -> UnknownSeed(s)
      [] check = "version"    -> UnavailableDependency(s)
      [] check = "default"    -> TwoDefaults(s)
      [] check = "selected"   -> TwoSelectedProviders(s)

-----------------------------------------------------------------------------
\* The ids the seed selects explicitly: its roots and, through any depth of
\* grouping, their members.
Explicit(s) == Reach(s.roots, {e \in s.enabled \X Names : e[2] \in s.members[e[1]]})

\* Mutated form of MaxPasses: one pass per provider should do.
MaxPassesPerProvider(s) == Cardinality(Providers(s))

\* The passes the loop makes at most.
MaxPasses(s) == Cardinality(s.enabled) + 2

-----------------------------------------------------------------------------
\* What a pass asks of provider selection.  E is the explicitly selected ids,
\* C the descriptors the pass resolved.

PairsProviding(s, providers) ==
    {r \in Names \X Ids : r[2] \in providers /\ r[2] \in s.enabled /\ r[1] \in s.providesFor[r[2]]}

\* What a resolved descriptor names, except the members of an explicit grouping:
\* those were requested at the explicit tier already.
NamedBy(s, E, d) ==
    (s.dependencies[d] \cup s.members[d]) \ (IF d \in E THEN s.members[d] ELSE {})

DependencyRequests(s, E, C) == PairsProviding(s, UNION {NamedBy(s, E, d) : d \in C})

DefaultRequests(s) == {r \in Names \X s.enabled : r[1] \in s.defaultFor[r[2]]}

\* Membership does not make a slot required, a dependency does.
RequiredCapabilities(s, C) ==
    LET needed == UNION {s.dependencies[d] : d \in C}
    IN  (needed \cap Provided(s)) \cup {r[1] : r \in PairsProviding(s, needed)}

Ask(s, E, C) ==
    [candidates |-> Candidates(s),
     required   |-> RequiredCapabilities(s, C),
     active     |-> C \cap Provided(s),
     requests   |-> [explicit   |-> PairsProviding(s, E),
                     dependency |-> DependencyRequests(s, E, C),
                     default    |-> DefaultRequests(s)]]

-----------------------------------------------------------------------------
\* The graphs resolution walks; an edge to an id that is not enabled is dropped.

\* Mutated form of MemberEdges: the admission callback is not asked.
MemberEdgesUnasked(s, admitted) == {e \in s.enabled \X s.enabled : e[2] \in s.members[e[1]]}

\* Membership of enabled ids, providers only if admitted.
MemberEdges(s, admitted) ==
    LET kept == s.enabled \ (Providers(s) \ admitted)
    IN  {e \in s.enabled \X kept : e[2] \in s.members[e[1]]}

\* Every edge that activates a provider is taken out while providers are chosen.
StrippedEdges(s) ==
    LET kept == s.enabled \ Providers(s)
    IN  {e \in s.enabled \X kept : e[2] \in s.dependencies[e[1]]}

Closure(s, E, W) ==
    Reach(E \cup ImplicitSelected(s) \cup W, StrippedEdges(s) \cup MemberEdges(s, {}))

\* Mutated form of Losers: only the providers of an unfilled slot lose.
LosersUnfilled(s, slots) ==
    {p \in Providers(s) : \A c \in s.providesFor[p] : c \in DOMAIN slots => slots[c].winner = {}}

\* The providers that won no capability; dependencies on them are dropped.
Losers(s, slots) == {p \in Providers(s) : \A c \in s.providesFor[p] : ~Won(slots, c, p)}

KeptDependencies(s, slots, d) == s.dependencies[d] \ Losers(s, slots)

\* Mutated form of DefaultEdges: only a required capability takes its default along.
DefaultEdgesRequired(s, slots) ==
    {e \in s.enabled \X s.enabled :
        /\ e[1] \in s.defaultFor[e[2]]
        /\ Won(slots, e[1], e[2])
        /\ slots[e[1]].mode = "default" /\ slots[e[1]].required}

\* A default winner hangs on its capability.
DefaultEdges(s, slots) ==
    {e \in s.enabled \X s.enabled :
        /\ e[1] \in s.defaultFor[e[2]]
        /\ Won(slots, e[1], e[2])
        /\ slots[e[1]].mode = "default"}

RewrittenEdges(s, slots) ==
    LET kept == s.enabled \ Losers(s, slots)
    IN  {e \in s.enabled \X kept : e[2] \in s.dependencies[e[1]]} \cup DefaultEdges(s, slots)

\* The composition an outcome activates.
Composition(s, E, slots) ==
    Reach(E \cup ImplicitSelected(s),
          RewrittenEdges(s, slots) \cup MemberEdges(s, Winners(slots)))

\* A group of the composition names a member that is not enabled.
UnknownMember(s, composed) == \E d \in composed : ~(s.members[d] \subseteq s.enabled)

\* A kept dependency is missing from the composition.
UnmetDependency(s, slots, composed) ==
    \E d \in composed : ~(KeptDependencies(s, slots, d) \subseteq composed)

-----------------------------------------------------------------------------
\* The answer DescriptorSelection reaches, as a function of the request: what the
\* version search calls for each assignment of versions.  The request checks that come
\* before it are left to the caller.

Refused == [status |-> "refused", slots |-> <<>>, composed |-> {}]

\* What a turn leaves that could not choose.
Stuck == [status |-> "refused", closed |-> {}, winners |-> {}, slots |-> <<>>]

\* What a turn leaves that resolved closed and decided slots.
Turned(state, closed, slots) ==
    LET stable == closed = state.closed /\ Winners(slots) = state.winners
    IN  [status |-> IF stable THEN "settled" ELSE "open",
         closed |-> closed, winners |-> Winners(slots), slots |-> slots]

TurnOver(s, E, state, closed) ==
    LET ask == Ask(s, E, closed)
    IN  IF Unanswerable(ask) THEN Stuck ELSE Turned(state, closed, Resolution(ask))

\* One turn of the loop: closed and winners are what the turn before left.
Turn(s, E, state) ==
    IF state.status # "open" THEN state ELSE TurnOver(s, E, state, Closure(s, E, state.winners))

\* What the loop starts from: the providers selected explicitly have won.
Start(s, E) == [status |-> "open", closed |-> {}, winners |-> E \cap Providers(s), slots |-> <<>>]

\* What the last turn leaves.
Settlement(s, E) ==
    LET after[n \in 0..MaxPasses(s)] == IF n = 0 THEN Start(s, E) ELSE Turn(s, E, after[n - 1])
    IN  after[MaxPasses(s)]

\* selectSingleVersionDescriptors: a loop that is still open after the last pass
\* did not converge.
SettledOutcome(s, slots, composed) ==
    IF UnknownMember(s, composed) THEN Refused
    ELSE [status |-> "composed", slots |-> slots, composed |-> composed]

OutcomeFrom(s, explicit, settlement) ==
    IF \/ TwoDefaults(s) \/ TwoSelectedProviders(s)
       \/ ~(explicit \subseteq s.enabled)
       \/ settlement.status # "settled"
      THEN Refused
      ELSE SettledOutcome(s, settlement.slots, Composition(s, explicit, settlement.slots))

OutcomeOf(s) == LET explicit == Explicit(s) IN OutcomeFrom(s, explicit, Settlement(s, explicit))
=============================================================================
