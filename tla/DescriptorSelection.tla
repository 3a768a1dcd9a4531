------------------------- MODULE DescriptorSelection -------------------------
(***************************************************************************)
(* How descriptor selection answers a request                              *)
(* (selectDescriptorsWithProviders and selectSingleVersionDescriptors).    *)
(* The checks come first, then the groupings of the seed are opened; then  *)
(* passes alternate between closing the selection under the edges that     *)
(* activate no provider and choosing providers for what was closed, until  *)
(* a pass repeats the one before; finally the edges of the losing          *)
(* providers are dropped and the composition is closed over what is left.  *)
(* Each closure is one step: CompositionClosure shows the worklist behind  *)
(* it computes Reach.                                                      *)
(***************************************************************************)
EXTENDS SelectionRequests, Integers

CONSTANT Selections   \* the requests under study

ASSUME SelectionsAssumption == \A s \in Selections : s \in Selection

VARIABLES
    request,        \* the arguments, never modified
    phase,          \* where the control is
    failure,        \* why the request was refused, once it was
    explicit,       \* explicitlySelectedIds
    pendingGroups,  \* the ids whose grouping is still to be opened
    pass,           \* iteration: passes made so far
    resolvedIds,    \* iterativeResolvedIds: what the last pass closed
    providerRoots,  \* the providers the next pass starts from
    slots,          \* providerSelection: what the last pass decided
    composed        \* the ids of the answer

vars == <<request, phase, failure, explicit, pendingGroups,
          pass, resolvedIds, providerRoots, slots, composed>>

Phases == {"check", "groups", "passes", "compose", "done", "failed"}

Failures == {Checks[k] : k \in DOMAIN Checks}
    \cup {"members", "providers", "convergence", "requirement"}

Slot == [winner: SUBSET Ids, mode: Modes \cup {"unfilled"}, required: BOOLEAN]

\* The answer as the caller sees it.
Outcome ==
    CASE phase = "done"   -> [status |-> "composed", slots |-> slots, composed |-> composed]
      [] phase = "failed" -> [status |-> "refused", slots |-> <<>>, composed |-> {}]
      [] OTHER            -> [status |-> "pending", slots |-> <<>>, composed |-> {}]

Contract == INSTANCE SelectionContract WITH outcome <- Outcome

Fail(reason) == phase' = "failed" /\ failure' = reason

-----------------------------------------------------------------------------
Init ==
    /\ request \in Selections
    /\ phase = "check" /\ failure = "none"
    /\ explicit = request.roots
    /\ pendingGroups = request.roots
    /\ pass = 0
    /\ resolvedIds = {} /\ providerRoots = {} /\ slots = <<>>
    /\ composed = {}

\* The first check that fails ends the call.
Reject(k) ==
    /\ phase = "check"
    /\ Fails(request, Checks[k])
    /\ \A j \in 1..(k - 1) : ~Fails(request, Checks[j])
    /\ Fail(Checks[k])
    /\ UNCHANGED <<request, explicit, pendingGroups, pass, resolvedIds, providerRoots, slots, composed>>

Accept ==
    /\ phase = "check"
    /\ \A k \in DOMAIN Checks : ~Fails(request, Checks[k])
    /\ phase' = "groups"
    /\ UNCHANGED <<request, failure, explicit, pendingGroups,
                   pass, resolvedIds, providerRoots, slots, composed>>

\* Mutated form of OpenGroup: a grouping met before is opened again.
OpenGroupAgain(g) ==
    /\ phase = "groups" /\ g \in pendingGroups
    /\ request.members[g] \subseteq request.enabled
    /\ explicit' = explicit \cup request.members[g]
    /\ pendingGroups' = (pendingGroups \ {g}) \cup request.members[g]
    /\ UNCHANGED <<request, phase, failure, pass, resolvedIds, providerRoots, slots, composed>>

\* The members of an explicitly selected grouping are explicitly selected too,
\* and are opened in their turn.
OpenGroup(g) ==
    /\ phase = "groups" /\ g \in pendingGroups
    /\ request.members[g] \subseteq request.enabled
    /\ explicit' = explicit \cup request.members[g]
    /\ pendingGroups' = (pendingGroups \ {g}) \cup (request.members[g] \ explicit)
    /\ UNCHANGED <<request, phase, failure, pass, resolvedIds, providerRoots, slots, composed>>

RejectGroup(g) ==
    /\ phase = "groups" /\ g \in pendingGroups
    /\ ~(request.members[g] \subseteq request.enabled)
    /\ Fail("members")
    /\ UNCHANGED <<request, explicit, pendingGroups, pass, resolvedIds, providerRoots, slots, composed>>

\* The first pass starts from the providers the seed names.
StartPasses ==
    /\ phase = "groups" /\ pendingGroups = {}
    /\ phase' = "passes"
    /\ providerRoots' = explicit \cap Providers(request)
    /\ UNCHANGED <<request, failure, explicit, pendingGroups, pass, resolvedIds, slots, composed>>

\* The ask of the pass is unanswerable: resolveProviderSelection throws.
RejectProviders(ask) ==
    /\ Unanswerable(ask)
    /\ Fail("providers")
    /\ UNCHANGED <<request, explicit, pendingGroups, pass, resolvedIds, providerRoots, slots, composed>>

\* Mutated form of Repeats: passes are taken to grow towards the answer.
RepeatsWhenContained(closed, chosen) == Winners(chosen) \subseteq closed \cup providerRoots

\* A pass repeats the one before when it closes the same ids and chooses the
\* same providers.
Repeats(closed, chosen) == closed = resolvedIds /\ Winners(chosen) = providerRoots

Decide(closed, chosen) ==
    /\ resolvedIds' = closed
    /\ slots' = chosen
    /\ providerRoots' = Winners(chosen)
    /\ pass' = pass + 1
    /\ \/ /\ Repeats(closed, chosen)
          /\ phase' = "compose"
          /\ UNCHANGED failure
       \/ /\ ~Repeats(closed, chosen)
          /\ pass + 1 < MaxPasses(request)
          /\ UNCHANGED <<phase, failure>>
       \/ /\ ~Repeats(closed, chosen)
          /\ pass + 1 = MaxPasses(request)
          /\ Fail("convergence")
    /\ UNCHANGED <<request, explicit, pendingGroups, composed>>

\* One turn of the loop.  What it closes and what it asks are bound by quantifiers
\* over singletons, which TLC evaluates once.
Pass ==
    /\ phase = "passes"
    /\ \E closed \in {Closure(request, explicit, providerRoots)} :
       \E ask \in {Ask(request, explicit, closed)} :
            \/ RejectProviders(ask)
            \/ /\ ~Unanswerable(ask)
               /\ \E chosen \in {Resolution(ask)} : Decide(closed, chosen)

\* The composition, unless a group of it names an unknown member or a kept
\* dependency is missing from it.
Compose ==
    /\ phase = "compose"
    /\ composed' = Composition(request, explicit, slots)
    /\ \/ /\ UnknownMember(request, composed')
          /\ Fail("members")
       \/ /\ ~UnknownMember(request, composed')
          /\ UnmetDependency(request, slots, composed')
          /\ Fail("requirement")
       \/ /\ ~UnknownMember(request, composed')
          /\ ~UnmetDependency(request, slots, composed')
          /\ phase' = "done"
          /\ UNCHANGED failure
    /\ UNCHANGED <<request, explicit, pendingGroups, pass, resolvedIds, providerRoots, slots>>

Next ==
    \/ \E k \in DOMAIN Checks : Reject(k)
    \/ Accept
    \/ \E g \in pendingGroups : OpenGroup(g) \/ RejectGroup(g)
    \/ StartPasses \/ Pass \/ Compose

\* The code is synchronous: once called, it runs until it returns or throws.
Spec == Init /\ [][Next]_vars /\ WF_vars(Next)

-----------------------------------------------------------------------------
TypeOK ==
    /\ request \in Selection
    /\ phase \in Phases /\ failure \in Failures \cup {"none"}
    /\ explicit \subseteq Names /\ pendingGroups \subseteq explicit
    /\ pass \in 0..MaxPasses(request)
    /\ resolvedIds \subseteq Ids /\ providerRoots \subseteq Ids
    /\ DOMAIN slots \subseteq Names /\ \A c \in DOMAIN slots : slots[c] \in Slot
    /\ composed \subseteq Ids

\* The alternation of passes answers only with a choice of providers that is the
\* choice for the very ids it activates, and refuses only for a reason.
\* (selectSingleVersionDescriptors: the fixpoint loop and its stability test)
ImplementsContract == Contract!Spec

\* What can activate what: dependencies, members, the default providers of a
\* capability, which need not be enabled itself.
Activation(s) ==
    {e \in s.enabled \X Names : e[2] \in s.dependencies[e[1]] \cup s.members[e[1]]}
        \cup {e \in Names \X s.enabled : e[1] \in s.defaultFor[e[2]]}

Acyclic(R) == \A e \in R : e[1] \notin Reach({e[2]}, R)

\* The composition never activates more than the last pass accounted for, so no
\* descriptor of it went unheard in the provider choice.
\* (applyProviderResolution and the last resolveWithMembers)
CompositionWithinChoice == phase = "done" => composed \subseteq resolvedIds

\* A composed descriptor loses a dependency on a capability: one that provides for
\* another capability and won none.
CapabilityDropped ==
    \E d \in composed :
        request.dependencies[d] \cap Losers(request, slots) \cap Provided(request) # {}

\* Where activation has no cycle, nothing the provider choice accounted for is missing
\* from the composition, unless the rewriting dropped a capability, whose own provider
\* goes with it.  (the same two functions)
NothingLostWithoutCycle ==
    phase = "done" /\ Acyclic(Activation(request)) /\ ~CapabilityDropped =>
        resolvedIds \subseteq composed

\* A provider takes part only if it won a capability: membership, dependencies and
\* defaults never bring in a loser.  (includeProvider, applyProviderResolution)
ActiveProvidersWon ==
    phase = "done" => composed \cap Providers(request) \subseteq Winners(slots)

\* A composed descriptor does not get the provider it depends on only when every
\* capability of that provider went to one the seed selected, which does take part.
\* (precedence of the tiers, applyProviderResolution)
OverriddenOnlyBySeed ==
    phase = "done" =>
        \A d \in composed :
            \A q \in (request.dependencies[d] \cap Providers(request)) \ composed :
                \A c \in request.providesFor[q] :
                    slots[c].mode = "explicit" /\ slots[c].winner \subseteq composed

\* Every slot the composition requires has a winner that takes part, on the same
\* conditions.  (README.md:76-80 of descriptor-selection)
RequiredSlotsServed ==
    phase = "done" /\ Acyclic(Activation(request)) /\ ~CapabilityDropped =>
        \A c \in RequiredSlots(Ask(request, explicit, composed)) :
            c \in DOMAIN slots /\ slots[c].winner # {} /\ slots[c].winner \subseteq composed

\* The cap on passes cuts nothing short where no choice of providers bears on itself:
\* however long the chain of choices is, it settles first.  (iteration ===
\* descriptors.length + 1)
CapCutsNothingShort == failure = "convergence" => ~Contract!Stratified(request)

\* The steps end as the function of the request does that the version search calls;
\* the checks and the requirements are its caller's.  (selectSingleVersionDescriptors)
EndsAsOutcome ==
    /\ phase = "done" => OutcomeOf(request) = Outcome
    /\ failure \in {"default", "selected", "members", "providers", "convergence"} =>
        OutcomeOf(request) = Refused

\* Every request is answered or refused, oscillating provider choices included.
Terminates == <>(phase \in {"done", "failed"})

\* README.md:78-79 of descriptor-selection: "Dependencies of descriptors outside the
\* resolved set do not create requirements."
RequirementsFromComposition ==
    phase = "done" =>
        \A c \in DOMAIN slots :
            slots[c].required => c \in RequiredSlots(Ask(request, explicit, composed))
=============================================================================
