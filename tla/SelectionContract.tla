-------------------------- MODULE SelectionContract --------------------------
(***************************************************************************)
(* What descriptor selection promises, in one step: a refusal, or a        *)
(* coherent answer.  An answer is coherent when its slots are what         *)
(* provider selection decides for the descriptors those same slots         *)
(* activate, and when its composition is exactly what the seed reaches     *)
(* over the edges the slots keep.                                          *)
(*                                                                         *)
(* A refusal needs a reason: a failed check, a stage at which the provider *)
(* choice is unanswerable, a coherent answer that names an id the catalog  *)
(* does not hold, or a choice that depends on itself.                      *)
(***************************************************************************)
EXTENDS SelectionRequests

VARIABLES
    request,     \* the request being served, fixed at the start
    outcome      \* its answer

contractVars == <<request, outcome>>

Pending == [status |-> "pending", slots |-> <<>>, composed |-> {}]
Refusal == [status |-> "refused", slots |-> <<>>, composed |-> {}]
Answer(slots, composed) == [status |-> "composed", slots |-> slots, composed |-> composed]

AskOf(s, W) ==
    LET explicit == Explicit(s)
    IN  Ask(s, explicit, Closure(s, explicit, W))

Coherent(s, W) ==
    LET ask == AskOf(s, W)
    IN  ~Unanswerable(ask) /\ Winners(Resolution(ask)) = W

(***************************************************************************)
(* How one choice bears on another: a descriptor on what it activates and  *)
(* on the slots it requires, a request for a provider on the slots it      *)
(* fills, a slot on its candidates.                                        *)
(***************************************************************************)
Bearing(s) ==
    StrippedEdges(s) \cup MemberEdges(s, {})
        \cup {e \in s.enabled \X Provided(s) : e[2] \in s.dependencies[e[1]]}
        \cup {e \in s.enabled \X Names :
                \E p \in (s.dependencies[e[1]] \cup s.members[e[1]]) \cap s.enabled :
                    e[2] \in s.providesFor[p]}
        \cup {e \in Names \X s.enabled : e[1] \in s.providesFor[e[2]]}

\* No choice bears on itself.
Stratified(s) ==
    LET bearing == Bearing(s)
    IN  \A e \in bearing : e[1] \notin Reach({e[2]}, bearing)

\* The seed's groupings name only enabled ids, and every check passes.
WellFormed(s) ==
    /\ \A k \in DOMAIN Checks : ~Fails(s, Checks[k])
    /\ Explicit(s) \subseteq s.enabled

\* The coherent answer of a choice W, if it has one.
SlotsOf(s, W) == Resolution(AskOf(s, W))

Flawed(s, slots) ==
    LET composed == Composition(s, Explicit(s), slots)
    IN  UnknownMember(s, composed) \/ UnmetDependency(s, slots, composed)

Refusable(s) ==
    \/ ~WellFormed(s)
    \/ ~Stratified(s)
    \/ \E W \in SUBSET Providers(s) : Unanswerable(AskOf(s, W))
    \/ \E W \in SUBSET Providers(s) : Coherent(s, W) /\ Flawed(s, SlotsOf(s, W))

-----------------------------------------------------------------------------
Init == request \in Selection /\ outcome = Pending

Refuse ==
    /\ outcome = Pending /\ outcome' = Refusal
    /\ Refusable(request)
    /\ UNCHANGED request

Compose ==
    /\ outcome = Pending /\ outcome' # Pending
    /\ WellFormed(request)
    /\ \E W \in SUBSET Providers(request) :
        /\ Coherent(request, W)
        /\ LET slots == SlotsOf(request, W)
           IN  /\ ~Flawed(request, slots)
               /\ outcome' = Answer(slots, Composition(request, Explicit(request), slots))
    /\ UNCHANGED request

Next == Refuse \/ Compose

Spec == Init /\ [][Next]_contractVars
=============================================================================
