--------------------------- MODULE VersionRequests ---------------------------
(***************************************************************************)
(* Catalogs that hold several versions of a descriptor, and what the       *)
(* version search (selectVersions) reads off them: which versions a        *)
(* request leaves eligible, which ids can take part at all, and which      *)
(* requirements no later choice can lift.                                  *)
(*                                                                         *)
(* A version is a number, higher is newer; a range is the set of versions  *)
(* it admits.                                                              *)
(***************************************************************************)
EXTENDS SelectionRequests, Sequences

CONSTANTS
    Versions,    \* the versions a descriptor may carry, numbers
    Stable,      \* the versions the wildcard range admits: no prereleases
    IdOrder,     \* the ids in the order the search considers them
    Requests     \* the requests under study

\* Dependencies map each id a version names to the range it requires.
IsCandidate(c) ==
    /\ DOMAIN c.dependencies \subseteq Names
    /\ c.dependencies \in [DOMAIN c.dependencies -> SUBSET Versions]
    /\ c.providesFor \cup c.defaultFor \cup c.members \subseteq Names

(***************************************************************************)
(* candidates   the enabled versions of each id                            *)
(* required     the range the seed asks of each of its roots               *)
(***************************************************************************)
IsRequest(r) ==
    /\ DOMAIN r.candidates = Ids
    /\ \A d \in Ids :
        /\ DOMAIN r.candidates[d] \subseteq Versions
        /\ \A v \in DOMAIN r.candidates[d] : IsCandidate(r.candidates[d][v])
    /\ DOMAIN r.required \subseteq Names
    /\ r.required \in [DOMAIN r.required -> SUBSET Versions]

ASSUME VersionsAssumption == Versions \subseteq Nat /\ IsFiniteSet(Versions) /\ Stable \subseteq Versions
ASSUME OrderAssumption ==
    /\ IdOrder \in Seq(Ids) /\ \A d \in Ids : \E k \in DOMAIN IdOrder : IdOrder[k] = d
    /\ \A j, k \in DOMAIN IdOrder : IdOrder[j] = IdOrder[k] => j = k
ASSUME RequestsAssumption == \A r \in Requests : IsRequest(r)

Roots(r) == DOMAIN r.required

Available(r) == {d \in Ids : DOMAIN r.candidates[d] # {}}

\* What the seed leaves of the versions of an id.
Eligible(r, d) ==
    IF d \in Roots(r) THEN DOMAIN r.candidates[d] \cap r.required[d] ELSE DOMAIN r.candidates[d]

Newest(V) == CHOOSE v \in V : \A w \in V : w <= v

\* The eligible versions of an id as descriptors.
Options(r, d) == {r.candidates[d][v] : v \in Eligible(r, d)}

\* An id is a provider as soon as one eligible version of it provides.
ProviderIds(r) == {d \in Available(r) : \E c \in Options(r, d) : c.providesFor # {}}

SearchRoots(r) == IF Roots(r) # {} THEN Roots(r) ELSE Available(r) \ ProviderIds(r)

-----------------------------------------------------------------------------
\* Mutated form of SelfStarters: an id whose versions differ in role is overlooked.
SelfStartersUniform(r) ==
    {d \in Available(r) :
        \E c \in Options(r, d) : c.defaultFor # {} \/ (Roots(r) = {} /\ c.providesFor = {})}

\* The ids that can take part without being reached: defaults, implicit roots, and
\* ids whose versions differ in what they provide.
SelfStarters(r) ==
    {d \in Available(r) :
        \/ \E c \in Options(r, d) : c.defaultFor # {} \/ (Roots(r) = {} /\ c.providesFor = {})
        \/ \E b, c \in Options(r, d) : b.providesFor # c.providesFor}

\* The edges any eligible version could contribute.
PossibleEdges(r) ==
    {e \in Available(r) \X Names :
        \E c \in Options(r, e[1]) : e[2] \in DOMAIN c.dependencies \cup c.members}
    \cup {e \in Names \X Available(r) : \E c \in Options(r, e[2]) : e[1] \in c.defaultFor}

\* The ids that can take part in some composition.
Possible(r) == Reach(SearchRoots(r) \cup SelfStarters(r), PossibleEdges(r))

\* The places of the ids that need a choice.
ChoicePlaces(r) ==
    {k \in DOMAIN IdOrder : IdOrder[k] \in Possible(r) /\ Cardinality(Eligible(r, IdOrder[k])) > 1}

\* What lies at some places, in the order of the places.
InOrder(row, places) ==
    [k \in 1..Cardinality(places) |->
        row[CHOOSE i \in places : Cardinality({j \in places : j < i}) = k - 1]]

\* The versions the search starts from: the newest of each id.
Newests(r) == [d \in Available(r) |-> Newest(Eligible(r, d))]

\* The assignment of a prefix of choices, the newest version elsewhere.
Assignment(r, choices, chosen) ==
    [d \in Available(r) |->
        IF \E k \in DOMAIN chosen : choices[k] = d
          THEN chosen[CHOOSE k \in DOMAIN chosen : choices[k] = d]
          ELSE Newest(Eligible(r, d))]

-----------------------------------------------------------------------------
\* Propagation of mandatory requirements (checkMandatory).  Undecided ids are
\* represented by all their eligible versions.
Undecided(choices, chosen) == {choices[k] : k \in (Len(chosen) + 1)..Len(choices)}

Remaining(r, choices, chosen, d) ==
    IF d \in Undecided(choices, chosen) THEN Eligible(r, d)
    ELSE IF d \in Available(r) THEN {Assignment(r, choices, chosen)[d]} ELSE {}

\* The ordinary dependencies all remaining versions of an id share.
MandatoryEdges(r, choices, chosen) ==
    {e \in Available(r) \X (Names \ ProviderIds(r)) :
        \A v \in Remaining(r, choices, chosen, e[1]) :
            e[2] \in DOMAIN r.candidates[e[1]][v].dependencies}

Mandatory(r, choices, chosen) == Reach(SearchRoots(r), MandatoryEdges(r, choices, chosen))

\* Mutated form of Ordinary: dependencies on providers are propagated too.
OrdinaryAndProviders(r, targets) == targets

Ordinary(r, targets) == targets \ ProviderIds(r)

\* No remaining version of some target meets what decided mandatory ids require.
MandatoryUnmet(r, choices, chosen) ==
    LET mandatory == Mandatory(r, choices, chosen)
        sources   == (mandatory \cap Available(r)) \ Undecided(choices, chosen)
        decided   == [d \in sources |-> r.candidates[d][Assignment(r, choices, chosen)[d]]]
        targets   == Ordinary(r, UNION {DOMAIN decided[d].dependencies : d \in sources})
    IN  \E t \in targets :
            \A v \in Remaining(r, choices, chosen, t) :
                \E d \in sources :
                    t \in DOMAIN decided[d].dependencies /\ v \notin decided[d].dependencies[t]
=============================================================================
