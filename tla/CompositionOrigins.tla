-------------------------- MODULE CompositionOrigins --------------------------
(***************************************************************************)
(* Where each descriptor of a composition came from                        *)
(* (describeCompositionOrigins, called by the origins of a run).  The rows *)
(* are read off an answer of DescriptorSelection: the request, the slots   *)
(* and the composed ids.  A run keeps apart the roots it named and its     *)
(* base; selection does not, so an origin is read for each way to split    *)
(* them.                                                                   *)
(***************************************************************************)
EXTENDS DescriptorSelection

\* The virtual descriptors that hold something: groupings without a package.
Groupings(s) == {d \in s.enabled : s.members[d] # {}}

\* The requests a composition makes: a virtual descriptor has its dependencies for
\* members, a package has none.
FromComposition(s) == \A d \in Ids : s.members[d] \in {{}, s.dependencies[d]}

\* The dependencies of a composed descriptor, as the resolution hands it on: without
\* those on losing providers.
Dependencies(d) == KeptDependencies(request, slots, d)

\* How a seed is put together: ids may be named and in the base.
SeedSplits(s) == {b \in [selected : SUBSET s.roots, base : SUBSET s.roots] : b.selected \cup b.base = s.roots}

NamedByRun(seed) == seed.selected \cap composed

ComposedGroupings == Groupings(request) \cap composed

\* Mutated form of ChosenByRun: the groupings behind a dependency are taken for named.
ChosenByRunOrBelow(seed) ==
    Reach(NamedByRun(seed) \cup ComposedGroupings,
          {e \in ComposedGroupings \X Names : e[2] \in Dependencies(e[1])})

\* What the run chose: what it named and, through any depth of grouping, what the
\* groupings it named hold.
ChosenByRun(seed) ==
    Reach(NamedByRun(seed), {e \in ComposedGroupings \X Names : e[2] \in Dependencies(e[1])})

\* Slots whose capability takes part, with their candidates that do and do not.
SlotRows(seed) ==
    [c \in DOMAIN slots \cap composed |->
        LET chosen == Candidates(request)[c] \cap composed
        IN  [chosen       |-> chosen,
             named        |-> chosen \cap ChosenByRun(seed) # {},
             alternatives |-> Candidates(request)[c] \ composed]]

InSlotRow(seed) ==
    LET rows == SlotRows(seed)
    IN  DOMAIN rows \cup UNION {rows[c].chosen : c \in DOMAIN rows}

\* The members of the groupings that take part and everything those depend on.
FromGroupings ==
    Reach((UNION {Dependencies(g) : g \in ComposedGroupings}) \cap composed,
          {e \in composed \X composed : e[2] \in Dependencies(e[1])})

\* Mutated form of OriginRows: what a named grouping holds counts as named.
OriginRowsChosen(seed) ==
    LET placed == InSlotRow(seed)
    IN  [named        |-> (NamedByRun(seed) \ Groupings(request)) \ placed,
         base         |-> (seed.base \cap composed) \ placed,
         groupings    |-> (ComposedGroupings \ placed) \ seed.base,
         viaGroupings |-> ((FromGroupings \ ChosenByRun(seed)) \ placed) \ Groupings(request),
         pulled       |-> composed \ (seed.base \cup FromGroupings \cup NamedByRun(seed)
                                        \cup placed \cup ComposedGroupings)]

\* The rows beside the slots.
OriginRows(seed) ==
    LET placed == InSlotRow(seed)
    IN  [named        |-> (NamedByRun(seed) \ Groupings(request)) \ placed,
         base         |-> (seed.base \cap composed) \ placed,
         groupings    |-> (ComposedGroupings \ placed) \ seed.base,
         viaGroupings |-> ((FromGroupings \ NamedByRun(seed)) \ placed) \ Groupings(request),
         pulled       |-> composed \ (seed.base \cup FromGroupings \cup NamedByRun(seed)
                                        \cup placed \cup ComposedGroupings)]

-----------------------------------------------------------------------------
Answered == phase = "done" /\ FromComposition(request)

\* Every composed descriptor stands in a row, in one alone unless the run names what
\* its base or a grouping brings too; one listed as pulled was needed by a composed
\* package, unless the seed is empty.  (report.ts:416-418: no descriptor in two rows)
OriginsCoverOnce ==
    Answered => \A seed \in SeedSplits(request) :
        LET rows   == OriginRows(seed)
            placed == InSlotRow(seed)
            groupedRows == {"named", "groupings", "viaGroupings", "pulled"}
        IN  /\ composed = placed \cup UNION {rows[r] : r \in DOMAIN rows}
            /\ \A r \in DOMAIN rows : rows[r] \cap placed = {}
            /\ \A r \in groupedRows : \A t \in groupedRows \ {r} : rows[r] \cap rows[t] = {}
            /\ rows.pulled \cap rows.base = {}
            /\ request.roots # {} =>
                \A d \in rows.pulled : \E e \in composed \ Groupings(request) : d \in Dependencies(e)

\* A slot row says the run named its filling exactly when the run chose the winner:
\* never for one a default or a dependency decided.  (CompositionOriginSlot.named and
\* report.ts:369-371, over the tiers of resolveProviderSelection)
NamedSlotsDecided ==
    Answered => \A seed \in SeedSplits(request) :
        LET rows == SlotRows(seed)
        IN  \A c \in DOMAIN rows :
                /\ rows[c].named <=> slots[c].winner \cap ChosenByRun(seed) # {}
                /\ rows[c].named => slots[c].mode = "explicit" /\ slots[c].winner \subseteq composed
=============================================================================
