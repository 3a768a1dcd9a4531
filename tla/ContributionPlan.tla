--------------------------- MODULE ContributionPlan ---------------------------
(***************************************************************************)
(* What versioned descriptors declare of contributions, and the plan that  *)
(* is left of it for one composition (resolveVersionedContributions,       *)
(* projectContributionPlan, readPlan).  An owner offers points; another    *)
(* descriptor fills some of them.                                          *)
(*                                                                         *)
(* Ids are numbers, in the order of the strings they stand for.            *)
(***************************************************************************)
EXTENDS Naturals, Sequences, FiniteSets

CONSTANTS
    Capabilities,  \* descriptor ids
    Releases,      \* their versions
    PointNames     \* numbers as well

ASSUME NamesAssumption == Capabilities \subseteq Nat /\ PointNames \subseteq Nat

\* A declaration: the points it offers, those it fills at each owner, and the
\* versions it requires of what it depends on.
IsDeclaration(d) ==
    /\ d.id \in Capabilities /\ d.version \in Releases /\ d.points \subseteq PointNames
    /\ DOMAIN d.contributesTo \subseteq Capabilities
    /\ \A to \in DOMAIN d.contributesTo : d.contributesTo[to] \in SUBSET PointNames \ {{}}
    /\ DOMAIN d.dependencies \subseteq Capabilities
    /\ \A to \in DOMAIN d.dependencies : d.dependencies[to] \subseteq Releases

Addresses == Capabilities \X PointNames

\* Mutated form of Owners: the range a contributor asks of its owner is ignored.
OwnersAtAnyVersion(catalog, d, to) == {o \in catalog : o.id = to}

\* The owner versions a contribution is meant for.
Owners(catalog, d, to) ==
    {o \in catalog : o.id = to /\ (to \in DOMAIN d.dependencies => o.version \in d.dependencies[to])}

\* Each identity once, and each contribution met by every owner version it is meant for.
ValidCatalog(catalog) ==
    /\ \A d, e \in catalog : d.id = e.id /\ d.version = e.version => d = e
    /\ \A d \in catalog : \A to \in DOMAIN d.contributesTo :
        /\ to # d.id /\ Owners(catalog, d, to) # {}
        /\ \A o \in Owners(catalog, d, to) : d.contributesTo[to] \subseteq o.points

\* The edges between versions.
VersionedEdges(catalog) ==
    {e \in [from : Capabilities, fromVersion : Releases, target : Addresses, toVersion : Releases] :
        \E d \in catalog :
            /\ d.id = e.from /\ d.version = e.fromVersion /\ e.target[1] \in DOMAIN d.contributesTo
            /\ e.target[2] \in d.contributesTo[e.target[1]]
            /\ \E o \in Owners(catalog, d, e.target[1]) : o.version = e.toVersion}

-----------------------------------------------------------------------------
\* A composition selects one version per id, of those in the catalog.
KnownSelection(catalog, selected) ==
    \A id \in DOMAIN selected : \E d \in catalog : d.id = id /\ d.version = selected[id]

Offered(catalog, selected) ==
    {a \in Addresses :
        a[1] \in DOMAIN selected
            /\ \E d \in catalog : d.id = a[1] /\ d.version = selected[a[1]] /\ a[2] \in d.points}

Outgoing(catalog, selected) ==
    {e \in VersionedEdges(catalog) : e.from \in DOMAIN selected /\ selected[e.from] = e.fromVersion}

\* Mutated form of Inactive: an edge to another version of a selected owner is kept.
InactiveOtherVersion(catalog, selected) ==
    {<<e.from, e.target>> : e \in {f \in Outgoing(catalog, selected) :
        f.target[1] \in DOMAIN selected => selected[f.target[1]] # f.toVersion}}

\* The edges to owners that are known and not selected.
Inactive(catalog, selected) ==
    {<<e.from, e.target>> : e \in {f \in Outgoing(catalog, selected) : f.target[1] \notin DOMAIN selected}}

\* The edges to the selected version of their owner.
Active(catalog, selected) ==
    {<<e.from, e.target>> : e \in {f \in Outgoing(catalog, selected) :
        f.target[1] \in DOMAIN selected /\ selected[f.target[1]] = f.toVersion}}

(***************************************************************************)
(* selected   id -> version                                                *)
(* points     the addresses selected owners offer                          *)
(* active     the contributions a selected owner receives                  *)
(* inactive   the contributions nobody receives                            *)
(***************************************************************************)
PlanOf(catalog, selected) ==
    [selected |-> selected, points |-> Offered(catalog, selected),
     active |-> Active(catalog, selected), inactive |-> Inactive(catalog, selected)]

\* readPlan: a plan arrives as data and must be consistent in itself.
Consistent(plan) ==
    /\ \A a \in plan.points : a[1] \in DOMAIN plan.selected
    /\ \A e \in plan.active \cup plan.inactive : e[1] \in DOMAIN plan.selected /\ e[1] # e[2][1]
    /\ plan.active \cap plan.inactive = {}
    /\ \A e \in plan.active : e[2][1] \in DOMAIN plan.selected /\ e[2] \in plan.points
    /\ \A e \in plan.inactive : e[2][1] \notin DOMAIN plan.selected
=============================================================================
