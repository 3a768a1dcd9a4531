------------------------- MODULE ContributionContract -------------------------
(***************************************************************************)
(* What the contribution runtime promises, in terms of what it is given:   *)
(* the order modules are handed over and the order things are checked in   *)
(* do not show.                                                            *)
(***************************************************************************)
EXTENDS ContributionRuntime

Handed == {<<k, input.modules[k]>> : k \in DOMAIN input.modules}

\* Every contribution and every item, with the module it comes from.
Contributions ==
    UNION {{[source |-> h[2].id, target |-> h[2].contributions[c].target,
             items |-> h[2].contributions[c].items, at |-> <<h[1], c>>] :
                c \in DOMAIN h[2].contributions} : h \in Handed}

Items ==
    UNION {{[source |-> c.source, target |-> c.target, item |-> c.items[j], at |-> <<c.at, j>>] :
                j \in DOMAIN c.items} : c \in Contributions}

Implemented == UNION {{h[2].points[k] : k \in DOMAIN h[2].points} : h \in Handed}

ReceivedItems == {i \in Items : <<i.source, i.target>> \in plan.active}

\* What is wrong with the plan or with the modules, taken together.
Defective ==
    \/ ~Consistent(plan)
    \/ \E h \in Handed :
        \/ ~Selected(h[2])
        \/ h[2].kind # "returns"
        \/ \E k \in DOMAIN h[2].points :
            \/ h[2].points[k] \notin plan.points
            \/ h[2].points[k][1] # h[2].id
            \/ \E j \in DOMAIN h[2].points \ {k} : h[2].points[j] = h[2].points[k]
    \/ \E g, h \in Handed : g # h /\ g[2].id = h[2].id
    \/ \E c \in Contributions : <<c.source, c.target>> \notin plan.active \cup plan.inactive
    \/ \E i \in Items : i.item = Malformed
    \/ \E i \in ReceivedItems : i.target \notin Implemented
    \/ \E i, j \in ReceivedItems : i # j /\ i.target = j.target /\ i.item.id = j.item.id

AsPublished(i) ==
    [target |-> i.target, source |-> i.source, id |-> i.item.id, order |-> i.item.order,
     received |-> i \in ReceivedItems]

Sorted(s, before(_, _)) == \A j, k \in DOMAIN s : j < k => ~before(s[k], s[j])

(***************************************************************************)
(* The composition as the catalog means it: a module of its version for    *)
(* every selected capability that takes part, implementing the points its  *)
(* descriptor offers and filling only what its descriptor declares.        *)
(***************************************************************************)
Declares(id, version, address) ==
    \E d \in input.catalog :
        /\ d.id = id /\ d.version = version /\ address[1] \in DOMAIN d.contributesTo
        /\ address[2] \in d.contributesTo[address[1]]

IsSelected(id, version) == id \in DOMAIN input.selected /\ input.selected[id] = version

MeantFor(d, o) == o.id \in DOMAIN d.dependencies => o.version \in d.dependencies[o.id]

\* Every owner version a contribution is meant for offers its points, and a selected
\* owner has such a version.
SoundDeclarations ==
    /\ \A d, e \in input.catalog : d.id = e.id /\ d.version = e.version => d = e
    /\ \A d \in input.catalog : \A to \in DOMAIN d.contributesTo :
        /\ to # d.id
        /\ \E o \in input.catalog : o.id = to /\ MeantFor(d, o)
        /\ \A o \in input.catalog :
            /\ o.id = to /\ MeantFor(d, o) => d.contributesTo[to] \subseteq o.points
            /\ IsSelected(d.id, d.version) /\ IsSelected(o.id, o.version) /\ o.id = to => MeantFor(d, o)
    /\ \A id \in DOMAIN input.selected :
        \E d \in input.catalog : d.id = id /\ d.version = input.selected[id]

Faithful ==
    /\ input.stored = {} /\ SoundDeclarations
    /\ \A h \in Handed :
        /\ IsSelected(h[2].id, h[2].version) /\ h[2].kind = "returns"
        /\ \A g \in Handed : g[2].id = h[2].id => g = h
        /\ \A d \in input.catalog : d.id = h[2].id /\ d.version = h[2].version =>
            /\ {h[2].points[k] : k \in DOMAIN h[2].points} = {d.id} \X d.points
            /\ Len(h[2].points) = Cardinality(d.points)
    /\ \A c \in Contributions : Declares(c.source, input.selected[c.source], c.target)
    /\ \A i \in Items :
        /\ i.item # Malformed
        /\ i.target[1] \in DOMAIN input.selected => i.target[1] \in {h[2].id : h \in Handed}
        /\ \A j \in Items : i.target = j.target /\ i.item.id = j.item.id => i = j

-----------------------------------------------------------------------------
TypeOK ==
    /\ IsInput(input) /\ phase \in Phases /\ position \in 1..(Len(input.modules) + 1)
    /\ \A m \in accepted : m \in Modules /\ Selected(m)
    /\ {created[k] : k \in DOMAIN created} \subseteq {m.id : m \in accepted}
    /\ declared \subseteq plan.points
    /\ \A k \in DOMAIN inspection :
        <<inspection[k].source, inspection[k].target>> \in
            (IF inspection[k].received THEN plan.active ELSE plan.inactive)
    /\ DOMAIN collections \subseteq declared

\* A plan projected from a catalog is a plan the runtime takes: the two packages agree
\* on what a consistent plan is.  (projectContributionPlan, readPlan)
ProjectedPlansTaken == phase = "read" /\ input.stored = {} => Consistent(plan)

\* No factory runs before every module handed over has been checked, and factories run
\* in id order.  (createContributionRuntime; README.md:12 of contributions: "The runtime
\* checks all module identities before invoking any factory")
FactoriesAfterChecks ==
    /\ created # <<>> => \A g, h \in Handed :
        Selected(h[2]) /\ (g[2].id = h[2].id => g = h)
    /\ \A j, k \in DOMAIN created : j < k => created[j] < created[k]

\* The runtime is refused exactly if something is wrong with plan or modules, in whichever
\* order they come and whatever is met first; else every item is inspected as often as
\* it was submitted, and each collection holds its items in order.
\* (createContributionRuntime; README.md:48-59 of contributions)
OutcomeOfModules ==
    /\ phase = "published" =>
        /\ ~Defective
        /\ Len(inspection) = Cardinality(Items)
        /\ {inspection[k] : k \in DOMAIN inspection} = {AsPublished(i) : i \in Items}
        /\ Sorted(inspection, InspectedBefore)
        /\ DOMAIN collections = {i.target : i \in ReceivedItems}
        /\ \A a \in DOMAIN collections :
            /\ {collections[a][k] : k \in DOMAIN collections[a]}
                = {AsPublished(i) : i \in {j \in ReceivedItems : j.target = a}}
            /\ \A j, k \in DOMAIN collections[a] : j < k => Before(collections[a][j], collections[a][k])
    /\ phase = "failed" /\ (plan # NoPlan \/ input.stored # {}) => Defective

\* Modules that do what their descriptors declare, in a composition that meets the
\* ranges of its contributors, are never refused, and what they contribute to a
\* selected owner arrives.  (resolveVersionedContributions, createContributionRuntime)
FaithfulModulesArrive ==
    Faithful =>
        /\ phase # "failed"
        /\ phase = "published" => \A i \in Items : i.target[1] \in DOMAIN input.selected =>
            /\ i.target \in DOMAIN collections
            /\ \E k \in DOMAIN collections[i.target] :
                collections[i.target][k].id = i.item.id /\ collections[i.target][k].source = i.source
=============================================================================
