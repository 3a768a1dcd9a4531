------------------------- MODULE ContributionRuntime -------------------------
(***************************************************************************)
(* How a host turns a contribution plan and the modules of a composition   *)
(* into collections (projectContributionPlan, createContributionRuntime).  *)
(* Modules are checked against the plan in the order they are handed over; *)
(* then their factories run, in id order; then what they submitted is      *)
(* checked item by item; then the collections are published.  Any failure  *)
(* ends the construction.                                                  *)
(***************************************************************************)
EXTENDS ContributionPlan, Functions

CONSTANTS
    ItemIds,     \* numbers, as ids are
    Orders,      \* the order an item may ask for
    Malformed,   \* an item that is none
    Inputs       \* the catalogs, selections and modules under study

ASSUME ItemsAssumption == ItemIds \subseteq Nat /\ Orders \subseteq Int

VARIABLES
    input,        \* the arguments, never modified
    phase,        \* where the control is
    plan,
    accepted,     \* the modules checked so far, by id
    position,     \* the next module to check, of those handed over
    created,      \* the ids whose factory ran, in order
    declared,     \* the addresses modules implement
    submitted,    \* what modules contributed, in the order their factories ran
    current,      \* the contribution to be checked
    checked,      \* how many of its items were
    inspection,   \* the items checked so far, with their addresses and whether received
    collections   \* address -> items, once published

construction == <<accepted, position, created, declared, submitted>>
checking == <<current, checked, inspection, collections>>
vars == <<input, phase, plan, construction, checking>>

Phases == {"project", "read", "modules", "factories", "contributions", "items", "published", "failed"}

(***************************************************************************)
(* What a factory does: "returns" with points and contributions, each a    *)
(* target with a sequence of items; "throws"; or returns a "promise".      *)
(***************************************************************************)
ItemValues == {Malformed} \cup [id: ItemIds, order: Orders]

Modules ==
    [id: Capabilities, version: Releases, kind: {"returns", "throws", "promise"}, points: Seq(Addresses),
     contributions: Seq([target: Addresses, items: Seq(ItemValues)])]

NoPlan == [selected |-> <<>>, points |-> {}, active |-> {}, inactive |-> {}]

(***************************************************************************)
(* catalog, selected   what a plan is projected from                       *)
(* stored              a plan the host kept as data instead, at most one   *)
(* modules             the modules, in the order they are handed over      *)
(***************************************************************************)
IsInput(i) ==
    /\ \A d \in i.catalog : IsDeclaration(d)
    /\ DOMAIN i.selected \subseteq Capabilities /\ \A d \in DOMAIN i.selected : i.selected[d] \in Releases
    /\ i.modules \in Seq(Modules)
    /\ \A p \in i.stored : DOMAIN p = DOMAIN NoPlan

ASSUME InputsAssumption == \A i \in Inputs : IsInput(i)

Init ==
    /\ input \in Inputs
    /\ phase = "project" /\ plan = NoPlan
    /\ accepted = {} /\ position = 1
    /\ created = <<>> /\ declared = {} /\ submitted = <<>>
    /\ current = 1 /\ checked = 0
    /\ inspection = <<>> /\ collections = <<>>

Fail ==
    /\ phase' = "failed"
    /\ UNCHANGED <<input, plan, construction, checking>>

\* projectContributionPlan
Project ==
    /\ phase = "project" /\ input.stored = {}
    /\ ValidCatalog(input.catalog) /\ KnownSelection(input.catalog, input.selected)
    /\ phase' = "read" /\ plan' = PlanOf(input.catalog, input.selected)
    /\ UNCHANGED <<input, construction, checking>>

RejectCatalog ==
    /\ phase = "project" /\ input.stored = {}
    /\ ~(ValidCatalog(input.catalog) /\ KnownSelection(input.catalog, input.selected))
    /\ Fail

\* A plan is serializable; the host may hand over one it stored.
TakeStored ==
    /\ phase = "project"
    /\ \E p \in input.stored : plan' = p
    /\ phase' = "read"
    /\ UNCHANGED <<input, construction, checking>>

ReadPlan ==
    /\ phase = "read" /\ Consistent(plan)
    /\ phase' = "modules"
    /\ UNCHANGED <<input, plan, construction, checking>>

RejectPlan == phase = "read" /\ ~Consistent(plan) /\ Fail

-----------------------------------------------------------------------------
Selected(m) == m.id \in DOMAIN plan.selected /\ plan.selected[m.id] = m.version

\* Mutated form of Unchecked: the module handed over last is not looked at.
UncheckedButLast == position < Len(input.modules)

Unchecked == position <= Len(input.modules)

\* A module of a selected identity, handed over once.
AcceptModule ==
    /\ phase = "modules" /\ Unchecked
    /\ LET m == input.modules[position]
       IN  /\ Selected(m) /\ m.id \notin {n.id : n \in accepted}
           /\ accepted' = accepted \cup {m}
    /\ position' = position + 1
    /\ UNCHANGED <<input, phase, plan, created, declared, submitted, checking>>

RejectModule ==
    /\ phase = "modules" /\ Unchecked
    /\ LET m == input.modules[position] IN ~Selected(m) \/ m.id \in {n.id : n \in accepted}
    /\ Fail

StartFactories ==
    /\ phase = "modules" /\ ~Unchecked
    /\ phase' = "factories"
    /\ UNCHANGED <<input, plan, construction, checking>>

\* The accepted modules whose factory has not run, and the next of them by id.
Waiting == {m \in accepted : m.id \notin {created[k] : k \in DOMAIN created}}
NextModule == CHOOSE m \in Waiting : \A n \in Waiting : m.id <= n.id

\* Each point a module implements is its own, in the plan, and implemented once.
PointsSound(m) ==
    /\ m.kind = "returns"
    /\ \A k \in DOMAIN m.points :
        m.points[k][1] = m.id /\ m.points[k] \in plan.points \ declared
    /\ \A j, k \in DOMAIN m.points : m.points[j] = m.points[k] => j = k

RunFactory ==
    /\ phase = "factories" /\ Waiting # {}
    /\ \E m \in {NextModule} :
        /\ created' = Append(created, m.id)
        /\ IF PointsSound(m)
             THEN /\ phase' = phase
                  /\ declared' = declared \cup {m.points[k] : k \in DOMAIN m.points}
                  /\ submitted' = submitted \o [k \in DOMAIN m.contributions |->
                        [source |-> m.id, target |-> m.contributions[k].target,
                         items |-> m.contributions[k].items]]
             ELSE phase' = "failed" /\ UNCHANGED <<declared, submitted>>
    /\ UNCHANGED <<input, plan, accepted, position, checking>>

StartContributions ==
    /\ phase = "factories" /\ Waiting = {}
    /\ phase' = "contributions"
    /\ UNCHANGED <<input, plan, construction, checking>>

-----------------------------------------------------------------------------
Contribution == submitted[current]
Edge == <<Contribution.source, Contribution.target>>

\* The contributor declared that it fills this address.
OpenContribution ==
    /\ phase = "contributions" /\ current <= Len(submitted) /\ Edge \in plan.active \cup plan.inactive
    /\ phase' = "items"
    /\ UNCHANGED <<input, plan, construction, checking>>

RejectContribution ==
    /\ phase = "contributions" /\ current <= Len(submitted) /\ Edge \notin plan.active \cup plan.inactive
    /\ Fail

AtItem == phase = "items" /\ checked < Len(Contribution.items)
NextItem == Contribution.items[checked + 1]

\* Mutated form of Taken: an item only conflicts with those of its own contributor.
TakenBySource(item) ==
    \E k \in DOMAIN inspection :
        /\ inspection[k].received /\ inspection[k].target = Contribution.target
        /\ inspection[k].id = item.id /\ inspection[k].source = Contribution.source

\* Another item is active under this id at the address.
Taken(item) ==
    \E k \in DOMAIN inspection :
        /\ inspection[k].received /\ inspection[k].target = Contribution.target
        /\ inspection[k].id = item.id

\* An item somebody receives needs an implemented point and an id of its own.
Acceptable(item) ==
    /\ item # Malformed
    /\ Edge \in plan.active => Contribution.target \in declared /\ ~Taken(item)

TakeItem ==
    /\ AtItem /\ Acceptable(NextItem)
    /\ inspection' = Append(inspection,
            [target |-> Contribution.target, source |-> Contribution.source, id |-> NextItem.id,
             order |-> NextItem.order, received |-> Edge \in plan.active])
    /\ checked' = checked + 1
    /\ UNCHANGED <<input, phase, plan, construction, current, collections>>

RejectItem == AtItem /\ ~Acceptable(NextItem) /\ Fail

CloseContribution ==
    /\ phase = "items" /\ checked = Len(Contribution.items)
    /\ phase' = "contributions" /\ current' = current + 1 /\ checked' = 0
    /\ UNCHANGED <<input, plan, construction, inspection, collections>>

\* By order, contributor and item id.
Before(i, j) ==
    \/ i.order < j.order
    \/ i.order = j.order /\ i.source < j.source
    \/ i.order = j.order /\ i.source = j.source /\ i.id < j.id

\* By address, then as in a collection.
InspectedBefore(i, j) ==
    \/ i.target[1] < j.target[1]
    \/ i.target[1] = j.target[1] /\ i.target[2] < j.target[2]
    \/ i.target = j.target /\ Before(i, j)

\* The entries of s at the positions J, sorted; entries neither is before are alike.
Arranged(s, J, before(_, _)) ==
    LET p == CHOOSE q \in Bijection(1..Cardinality(J), J) :
                \A j, k \in DOMAIN q : j < k => ~before(s[q[k]], s[q[j]])
    IN  [k \in 1..Cardinality(J) |-> s[p[k]]]

ReceivedAt(a) == {k \in DOMAIN inspection : inspection[k].received /\ inspection[k].target = a}

Received == {inspection[k].target : k \in {j \in DOMAIN inspection : inspection[j].received}}

\* Only now is there anything to read.
Publish ==
    /\ phase = "contributions" /\ current > Len(submitted)
    /\ phase' = "published"
    /\ collections' = [a \in Received |-> Arranged(inspection, ReceivedAt(a), Before)]
    /\ inspection' = Arranged(inspection, DOMAIN inspection, InspectedBefore)
    /\ UNCHANGED <<input, plan, construction, current, checked>>

Next ==
    \/ Project \/ TakeStored \/ RejectCatalog \/ ReadPlan \/ RejectPlan
    \/ AcceptModule \/ RejectModule \/ StartFactories \/ RunFactory \/ StartContributions
    \/ OpenContribution \/ RejectContribution \/ TakeItem \/ RejectItem \/ CloseContribution \/ Publish

Spec == Init /\ [][Next]_vars
=============================================================================
