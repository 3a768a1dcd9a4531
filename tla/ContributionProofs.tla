------------------------- MODULE ContributionProofs -------------------------
(***************************************************************************)
(* What ContributionContract promises, proved for every set of modules,    *)
(* catalogs and stored plans.  The invariant IInv attributes every         *)
(* submission, and with it every item checked, to its place in the modules *)
(* handed over: w names the places.  Each item is checked once, so that    *)
(* one that is refused is a defect, and when all were checked there is     *)
(* none.  Publishing sorts, and a finite set has an order to be put into.  *)
(***************************************************************************)
EXTENDS ContributionContract, FiniteSetTheorems, TLAPS

(***************************************************************************)
(* Sequences, and what is least.                                           *)
(***************************************************************************)

\* A sequence has its elements at the positions up to its length.
LEMMA SeqElements ==
    ASSUME NEW S, NEW s \in Seq(S)
    PROVE  Len(s) \in Nat /\ DOMAIN s = 1..Len(s) /\ \A k \in DOMAIN s : s[k] \in S
  OBVIOUS

\* A function over 1..n with values in S is a sequence of length n.
LEMMA SeqMade ==
    ASSUME NEW S, NEW n \in Nat, NEW s, DOMAIN s = 1..n, s = [k \in 1..n |-> s[k]], \A k \in 1..n : s[k] \in S
    PROVE  s \in Seq(S) /\ Len(s) = n
  OBVIOUS

\* What a joined sequence holds, and where.
LEMMA SeqJoined ==
    ASSUME NEW S, NEW s \in Seq(S), NEW r \in Seq(S)
    PROVE  /\ s \o r \in Seq(S) /\ DOMAIN (s \o r) = 1..(Len(s) + Len(r))
           /\ \A k \in 1..Len(s) : (s \o r)[k] = s[k]
           /\ \A k \in 1..Len(r) : (s \o r)[Len(s) + k] = r[k]
  OBVIOUS

\* What a sequence holds once x is appended, and where.
LEMMA SeqAppended ==
    ASSUME NEW S, NEW s \in Seq(S), NEW x
    PROVE  /\ DOMAIN Append(s, x) = 1..(Len(s) + 1) /\ Len(Append(s, x)) = Len(s) + 1
           /\ Append(s, x)[Len(s) + 1] = x /\ \A k \in DOMAIN s : Append(s, x)[k] = s[k]
           /\ DOMAIN Append(s, x) = DOMAIN s \cup {Len(s) + 1}
  OBVIOUS

\* Appending x adds x to the elements, and nothing else.
LEMMA RangeAppended ==
    ASSUME NEW S, NEW s \in Seq(S), NEW x
    PROVE  {Append(s, x)[k] : k \in DOMAIN Append(s, x)} = {s[k] : k \in DOMAIN s} \cup {x}
  <1> DEFINE t == Append(s, x)
  <1>1. /\ DOMAIN t = DOMAIN s \cup {Len(s) + 1}
        /\ t[Len(s) + 1] = x /\ \A k \in DOMAIN s : t[k] = s[k]
    BY SeqAppended
  <1> HIDE DEF t
  <1>2. {t[k] : k \in DOMAIN t} = {s[k] : k \in DOMAIN s} \cup {x}
    BY <1>1
  <1> QED
    BY <1>2 DEF t

\* A nonempty set of naturals has a least one.
LEMMA LeastNatural ==
    ASSUME NEW T \in SUBSET Nat, T # {}
    PROVE  \E x \in T : \A y \in T : x <= y
  <1> DEFINE U == {0..x : x \in T}
  <1>1. \A x \in T : 0..x \in FiniteSubsetsOf(Nat)
    <2> TAKE x \in T
    <2>1. x \in Nat
      OBVIOUS
    <2>2. IsFiniteSet(0..x) /\ 0..x \in SUBSET Nat
      BY <2>1, FS_Interval
    <2> QED
      BY <2>2 DEF FiniteSubsetsOf
  <1>2. U \subseteq FiniteSubsetsOf(Nat) /\ U # {}
    BY <1>1
  <1>3. PICK B \in U : \A A \in U : <<A, B>> \notin StrictSubsetOrdering(Nat)
    BY <1>2, FS_StrictSubsetOrderingWellFounded, WFMin
  <1>4. PICK x \in T : B = 0..x
    OBVIOUS
  <1>5. ASSUME NEW y \in T, ~(x <= y) PROVE FALSE
    <2>1. x \in Nat /\ y \in Nat
      OBVIOUS
    <2>2. 0..y \in SUBSET Nat /\ 0..x \in SUBSET Nat /\ 0..y \subseteq 0..x /\ x \in 0..x /\ x \notin 0..y
      BY <1>5, <2>1
    <2>3. <<0..y, 0..x>> \in StrictSubsetOrdering(Nat)
      BY <2>2 DEF StrictSubsetOrdering
    <2> QED
      BY <1>3, <1>4, <2>3
  <1> QED
    BY <1>5

-----------------------------------------------------------------------------
(***************************************************************************)
(* Sorting.                                                                *)
(***************************************************************************)
\* A strict order on J, as a set of pairs.
StrictOrder(R, J) ==
    /\ \A x \in J : <<x, x>> \notin R
    /\ \A x, y, z \in J : <<x, y>> \in R /\ <<y, z>> \in R => <<x, z>> \in R

\* The members of J in a line in which R never points back.
Lines(R, J) ==
    {q \in Bijection(1..Cardinality(J), J) : \A j, k \in DOMAIN q : j < k => <<q[k], q[j]>> \notin R}

After(R, J, x) == {y \in J : <<x, y>> \in R}

\* Something comes last in a finite set.
LEMMA SomethingLast ==
    ASSUME NEW R, NEW J, IsFiniteSet(J), J # {}, StrictOrder(R, J)
    PROVE  \E x \in J : After(R, J, x) = {}
  <1> DEFINE T == {After(R, J, x) : x \in J}
  <1>1. T \subseteq FiniteSubsetsOf(J) /\ T # {}
    <2>1. \A x : After(R, J, x) \in FiniteSubsetsOf(J)
      BY FS_FiniteSubsetsOfFinite DEF After
    <2> QED
      BY <2>1
  <1>2. PICK x \in J : \A B \in T : <<B, After(R, J, x)>> \notin StrictSubsetOrdering(J)
    BY <1>1, FS_StrictSubsetOrderingWellFounded, WFMin
  <1>3. ASSUME NEW y \in After(R, J, x) PROVE FALSE
    <2>1. /\ After(R, J, y) \subseteq After(R, J, x)
          /\ y \in After(R, J, x) \ After(R, J, y)
      BY <1>3 DEF After, StrictOrder
    <2>2. After(R, J, y) \in SUBSET J /\ After(R, J, x) \in SUBSET J
      BY DEF After
    <2>3. <<After(R, J, y), After(R, J, x)>> \in StrictSubsetOrdering(J)
      BY <2>1, <2>2 DEF StrictSubsetOrdering
    <2> QED
      BY <1>2, <1>3, <2>3 DEF After
  <1> QED
    BY <1>3

\* A line, and what comes last behind it.
LEMMA LineGrows ==
    ASSUME NEW R, NEW J, IsFiniteSet(J), NEW x \in J, After(R, J, x) = {}, <<x, x>> \notin R,
           NEW q \in Lines(R, J \ {x})
    PROVE  Lines(R, J) # {}
  <1> DEFINE n == Cardinality(J)
             p == [k \in 1..n |-> IF k = n THEN x ELSE q[k]]
  <1>1. n \in Nat \ {0} /\ Cardinality(J \ {x}) = n - 1
    BY FS_CardinalityType, FS_EmptySet, FS_RemoveElement
  <1>2. /\ q \in [1..(n - 1) -> J \ {x}]
        /\ \A j, k \in 1..(n - 1) : q[j] = q[k] => j = k
        /\ \A y \in J \ {x} : \E k \in 1..(n - 1) : q[k] = y
        /\ \A j, k \in 1..(n - 1) : j < k => <<q[k], q[j]>> \notin R
    BY <1>1 DEF Lines, Bijection, Injection, Surjection, IsInjective
  <1> HIDE DEF n
  <1>3. p \in [1..n -> J]
    BY <1>1, <1>2
  <1>4. \A j, k \in 1..n : p[j] = p[k] => j = k
    BY <1>1, <1>2
  <1>5. \A y \in J : \E k \in 1..n : p[k] = y
    <2>1. p[n] = x
      BY <1>1
    <2>2. ASSUME NEW y \in J \ {x} PROVE \E k \in 1..n : p[k] = y
      <3>1. PICK k \in 1..(n - 1) : q[k] = y
        BY <1>2
      <3> QED
        BY <1>1, <3>1
    <2> QED
      BY <1>1, <2>1, <2>2
  <1>6. \A j, k \in 1..n : j < k => <<p[k], p[j]>> \notin R
    <2> SUFFICES ASSUME NEW j \in 1..n, NEW k \in 1..n, j < k
                 PROVE  <<p[k], p[j]>> \notin R
      OBVIOUS
    <2>1. p[j] = q[j] /\ q[j] \in J \ {x}
      BY <1>1, <1>2
    <2>2. CASE k = n
      BY <2>1, <2>2 DEF After
    <2>3. CASE k # n
      BY <1>1, <1>2, <2>1, <2>3
    <2> QED
      BY <2>2, <2>3
  <1>7. p \in Bijection(1..n, J)
    BY <1>3, <1>4, <1>5 DEF Bijection, Injection, Surjection, IsInjective
  <1> QED
    BY <1>3, <1>6, <1>7 DEF Lines, n

\* Every finite set can be put into a line.
LEMMA LineExists ==
    ASSUME NEW R, NEW J, IsFiniteSet(J), StrictOrder(R, J)
    PROVE  Lines(R, J) # {}
  <1> DEFINE U == {T \in SUBSET J : Lines(R, T) = {}}
  <1> SUFFICES ASSUME J \in U PROVE FALSE
    OBVIOUS
  <1>1. U \subseteq FiniteSubsetsOf(J) /\ U # {}
    BY FS_FiniteSubsetsOfFinite
  <1>2. PICK T \in U : \A B \in U : <<B, T>> \notin StrictSubsetOrdering(J)
    BY <1>1, FS_StrictSubsetOrderingWellFounded, WFMin
  <1>3. IsFiniteSet(T) /\ StrictOrder(R, T)
    BY <1>2, FS_Subset DEF StrictOrder
  <1>4. CASE T = {}
    <2> DEFINE q == [k \in 1..0 |-> k]
    <2>1. Cardinality(T) = 0 /\ 1..0 = {}
      BY <1>4, FS_EmptySet
    <2>2. q \in Bijection(1..0, {})
      BY <2>1 DEF Bijection, Injection, Surjection, IsInjective
    <2>3. q \in Lines(R, T)
      BY <1>4, <2>1, <2>2 DEF Lines
    <2> QED
      BY <1>2, <2>3
  <1>5. CASE T # {}
    <2>1. PICK x \in T : After(R, T, x) = {}
      BY <1>3, <1>5, SomethingLast
    <2>2. T \ {x} \in SUBSET J /\ <<T \ {x}, T>> \in StrictSubsetOrdering(J)
      BY <1>2 DEF StrictSubsetOrdering
    <2>3. Lines(R, T \ {x}) # {}
      BY <1>2, <2>2
    <2> QED
      BY <1>2, <1>3, <2>1, <2>3, LineGrows DEF StrictOrder
  <1> QED
    BY <1>4, <1>5

-----------------------------------------------------------------------------
Inspected ==
    [target: Addresses, source: Capabilities, id: ItemIds, order: Orders, received: BOOLEAN]

\* s, sorted, is what it was in another order.
Rearranged(s, J, a) ==
    \E p \in Bijection(1..Cardinality(J), J) : a = [k \in 1..Cardinality(J) |-> s[p[k]]]

\* Entries have numbers to be sorted by.
LEMMA SortedByNumbers ==
    \A i \in Inspected :
        /\ i.source \in Nat /\ i.id \in Nat /\ i.order \in Int
        /\ i.target[1] \in Nat /\ i.target[2] \in Nat /\ i.target = <<i.target[1], i.target[2]>>
  <1> TAKE i \in Inspected
  <1>1. i.source \in Capabilities /\ i.id \in ItemIds /\ i.order \in Orders /\ i.target \in Addresses
    BY DEF Inspected
  <1>2. /\ i.target[1] \in Capabilities /\ i.target[2] \in PointNames
        /\ i.target = <<i.target[1], i.target[2]>>
    BY <1>1 DEF Addresses
  <1> QED
    BY <1>1, <1>2, NamesAssumption, ItemsAssumption

\* Items can be sorted as a collection is.
LEMMA BeforeOrders ==
    ASSUME NEW i \in Inspected, NEW j \in Inspected, NEW k \in Inspected
    PROVE  /\ ~Before(i, i)
           /\ Before(i, j) /\ Before(j, k) => Before(i, k)
  BY SortedByNumbers DEF Before

\* Of two items with ids of their own, one comes first.
LEMMA BeforeDecides ==
    ASSUME NEW i \in Inspected, NEW j \in Inspected, i.id # j.id, ~Before(j, i)
    PROVE  Before(i, j)
  BY SortedByNumbers DEF Before

\* Items can be sorted as an inspection is.
LEMMA InspectedBeforeOrders ==
    ASSUME NEW i \in Inspected, NEW j \in Inspected, NEW k \in Inspected
    PROVE  /\ ~InspectedBefore(i, i)
           /\ InspectedBefore(i, j) /\ InspectedBefore(j, k) => InspectedBefore(i, k)
  <1> USE SortedByNumbers, BeforeOrders
  <1>1. ~InspectedBefore(i, i)
    BY DEF InspectedBefore
  <1>2. ASSUME InspectedBefore(i, j), InspectedBefore(j, k) PROVE InspectedBefore(i, k)
    BY <1>2 DEF InspectedBefore
  <1> QED
    BY <1>1, <1>2

\* A collection is sorted and holds what was received.
LEMMA CollectionSorted ==
    ASSUME NEW s \in Seq(Inspected), NEW J \in SUBSET DOMAIN s, NEW a, a = Arranged(s, J, Before)
    PROVE  Rearranged(s, J, a) /\ \A j, k \in DOMAIN a : j < k => ~Before(a[k], a[j])
  <1> DEFINE R == {e \in J \X J : Before(s[e[1]], s[e[2]])}
             G(q) == \A j, k \in DOMAIN q : j < k => ~Before(s[q[k]], s[q[j]])
             p == CHOOSE q \in Bijection(1..Cardinality(J), J) : G(q)
  <1>1. \A j \in J : s[j] \in Inspected
    OBVIOUS
  <1>2. StrictOrder(R, J)
    BY <1>1, BeforeOrders DEF StrictOrder
  <1>3. IsFiniteSet(J)
    BY FS_Interval, FS_Subset
  <1>4. PICK q \in Lines(R, J) : TRUE
    BY <1>2, <1>3, LineExists
  <1>5. q \in Bijection(1..Cardinality(J), J) /\ G(q)
    <2>1. q \in Bijection(1..Cardinality(J), J) /\ \A k \in DOMAIN q : q[k] \in J
      BY <1>4 DEF Lines, Bijection, Injection
    <2> QED
      BY <1>4, <2>1 DEF Lines
  <1> HIDE DEF G
  <1>6. p \in Bijection(1..Cardinality(J), J) /\ G(p)
    BY <1>5
  <1>7. Arranged(s, J, Before) = [k \in 1..Cardinality(J) |-> s[p[k]]]
    BY DEF Arranged, G
  <1>8. DOMAIN p = 1..Cardinality(J)
    BY <1>6 DEF Bijection, Injection
  <1> HIDE DEF p
  <1>9. \A j, k \in DOMAIN a : j < k => ~Before(a[k], a[j])
    BY <1>6, <1>7, <1>8 DEF G
  <1> QED
    BY <1>6, <1>7, <1>9 DEF Rearranged

\* An inspection is sorted and holds what it held.
LEMMA InspectionSorted ==
    ASSUME NEW s \in Seq(Inspected), NEW J \in SUBSET DOMAIN s, NEW a, a = Arranged(s, J, InspectedBefore)
    PROVE  Rearranged(s, J, a) /\ \A j, k \in DOMAIN a : j < k => ~InspectedBefore(a[k], a[j])
  <1> DEFINE R == {e \in J \X J : InspectedBefore(s[e[1]], s[e[2]])}
             G(q) == \A j, k \in DOMAIN q : j < k => ~InspectedBefore(s[q[k]], s[q[j]])
             p == CHOOSE q \in Bijection(1..Cardinality(J), J) : G(q)
  <1>1. \A j \in J : s[j] \in Inspected
    OBVIOUS
  <1>2. StrictOrder(R, J)
    BY <1>1, InspectedBeforeOrders DEF StrictOrder
  <1>3. IsFiniteSet(J)
    BY FS_Interval, FS_Subset
  <1>4. PICK q \in Lines(R, J) : TRUE
    BY <1>2, <1>3, LineExists
  <1>5. q \in Bijection(1..Cardinality(J), J) /\ G(q)
    <2>1. q \in Bijection(1..Cardinality(J), J) /\ \A k \in DOMAIN q : q[k] \in J
      BY <1>4 DEF Lines, Bijection, Injection
    <2> QED
      BY <1>4, <2>1 DEF Lines
  <1> HIDE DEF G
  <1>6. p \in Bijection(1..Cardinality(J), J) /\ G(p)
    BY <1>5
  <1>7. Arranged(s, J, InspectedBefore) = [k \in 1..Cardinality(J) |-> s[p[k]]]
    BY DEF Arranged, G
  <1>8. DOMAIN p = 1..Cardinality(J)
    BY <1>6 DEF Bijection, Injection
  <1> HIDE DEF p
  <1>9. \A j, k \in DOMAIN a : j < k => ~InspectedBefore(a[k], a[j])
    BY <1>6, <1>7, <1>8 DEF G
  <1> QED
    BY <1>6, <1>7, <1>9 DEF Rearranged

-----------------------------------------------------------------------------
(***************************************************************************)
(* The inductive invariant.                                                *)
(***************************************************************************)
Submitted == [source: Capabilities, target: Addresses, items: Seq(ItemValues)]

\* Phases in which the plan was read, the modules were checked, the factories ran.
Reading == {"modules", "factories", "contributions", "items", "published"}
Checked == Reading \ {"modules"}
Complete == Checked \ {"factories"}

WellTyped ==
    /\ IsInput(input) /\ phase \in Phases /\ position \in 1..(Len(input.modules) + 1)
    /\ created \in Seq(Capabilities) /\ submitted \in Seq(Submitted) /\ inspection \in Seq(Inspected)
    /\ current \in Nat \ {0} /\ checked \in Nat

TakenCatalog == ValidCatalog(input.catalog) /\ KnownSelection(input.catalog, input.selected)

\* The plan is the one of the catalog, or one found consistent.
PlanRead ==
    /\ phase = "project" => plan = NoPlan
    /\ phase = "read" => input.stored # {} \/ TakenCatalog
    /\ phase # "project" /\ input.stored = {} /\ TakenCatalog => plan = PlanOf(input.catalog, input.selected)
    /\ phase \in Reading => Consistent(plan)

\* Every module up to the position is selected, and its id is its own.
ModulesChecked ==
    /\ accepted = {input.modules[k] : k \in 1..(position - 1)}
    /\ \A k \in 1..(position - 1) : Selected(input.modules[k])
    /\ \A j, k \in 1..(position - 1) : input.modules[j].id = input.modules[k].id => j = k
    /\ phase \in {"project", "read"} => position = 1
    /\ phase \in Checked \/ created # <<>> => position = Len(input.modules) + 1

Ran == {created[k] : k \in DOMAIN created}
RanModules == {m \in accepted : m.id \in Ran}
PointsOf(m) == {m.points[k] : k \in DOMAIN m.points}

\* A module that returned, with points of its own.
Returned(m) ==
    /\ m.kind = "returns"
    /\ \A k \in DOMAIN m.points : m.points[k][1] = m.id /\ m.points[k] \in plan.points
    /\ \A j, k \in DOMAIN m.points : m.points[j] = m.points[k] => j = k

\* Factories run in id order, and those that ran did as they should.
FactoriesRan ==
    /\ phase \in Phases \ (Checked \cup {"failed"}) => created = <<>>
    /\ Ran \subseteq {m.id : m \in accepted}
    /\ \A j, k \in DOMAIN created : j < k => created[j] < created[k]
    /\ \A m \in Waiting : \A k \in DOMAIN created : created[k] < m.id
    /\ phase \in Complete => Waiting = {}
    /\ phase # "failed" =>
        /\ \A m \in RanModules : Returned(m)
        /\ declared = UNION {PointsOf(m) : m \in RanModules}

\* w names, for each contribution submitted, the place it comes from.
Attributed(w) ==
    /\ w \in [DOMAIN submitted -> Contributions]
    /\ \A j, k \in DOMAIN submitted : w[j] = w[k] => j = k
    /\ \A k \in DOMAIN submitted :
        /\ w[k].source \in Ran /\ w[k].source = submitted[k].source
        /\ w[k].target = submitted[k].target /\ w[k].items = submitted[k].items
    /\ \A c \in Contributions : c.source \in Ran => \E k \in DOMAIN submitted : w[k] = c

\* The items checked so far.
Past(w, i) ==
    \E k \in DOMAIN submitted : i.at[1] = w[k].at /\ (k < current \/ (k = current /\ i.at[2] <= checked))

Done(w) == {i \in Items : Past(w, i)}

Filled(c) == <<c.source, c.target>> \in plan.active \cup plan.inactive

\* The inspection holds what was checked, and all of it is sound.
Inspecting(w) ==
    /\ IsFiniteSet(Done(w)) /\ Cardinality(Done(w)) = Len(inspection)
    /\ {inspection[k] : k \in DOMAIN inspection} = {AsPublished(i) : i \in Done(w)}
    /\ \A k \in DOMAIN submitted : k < current => Filled(submitted[k])
    /\ \A i \in Done(w) : i.item # Malformed /\ (i \in ReceivedItems => i.target \in declared)
    /\ \A i, j \in Done(w) \cap ReceivedItems : i.target = j.target /\ i.item.id = j.item.id => i = j
    /\ \A j, k \in DOMAIN inspection :
        /\ inspection[j].received /\ inspection[k].received
        /\ inspection[j].target = inspection[k].target /\ inspection[j].id = inspection[k].id
        => j = k

\* Where checking stands.
Standing ==
    /\ phase \in Phases \ (Complete \cup {"failed"}) => current = 1 /\ checked = 0 /\ inspection = <<>>
    /\ phase = "contributions" => current <= Len(submitted) + 1 /\ checked = 0
    /\ phase = "items" =>
        current <= Len(submitted) /\ Filled(Contribution) /\ checked <= Len(Contribution.items)

Tracked ==
    phase \notin {"failed", "published"} =>
        \E w \in [DOMAIN submitted -> Contributions] : Attributed(w) /\ Inspecting(w)

\* Nothing leaves the plan.
WithinPlan ==
    /\ declared \subseteq plan.points
    /\ \A k \in DOMAIN inspection :
        <<inspection[k].source, inspection[k].target>> \in
            (IF inspection[k].received THEN plan.active ELSE plan.inactive)
    /\ DOMAIN collections \subseteq declared

\* What the contract says of the end, with the reason a projection failed.
Refused == phase = "failed" => Defective \/ (plan = NoPlan /\ input.stored = {} /\ ~TakenCatalog)

Published ==
    phase = "published" =>
        /\ ~Defective
        /\ Len(inspection) = Cardinality(Items)
        /\ {inspection[k] : k \in DOMAIN inspection} = {AsPublished(i) : i \in Items}
        /\ Sorted(inspection, InspectedBefore)
        /\ DOMAIN collections = {i.target : i \in ReceivedItems}
        /\ \A a \in DOMAIN collections :
            /\ {collections[a][k] : k \in DOMAIN collections[a]}
                = {AsPublished(i) : i \in {j \in ReceivedItems : j.target = a}}
            /\ \A j, k \in DOMAIN collections[a] : j < k => Before(collections[a][j], collections[a][k])

IInv ==
    /\ WellTyped /\ PlanRead /\ ModulesChecked /\ FactoriesRan /\ Standing /\ Tracked
    /\ WithinPlan /\ Refused /\ Published

-----------------------------------------------------------------------------
(***************************************************************************)
(* The pieces modules are made of.                                         *)
(***************************************************************************)
ContributionAt(h, n) ==
    [source |-> input.modules[h].id, target |-> input.modules[h].contributions[n].target,
     items |-> input.modules[h].contributions[n].items, at |-> <<h, n>>]

ItemAt(c, j) == [source |-> c.source, target |-> c.target, item |-> c.items[j], at |-> <<c.at, j>>]

\* The contributions are those of the modules handed over, each at its place.
LEMMA ContributionsAre ==
    \A c : c \in Contributions <=>
        \E h \in DOMAIN input.modules : \E n \in DOMAIN input.modules[h].contributions : c = ContributionAt(h, n)
  <1> TAKE c
  <1>1. ASSUME NEW h \in DOMAIN input.modules, NEW n \in DOMAIN input.modules[h].contributions,
               c = ContributionAt(h, n)
        PROVE  c \in Contributions
    <2>1. <<h, input.modules[h]>> \in Handed
      BY DEF Handed
    <2> QED
      BY <1>1, <2>1 DEF Contributions, ContributionAt
  <1>2. ASSUME c \in Contributions
        PROVE  \E h \in DOMAIN input.modules : \E n \in DOMAIN input.modules[h].contributions : c = ContributionAt(h, n)
    <2>1. PICK g \in Handed : \E n \in DOMAIN g[2].contributions :
            c = [source |-> g[2].id, target |-> g[2].contributions[n].target,
                 items |-> g[2].contributions[n].items, at |-> <<g[1], n>>]
      BY <1>2 DEF Contributions
    <2>2. g[1] \in DOMAIN input.modules /\ g[2] = input.modules[g[1]]
      BY DEF Handed
    <2> QED
      BY <2>1, <2>2 DEF ContributionAt
  <1> QED
    BY <1>1, <1>2

\* The items are those of the contributions, each at its place.
LEMMA ItemsAre ==
    \A i : i \in Items <=> \E c \in Contributions : \E j \in DOMAIN c.items : i = ItemAt(c, j)
  BY DEF Items, ItemAt

\* A place holds one contribution, and one item.
LEMMA PlacesDiffer ==
    /\ \A c, d \in Contributions : c.at = d.at => c = d
    /\ \A i, j \in Items : i.at = j.at => i = j
  <1>1. ASSUME NEW c \in Contributions, NEW d \in Contributions, c.at = d.at PROVE c = d
    <2>1. PICK h \in DOMAIN input.modules :
            \E n \in DOMAIN input.modules[h].contributions : c = ContributionAt(h, n)
      BY ContributionsAre
    <2>2. PICK n : c = ContributionAt(h, n)
      BY <2>1
    <2>3. PICK g \in DOMAIN input.modules : \E m \in DOMAIN input.modules[g].contributions : d = ContributionAt(g, m)
      BY ContributionsAre
    <2>4. PICK m : d = ContributionAt(g, m)
      BY <2>3
    <2>5. <<h, n>> = <<g, m>>
      BY <1>1, <2>2, <2>4 DEF ContributionAt
    <2> QED
      BY <2>2, <2>4, <2>5
  <1>2. ASSUME NEW i \in Items, NEW j \in Items, i.at = j.at PROVE i = j
    <2>1. PICK c \in Contributions : \E m \in DOMAIN c.items : i = ItemAt(c, m)
      BY ItemsAre
    <2>2. PICK m \in DOMAIN c.items : i = ItemAt(c, m)
      BY <2>1
    <2>3. PICK d \in Contributions : \E n \in DOMAIN d.items : j = ItemAt(d, n)
      BY ItemsAre
    <2>4. PICK n \in DOMAIN d.items : j = ItemAt(d, n)
      BY <2>3
    <2>5. c.at = d.at /\ m = n
      BY <1>2, <2>2, <2>4 DEF ItemAt
    <2> QED
      BY <1>1, <2>2, <2>4, <2>5
  <1> QED
    BY <1>1, <1>2

Targeted == [target: Addresses, items: Seq(ItemValues)]

\* What a module that is handed over is made of.
LEMMA ModulesTyped ==
    ASSUME IsInput(input), NEW k \in DOMAIN input.modules
    PROVE  /\ input.modules[k] \in Modules
           /\ input.modules[k].id \in Capabilities /\ input.modules[k].id \in Nat
           /\ input.modules[k].points \in Seq(Addresses)
           /\ input.modules[k].contributions \in Seq(Targeted)
  <1>1. input.modules[k] \in Modules
    BY DEF IsInput
  <1> QED
    BY <1>1, NamesAssumption DEF Modules, Targeted

\* What a contribution is made of.
LEMMA ContributionsTyped ==
    ASSUME IsInput(input), NEW c \in Contributions
    PROVE  c.source \in Capabilities /\ c.target \in Addresses /\ c.items \in Seq(ItemValues)
  <1>1. PICK h \in DOMAIN input.modules : \E n \in DOMAIN input.modules[h].contributions : c = ContributionAt(h, n)
    BY ContributionsAre
  <1>2. PICK n \in DOMAIN input.modules[h].contributions : c = ContributionAt(h, n)
    BY <1>1
  <1>3. input.modules[h].contributions[n] \in Targeted
    <2>1. input.modules[h].contributions \in Seq(Targeted)
      BY ModulesTyped
    <2> QED
      BY <2>1, SeqElements
  <1> QED
    BY <1>2, <1>3, ModulesTyped DEF ContributionAt, Targeted

\* The index of an item, in its contribution, starts at 1.
LEMMA IndexPositive ==
    ASSUME IsInput(input), NEW i \in Items
    PROVE  i.at[2] \in Nat \ {0}
  <1>1. PICK c \in Contributions : \E j \in DOMAIN c.items : i = ItemAt(c, j)
    BY ItemsAre
  <1>2. PICK j \in DOMAIN c.items : i = ItemAt(c, j)
    BY <1>1
  <1>3. c.items \in Seq(ItemValues)
    BY ContributionsTyped
  <1> QED
    BY <1>2, <1>3 DEF ItemAt

\* What a module submits, once its factory ran.
Submissions(m) ==
    [k \in DOMAIN m.contributions |->
        [source |-> m.id, target |-> m.contributions[k].target, items |-> m.contributions[k].items]]

\* What a module submits, one entry for each of its contributions.
LEMMA SubmissionsTyped ==
    ASSUME IsInput(input), NEW h \in DOMAIN input.modules
    PROVE  /\ Submissions(input.modules[h]) \in Seq(Submitted)
           /\ Len(Submissions(input.modules[h])) = Len(input.modules[h].contributions)
           /\ Len(input.modules[h].contributions) \in Nat
           /\ DOMAIN input.modules[h].contributions = 1..Len(input.modules[h].contributions)
  <1> DEFINE m == input.modules[h]
  <1>1. m.contributions \in Seq(Targeted) /\ m.id \in Capabilities
    BY ModulesTyped
  <1> HIDE DEF m
  <1>2. /\ Len(m.contributions) \in Nat /\ DOMAIN m.contributions = 1..Len(m.contributions)
        /\ \A k \in DOMAIN m.contributions : m.contributions[k] \in Targeted
    BY <1>1, SeqElements
  <1>3. \A k \in 1..Len(m.contributions) : Submissions(m)[k] \in Submitted
    BY <1>1, <1>2 DEF Submissions, Submitted, Targeted
  <1>4. DOMAIN Submissions(m) = 1..Len(m.contributions)
        /\ Submissions(m) = [k \in 1..Len(m.contributions) |-> Submissions(m)[k]]
    BY <1>2 DEF Submissions
  <1>5. Submissions(m) \in Seq(Submitted) /\ Len(Submissions(m)) = Len(m.contributions)
    BY <1>2, <1>3, <1>4, SeqMade
  <1> QED
    BY <1>2, <1>5 DEF m

\* The accepted modules are some of those handed over.
LEMMA AcceptedAre ==
    ASSUME WellTyped, ModulesChecked, NEW m \in accepted
    PROVE  \E k \in DOMAIN input.modules : k < position /\ m = input.modules[k]
  BY DEF WellTyped, ModulesChecked, IsInput

\* Some waiting module has the least id.
LEMMA NextIsLeast ==
    ASSUME WellTyped, ModulesChecked, Waiting # {}
    PROVE  NextModule \in Waiting /\ \A n \in Waiting : NextModule.id <= n.id
  <1>1. \A m \in Waiting : m.id \in Nat
    BY AcceptedAre, ModulesTyped DEF Waiting, WellTyped
  <1> DEFINE T == {m.id : m \in Waiting}
  <1>2. T \in SUBSET Nat /\ T # {}
    BY <1>1
  <1> HIDE DEF T
  <1>3. PICK x \in T : \A y \in T : x <= y
    BY <1>2, LeastNatural
  <1>4. \E m \in Waiting : \A n \in Waiting : m.id <= n.id
    BY <1>3 DEF T
  <1> QED
    BY <1>4 DEF NextModule

-----------------------------------------------------------------------------
(***************************************************************************)
(* Every conjunct of the invariant is preserved.                           *)
(***************************************************************************)

\* Steps that only move the control.
Moves == ReadPlan \/ StartFactories \/ StartContributions \/ OpenContribution

\* Steps that end the construction.
Fails == RejectCatalog \/ RejectPlan \/ RejectModule \/ RejectContribution \/ RejectItem

\* A step from one phase to the next changes the phase alone.
LEMMA MovesOnly ==
    ASSUME Moves
    PROVE  UNCHANGED <<input, plan, accepted, position, created, declared, submitted, current, checked,
                       inspection, collections>> /\ phase' \in Reading
  BY DEF Moves, ReadPlan, StartFactories, StartContributions, OpenContribution, construction, checking, Reading

\* A refusal changes the phase alone: nothing is undone and nothing published.
LEMMA FailsOnly ==
    ASSUME Fails
    PROVE  UNCHANGED <<input, plan, accepted, position, created, declared, submitted, current, checked,
                       inspection, collections>> /\ phase' = "failed"
  BY DEF Fails, RejectCatalog, RejectPlan, RejectModule, RejectContribution, RejectItem, Fail, construction,
         checking

\* A step is one of those that change something, moves on, fails, or is none.
LEMMA NextCases ==
    ASSUME [Next]_vars
    PROVE  \/ Project \/ TakeStored \/ AcceptModule \/ RunFactory \/ TakeItem \/ CloseContribution \/ Publish
           \/ Moves \/ Fails
           \/ UNCHANGED <<input, phase, plan, accepted, position, created, declared, submitted, current, checked,
                          inspection, collections>>
  BY DEF Next, vars, construction, checking, Moves, Fails

\* The module a factory belongs to, with its place.
LEMMA FactoryOf ==
    ASSUME WellTyped, ModulesChecked, RunFactory
    PROVE  /\ NextModule \in Waiting /\ \A n \in Waiting : NextModule.id <= n.id
           /\ \E h \in DOMAIN input.modules : NextModule = input.modules[h]
           /\ position = Len(input.modules) + 1
  BY NextIsLeast, AcceptedAre DEF RunFactory, Waiting, ModulesChecked, Checked, Reading

\* A step keeps the variables well typed.
LEMMA TypedStep ==
    ASSUME WellTyped, ModulesChecked, Standing, [Next]_vars
    PROVE  WellTyped'
  <1>1. CASE Project
    BY <1>1 DEF Project, WellTyped, Phases, construction, checking
  <1>2. CASE TakeStored
    BY <1>2 DEF TakeStored, WellTyped, Phases, construction, checking
  <1>3. CASE AcceptModule
    <2>1. /\ input' = input /\ phase' = phase /\ created' = created /\ submitted' = submitted
          /\ inspection' = inspection /\ current' = current /\ checked' = checked
          /\ position' = position + 1 /\ position <= Len(input.modules)
      BY <1>3 DEF AcceptModule, Unchecked, checking
    <2>2. Len(input.modules) \in Nat
      BY DEF WellTyped, IsInput
    <2> QED
      BY <2>1, <2>2 DEF WellTyped
  <1>4. CASE RunFactory
    <2> DEFINE m == NextModule
    <2>1. /\ created' = Append(created, m.id) /\ UNCHANGED <<input, position, current, checked, inspection>>
          /\ phase' \in Phases /\ submitted' \in {submitted, submitted \o Submissions(m)}
      BY <1>4 DEF RunFactory, checking, Phases, Submissions
    <2>2. m.id \in Capabilities
      BY <1>4, FactoryOf, ModulesTyped DEF WellTyped
    <2>3. Submissions(m) \in Seq(Submitted)
      BY <1>4, FactoryOf, SubmissionsTyped DEF WellTyped
    <2> HIDE DEF m
    <2>4. submitted' \in Seq(Submitted)
      <3>1. submitted \in Seq(Submitted)
        BY DEF WellTyped
      <3>2. submitted \o Submissions(m) \in Seq(Submitted)
        BY <2>3, <3>1, SeqJoined
      <3> QED
        BY <2>1, <3>1, <3>2
    <2> QED
      BY <2>1, <2>2, <2>4 DEF WellTyped
  <1>5. CASE TakeItem
    <2> DEFINE r == [target |-> Contribution.target, source |-> Contribution.source, id |-> NextItem.id,
                     order |-> NextItem.order, received |-> Edge \in plan.active]
    <2>1. /\ inspection' = Append(inspection, r) /\ checked' = checked + 1
          /\ UNCHANGED <<input, phase, created, submitted, current, position>>
      BY <1>5 DEF TakeItem, construction
    <2>2. Contribution \in Submitted
      BY <1>5 DEF TakeItem, AtItem, Standing, WellTyped, Contribution
    <2>3. NextItem \in ItemValues /\ NextItem # Malformed
      <3>1. Contribution.items \in Seq(ItemValues) /\ checked + 1 \in DOMAIN Contribution.items
        BY <1>5, <2>2 DEF Submitted, TakeItem, AtItem, WellTyped
      <3> QED
        BY <1>5, <3>1 DEF NextItem, TakeItem, Acceptable
    <2>4. NextItem.id \in ItemIds /\ NextItem.order \in Orders
      BY <2>3 DEF ItemValues
    <2>5. r \in Inspected
      BY <2>2, <2>4 DEF Inspected, Submitted
    <2> HIDE DEF r
    <2> QED
      BY <2>1, <2>5 DEF WellTyped
  <1>6. CASE CloseContribution
    BY <1>6 DEF CloseContribution, WellTyped, Phases, construction
  <1>7. CASE Publish
    <2>1. /\ inspection' = Arranged(inspection, DOMAIN inspection, InspectedBefore) /\ phase' \in Phases
          /\ UNCHANGED <<input, created, submitted, current, checked, position>>
      BY <1>7 DEF Publish, Phases, construction
    <2>2. Rearranged(inspection, DOMAIN inspection, inspection')
      BY <2>1, InspectionSorted DEF WellTyped
    <2>3. PICK p \in Bijection(1..Cardinality(DOMAIN inspection), DOMAIN inspection) :
            inspection' = [k \in 1..Cardinality(DOMAIN inspection) |-> inspection[p[k]]]
      BY <2>2 DEF Rearranged
    <2>4. Cardinality(DOMAIN inspection) \in Nat
      BY FS_Interval, FS_CardinalityType DEF WellTyped
    <2>5. \A k \in 1..Cardinality(DOMAIN inspection) : inspection[p[k]] \in Inspected
      BY DEF Bijection, Injection, WellTyped
    <2>6. inspection' \in Seq(Inspected)
      BY <2>3, <2>4, <2>5
    <2> QED
      BY <2>1, <2>6 DEF WellTyped
  <1>8. CASE Moves
    BY <1>8, MovesOnly DEF WellTyped, Reading, Phases
  <1>9. CASE Fails
    BY <1>9, FailsOnly DEF WellTyped, Phases
  <1>10. CASE UNCHANGED <<input, phase, plan, accepted, position, created, declared, submitted, current, checked,
                          inspection, collections>>
    BY <1>10 DEF WellTyped
  <1> QED
    BY <1>1, <1>2, <1>3, <1>4, <1>5, <1>6, <1>7, <1>8, <1>9, <1>10, NextCases

\* A plan projected from a valid catalog is consistent.
LEMMA ProjectionConsistent ==
    ASSUME TakenCatalog
    PROVE  Consistent(PlanOf(input.catalog, input.selected))
  <1> DEFINE C == input.catalog
             S == input.selected
  <1>1. ASSUME NEW e \in Outgoing(C, S)
        PROVE  /\ e.from \in DOMAIN S /\ e.from # e.target[1]
               /\ e.target[1] \in DOMAIN S /\ S[e.target[1]] = e.toVersion => e.target \in Offered(C, S)
    <2>1. PICK d \in C :
            /\ d.id = e.from /\ e.target[1] \in DOMAIN d.contributesTo
            /\ e.target[2] \in d.contributesTo[e.target[1]]
            /\ \E o \in Owners(C, d, e.target[1]) : o.version = e.toVersion
      BY <1>1 DEF Outgoing, VersionedEdges
    <2>2. PICK o \in Owners(C, d, e.target[1]) : o.version = e.toVersion
      BY <2>1
    <2>3. e.target[1] # d.id /\ e.target[2] \in o.points
      BY <2>1, <2>2 DEF TakenCatalog, ValidCatalog
    <2>4. o \in C /\ o.id = e.target[1]
      BY <2>2 DEF Owners
    <2>5. e.from \in DOMAIN S /\ e.target \in Addresses
      BY <1>1 DEF Outgoing, VersionedEdges
    <2> QED
      BY <2>1, <2>2, <2>3, <2>4, <2>5 DEF Offered
  <1>2. \A a \in Active(C, S) :
          a[1] \in DOMAIN S /\ a[1] # a[2][1] /\ a[2][1] \in DOMAIN S /\ a[2] \in Offered(C, S)
    BY <1>1 DEF Active
  <1>3. \A a \in Inactive(C, S) : a[1] \in DOMAIN S /\ a[1] # a[2][1] /\ a[2][1] \notin DOMAIN S
    BY <1>1 DEF Inactive
  <1>4. \A a \in Offered(C, S) : a[1] \in DOMAIN S
    BY DEF Offered
  <1>5. /\ PlanOf(C, S).selected = S /\ PlanOf(C, S).points = Offered(C, S)
        /\ PlanOf(C, S).active = Active(C, S) /\ PlanOf(C, S).inactive = Inactive(C, S)
    BY DEF PlanOf
  <1>6. Active(C, S) \cap Inactive(C, S) = {}
    BY <1>2, <1>3
  <1> HIDE DEF C, S
  <1> QED
    BY <1>2, <1>3, <1>4, <1>5, <1>6 DEF Consistent, C, S

\* The plan is read once, before any module is looked at.
LEMMA PlanStep ==
    ASSUME PlanRead, WellTyped, [Next]_vars
    PROVE  PlanRead'
  <1>1. CASE Project
    BY <1>1 DEF Project, PlanRead, TakenCatalog, Reading
  <1>2. CASE TakeStored
    BY <1>2 DEF TakeStored, PlanRead, Reading
  <1>3. ASSUME UNCHANGED <<input, plan>>, phase \in Reading, phase' \notin {"project", "read"} PROVE PlanRead'
    BY <1>3 DEF PlanRead, TakenCatalog, Reading
  <1>4. CASE AcceptModule \/ RunFactory \/ TakeItem \/ CloseContribution \/ Publish
    <2>1. UNCHANGED <<input, plan>> /\ phase \in Reading /\ phase' \notin {"project", "read"}
      BY <1>4 DEF AcceptModule, RunFactory, TakeItem, AtItem, CloseContribution, Publish, construction, checking,
                  Reading
    <2> QED
      BY <1>3, <2>1
  <1>5. CASE ReadPlan
    BY <1>5 DEF ReadPlan, PlanRead, TakenCatalog, Reading
  <1>6. CASE StartFactories \/ StartContributions \/ OpenContribution
    <2>1. UNCHANGED <<input, plan>> /\ phase \in Reading /\ phase' \notin {"project", "read"}
      BY <1>6 DEF StartFactories, StartContributions, OpenContribution, Reading
    <2> QED
      BY <1>3, <2>1
  <1>7. CASE RejectCatalog
    BY <1>7 DEF RejectCatalog, Fail, PlanRead, TakenCatalog, Reading
  <1>8. CASE RejectPlan \/ RejectModule \/ RejectContribution \/ RejectItem
    <2>1. UNCHANGED <<input, plan>> /\ phase # "project" /\ phase' = "failed"
      BY <1>8 DEF RejectPlan, RejectModule, RejectContribution, RejectItem, AtItem, Fail
    <2> QED
      BY <2>1 DEF PlanRead, TakenCatalog, Reading
  <1>9. CASE UNCHANGED <<input, phase, plan, accepted, position, created, declared, submitted, current, checked,
                         inspection, collections>>
    BY <1>9 DEF PlanRead, TakenCatalog
  <1> QED
    BY <1>1, <1>2, <1>4, <1>5, <1>6, <1>7, <1>8, <1>9, NextCases DEF Moves, Fails

\* A step keeps the modules looked at selected, and their ids their own.
LEMMA ModulesStep ==
    ASSUME WellTyped, ModulesChecked, FactoriesRan, [Next]_vars
    PROVE  ModulesChecked'
  <1>1. CASE Project \/ TakeStored
    <2>1. /\ UNCHANGED <<input, accepted, position, created>> /\ phase = "project" /\ phase' = "read"
      BY <1>1 DEF Project, TakeStored, construction
    <2>2. position = 1 /\ 1..(position - 1) = {}
      BY <2>1 DEF ModulesChecked
    <2> QED
      BY <2>1, <2>2 DEF ModulesChecked, FactoriesRan, Checked, Reading, Phases
  <1>2. CASE AcceptModule
    <2> DEFINE m == input.modules[position]
    <2>1. /\ Selected(m) /\ m.id \notin {n.id : n \in accepted} /\ accepted' = accepted \cup {m}
          /\ position' = position + 1 /\ UNCHANGED <<input, phase, plan, created>> /\ phase = "modules"
      BY <1>2 DEF AcceptModule
    <2>2. position \in Nat \ {0} /\ 1..(position' - 1) = (1..(position - 1)) \cup {position}
      BY <2>1 DEF WellTyped
    <2>3. accepted' = {input.modules[k] : k \in 1..(position' - 1)}
      BY <2>1, <2>2 DEF ModulesChecked
    <2>4. \A k \in 1..(position' - 1) : Selected(input.modules[k])
      BY <2>1, <2>2 DEF ModulesChecked
    <2>5. \A k \in 1..(position - 1) : input.modules[k].id # m.id
      BY <2>1 DEF ModulesChecked
    <2>6. \A j, k \in 1..(position' - 1) : input.modules[j].id = input.modules[k].id => j = k
      BY <2>2, <2>5 DEF ModulesChecked
    <2>7. created = <<>>
      BY <2>1 DEF FactoriesRan, Phases, Checked, Reading
    <2>8. \A k \in 1..(position' - 1) : Selected(input.modules[k])'
      BY <2>1, <2>4 DEF Selected
    <2>9. created' = <<>> /\ phase' = "modules"
      BY <2>1, <2>7
    <2>10. \A j, k \in 1..(position' - 1) : input'.modules[j].id = input'.modules[k].id => j = k
      BY <2>1, <2>6
    <2>11. accepted' = {input'.modules[k] : k \in 1..(position' - 1)}
      BY <2>1, <2>3
    <2>12. \A k \in 1..(position' - 1) : Selected(input.modules[k])'
      BY <2>8
    <2> QED
      BY <2>9, <2>10, <2>11, <2>12 DEF ModulesChecked, Checked, Reading
  <1>3. CASE RunFactory
    <2>1. UNCHANGED <<input, plan, accepted, position>> /\ phase' \in {"factories", "failed"}
      BY <1>3 DEF RunFactory
    <2> QED
      BY <1>3, <2>1, FactoryOf DEF ModulesChecked, Selected
  <1>4. CASE TakeItem \/ CloseContribution \/ Publish
    <2>1. UNCHANGED <<input, plan, accepted, position, created>> /\ phase \in Checked
          /\ phase' \notin {"project", "read"}
      BY <1>4 DEF TakeItem, AtItem, CloseContribution, Publish, construction, Checked, Reading
    <2> QED
      BY <2>1 DEF ModulesChecked, Selected
  <1>5. CASE ReadPlan
    BY <1>5 DEF ReadPlan, construction, ModulesChecked, Selected, Checked, Reading
  <1>6. CASE StartFactories
    <2>1. /\ UNCHANGED <<input, plan, accepted, position, created>> /\ phase' = "factories"
          /\ ~(position <= Len(input.modules))
      BY <1>6 DEF StartFactories, Unchecked, construction
    <2>2. position = Len(input.modules) + 1
      BY <2>1 DEF WellTyped, IsInput
    <2> QED
      BY <2>1, <2>2 DEF ModulesChecked, Selected
  <1>7. CASE StartContributions \/ OpenContribution
    <2>1. UNCHANGED <<input, plan, accepted, position, created>> /\ phase \in Checked
          /\ phase' \notin {"project", "read"}
      BY <1>7 DEF StartContributions, OpenContribution, construction, Checked, Reading
    <2> QED
      BY <2>1 DEF ModulesChecked, Selected
  <1>8. CASE Fails
    BY <1>8, FailsOnly DEF ModulesChecked, Selected, Checked, Reading
  <1>9. CASE UNCHANGED <<input, phase, plan, accepted, position, created, declared, submitted, current, checked,
                         inspection, collections>>
    BY <1>9 DEF ModulesChecked, Selected
  <1> QED
    BY <1>1, <1>2, <1>3, <1>4, <1>5, <1>6, <1>7, <1>8, <1>9, NextCases DEF Moves

\* A module is known by its id.
LEMMA AcceptedApart ==
    ASSUME WellTyped, ModulesChecked, NEW m \in accepted, NEW n \in accepted, m.id = n.id
    PROVE  m = n
  BY DEF ModulesChecked, WellTyped

\* A step keeps the factories in id order and what they declared sound.
LEMMA FactoriesStep ==
    ASSUME WellTyped, ModulesChecked, FactoriesRan, [Next]_vars
    PROVE  FactoriesRan'
  <1> USE DEF Ran, RanModules, Waiting
  <1>1. CASE Project \/ TakeStored
    <2>1. /\ UNCHANGED <<accepted, created, declared>> /\ phase = "project" /\ phase' = "read" /\ created = <<>>
      BY <1>1 DEF Project, TakeStored, construction, FactoriesRan, Checked, Reading, Phases
    <2> QED
      BY <2>1 DEF FactoriesRan, Complete, Checked, Reading, Phases
  <1>2. CASE AcceptModule
    <2>1. /\ accepted \subseteq accepted' /\ UNCHANGED <<plan, phase, created, declared>> /\ created = <<>>
          /\ phase = "modules"
      BY <1>2 DEF AcceptModule, FactoriesRan, Checked, Reading, Phases
    <2> QED
      BY <2>1 DEF FactoriesRan, Complete, Checked, Reading, Phases
  <1>3. CASE RunFactory
    <2> DEFINE m == NextModule
    <2>1. /\ created' = Append(created, m.id) /\ UNCHANGED <<plan, accepted>> /\ phase = "factories"
          /\ phase' \in {"factories", "failed"}
          /\ phase' # "failed" => PointsSound(m) /\ declared' = declared \cup PointsOf(m)
      BY <1>3 DEF RunFactory, PointsOf
    <2>2. /\ m \in accepted /\ m.id \notin Ran /\ \A n \in Waiting : m.id <= n.id
          /\ \A n \in accepted : n.id \in Nat
      BY <1>3, FactoryOf, AcceptedAre, ModulesTyped DEF WellTyped
    <2> HIDE DEF m
    <2>3. /\ created \in Seq(Capabilities) /\ Len(created) \in Nat /\ DOMAIN created = 1..Len(created)
          /\ DOMAIN created' = 1..(Len(created) + 1) /\ created'[Len(created) + 1] = m.id
          /\ \A k \in DOMAIN created : created'[k] = created[k]
      BY <2>1 DEF WellTyped
    <2>4. Ran' = Ran \cup {m.id}
      BY <2>3
    <2>5. \A n \in Waiting' : n \in Waiting /\ m.id < n.id
      BY <2>1, <2>2, <2>4
    <2>6. \A j, k \in DOMAIN created' : j < k => created'[j] < created'[k]
      BY <2>2, <2>3 DEF FactoriesRan
    <2>7. \A n \in Waiting' : \A k \in DOMAIN created' : created'[k] < n.id
      BY <2>3, <2>5 DEF FactoriesRan
    <2>8. ASSUME phase' # "failed"
          PROVE  /\ \A n \in RanModules' : Returned(n)'
                 /\ declared' = UNION {PointsOf(n) : n \in RanModules'}
      <3>1. RanModules' = RanModules \cup {m}
        BY <2>1, <2>2, <2>4, AcceptedApart
      <3>2. \A n : Returned(n) => Returned(n)'
        BY <2>1 DEF Returned
      <3>3. Returned(m)
        BY <2>1, <2>8 DEF PointsSound, Returned
      <3> HIDE DEF RanModules
      <3>4. \A n \in RanModules : Returned(n)
        BY <2>1 DEF FactoriesRan
      <3>5. declared' = (UNION {PointsOf(n) : n \in RanModules}) \cup PointsOf(m)
        BY <2>1, <2>8 DEF FactoriesRan
      <3> QED
        BY <3>1, <3>2, <3>3, <3>4, <3>5
    <2>9. Ran' \subseteq {n.id : n \in accepted'}
      BY <2>1, <2>2, <2>4 DEF FactoriesRan
    <2>10. phase' \notin Complete /\ phase' \notin Phases \ (Checked \cup {"failed"})
      BY <2>1 DEF Complete, Checked, Reading, Phases
    <2> HIDE DEF Waiting, Ran, RanModules
    <2> QED
      BY <2>6, <2>7, <2>8, <2>9, <2>10 DEF FactoriesRan, PointsOf
  <1>4. CASE StartContributions
    <2>1. /\ UNCHANGED <<plan, accepted, created, declared>> /\ phase = "factories" /\ phase' = "contributions"
          /\ Waiting = {}
      BY <1>4 DEF StartContributions, construction
    <2> QED
      BY <2>1 DEF FactoriesRan, Returned, PointsOf, Complete, Checked, Reading, Phases
  <1>5. CASE OpenContribution \/ TakeItem \/ CloseContribution \/ Publish
    <2>1. /\ UNCHANGED <<plan, accepted, created, declared>> /\ phase \in Complete /\ phase' \in Complete
      BY <1>5 DEF OpenContribution, TakeItem, AtItem, CloseContribution, Publish, construction, Complete, Checked,
                  Reading
    <2> QED
      BY <2>1 DEF FactoriesRan, Returned, PointsOf, Complete, Checked, Reading, Phases
  <1>6. CASE ReadPlan \/ StartFactories
    <2>1. /\ UNCHANGED <<plan, accepted, created, declared>> /\ phase \in {"read", "modules"}
          /\ phase' \in {"modules", "factories"}
      BY <1>6 DEF ReadPlan, StartFactories, construction
    <2> QED
      BY <2>1 DEF FactoriesRan, Returned, PointsOf, Complete, Checked, Reading, Phases
  <1>7. CASE Fails
    <2>1. UNCHANGED <<accepted, created>> /\ phase' = "failed"
      BY <1>7, FailsOnly
    <2> QED
      BY <2>1 DEF FactoriesRan, Complete, Checked, Reading
  <1>8. CASE UNCHANGED <<input, phase, plan, accepted, position, created, declared, submitted, current, checked,
                         inspection, collections>>
    BY <1>8 DEF FactoriesRan, Returned, PointsOf
  <1> QED
    BY <1>1, <1>2, <1>3, <1>4, <1>5, <1>6, <1>7, <1>8, NextCases DEF Moves

\* A step keeps the place where checking stands.
LEMMA StandingStep ==
    ASSUME WellTyped, Standing, [Next]_vars
    PROVE  Standing'
  <1> USE DEF Standing, Complete, Checked, Reading, Phases
  <1>1. CASE Project \/ TakeStored \/ AcceptModule \/ RunFactory \/ ReadPlan \/ StartFactories
    <2>1. /\ UNCHANGED <<current, checked, inspection>>
          /\ phase \in Phases \ (Complete \cup {"failed"}) /\ phase' \in (Phases \ Complete)
      BY <1>1 DEF Project, TakeStored, AcceptModule, RunFactory, ReadPlan, StartFactories, checking, construction
    <2> QED
      BY <2>1
  <1>2. CASE StartContributions
    <2>1. /\ UNCHANGED <<current, checked, inspection, submitted>> /\ phase = "factories" /\ phase' = "contributions"
      BY <1>2 DEF StartContributions, checking, construction
    <2> QED
      BY <2>1 DEF WellTyped
  <1>3. CASE OpenContribution
    <2>1. /\ UNCHANGED <<plan, current, checked, inspection, submitted>> /\ phase = "contributions" /\ phase' = "items"
          /\ current <= Len(submitted) /\ Filled(Contribution)
      BY <1>3 DEF OpenContribution, checking, construction, Filled, Edge
    <2>2. Contribution \in Submitted
      BY <2>1 DEF WellTyped, Contribution
    <2>3. checked <= Len(Contribution.items)
      BY <2>1, <2>2 DEF Submitted
    <2> QED
      BY <2>1, <2>3 DEF Contribution, Filled
  <1>4. CASE TakeItem
    <2>1. /\ UNCHANGED <<plan, current, submitted, phase>> /\ phase = "items" /\ checked' = checked + 1
          /\ checked < Len(Contribution.items)
      BY <1>4 DEF TakeItem, AtItem, construction
    <2>2. Contribution \in Submitted
      BY <2>1 DEF WellTyped, Contribution
    <2>3. checked + 1 <= Len(Contribution.items)
      BY <2>1, <2>2 DEF Submitted, WellTyped
    <2> QED
      BY <2>1, <2>3 DEF Contribution, Filled
  <1>5. CASE CloseContribution
    <2>1. /\ UNCHANGED <<plan, submitted>> /\ phase = "items" /\ phase' = "contributions" /\ checked' = 0
          /\ current' = current + 1
      BY <1>5 DEF CloseContribution, construction
    <2> QED
      BY <2>1 DEF WellTyped
  <1>6. CASE Publish
    BY <1>6 DEF Publish
  <1>7. CASE Fails
    BY <1>7, FailsOnly
  <1>8. CASE UNCHANGED <<input, phase, plan, accepted, position, created, declared, submitted, current, checked,
                         inspection, collections>>
    BY <1>8 DEF Contribution, Filled
  <1> QED
    BY <1>1, <1>2, <1>3, <1>4, <1>5, <1>6, <1>7, <1>8, NextCases DEF Moves

\* What is handed over stays what it is, and so does what a plan lets through.
LEMMA DataFixed ==
    ASSUME input' = input
    PROVE  Items' = Items /\ Contributions' = Contributions /\ Handed' = Handed
  <1>1. Handed' = Handed
    BY DEF Handed
  <1>2. Contributions' = Contributions
    BY <1>1 DEF Contributions
  <1>3. Items' = Items
    BY <1>2 DEF Items
  <1> QED
    BY <1>1, <1>2, <1>3

\* What is received depends on the modules and the plan alone.
LEMMA ReceivedFixed ==
    ASSUME input' = input, plan' = plan
    PROVE  /\ ReceivedItems' = ReceivedItems /\ \A i : AsPublished(i)' = AsPublished(i)
           /\ Implemented' = Implemented
  BY DataFixed DEF ReceivedItems, AsPublished, Implemented

\* A place named for each contribution is named still while modules submit nothing.
LEMMA AttributionKept ==
    ASSUME UNCHANGED <<input, created, submitted>>, NEW w, Attributed(w)
    PROVE  Attributed(w)'
  BY DataFixed DEF Attributed, Ran

\* Nothing was checked yet.
LEMMA NothingInspected ==
    ASSUME WellTyped, WellTyped', input' = input, current' = 1, checked' = 0, inspection' = <<>>, NEW w
    PROVE  Inspecting(w)'
  <1>1. Done(w)' = {}
    <2> SUFFICES ASSUME NEW i \in Done(w)' PROVE FALSE
      OBVIOUS
    <2>1. i \in Items /\ Past(w, i)'
      BY DataFixed DEF Done
    <2>2. i.at[2] \in Nat \ {0}
      BY <2>1, IndexPositive DEF WellTyped
    <2>3. PICK k \in DOMAIN submitted' : k < 1 \/ (k = 1 /\ i.at[2] <= 0)
      BY <2>1 DEF Past
    <2>4. k \in Nat \ {0}
      BY <2>3 DEF WellTyped
    <2> QED
      BY <2>2, <2>3, <2>4
  <1>2. \A k \in DOMAIN submitted' : ~(k < current')
    BY DEF WellTyped
  <1>3. IsFiniteSet({}) /\ Cardinality({}) = 0 /\ Len(inspection') = 0 /\ DOMAIN inspection' = {}
    BY FS_EmptySet
  <1> QED
    BY <1>1, <1>2, <1>3 DEF Inspecting

\* Modules are read in the order of their ids; their contributions follow one another.
LEMMA FactoryTracked ==
    ASSUME WellTyped, WellTyped', ModulesChecked, RunFactory, phase' # "failed", Standing, NEW w, Attributed(w)
    PROVE  \E v \in [DOMAIN submitted' -> Contributions'] : Attributed(v)' /\ Inspecting(v)'
  <1>1. NextModule \in Waiting /\ position = Len(input.modules) + 1
    BY FactoryOf
  <1>2. PICK h \in DOMAIN input.modules : NextModule = input.modules[h]
    BY FactoryOf
  <1> DEFINE m == input.modules[h]
             n == Len(submitted)
             l == Len(m.contributions)
             more == Submissions(m)
  <1>3. /\ created' = Append(created, m.id) /\ submitted' = submitted \o more
        /\ UNCHANGED <<input, position, current, checked, inspection>>
    BY <1>2 DEF RunFactory, checking, Submissions
  <1>4. m.id \notin Ran
    BY <1>1, <1>2 DEF Waiting, Ran
  <1>5. Ran' = Ran \cup {m.id}
    <2>1. created \in Seq(Capabilities)
      BY DEF WellTyped
    <2>2. {Append(created, m.id)[k] : k \in DOMAIN Append(created, m.id)}
            = {created[k] : k \in DOMAIN created} \cup {m.id}
      BY <2>1, RangeAppended
    <2> HIDE DEF m
    <2> QED
      BY <1>3, <2>2 DEF Ran
  <1>6. \A g \in DOMAIN input.modules : input.modules[g].id = m.id => g = h
    <2>1. DOMAIN input.modules = 1..(position - 1)
      BY <1>1 DEF WellTyped, IsInput
    <2> QED
      BY <2>1 DEF ModulesChecked
  <1>7. /\ n \in Nat /\ l \in Nat /\ DOMAIN submitted = 1..n /\ DOMAIN submitted' = 1..(n + l)
        /\ DOMAIN m.contributions = 1..l
        /\ \A k \in 1..n : submitted'[k] = submitted[k]
        /\ \A k \in 1..l : submitted'[n + k] = more[k]
    <2>1. more \in Seq(Submitted) /\ Len(more) = l /\ l \in Nat /\ DOMAIN m.contributions = 1..l
      BY SubmissionsTyped DEF WellTyped
    <2>2. submitted \in Seq(Submitted)
      BY DEF WellTyped
    <2> HIDE DEF more, l
    <2> QED
      BY <1>3, <2>1, <2>2, SeqJoined, SeqElements
  <1>8. \A k \in 1..l : ContributionAt(h, k) \in Contributions
    BY <1>2, <1>7, ContributionsAre
  <1>9. /\ \A k \in 1..l : ContributionAt(h, k).source = m.id /\ ContributionAt(h, k).target = more[k].target
                /\ ContributionAt(h, k).items = more[k].items /\ more[k].source = m.id
    BY <1>7 DEF ContributionAt, Submissions
  <1> HIDE DEF more, l, n
  <1> PICK v : v = [k \in 1..(n + l) |-> IF k <= n THEN w[k] ELSE ContributionAt(h, k - n)]
    OBVIOUS
  <1>10. /\ \A k \in 1..n : v[k] = w[k] /\ w[k] \in Contributions /\ w[k].source \in Ran
         /\ \A k \in 1..l : v[n + k] = ContributionAt(h, k)
    <2>1. \A k \in 1..n : w[k] \in Contributions /\ w[k].source \in Ran
      BY <1>7 DEF Attributed
    <2>2. \A k \in 1..n : v[k] = w[k]
      BY <1>7
    <2>3. ASSUME NEW k \in 1..l PROVE v[n + k] = ContributionAt(h, k)
      <3>1. n + k \in 1..(n + l) /\ ~(n + k <= n) /\ (n + k) - n = k
        BY <1>7
      <3>2. v[n + k] = ContributionAt(h, (n + k) - n)
        BY <3>1
      <3> QED
        BY <3>1, <3>2
    <2> QED
      BY <2>1, <2>2, <2>3
  <1>11. \A k \in DOMAIN submitted' : k \in 1..n \/ \E j \in 1..l : k = n + j
    <2>1. n \in Nat /\ l \in Nat /\ DOMAIN submitted' = 1..(n + l)
      BY <1>7
    <2>2. ASSUME NEW k \in 1..(n + l), k \notin 1..n PROVE \E j \in 1..l : k = n + j
      <3>1. k - n \in 1..l /\ k = n + (k - n)
        BY <2>1, <2>2
      <3> QED
        BY <3>1
    <2> QED
      BY <2>1, <2>2
  <1>12. v \in [DOMAIN submitted' -> Contributions]
    <2>1. \A k \in DOMAIN submitted' : v[k] \in Contributions
      BY <1>8, <1>10, <1>11
    <2> QED
      BY <1>7, <2>1
  <1>13. \A j, k \in DOMAIN submitted' : v[j] = v[k] => j = k
    <2>1. \A j, k \in 1..n : v[j] = v[k] => j = k
      BY <1>7, <1>10 DEF Attributed
    <2>2. ASSUME NEW j \in 1..n, NEW k \in 1..l PROVE v[j] # v[n + k]
      <3>1. v[j].source \in Ran
        BY <1>10
      <3>2. v[n + k].source = m.id
        BY <1>9, <1>10
      <3> QED
        BY <1>4, <3>1, <3>2
    <2>3. ASSUME NEW j \in 1..l, NEW k \in 1..l, v[n + j] = v[n + k] PROVE n + j = n + k
      <3>1. ContributionAt(h, j) = ContributionAt(h, k)
        BY <1>10, <2>3
      <3>2. <<h, j>> = <<h, k>>
        BY <3>1 DEF ContributionAt
      <3> QED
        BY <3>2
    <2>4. ASSUME NEW j \in DOMAIN submitted', NEW k \in DOMAIN submitted', v[j] = v[k], j \in 1..n PROVE j = k
      BY <1>11, <2>1, <2>2, <2>4
    <2>5. ASSUME NEW j \in DOMAIN submitted', NEW k \in DOMAIN submitted', v[j] = v[k], j \notin 1..n PROVE j = k
      <3>1. PICK x \in 1..l : j = n + x
        BY <1>11, <2>5
      <3>2. k \notin 1..n
        BY <2>2, <2>5, <3>1
      <3>3. PICK y \in 1..l : k = n + y
        BY <1>11, <3>2
      <3> QED
        BY <2>3, <2>5, <3>1, <3>3
    <2> QED
      BY <2>4, <2>5
  <1>14. ASSUME NEW k \in DOMAIN submitted'
         PROVE  /\ v[k].source \in Ran' /\ v[k].source = submitted'[k].source
                /\ v[k].target = submitted'[k].target /\ v[k].items = submitted'[k].items
    <2>1. CASE k \in 1..n
      BY <1>5, <1>7, <1>10, <2>1 DEF Attributed
    <2>2. ASSUME NEW j \in 1..l, k = n + j
          PROVE  /\ v[k].source \in Ran' /\ v[k].source = submitted'[k].source
                 /\ v[k].target = submitted'[k].target /\ v[k].items = submitted'[k].items
      BY <1>5, <1>7, <1>9, <1>10, <2>2
    <2> QED
      BY <1>11, <2>1, <2>2
  <1>15. ASSUME NEW c \in Contributions, c.source \in Ran'
         PROVE  \E k \in DOMAIN submitted' : v[k] = c
    <2>1. CASE c.source \in Ran
      <3>1. PICK k \in DOMAIN submitted : w[k] = c
        BY <2>1 DEF Attributed
      <3>2. k \in 1..n /\ k \in 1..(n + l)
        BY <1>7, <3>1
      <3> QED
        BY <1>7, <1>10, <3>1, <3>2
    <2>2. CASE c.source = m.id
      <3>1. PICK g \in DOMAIN input.modules : \E j \in DOMAIN input.modules[g].contributions : c = ContributionAt(g, j)
        BY ContributionsAre
      <3>2. PICK j \in DOMAIN input.modules[g].contributions : c = ContributionAt(g, j)
        BY <3>1
      <3>3. g = h
        BY <1>6, <2>2, <3>2 DEF ContributionAt
      <3>4. j \in DOMAIN m.contributions
        BY <3>2, <3>3
      <3>5. j \in 1..l /\ n + j \in 1..(n + l)
        BY <1>7, <3>4
      <3> QED
        BY <1>7, <1>10, <3>2, <3>3, <3>5
    <2> QED
      BY <1>5, <1>15, <2>1, <2>2
  <1>16. Attributed(v)'
    <2>1. Contributions' = Contributions
      BY <1>3, DataFixed
    <2> QED
      BY <1>12, <1>13, <1>14, <1>15, <2>1 DEF Attributed
  <1>17. Inspecting(v)'
    <2>1. current' = 1 /\ checked' = 0 /\ inspection' = <<>>
      BY <1>3 DEF RunFactory, Standing, Phases, Complete, Checked, Reading
    <2> QED
      BY <1>3, <2>1, NothingInspected
  <1> QED
    BY <1>3, <1>12, <1>16, <1>17, DataFixed

\* Steps that neither submit nor check.
LEMMA TrackedFrame ==
    ASSUME UNCHANGED <<input, plan, created, declared, submitted, current, checked, inspection>>,
           NEW w, Attributed(w), Inspecting(w)
    PROVE  Attributed(w)' /\ Inspecting(w)'
  <1>1. Attributed(w)'
    BY AttributionKept
  <1>2. Done(w)' = Done(w)
    BY DataFixed DEF Done, Past
  <1>3. Inspecting(w)'
    BY <1>2, ReceivedFixed DEF Inspecting, Filled
  <1> QED
    BY <1>1, <1>3

\* The item that is up next, at its place.
NextAt(w) == ItemAt(w[current], checked + 1)

\* The item checked next is one of those handed over that was not checked before.
LEMMA NextItemIs ==
    ASSUME WellTyped, Standing, AtItem, NEW w, Attributed(w)
    PROVE  /\ current \in DOMAIN submitted /\ NextAt(w) \in Items /\ NextAt(w).item = NextItem
           /\ NextAt(w).source = Contribution.source /\ NextAt(w).target = Contribution.target
           /\ NextAt(w).at = <<w[current].at, checked + 1>>
           /\ NextAt(w) \in ReceivedItems <=> Edge \in plan.active
           /\ NextAt(w) \notin Done(w)
  <1>1. current \in DOMAIN submitted /\ checked + 1 \in DOMAIN Contribution.items
    <2>1. current \in DOMAIN submitted /\ Contribution \in Submitted /\ checked \in Nat
      BY DEF AtItem, Standing, WellTyped, Contribution
    <2> QED
      BY <2>1 DEF AtItem, Submitted
  <1>2. /\ w[current] \in Contributions /\ w[current].items = Contribution.items
        /\ w[current].source = Contribution.source /\ w[current].target = Contribution.target
    BY <1>1 DEF Attributed, Contribution
  <1>3. NextAt(w) \in Items
    BY <1>1, <1>2, ItemsAre DEF NextAt
  <1>4. /\ NextAt(w).item = NextItem /\ NextAt(w).source = Contribution.source
        /\ NextAt(w).target = Contribution.target /\ NextAt(w).at = <<w[current].at, checked + 1>>
    BY <1>2 DEF NextAt, ItemAt, NextItem
  <1>5. NextAt(w) \in ReceivedItems <=> Edge \in plan.active
    BY <1>3, <1>4 DEF ReceivedItems, Edge
  <1>6. NextAt(w) \notin Done(w)
    <2> SUFFICES ASSUME Past(w, NextAt(w)) PROVE FALSE
      BY DEF Done
    <2>1. PICK k \in DOMAIN submitted :
            w[current].at = w[k].at /\ (k < current \/ (k = current /\ checked + 1 <= checked))
      BY <1>4 DEF Past
    <2>2. k = current
      BY <1>1, <2>1, PlacesDiffer DEF Attributed
    <2> QED
      BY <2>1, <2>2 DEF WellTyped
  <1> QED
    BY <1>1, <1>3, <1>4, <1>5, <1>6

\* What an item looks like once it is published.
LEMMA PublishedFields ==
    \A i : /\ AsPublished(i).target = i.target /\ AsPublished(i).source = i.source
          /\ AsPublished(i).id = i.item.id
          /\ AsPublished(i).received <=> i \in ReceivedItems
  BY DEF AsPublished

\* What an entry that is an item as published says.
LEMMA EntryFields ==
    ASSUME NEW i, NEW x, x = AsPublished(i)
    PROVE  x.target = i.target /\ x.id = i.item.id /\ (x.received <=> i \in ReceivedItems)
  BY DEF AsPublished

\* Entries are items that were checked, and items that were checked have entries.
LEMMA InspectedOnce ==
    ASSUME NEW w, Inspecting(w)
    PROVE  /\ \A k \in DOMAIN inspection : \E i \in Done(w) : inspection[k] = AsPublished(i)
           /\ \A i \in Done(w) : \E k \in DOMAIN inspection : inspection[k] = AsPublished(i)
  <1>1. {inspection[k] : k \in DOMAIN inspection} = {AsPublished(i) : i \in Done(w)}
    BY DEF Inspecting
  <1>2. ASSUME NEW k \in DOMAIN inspection PROVE \E i \in Done(w) : inspection[k] = AsPublished(i)
    <2>1. inspection[k] \in {AsPublished(i) : i \in Done(w)}
      BY <1>1
    <2> QED
      BY <2>1
  <1>3. ASSUME NEW i \in Done(w) PROVE \E k \in DOMAIN inspection : inspection[k] = AsPublished(i)
    <2>1. AsPublished(i) \in {inspection[k] : k \in DOMAIN inspection}
      BY <1>1
    <2> QED
      BY <2>1
  <1> QED
    BY <1>2, <1>3

\* An item that is taken was not checked before, and conflicts with none.
LEMMA ItemTracked ==
    ASSUME WellTyped, WellTyped', Standing, TakeItem, NEW w, Attributed(w), Inspecting(w)
    PROVE  Attributed(w)' /\ Inspecting(w)'
  <1> PICK i : i = NextAt(w)
    OBVIOUS
  <1> PICK r : r = [target |-> Contribution.target, source |-> Contribution.source, id |-> NextItem.id,
                    order |-> NextItem.order, received |-> Edge \in plan.active]
    OBVIOUS
  <1>1. /\ AtItem /\ Acceptable(NextItem) /\ inspection' = Append(inspection, r) /\ checked' = checked + 1
        /\ UNCHANGED <<input, plan, created, declared, submitted, current>>
    BY DEF TakeItem, construction
  <1>2. /\ current \in DOMAIN submitted /\ i \in Items /\ i.item = NextItem
        /\ i.source = Contribution.source /\ i.target = Contribution.target
        /\ i.at = <<w[current].at, checked + 1>>
        /\ i \in ReceivedItems <=> Edge \in plan.active
        /\ i \notin Done(w)
    BY <1>1, NextItemIs
  <1>3. AsPublished(i) = r
    BY <1>2 DEF AsPublished
  <1>4. Attributed(w)'
    BY <1>1, AttributionKept
  <1>5. Done(w)' = Done(w) \cup {i}
    <2>1. ASSUME NEW j \in Items, Past(w, j)' PROVE j \in Done(w) \cup {i}
      <3>1. PICK k \in DOMAIN submitted :
              j.at[1] = w[k].at /\ (k < current \/ (k = current /\ j.at[2] <= checked + 1))
        BY <1>1, <2>1 DEF Past
      <3>2. CASE k < current \/ j.at[2] <= checked
        BY <3>1, <3>2 DEF Done, Past
      <3>3. CASE k = current /\ j.at[2] = checked + 1
        <4>1. PICK c \in Contributions : \E n \in DOMAIN c.items : j = ItemAt(c, n)
          BY ItemsAre
        <4>2. PICK n \in DOMAIN c.items : j = ItemAt(c, n)
          BY <4>1
        <4>3. j.at = <<j.at[1], j.at[2]>>
          BY <4>2 DEF ItemAt
        <4>4. j.at = i.at
          BY <1>2, <3>1, <3>3, <4>3
        <4> QED
          BY <1>2, <4>4, PlacesDiffer
      <3>4. j.at[2] \in Nat /\ checked \in Nat
        BY IndexPositive DEF WellTyped
      <3> QED
        BY <3>1, <3>2, <3>3, <3>4
    <2>2. ASSUME NEW j \in Done(w) PROVE Past(w, j)'
      <3>1. PICK k \in DOMAIN submitted :
              j.at[1] = w[k].at /\ (k < current \/ (k = current /\ j.at[2] <= checked))
        BY DEF Done, Past
      <3>2. j.at[2] \in Nat /\ checked \in Nat
        BY IndexPositive DEF WellTyped, Done
      <3> QED
        BY <1>1, <3>1, <3>2 DEF Past
    <2>3. Past(w, i)'
      <3>1. i.at[1] = w[current].at /\ i.at[2] = checked' /\ checked' <= checked'
        BY <1>1, <1>2 DEF WellTyped
      <3> QED
        BY <1>1, <1>2, <3>1 DEF Past
    <2>4. Done(w)' = {j \in Items : Past(w, j)'}
      BY <1>1, DataFixed DEF Done
    <2> QED
      BY <1>2, <2>1, <2>2, <2>3, <2>4 DEF Done
  <1>6. /\ DOMAIN inspection' = DOMAIN inspection \cup {Len(inspection) + 1} /\ Len(inspection) \in Nat
        /\ Len(inspection') = Len(inspection) + 1 /\ DOMAIN inspection = 1..Len(inspection)
        /\ inspection'[Len(inspection) + 1] = r
        /\ \A k \in DOMAIN inspection : inspection'[k] = inspection[k]
    <2>1. inspection \in Seq(Inspected)
      BY DEF WellTyped
    <2>2. Len(inspection) \in Nat /\ DOMAIN inspection = 1..Len(inspection)
      BY <2>1, SeqElements
    <2>3. /\ DOMAIN Append(inspection, r) = DOMAIN inspection \cup {Len(inspection) + 1}
          /\ Len(Append(inspection, r)) = Len(inspection) + 1
          /\ Append(inspection, r)[Len(inspection) + 1] = r
          /\ \A k \in DOMAIN inspection : Append(inspection, r)[k] = inspection[k]
      BY <2>1, SeqAppended
    <2> QED
      BY <1>1, <2>2, <2>3
  <1>7. IsFiniteSet(Done(w)') /\ Cardinality(Done(w)') = Len(inspection')
    <2>1. IsFiniteSet(Done(w)) /\ Cardinality(Done(w)) = Len(inspection)
      BY DEF Inspecting
    <2>2. IsFiniteSet(Done(w) \cup {i}) /\ Cardinality(Done(w) \cup {i}) = Len(inspection) + 1
      BY <1>2, <2>1, FS_AddElement
    <2> QED
      BY <1>5, <1>6, <2>2
  <1>8. {inspection'[k] : k \in DOMAIN inspection'} = {AsPublished(j) : j \in Done(w)'}
    <2>1. {inspection'[k] : k \in DOMAIN inspection'} = {inspection[k] : k \in DOMAIN inspection} \cup {r}
      BY <1>6
    <2> QED
      BY <1>3, <1>5, <2>1 DEF Inspecting
  <1>9. i.item # Malformed /\ (i \in ReceivedItems => i.target \in declared)
    BY <1>1, <1>2 DEF Acceptable
  <1>10. ASSUME Edge \in plan.active, NEW k \in DOMAIN inspection, inspection[k].received,
                inspection[k].target = Contribution.target
         PROVE  inspection[k].id # NextItem.id
    BY <1>1, <1>10 DEF Acceptable, Taken
  <1>11. ASSUME NEW j \in Done(w) \cap ReceivedItems, i \in ReceivedItems, i.target = j.target
         PROVE  i.item.id # j.item.id
    <2>1. PICK k \in DOMAIN inspection : inspection[k] = AsPublished(j)
      BY InspectedOnce
    <2>2. inspection[k].received /\ inspection[k].target = j.target /\ inspection[k].id = j.item.id
      BY <2>1, PublishedFields
    <2> QED
      BY <1>2, <1>10, <1>11, <2>2
  <1>12. \A j, k \in Done(w)' \cap ReceivedItems : j.target = k.target /\ j.item.id = k.item.id => j = k
    BY <1>5, <1>11 DEF Inspecting
  <1>13. \A j, k \in DOMAIN inspection' :
            /\ inspection'[j].received /\ inspection'[k].received
            /\ inspection'[j].target = inspection'[k].target /\ inspection'[j].id = inspection'[k].id
            => j = k
    <2>1. r.received => Edge \in plan.active
      OBVIOUS
    <2>2. r.target = Contribution.target /\ r.id = NextItem.id
      OBVIOUS
    <2>3. \A k \in DOMAIN inspection :
            inspection[k].received /\ r.received /\ inspection[k].target = r.target => inspection[k].id # r.id
      BY <1>10, <2>1, <2>2
    <2>4. \A j, k \in DOMAIN inspection :
            /\ inspection[j].received /\ inspection[k].received
            /\ inspection[j].target = inspection[k].target /\ inspection[j].id = inspection[k].id
            => j = k
      BY DEF Inspecting
    <2>5. ASSUME NEW j \in DOMAIN inspection', NEW k \in DOMAIN inspection',
                 inspection'[j].received, inspection'[k].received,
                 inspection'[j].target = inspection'[k].target, inspection'[j].id = inspection'[k].id
          PROVE  j = k
      <3>1. CASE j \in DOMAIN inspection /\ k \in DOMAIN inspection
        BY <1>6, <2>4, <2>5, <3>1
      <3>2. CASE j \in DOMAIN inspection /\ k = Len(inspection) + 1
        BY <1>6, <2>3, <2>5, <3>2
      <3>3. CASE j = Len(inspection) + 1 /\ k \in DOMAIN inspection
        BY <1>6, <2>3, <2>5, <3>3
      <3> QED
        BY <1>6, <3>1, <3>2, <3>3
    <2> QED
      BY <2>5
  <1>14. \A k \in DOMAIN submitted : k < current => Filled(submitted[k])'
    <2>1. \A c : Filled(c)' <=> Filled(c)
      BY <1>1 DEF Filled
    <2>2. \A k \in DOMAIN submitted : submitted'[k] = submitted[k]
      BY <1>1
    <2> QED
      BY <1>1, <2>1, <2>2 DEF Inspecting
  <1>15. \A j \in Done(w)' : j.item # Malformed /\ (j \in ReceivedItems => j.target \in declared)
    BY <1>5, <1>9 DEF Inspecting
  <1>16. ReceivedItems' = ReceivedItems /\ (\A j : AsPublished(j)' = AsPublished(j)) /\ declared' = declared
    BY <1>1, ReceivedFixed
  <1>17. Inspecting(w)'
    <2>1. \A k \in DOMAIN submitted' : k < current' => Filled(submitted[k])'
      BY <1>1, <1>14
    <2>2. \A j \in Done(w)' : j.item # Malformed /\ (j \in ReceivedItems' => j.target \in declared')
      BY <1>15, <1>16
    <2>3. {inspection'[k] : k \in DOMAIN inspection'} = {AsPublished(j)' : j \in Done(w)'}
      BY <1>8, <1>16
    <2>4. \A j, k \in Done(w)' \cap ReceivedItems' : j.target = k.target /\ j.item.id = k.item.id => j = k
      BY <1>12, <1>16
    <2> QED
      BY <1>7, <1>13, <2>1, <2>2, <2>3, <2>4 DEF Inspecting
  <1> QED
    BY <1>4, <1>17

\* A contribution is closed when its items are all checked.
LEMMA CloseTracked ==
    ASSUME WellTyped, Standing, CloseContribution, NEW w, Attributed(w), Inspecting(w)
    PROVE  Attributed(w)' /\ Inspecting(w)'
  <1>1. /\ phase = "items" /\ checked = Len(Contribution.items) /\ current' = current + 1 /\ checked' = 0
        /\ UNCHANGED <<input, plan, created, declared, submitted, inspection>>
    BY DEF CloseContribution, construction
  <1>2. current \in DOMAIN submitted /\ Contribution \in Submitted /\ Filled(Contribution) /\ current \in Nat
    BY <1>1 DEF Standing, WellTyped, Contribution
  <1>3. Attributed(w)'
    BY <1>1, AttributionKept
  <1>4. ASSUME NEW i \in Items PROVE Past(w, i)' <=> Past(w, i)
    <2>1. i.at[2] \in Nat \ {0}
      BY IndexPositive DEF WellTyped
    <2>2. i.at[1] = w[current].at => i.at[2] <= checked
      <3>1. PICK c \in Contributions : \E n \in DOMAIN c.items : i = ItemAt(c, n)
        BY ItemsAre
      <3>2. PICK n \in DOMAIN c.items : i = ItemAt(c, n)
        BY <3>1
      <3>3. i.at[1] = c.at /\ i.at[2] = n
        BY <3>2 DEF ItemAt
      <3>4. w[current] \in Contributions /\ w[current].items = Contribution.items
        BY <1>2 DEF Attributed, Contribution
      <3>5. i.at[1] = w[current].at => c = w[current]
        BY <3>3, <3>4, PlacesDiffer
      <3>6. \A j \in DOMAIN Contribution.items : j <= Len(Contribution.items)
        BY <1>2 DEF Submitted
      <3> QED
        BY <1>1, <3>2, <3>3, <3>4, <3>5, <3>6
    <2>3. \A k \in DOMAIN submitted : k \in Nat
      BY DEF WellTyped
    <2>4. Past(w, i)' <=> \E k \in DOMAIN submitted : i.at[1] = w[k].at /\ k <= current
      BY <1>1, <1>2, <2>1, <2>3 DEF Past
    <2>5. Past(w, i) <=> \E k \in DOMAIN submitted : i.at[1] = w[k].at /\ k <= current
      BY <1>2, <2>2, <2>3 DEF Past
    <2> QED
      BY <2>4, <2>5
  <1>5. Done(w)' = Done(w)
    <2>1. Done(w)' = {i \in Items : Past(w, i)'}
      BY <1>1, DataFixed DEF Done
    <2> QED
      BY <1>4, <2>1 DEF Done
  <1>6. \A k \in DOMAIN submitted : k < current' => Filled(submitted[k])
    BY <1>1, <1>2 DEF Inspecting, Contribution, WellTyped
  <1>7. \A c : Filled(c)' <=> Filled(c)
    BY <1>1 DEF Filled
  <1>8. ReceivedItems' = ReceivedItems /\ \A j : AsPublished(j)' = AsPublished(j)
    BY <1>1, ReceivedFixed
  <1>9. Inspecting(w)'
    BY <1>1, <1>5, <1>6, <1>7, <1>8 DEF Inspecting
  <1> QED
    BY <1>3, <1>9

\* A step keeps each submission and each entry attributed to what was handed over.
LEMMA TrackedStep ==
    ASSUME WellTyped, WellTyped', ModulesChecked, FactoriesRan, Standing, Standing', Tracked, [Next]_vars
    PROVE  Tracked'
  <1> SUFFICES ASSUME phase' \notin {"failed", "published"}
               PROVE  \E w \in [DOMAIN submitted' -> Contributions'] : Attributed(w)' /\ Inspecting(w)'
    BY DEF Tracked
  <1>1. phase \notin {"failed", "published"}
    BY DEF vars, Next, Project, TakeStored, RejectCatalog, ReadPlan, RejectPlan, AcceptModule, RejectModule,
           StartFactories, RunFactory, StartContributions, OpenContribution, RejectContribution, TakeItem, AtItem,
           RejectItem, CloseContribution, Publish, Fail
  <1>2. PICK w \in [DOMAIN submitted -> Contributions] : Attributed(w) /\ Inspecting(w)
    BY <1>1 DEF Tracked
  <1>3. ASSUME UNCHANGED <<input, submitted>>, Attributed(w)', Inspecting(w)'
        PROVE  \E v \in [DOMAIN submitted' -> Contributions'] : Attributed(v)' /\ Inspecting(v)'
    BY <1>3, DataFixed
  <1>4. CASE Project \/ TakeStored
    <2>1. UNCHANGED <<input, created, submitted, current, checked, inspection>> /\ phase = "project"
      BY <1>4 DEF Project, TakeStored, construction, checking
    <2>2. current = 1 /\ checked = 0 /\ inspection = <<>>
      BY <2>1 DEF Standing, Complete, Checked, Reading, Phases
    <2> QED
      BY <1>2, <1>3, <2>1, <2>2, AttributionKept, NothingInspected
  <1>5. CASE RunFactory
    BY <1>2, <1>5, FactoryTracked
  <1>6. CASE TakeItem
    <2>1. UNCHANGED <<input, submitted>>
      BY <1>6 DEF TakeItem, construction
    <2> QED
      BY <1>2, <1>3, <1>6, <2>1, ItemTracked
  <1>7. CASE CloseContribution
    <2>1. UNCHANGED <<input, submitted>>
      BY <1>7 DEF CloseContribution, construction
    <2> QED
      BY <1>2, <1>3, <1>7, <2>1, CloseTracked
  <1>8. CASE AcceptModule
    BY <1>2, <1>3, <1>8, TrackedFrame DEF AcceptModule, checking
  <1>9. CASE Moves
    BY <1>2, <1>3, <1>9, TrackedFrame, MovesOnly
  <1>10. CASE UNCHANGED <<input, phase, plan, accepted, position, created, declared, submitted, current, checked,
                          inspection, collections>>
    BY <1>2, <1>3, <1>10, TrackedFrame
  <1>11. CASE Fails
    BY <1>11, FailsOnly
  <1>12. CASE Publish
    BY <1>12 DEF Publish
  <1> QED
    BY <1>4, <1>5, <1>6, <1>7, <1>8, <1>9, <1>10, <1>11, <1>12, NextCases

\* Once the factories ran, every module handed over is one that returned.
LEMMA AllReturned ==
    ASSUME WellTyped, ModulesChecked, FactoriesRan, phase \in Complete
    PROVE  /\ position = Len(input.modules) + 1
           /\ \A h \in DOMAIN input.modules :
                input.modules[h].id \in Ran /\ Selected(input.modules[h]) /\ Returned(input.modules[h])
           /\ declared = Implemented
  <1>1. position = Len(input.modules) + 1 /\ Len(input.modules) \in Nat
        /\ DOMAIN input.modules = 1..(position - 1)
    BY DEF ModulesChecked, Complete, Checked, WellTyped, IsInput
  <1>2. ASSUME NEW h \in DOMAIN input.modules
        PROVE  input.modules[h] \in RanModules /\ input.modules[h].id \in Ran /\ Selected(input.modules[h])
    <2>1. input.modules[h] \in accepted /\ Selected(input.modules[h])
      BY <1>1 DEF ModulesChecked
    <2> QED
      BY <2>1 DEF FactoriesRan, Waiting, Ran, RanModules
  <1>3. \A m \in RanModules : Returned(m) /\ \E h \in DOMAIN input.modules : m = input.modules[h]
    BY AcceptedAre DEF FactoriesRan, Complete, Checked, Reading, RanModules
  <1>4. declared = UNION {PointsOf(m) : m \in RanModules}
    BY DEF FactoriesRan, Complete, Checked, Reading
  <1>5. RanModules = {input.modules[h] : h \in DOMAIN input.modules}
    <2>1. \A m \in RanModules : m \in {input.modules[h] : h \in DOMAIN input.modules}
      BY <1>3
    <2>2. \A h \in DOMAIN input.modules : input.modules[h] \in RanModules
      BY <1>2
    <2> QED
      BY <2>1, <2>2
  <1>6. Implemented = UNION {PointsOf(input.modules[h]) : h \in DOMAIN input.modules}
    <2>1. \A h : h \in Handed <=> \E k \in DOMAIN input.modules : h = <<k, input.modules[k]>>
      BY DEF Handed
    <2>2. ASSUME NEW x
          PROVE  x \in Implemented <=> \E k \in DOMAIN input.modules : x \in PointsOf(input.modules[k])
      <3>1. x \in Implemented <=> \E h \in Handed : x \in PointsOf(h[2])
        BY DEF Implemented, PointsOf
      <3>2. \A k \in DOMAIN input.modules : <<k, input.modules[k]>>[2] = input.modules[k]
        OBVIOUS
      <3>3. ASSUME x \in Implemented
            PROVE  \E k \in DOMAIN input.modules : x \in PointsOf(input.modules[k])
        <4>1. PICK h \in Handed : x \in PointsOf(h[2])
          BY <3>1, <3>3
        <4>2. PICK k \in DOMAIN input.modules : h = <<k, input.modules[k]>>
          BY <2>1
        <4> QED
          BY <3>2, <4>1, <4>2
      <3>4. ASSUME NEW k \in DOMAIN input.modules, x \in PointsOf(input.modules[k])
            PROVE  x \in Implemented
        <4>1. <<k, input.modules[k]>> \in Handed
          BY <2>1
        <4> QED
          BY <3>1, <3>2, <3>4, <4>1
      <3> QED
        BY <3>3, <3>4
    <2> QED
      BY <2>2
  <1>7. declared = Implemented
    BY <1>4, <1>5, <1>6
  <1> QED
    BY <1>1, <1>2, <1>3, <1>7

\* What is wrong depends on the modules and the plan alone.
LEMMA DefectiveFixed ==
    ASSUME UNCHANGED <<input, plan>>
    PROVE  Defective' <=> Defective
  BY DataFixed, ReceivedFixed DEF Defective, Selected

\* A module that is refused is not selected, or was handed over twice.
LEMMA ModuleRefused ==
    ASSUME WellTyped, ModulesChecked, RejectModule
    PROVE  Defective
  <1> DEFINE m == input.modules[position]
  <1>1. position \in DOMAIN input.modules /\ (~Selected(m) \/ m.id \in {n.id : n \in accepted})
    BY DEF RejectModule, Unchecked, WellTyped, IsInput
  <1>2. <<position, m>> \in Handed
    BY <1>1 DEF Handed
  <1>3. CASE ~Selected(m)
    BY <1>2, <1>3 DEF Defective
  <1>4. CASE m.id \in {n.id : n \in accepted}
    <2>1. PICK k \in DOMAIN input.modules : k < position /\ input.modules[k].id = m.id
      BY <1>4, AcceptedAre
    <2>2. <<k, input.modules[k]>> \in Handed /\ k # position
      BY <2>1 DEF Handed, WellTyped, IsInput
    <2> QED
      BY <1>2, <2>1, <2>2 DEF Defective
  <1> QED
    BY <1>1, <1>3, <1>4

\* A factory that fails belongs to a module that does not do what it should.
LEMMA FactoryRefused ==
    ASSUME WellTyped, ModulesChecked, FactoriesRan, RunFactory, phase' = "failed"
    PROVE  Defective
  <1> DEFINE m == NextModule
  <1>1. PICK h \in DOMAIN input.modules : m = input.modules[h]
    BY FactoryOf
  <1>2. m \in Waiting /\ phase = "factories" /\ ~PointsSound(m)
    BY FactoryOf DEF RunFactory
  <1> HIDE DEF m
  <1>3. <<h, m>> \in Handed
    BY <1>1 DEF Handed
  <1>4. ASSUME NEW k \in DOMAIN m.points, m.points[k] \in declared
        PROVE  m.points[k][1] # m.id
    <2>1. PICK n \in RanModules : m.points[k] \in PointsOf(n)
      BY <1>2, <1>4 DEF FactoriesRan
    <2>2. Returned(n) /\ n.id \in Ran
      BY <1>2 DEF FactoriesRan, RanModules
    <2>3. m.points[k][1] = n.id
      BY <2>1, <2>2 DEF PointsOf, Returned
    <2> QED
      BY <1>2, <2>2, <2>3 DEF Waiting, Ran
  <1>5. \/ m.kind # "returns"
        \/ \E k \in DOMAIN m.points :
            \/ m.points[k] \notin plan.points \/ m.points[k][1] # m.id
            \/ \E j \in DOMAIN m.points \ {k} : m.points[j] = m.points[k]
    BY <1>2, <1>4 DEF PointsSound
  <1> QED
    BY <1>3, <1>5 DEF Defective

\* A contribution that is refused is one its module did not declare.
LEMMA ContributionRefused ==
    ASSUME WellTyped, Standing, Tracked, RejectContribution
    PROVE  Defective
  <1>1. PICK w : Attributed(w)
    BY DEF Tracked, RejectContribution
  <1>2. current \in DOMAIN submitted /\ Edge \notin plan.active \cup plan.inactive
    BY DEF RejectContribution, WellTyped
  <1>3. w[current] \in Contributions /\ Edge = <<w[current].source, w[current].target>>
    BY <1>1, <1>2 DEF Attributed, Edge, Contribution
  <1> QED
    BY <1>2, <1>3 DEF Defective

\* An item that is refused is none, lacks its point, or has the id of another.
LEMMA ItemRefused ==
    ASSUME WellTyped, ModulesChecked, FactoriesRan, Standing, Tracked, RejectItem
    PROVE  Defective
  <1>1. AtItem /\ ~Acceptable(NextItem) /\ phase = "items"
    BY DEF RejectItem, AtItem
  <1>2. PICK w : Attributed(w) /\ Inspecting(w)
    BY <1>1 DEF Tracked
  <1> DEFINE i == NextAt(w)
  <1>3. /\ i \in Items /\ i.item = NextItem /\ i.target = Contribution.target
        /\ i \in ReceivedItems <=> Edge \in plan.active
        /\ i \notin Done(w)
    BY <1>1, <1>2, NextItemIs
  <1> HIDE DEF i
  <1>4. CASE NextItem = Malformed
    BY <1>3, <1>4 DEF Defective
  <1>5. CASE Edge \in plan.active /\ Contribution.target \notin declared
    <2>1. declared = Implemented
      BY <1>1, AllReturned DEF Complete, Checked, Reading
    <2> QED
      BY <1>3, <1>5, <2>1 DEF Defective
  <1>6. CASE Edge \in plan.active /\ Taken(NextItem)
    <2>1. PICK k \in DOMAIN inspection :
            inspection[k].received /\ inspection[k].target = Contribution.target /\ inspection[k].id = NextItem.id
      BY <1>6 DEF Taken
    <2>2. PICK j \in Done(w) : inspection[k] = AsPublished(j)
      BY <1>2, InspectedOnce
    <2>3. /\ inspection[k].target = j.target /\ inspection[k].id = j.item.id
          /\ inspection[k].received <=> j \in ReceivedItems
      BY <2>2, EntryFields
    <2>4. j \in ReceivedItems /\ j.target = i.target /\ j.item.id = i.item.id /\ i # j
      BY <1>3, <2>1, <2>3
    <2> QED
      BY <1>3, <1>6, <2>4 DEF Defective
  <1> QED
    BY <1>1, <1>4, <1>5, <1>6 DEF Acceptable

\* A step that fails does so because something is wrong.
LEMMA RefusedStep ==
    ASSUME WellTyped, PlanRead, ModulesChecked, FactoriesRan, Standing, Tracked, Refused, [Next]_vars
    PROVE  Refused'
  <1> SUFFICES ASSUME phase' = "failed" PROVE Defective' \/ (plan' = NoPlan /\ input'.stored = {} /\ ~TakenCatalog')
    BY DEF Refused
  <1>1. CASE RejectCatalog
    BY <1>1 DEF RejectCatalog, Fail, TakenCatalog, PlanRead
  <1>2. CASE RejectPlan
    <2>1. UNCHANGED <<input, plan>> /\ Defective
      BY <1>2 DEF RejectPlan, Fail, Defective
    <2> QED
      BY <2>1, DefectiveFixed
  <1>3. CASE RejectModule
    BY <1>3, ModuleRefused, DefectiveFixed DEF RejectModule, Fail
  <1>4. CASE RunFactory
    BY <1>4, FactoryRefused, DefectiveFixed DEF RunFactory
  <1>5. CASE RejectContribution
    BY <1>5, ContributionRefused, DefectiveFixed DEF RejectContribution, Fail
  <1>6. CASE RejectItem
    BY <1>6, ItemRefused, DefectiveFixed DEF RejectItem, Fail
  <1>7. CASE UNCHANGED <<input, phase, plan, accepted, position, created, declared, submitted, current, checked,
                         inspection, collections>>
    BY <1>7, DefectiveFixed DEF Refused, TakenCatalog
  <1>8. ASSUME Project \/ TakeStored \/ AcceptModule \/ TakeItem \/ CloseContribution \/ Publish \/ Moves
        PROVE  FALSE
    BY <1>8 DEF Project, TakeStored, AcceptModule, TakeItem, AtItem, CloseContribution, Publish, Moves,
                ReadPlan, StartFactories, StartContributions, OpenContribution
  <1> QED
    BY <1>1, <1>2, <1>3, <1>4, <1>5, <1>6, <1>7, <1>8, NextCases DEF Fails

\* At the end every item was checked.
LEMMA AllDone ==
    ASSUME WellTyped, ModulesChecked, FactoriesRan, phase = "contributions", current > Len(submitted),
           NEW w, Attributed(w)
    PROVE  /\ \A c \in Contributions : \E k \in DOMAIN submitted : w[k] = c /\ k < current
           /\ Done(w) = Items
  <1>1. ASSUME NEW c \in Contributions PROVE \E k \in DOMAIN submitted : w[k] = c /\ k < current
    <2>1. PICK h \in DOMAIN input.modules : \E n \in DOMAIN input.modules[h].contributions : c = ContributionAt(h, n)
      BY ContributionsAre
    <2>2. PICK n \in DOMAIN input.modules[h].contributions : c = ContributionAt(h, n)
      BY <2>1
    <2>3. c.source \in Ran
      BY <2>2, AllReturned DEF ContributionAt, Complete, Checked, Reading
    <2>4. PICK k \in DOMAIN submitted : w[k] = c
      BY <2>3 DEF Attributed
    <2>5. k < current
      BY <2>4 DEF WellTyped
    <2> QED
      BY <2>4, <2>5
  <1>2. ASSUME NEW i \in Items PROVE Past(w, i)
    <2>1. PICK c \in Contributions : \E j \in DOMAIN c.items : i = ItemAt(c, j)
      BY ItemsAre
    <2>2. PICK j \in DOMAIN c.items : i = ItemAt(c, j)
      BY <2>1
    <2> QED
      BY <1>1, <2>2 DEF Past, ItemAt
  <1> QED
    BY <1>1, <1>2 DEF Done

\* What reaches its end without complaint has nothing wrong with it.
LEMMA NothingDefective ==
    ASSUME WellTyped, PlanRead, ModulesChecked, FactoriesRan, phase = "contributions",
           current > Len(submitted), NEW w, Attributed(w), Inspecting(w)
    PROVE  ~Defective
  <1>1. Consistent(plan)
    BY DEF PlanRead, Reading
  <1>2. /\ position = Len(input.modules) + 1 /\ declared = Implemented
        /\ \A h \in DOMAIN input.modules : Selected(input.modules[h]) /\ Returned(input.modules[h])
    BY AllReturned DEF Complete, Checked, Reading
  <1>3. \A h \in Handed : h[2] = input.modules[h[1]] /\ h[1] \in DOMAIN input.modules
                            /\ h = <<h[1], input.modules[h[1]]>>
    BY DEF Handed
  <1>4. ASSUME NEW h \in Handed
        PROVE  /\ Selected(h[2]) /\ h[2].kind = "returns"
               /\ \A k \in DOMAIN h[2].points :
                    /\ h[2].points[k] \in plan.points /\ h[2].points[k][1] = h[2].id
                    /\ \A j \in DOMAIN h[2].points \ {k} : h[2].points[j] # h[2].points[k]
    BY <1>2, <1>3 DEF Returned
  <1>5. \A g, h \in Handed : g[2].id = h[2].id => g = h
    <2>1. DOMAIN input.modules = 1..(position - 1)
      BY <1>2 DEF WellTyped, IsInput
    <2>2. \A g, h \in Handed : g[2].id = h[2].id => g[1] = h[1]
      BY <1>3, <2>1 DEF ModulesChecked
    <2> QED
      BY <1>3, <2>2
  <1>6. \A c \in Contributions : <<c.source, c.target>> \in plan.active \cup plan.inactive
    <2> TAKE c \in Contributions
    <2>1. PICK k \in DOMAIN submitted : w[k] = c /\ k < current
      BY AllDone
    <2>2. Filled(submitted[k])
      BY <2>1 DEF Inspecting
    <2> QED
      BY <2>1, <2>2 DEF Filled, Attributed
  <1>7. /\ \A i \in Items : i.item # Malformed
        /\ \A i \in ReceivedItems : i.target \in Implemented
        /\ \A i, j \in ReceivedItems : i.target = j.target /\ i.item.id = j.item.id => i = j
    <2>1. Done(w) = Items /\ ReceivedItems \subseteq Items
      BY AllDone DEF ReceivedItems
    <2> QED
      BY <1>2, <2>1 DEF Inspecting
  <1> QED
    BY <1>1, <1>4, <1>5, <1>6, <1>7 DEF Defective

\* The entries received at an address are what was submitted to it.
LEMMA ReceivedEntries ==
    ASSUME {inspection[k] : k \in DOMAIN inspection} = {AsPublished(i) : i \in Items}
    PROVE  /\ Received = {i.target : i \in ReceivedItems}
           /\ \A a : {inspection[k] : k \in ReceivedAt(a)}
                        = {AsPublished(i) : i \in {j \in ReceivedItems : j.target = a}}
  <1>1. \A i : AsPublished(i).target = i.target /\ (AsPublished(i).received <=> i \in ReceivedItems)
    BY DEF AsPublished
  <1>2. ReceivedItems \subseteq Items
    BY DEF ReceivedItems
  <1>3. ASSUME NEW k \in DOMAIN inspection
        PROVE  \E i \in Items : inspection[k] = AsPublished(i)
    OBVIOUS
  <1>4. ASSUME NEW i \in Items
        PROVE  \E k \in DOMAIN inspection : inspection[k] = AsPublished(i)
    OBVIOUS
  <1>5. ASSUME NEW a
        PROVE  {inspection[k] : k \in ReceivedAt(a)}
                  = {AsPublished(i) : i \in {j \in ReceivedItems : j.target = a}}
    <2>1. ASSUME NEW k \in ReceivedAt(a)
          PROVE  \E i \in ReceivedItems : i.target = a /\ inspection[k] = AsPublished(i)
      BY <1>1, <1>3 DEF ReceivedAt
    <2>2. ASSUME NEW i \in ReceivedItems, i.target = a
          PROVE  \E k \in ReceivedAt(a) : inspection[k] = AsPublished(i)
      <3>1. PICK k \in DOMAIN inspection : inspection[k] = AsPublished(i)
        BY <1>2, <1>4
      <3> QED
        BY <1>1, <2>2, <3>1 DEF ReceivedAt
    <2> QED
      BY <2>1, <2>2
  <1>6. Received = {i.target : i \in ReceivedItems}
    <2>1. ASSUME NEW k \in DOMAIN inspection, inspection[k].received
          PROVE  \E i \in ReceivedItems : inspection[k].target = i.target
      BY <1>1, <1>3, <2>1
    <2>2. ASSUME NEW i \in ReceivedItems
          PROVE  \E k \in DOMAIN inspection : inspection[k].received /\ inspection[k].target = i.target
      <3>1. PICK k \in DOMAIN inspection : inspection[k] = AsPublished(i)
        BY <1>2, <1>4
      <3> QED
        BY <1>1, <3>1
    <2> QED
      BY <2>1, <2>2 DEF Received
  <1> QED
    BY <1>5, <1>6

\* A collection has no two items neither of which comes first.
LEMMA CollectionOrdered ==
    ASSUME inspection \in Seq(Inspected), NEW a,
           \A j, k \in ReceivedAt(a) : inspection[j].id = inspection[k].id => j = k
    PROVE  \A c : c = Arranged(inspection, ReceivedAt(a), Before) =>
               /\ {c[k] : k \in DOMAIN c} = {inspection[k] : k \in ReceivedAt(a)}
               /\ \A j, k \in DOMAIN c : j < k => Before(c[j], c[k])
  <1> DEFINE J == ReceivedAt(a)
             n == Cardinality(J)
  <1> SUFFICES ASSUME NEW c, c = Arranged(inspection, J, Before)
               PROVE  /\ {c[k] : k \in DOMAIN c} = {inspection[k] : k \in J}
                      /\ \A j, k \in DOMAIN c : j < k => Before(c[j], c[k])
    OBVIOUS
  <1>1. J \in SUBSET DOMAIN inspection
    BY DEF ReceivedAt
  <1>2. Rearranged(inspection, J, c) /\ \A j, k \in DOMAIN c : j < k => ~Before(c[k], c[j])
    BY <1>1, CollectionSorted
  <1> HIDE DEF J
  <1>3. PICK p \in Bijection(1..n, J) : c = [k \in 1..n |-> inspection[p[k]]]
    BY <1>2 DEF Rearranged
  <1>4. /\ DOMAIN c = 1..n /\ \A k \in 1..n : c[k] = inspection[p[k]] /\ p[k] \in J
        /\ \A j, k \in 1..n : p[j] = p[k] => j = k
        /\ \A x \in J : \E k \in 1..n : p[k] = x
    <2>1. /\ p \in [1..n -> J]
          /\ \A j, k \in 1..n : p[j] = p[k] => j = k
          /\ \A x \in J : \E k \in 1..n : p[k] = x
      BY DEF Bijection, Injection, Surjection, IsInjective
    <2> HIDE DEF n
    <2> QED
      BY <1>3, <2>1
  <1>5. n \in Nat
    <2>1. IsFiniteSet(DOMAIN inspection)
      BY FS_Interval
    <2>2. IsFiniteSet(J)
      BY <1>1, <2>1, FS_Subset
    <2> QED
      BY <2>2, FS_CardinalityType
  <1> HIDE DEF n
  <1>6. ASSUME NEW j \in 1..n, NEW k \in 1..n, j < k PROVE Before(c[j], c[k])
    <2>1. c[j] \in Inspected /\ c[k] \in Inspected /\ c[j].id # c[k].id
      BY <1>1, <1>4, <1>5, <1>6 DEF J
    <2>2. ~Before(c[k], c[j])
      BY <1>2, <1>4, <1>6
    <2> QED
      BY <2>1, <2>2, BeforeDecides
  <1>7. {c[k] : k \in DOMAIN c} = {inspection[k] : k \in J}
    BY <1>4
  <1> QED
    BY <1>4, <1>6, <1>7

\* What is published is what was handed over, sorted.
LEMMA PublishedStep ==
    ASSUME WellTyped, PlanRead, ModulesChecked, FactoriesRan, Standing, Tracked, Published, [Next]_vars
    PROVE  Published'
  <1>1. CASE Publish
    <2>1. /\ phase = "contributions" /\ current > Len(submitted) /\ UNCHANGED <<input, plan>>
          /\ collections' = [a \in Received |-> Arranged(inspection, ReceivedAt(a), Before)]
          /\ inspection' = Arranged(inspection, DOMAIN inspection, InspectedBefore)
      BY <1>1 DEF Publish
    <2>2. PICK w : Attributed(w) /\ Inspecting(w)
      BY <2>1 DEF Tracked
    <2>3. Done(w) = Items /\ ~Defective
      BY <2>1, <2>2, AllDone, NothingDefective
    <2>4. {inspection[k] : k \in DOMAIN inspection} = {AsPublished(i) : i \in Items}
          /\ Cardinality(Items) = Len(inspection)
      BY <2>2, <2>3 DEF Inspecting
    <2>5. inspection \in Seq(Inspected)
      BY DEF WellTyped
    <2>6. /\ Rearranged(inspection, DOMAIN inspection, inspection')
          /\ \A j, k \in DOMAIN inspection' : j < k => ~InspectedBefore(inspection'[k], inspection'[j])
      BY <2>1, <2>5, InspectionSorted
    <2>7. Cardinality(DOMAIN inspection) = Len(inspection) /\ Len(inspection) \in Nat
      <3>1. DOMAIN inspection = 1..Len(inspection) /\ Len(inspection) \in Nat
        BY <2>5, SeqElements
      <3>2. \A n \in Nat : Cardinality(1..n) = n
        BY FS_Interval
      <3> QED
        BY <3>1, <3>2
    <2>8. /\ Len(inspection') = Len(inspection)
          /\ {inspection'[k] : k \in DOMAIN inspection'} = {inspection[k] : k \in DOMAIN inspection}
      <3>1. PICK p \in Bijection(1..Len(inspection), DOMAIN inspection) :
              inspection' = [k \in 1..Len(inspection) |-> inspection[p[k]]]
        BY <2>6, <2>7 DEF Rearranged
      <3>2. /\ \A k \in 1..Len(inspection) : p[k] \in DOMAIN inspection
            /\ \A x \in DOMAIN inspection : \E k \in 1..Len(inspection) : p[k] = x
        BY DEF Bijection, Injection, Surjection
      <3>3. DOMAIN inspection' = 1..Len(inspection)
        BY <3>1
      <3>4. Len(inspection') = Len(inspection)
        BY <2>7, <3>1
      <3>5. {inspection'[k] : k \in DOMAIN inspection'} = {inspection[k] : k \in DOMAIN inspection}
        BY <3>1, <3>2, <3>3
      <3> QED
        BY <3>4, <3>5
    <2>9. DOMAIN collections' = {i.target : i \in ReceivedItems}
      BY <2>1, <2>4, ReceivedEntries
    <2>10. ASSUME NEW a \in DOMAIN collections'
           PROVE  /\ {collections'[a][k] : k \in DOMAIN collections'[a]}
                       = {AsPublished(i) : i \in {j \in ReceivedItems : j.target = a}}
                  /\ \A j, k \in DOMAIN collections'[a] : j < k => Before(collections'[a][j], collections'[a][k])
      <3>1. collections'[a] = Arranged(inspection, ReceivedAt(a), Before)
        BY <2>1
      <3>2. \A j, k \in ReceivedAt(a) : inspection[j].id = inspection[k].id => j = k
        BY <2>2 DEF ReceivedAt, Inspecting
      <3>3. /\ {collections'[a][k] : k \in DOMAIN collections'[a]} = {inspection[k] : k \in ReceivedAt(a)}
            /\ \A j, k \in DOMAIN collections'[a] : j < k => Before(collections'[a][j], collections'[a][k])
        BY <2>5, <3>1, <3>2, CollectionOrdered
      <3> QED
        BY <2>4, <3>3, ReceivedEntries
    <2>11. /\ ~Defective' /\ Items' = Items /\ ReceivedItems' = ReceivedItems
           /\ \A i : AsPublished(i)' = AsPublished(i)
      BY <2>1, <2>3, DefectiveFixed, DataFixed, ReceivedFixed
    <2> QED
      BY <2>4, <2>6, <2>8, <2>9, <2>10, <2>11 DEF Published, Sorted
  <1>2. CASE UNCHANGED <<input, phase, plan, accepted, position, created, declared, submitted, current, checked,
                         inspection, collections>>
    <2>1. Defective' <=> Defective
      BY <1>2, DefectiveFixed
    <2>2. Items' = Items /\ ReceivedItems' = ReceivedItems /\ \A i : AsPublished(i)' = AsPublished(i)
      BY <1>2, DataFixed, ReceivedFixed
    <2>3. Sorted(inspection, InspectedBefore)' <=> Sorted(inspection, InspectedBefore)
      BY <1>2 DEF Sorted
    <2> SUFFICES ASSUME phase = "published" PROVE Published'
      BY <1>2 DEF Published
    <2>4. /\ ~Defective' /\ Sorted(inspection, InspectedBefore)'
          /\ Len(inspection') = Cardinality(Items')
      BY <1>2, <2>1, <2>2, <2>3 DEF Published
    <2>5. {inspection'[k] : k \in DOMAIN inspection'} = {AsPublished(i)' : i \in Items'}
      <3>1. {inspection[k] : k \in DOMAIN inspection} = {AsPublished(i) : i \in Items}
        BY DEF Published
      <3>2. {AsPublished(i)' : i \in Items'} = {AsPublished(i) : i \in Items}
        BY <2>2
      <3> QED
        BY <1>2, <3>1, <3>2
    <2>6. DOMAIN collections' = {i.target : i \in ReceivedItems'}
      BY <1>2, <2>2 DEF Published
    <2>7. ASSUME NEW a \in DOMAIN collections'
          PROVE  /\ {collections'[a][k] : k \in DOMAIN collections'[a]}
                       = {AsPublished(i)' : i \in {j \in ReceivedItems' : j.target = a}}
                 /\ \A j, k \in DOMAIN collections'[a] : j < k => Before(collections'[a][j], collections'[a][k])
      <3>1. /\ {collections[a][k] : k \in DOMAIN collections[a]}
                  = {AsPublished(i) : i \in {j \in ReceivedItems : j.target = a}}
            /\ \A j, k \in DOMAIN collections[a] : j < k => Before(collections[a][j], collections[a][k])
        BY <1>2 DEF Published
      <3>2. {AsPublished(i)' : i \in {j \in ReceivedItems' : j.target = a}}
              = {AsPublished(i) : i \in {j \in ReceivedItems : j.target = a}}
        BY <2>2
      <3> QED
        BY <1>2, <3>1, <3>2
    <2> QED
      BY <2>4, <2>5, <2>6, <2>7 DEF Published
  <1>3. ASSUME Project \/ TakeStored \/ AcceptModule \/ RunFactory \/ TakeItem \/ CloseContribution \/ Moves \/ Fails,
               phase' = "published"
        PROVE  FALSE
    BY <1>3, FailsOnly DEF Project, TakeStored, AcceptModule, RunFactory, TakeItem, AtItem, CloseContribution, Moves,
                ReadPlan, StartFactories, StartContributions, OpenContribution
  <1> QED
    BY <1>1, <1>2, <1>3, NextCases DEF Published

-----------------------------------------------------------------------------
(***************************************************************************)
(* Faithful modules.                                                       *)
(***************************************************************************)

\* Faithful modules come with a catalog and a selection the projection takes.
LEMMA FaithfulTaken ==
    ASSUME Faithful
    PROVE  TakenCatalog
  BY DEF Faithful, SoundDeclarations, TakenCatalog, ValidCatalog, KnownSelection, Owners, MeantFor

\* The edge between a declaration and an owner version it is meant for.
LEMMA EdgeExists ==
    ASSUME IsInput(input), NEW d \in input.catalog, NEW a \in Addresses, a[1] \in DOMAIN d.contributesTo,
           a[2] \in d.contributesTo[a[1]], NEW o \in Owners(input.catalog, d, a[1]),
           IsSelected(d.id, d.version)
    PROVE  \E e \in Outgoing(input.catalog, input.selected) :
                e.from = d.id /\ e.target = a /\ e.toVersion = o.version
  <1> DEFINE e == [from |-> d.id, fromVersion |-> d.version, target |-> a, toVersion |-> o.version]
  <1>1. o \in input.catalog
    BY DEF Owners
  <1>2. d.id \in Capabilities /\ d.version \in Releases /\ o.version \in Releases
    BY <1>1 DEF IsInput, IsDeclaration
  <1>3. e \in [from : Capabilities, fromVersion : Releases, target : Addresses, toVersion : Releases]
    BY <1>2
  <1>4. e \in VersionedEdges(input.catalog)
    BY <1>3 DEF VersionedEdges
  <1>5. e \in Outgoing(input.catalog, input.selected)
    BY <1>4 DEF Outgoing, IsSelected
  <1> QED
    BY <1>5

\* What a faithful module contributes is in the plan, among the active contributions if the

\* owner is selected.
LEMMA FaithfulEdges ==
    ASSUME IsInput(input), Faithful, plan = PlanOf(input.catalog, input.selected), NEW c \in Contributions
    PROVE  <<c.source, c.target>> \in
                IF c.target[1] \in DOMAIN input.selected THEN plan.active ELSE plan.inactive
  <1> DEFINE to == c.target[1]
  <1>1. PICK h \in DOMAIN input.modules : \E n \in DOMAIN input.modules[h].contributions : c = ContributionAt(h, n)
    BY ContributionsAre
  <1>2. PICK n \in DOMAIN input.modules[h].contributions : c = ContributionAt(h, n)
    BY <1>1
  <1>3. c.source \in DOMAIN input.selected
    <2>1. <<h, input.modules[h]>> \in Handed /\ c.source = input.modules[h].id
      BY <1>2 DEF Handed, ContributionAt
    <2> QED
      BY <2>1 DEF Faithful, IsSelected
  <1>4. c.target \in Addresses
    BY ContributionsTyped
  <1>5. PICK d \in input.catalog :
          /\ d.id = c.source /\ d.version = input.selected[c.source] /\ to \in DOMAIN d.contributesTo
          /\ c.target[2] \in d.contributesTo[to]
    BY DEF Faithful, Declares
  <1>6. IsSelected(d.id, d.version)
    BY <1>3, <1>5 DEF IsSelected
  <1>7. plan.active = Active(input.catalog, input.selected)
        /\ plan.inactive = Inactive(input.catalog, input.selected)
    BY DEF PlanOf
  <1>8. CASE to \in DOMAIN input.selected
    <2>1. PICK o \in input.catalog : o.id = to /\ o.version = input.selected[to]
      BY <1>8 DEF Faithful, SoundDeclarations
    <2>2. IsSelected(o.id, o.version)
      BY <1>8, <2>1 DEF IsSelected
    <2>3. MeantFor(d, o)
      BY <1>5, <1>6, <2>1, <2>2 DEF Faithful, SoundDeclarations
    <2>4. o \in Owners(input.catalog, d, to)
      BY <2>1, <2>3 DEF Owners, MeantFor
    <2>5. PICK e \in Outgoing(input.catalog, input.selected) :
            e.from = d.id /\ e.target = c.target /\ e.toVersion = o.version
      BY <1>4, <1>5, <1>6, <2>4, EdgeExists
    <2>6. <<e.from, e.target>> \in Active(input.catalog, input.selected)
      BY <1>8, <2>1, <2>5 DEF Active
    <2> QED
      BY <1>5, <1>7, <1>8, <2>5, <2>6
  <1>9. CASE to \notin DOMAIN input.selected
    <2>1. PICK o \in input.catalog : o.id = to /\ MeantFor(d, o)
      BY <1>5 DEF Faithful, SoundDeclarations
    <2>2. o \in Owners(input.catalog, d, to)
      BY <2>1 DEF Owners, MeantFor
    <2>3. PICK e \in Outgoing(input.catalog, input.selected) : e.from = d.id /\ e.target = c.target
      BY <1>4, <1>5, <1>6, <2>2, EdgeExists
    <2>4. <<e.from, e.target>> \in Inactive(input.catalog, input.selected)
      BY <1>9, <2>3 DEF Inactive
    <2> QED
      BY <1>5, <1>7, <1>9, <2>3, <2>4
  <1> QED
    BY <1>8, <1>9

\* As many entries as there are points, so no point is implemented twice.
LEMMA PointsOnce ==
    ASSUME NEW s \in Seq(Addresses), NEW x, NEW P,
           {s[k] : k \in DOMAIN s} = {x} \X P, Len(s) = Cardinality(P)
    PROVE  \A j, k \in DOMAIN s : s[j] = s[k] => j = k
  <1> DEFINE f == [k \in 1..Len(s) |-> s[k][2]]
  <1>1. DOMAIN s = 1..Len(s) /\ Len(s) \in Nat
    OBVIOUS
  <1>2. \A k \in DOMAIN s : s[k] \in {x} \X P
    OBVIOUS
  <1>3. f \in [1..Len(s) -> P]
    BY <1>1, <1>2
  <1>4. \A p \in P : \E k \in 1..Len(s) : f[k] = p
    <2> TAKE p \in P
    <2>1. <<x, p>> \in {x} \X P
      OBVIOUS
    <2>2. PICK k \in DOMAIN s : s[k] = <<x, p>>
      BY <2>1
    <2> QED
      BY <1>1, <2>2
  <1>5. f \in Surjection(1..Len(s), P)
    BY <1>3, <1>4 DEF Surjection
  <1>6. IsFiniteSet(1..Len(s)) /\ Cardinality(1..Len(s)) = Len(s)
    BY <1>1, FS_Interval
  <1>7. f \in Injection(1..Len(s), P)
    BY <1>5, <1>6, FS_Surjection
  <1>8. \A j, k \in 1..Len(s) : f[j] = f[k] => j = k
    BY <1>3, <1>7 DEF Injection, IsInjective
  <1> QED
    BY <1>1, <1>8

\* Nothing is wrong with a faithful module.
LEMMA FaithfulModule ==
    ASSUME IsInput(input), Faithful, plan = PlanOf(input.catalog, input.selected), NEW h \in Handed
    PROVE  /\ Selected(h[2]) /\ h[2].kind = "returns"
           /\ \A k \in DOMAIN h[2].points :
                /\ h[2].points[k] \in plan.points /\ h[2].points[k][1] = h[2].id
                /\ \A j \in DOMAIN h[2].points \ {k} : h[2].points[j] # h[2].points[k]
           /\ \A a \in plan.points : a[1] = h[2].id => a \in Implemented
  <1>1. h[1] \in DOMAIN input.modules /\ h[2] = input.modules[h[1]]
    BY DEF Handed
  <1>2. h[2].points \in Seq(Addresses) /\ h[2].id \in Capabilities
    BY <1>1, ModulesTyped
  <1>3. /\ h[2].id \in DOMAIN input.selected /\ input.selected[h[2].id] = h[2].version
        /\ h[2].kind = "returns"
    BY DEF Faithful, IsSelected
  <1>4. PICK d \in input.catalog : d.id = h[2].id /\ d.version = h[2].version
    BY <1>3 DEF Faithful, SoundDeclarations
  <1>5. {h[2].points[k] : k \in DOMAIN h[2].points} = {h[2].id} \X d.points
        /\ Len(h[2].points) = Cardinality(d.points)
    BY <1>4 DEF Faithful
  <1>6. d.points \subseteq PointNames
    BY DEF IsInput, IsDeclaration
  <1>7. plan.points = Offered(input.catalog, input.selected) /\ plan.selected = input.selected
    BY DEF PlanOf
  <1>8. ASSUME NEW k \in DOMAIN h[2].points
        PROVE  h[2].points[k] \in plan.points /\ h[2].points[k][1] = h[2].id
    <2>1. h[2].points[k] \in {h[2].id} \X d.points
      BY <1>5
    <2>2. h[2].points[k] \in Addresses /\ h[2].points[k][1] = h[2].id /\ h[2].points[k][2] \in d.points
      BY <1>2, <1>6, <2>1
    <2> QED
      BY <1>3, <1>4, <1>7, <2>2 DEF Offered
  <1>9. \A j, k \in DOMAIN h[2].points : h[2].points[j] = h[2].points[k] => j = k
    BY <1>2, <1>5, PointsOnce
  <1>10. ASSUME NEW a \in plan.points, a[1] = h[2].id PROVE a \in Implemented
    <2>1. a \in Addresses /\ \E e \in input.catalog :
            e.id = a[1] /\ e.version = input.selected[a[1]] /\ a[2] \in e.points
      BY <1>7 DEF Offered
    <2>2. a[2] \in d.points
      BY <1>3, <1>4, <1>10, <2>1 DEF Faithful, SoundDeclarations
    <2>3. a \in {h[2].id} \X d.points
      BY <1>10, <2>1, <2>2 DEF Addresses
    <2>4. PICK k \in DOMAIN h[2].points : h[2].points[k] = a
      BY <1>5, <2>3
    <2> QED
      BY <2>4 DEF Implemented
  <1> QED
    BY <1>3, <1>7, <1>8, <1>9, <1>10 DEF Selected

\* Nothing is wrong with faithful modules and the plan of their catalog.
LEMMA FaithfulSound ==
    ASSUME IsInput(input), Faithful, plan = PlanOf(input.catalog, input.selected)
    PROVE  ~Defective
  <1>1. Consistent(plan)
    BY FaithfulTaken, ProjectionConsistent
  <1>2. \A g, h \in Handed : g[2].id = h[2].id => g = h
    BY DEF Faithful
  <1>3. \A c \in Contributions : <<c.source, c.target>> \in plan.active \cup plan.inactive
    BY FaithfulEdges
  <1>4. \A i \in Items : i.item # Malformed
    BY DEF Faithful
  <1>5. ASSUME NEW i \in ReceivedItems PROVE i.target \in Implemented
    <2>1. i.target[1] \in DOMAIN plan.selected /\ i.target \in plan.points /\ i \in Items
      BY <1>1 DEF ReceivedItems, Consistent
    <2>2. PICK h \in Handed : h[2].id = i.target[1]
      BY <2>1 DEF Faithful, PlanOf
    <2> QED
      BY <2>1, <2>2, FaithfulModule
  <1>6. \A i, j \in ReceivedItems : i.target = j.target /\ i.item.id = j.item.id => i = j
    BY DEF Faithful, ReceivedItems
  <1>7. \A h \in Handed :
          /\ Selected(h[2]) /\ h[2].kind = "returns"
          /\ \A k \in DOMAIN h[2].points :
                /\ h[2].points[k] \in plan.points /\ h[2].points[k][1] = h[2].id
                /\ \A j \in DOMAIN h[2].points \ {k} : h[2].points[j] # h[2].points[k]
    BY FaithfulModule
  <1> QED
    BY <1>1, <1>2, <1>3, <1>4, <1>5, <1>6, <1>7 DEF Defective

-----------------------------------------------------------------------------

\* A step keeps points, entries and collections within the plan.
LEMMA WithinPlanStep ==
    ASSUME WellTyped, FactoriesRan, Standing, Tracked, WithinPlan, [Next]_vars
    PROVE  WithinPlan'
  <1>1. CASE Project \/ TakeStored
    <2>1. /\ UNCHANGED <<declared, inspection, collections>> /\ phase = "project" /\ created = <<>>
          /\ inspection = <<>>
      BY <1>1 DEF Project, TakeStored, construction, checking, FactoriesRan, Standing, Complete, Checked, Reading,
                  Phases
    <2>2. declared = {}
      BY <2>1 DEF FactoriesRan, RanModules, Ran
    <2> QED
      BY <2>1, <2>2 DEF WithinPlan
  <1>2. CASE RunFactory
    <2>1. /\ UNCHANGED <<plan, inspection, collections>>
          /\ declared' = declared \/ (PointsSound(NextModule) /\ declared' = declared \cup PointsOf(NextModule))
      BY <1>2 DEF RunFactory, checking, PointsOf
    <2> QED
      BY <2>1 DEF WithinPlan, PointsSound, PointsOf
  <1>3. CASE TakeItem
    <2>1. /\ UNCHANGED <<plan, declared, collections>> /\ phase = "items"
          /\ inspection' = Append(inspection,
                [target |-> Contribution.target, source |-> Contribution.source, id |-> NextItem.id,
                 order |-> NextItem.order, received |-> Edge \in plan.active])
      BY <1>3 DEF TakeItem, AtItem, construction
    <2>2. Edge \in plan.active \cup plan.inactive
      BY <2>1 DEF Standing, Filled, Edge
    <2> PICK r : r = [target |-> Contribution.target, source |-> Contribution.source, id |-> NextItem.id,
                      order |-> NextItem.order, received |-> Edge \in plan.active]
      OBVIOUS
    <2>3. <<r.source, r.target>> \in (IF r.received THEN plan.active ELSE plan.inactive)
      BY <2>2 DEF Edge
    <2>4. /\ DOMAIN inspection' = DOMAIN inspection \cup {Len(inspection) + 1}
          /\ inspection'[Len(inspection) + 1] = r /\ \A k \in DOMAIN inspection : inspection'[k] = inspection[k]
      BY <2>1, SeqAppended DEF WellTyped
    <2> QED
      BY <2>1, <2>3, <2>4 DEF WithinPlan
  <1>4. CASE Publish
    <2>1. /\ UNCHANGED <<plan, declared>> /\ phase = "contributions" /\ current > Len(submitted)
          /\ collections' = [a \in Received |-> Arranged(inspection, ReceivedAt(a), Before)]
          /\ inspection' = Arranged(inspection, DOMAIN inspection, InspectedBefore)
      BY <1>4 DEF Publish, construction
    <2>2. PICK p \in Bijection(1..Cardinality(DOMAIN inspection), DOMAIN inspection) :
            inspection' = [k \in 1..Cardinality(DOMAIN inspection) |-> inspection[p[k]]]
      <3>1. inspection \in Seq(Inspected)
        BY DEF WellTyped
      <3>2. Rearranged(inspection, DOMAIN inspection, inspection')
        BY <2>1, <3>1, InspectionSorted
      <3> QED
        BY <3>2 DEF Rearranged
    <2>3. \A k \in DOMAIN inspection' : \E j \in DOMAIN inspection : inspection'[k] = inspection[j]
      BY <2>2 DEF Bijection, Injection
    <2>4. Received \subseteq declared
      <3>1. PICK w : Inspecting(w)
        BY <2>1 DEF Tracked
      <3> SUFFICES ASSUME NEW k \in DOMAIN inspection, inspection[k].received
                   PROVE  inspection[k].target \in declared
        BY DEF Received
      <3>2. PICK i \in Done(w) : inspection[k] = AsPublished(i)
        BY <3>1, InspectedOnce
      <3>3. i \in ReceivedItems /\ inspection[k].target = i.target
        BY <3>2, EntryFields
      <3> QED
        BY <3>1, <3>2, <3>3 DEF Inspecting
    <2> QED
      BY <2>1, <2>3, <2>4 DEF WithinPlan
  <1>5. CASE AcceptModule \/ CloseContribution
    <2>1. UNCHANGED <<plan, declared, inspection, collections>>
      BY <1>5 DEF AcceptModule, CloseContribution, checking, construction
    <2> QED
      BY <2>1 DEF WithinPlan
  <1>6. CASE Moves \/ Fails
    BY <1>6, MovesOnly, FailsOnly DEF WithinPlan
  <1>7. CASE UNCHANGED <<input, phase, plan, accepted, position, created, declared, submitted, current, checked,
                         inspection, collections>>
    BY <1>7 DEF WithinPlan
  <1> QED
    BY <1>1, <1>2, <1>3, <1>4, <1>5, <1>6, <1>7, NextCases

\* Before the first step the invariant holds.
LEMMA InitInvariant == Init => IInv
  <1> SUFFICES ASSUME Init PROVE IInv
    OBVIOUS
  <1> USE DEF Init
  <1>1. WellTyped
    <2>1. IsInput(input)
      BY InputsAssumption
    <2>2. Len(input.modules) \in Nat
      BY <2>1 DEF IsInput
    <2> QED
      BY <2>1, <2>2 DEF WellTyped, Phases
  <1>2. PlanRead /\ Refused /\ Published
    BY DEF PlanRead, Refused, Published, Reading
  <1>3. ModulesChecked
    BY DEF ModulesChecked, Checked, Reading
  <1>4. FactoriesRan
    BY DEF FactoriesRan, Ran, RanModules, Waiting, Complete, Checked, Reading
  <1>5. Standing
    BY DEF Standing, Complete, Checked, Reading, Phases
  <1>6. WithinPlan
    BY DEF WithinPlan, NoPlan
  <1>7. Attributed(<<>>) /\ <<>> \in [DOMAIN submitted -> Contributions]
    BY DEF Attributed, Ran
  <1>8. Inspecting(<<>>)
    <2>1. Done(<<>>) = {}
      BY DEF Done, Past
    <2>2. IsFiniteSet({}) /\ Cardinality({}) = 0 /\ Len(inspection) = 0 /\ DOMAIN inspection = {}
      BY FS_EmptySet
    <2>3. DOMAIN submitted = {}
      OBVIOUS
    <2> QED
      BY <2>1, <2>2, <2>3 DEF Inspecting
  <1>9. Tracked
    BY <1>7, <1>8 DEF Tracked
  <1> QED
    BY <1>1, <1>2, <1>3, <1>4, <1>5, <1>6, <1>9 DEF IInv

\* The inductive invariant holds whatever is handed over.
THEOREM Invariance == Spec => []IInv
  <1>1. IInv /\ [Next]_vars => IInv'
    <2> SUFFICES ASSUME IInv, [Next]_vars PROVE IInv'
      OBVIOUS
    <2>1. WellTyped'
      BY TypedStep DEF IInv
    <2>2. Standing'
      BY StandingStep DEF IInv
    <2>3. PlanRead' /\ ModulesChecked' /\ FactoriesRan' /\ WithinPlan'
      BY PlanStep, ModulesStep, FactoriesStep, WithinPlanStep DEF IInv
    <2>4. Tracked'
      BY <2>1, <2>2, TrackedStep DEF IInv
    <2>5. Refused' /\ Published'
      BY RefusedStep, PublishedStep DEF IInv
    <2> QED
      BY <2>1, <2>2, <2>3, <2>4, <2>5 DEF IInv
  <1> QED
    BY <1>1, InitInvariant, PTL DEF Spec

-----------------------------------------------------------------------------
(***************************************************************************)
(* The properties.                                                         *)
(***************************************************************************)

\* The state is what the runtime's maps and lists can hold, and nothing of it leaves the

\* plan: not the points, nor the items inspected, nor the collections.
THEOREM TypeCorrect == Spec => []TypeOK
  <1>1. IInv => TypeOK
    <2> SUFFICES ASSUME IInv PROVE TypeOK
      OBVIOUS
    <2>1. ASSUME NEW m \in accepted PROVE m \in Modules /\ Selected(m)
      <3>1. PICK k \in 1..(position - 1) : m = input.modules[k]
        BY DEF IInv, ModulesChecked
      <3>2. Selected(m)
        BY <3>1 DEF IInv, ModulesChecked
      <3>3. WellTyped
        BY DEF IInv
      <3>4. k \in DOMAIN input.modules /\ \A j \in DOMAIN input.modules : input.modules[j] \in Modules
        BY <3>3 DEF WellTyped, IsInput
      <3> QED
        BY <3>1, <3>2, <3>4
    <2>2. {created[k] : k \in DOMAIN created} \subseteq {m.id : m \in accepted}
      BY DEF IInv, FactoriesRan, Ran
    <2>3. IsInput(input) /\ phase \in Phases /\ position \in 1..(Len(input.modules) + 1)
      BY DEF IInv, WellTyped
    <2> QED
      BY <2>1, <2>2, <2>3 DEF IInv, TypeOK, WithinPlan
  <1> QED
    BY <1>1, Invariance, PTL

\* A plan projected from a catalog is a plan the runtime takes.
THEOREM PlansTaken == Spec => []ProjectedPlansTaken
  <1>1. IInv => ProjectedPlansTaken
    BY ProjectionConsistent DEF IInv, PlanRead, ProjectedPlansTaken
  <1> QED
    BY <1>1, Invariance, PTL

\* No factory runs before every module was checked, and factories run in id order.
THEOREM ChecksFirst == Spec => []FactoriesAfterChecks
  <1>1. IInv => FactoriesAfterChecks
    <2> SUFFICES ASSUME IInv PROVE FactoriesAfterChecks
      OBVIOUS
    <2>1. \A j, k \in DOMAIN created : j < k => created[j] < created[k]
      BY DEF IInv, FactoriesRan
    <2>2. ASSUME created # <<>>, NEW g \in Handed, NEW h \in Handed
          PROVE  Selected(h[2]) /\ (g[2].id = h[2].id => g = h)
      <3>1. DOMAIN input.modules = 1..(position - 1)
        BY <2>2 DEF IInv, ModulesChecked, WellTyped, IsInput
      <3>2. \A f \in Handed : f[1] \in DOMAIN input.modules /\ f[2] = input.modules[f[1]] /\ f = <<f[1], f[2]>>
        BY DEF Handed
      <3> QED
        BY <3>1, <3>2 DEF IInv, ModulesChecked
    <2> QED
      BY <2>1, <2>2 DEF FactoriesAfterChecks
  <1> QED
    BY <1>1, Invariance, PTL

\* The runtime is refused exactly if something is wrong, and else publishes every item once,

\* in order, whatever the modules and in whichever order they come.
THEOREM Outcome == Spec => []OutcomeOfModules
  <1>1. IInv => OutcomeOfModules
    <2> SUFFICES ASSUME IInv PROVE OutcomeOfModules
      OBVIOUS
    <2>1. ASSUME phase = "failed", plan # NoPlan \/ input.stored # {} PROVE Defective
      BY <2>1 DEF IInv, Refused
    <2> QED
      BY <2>1 DEF OutcomeOfModules, IInv, Published
  <1> QED
    BY <1>1, Invariance, PTL

\* Faithful modules are never refused, and what they contribute to a selected owner arrives.
THEOREM FaithfulArrive == Spec => []FaithfulModulesArrive
  <1>1. IInv => FaithfulModulesArrive
    <2> SUFFICES ASSUME IInv, Faithful PROVE FaithfulModulesArrive
      BY DEF FaithfulModulesArrive
    <2>1. TakenCatalog /\ input.stored = {} /\ IsInput(input)
      BY FaithfulTaken DEF Faithful, IInv, WellTyped
    <2>2. phase # "project" => plan = PlanOf(input.catalog, input.selected)
      BY <2>1 DEF IInv, PlanRead
    <2>3. phase # "failed"
      BY <2>1, <2>2, FaithfulSound DEF IInv, Refused
    <2>4. ASSUME phase = "published", NEW i \in Items, i.target[1] \in DOMAIN input.selected
          PROVE  /\ i.target \in DOMAIN collections
                 /\ \E k \in DOMAIN collections[i.target] :
                        collections[i.target][k].id = i.item.id /\ collections[i.target][k].source = i.source
      <3>1. PICK c \in Contributions : \E j \in DOMAIN c.items : i = ItemAt(c, j)
        BY ItemsAre
      <3>2. PICK j \in DOMAIN c.items : i = ItemAt(c, j)
        BY <3>1
      <3>3. i.source = c.source /\ i.target = c.target
        BY <3>2 DEF ItemAt
      <3>4. <<c.source, c.target>> \in plan.active
        BY <2>1, <2>2, <2>4, <3>3, FaithfulEdges
      <3>5. i \in ReceivedItems
        BY <3>3, <3>4 DEF ReceivedItems
      <3>6. i.target \in DOMAIN collections
        BY <2>4, <3>5 DEF IInv, Published
      <3>7. AsPublished(i) \in {collections[i.target][k] : k \in DOMAIN collections[i.target]}
        BY <2>4, <3>5, <3>6 DEF IInv, Published
      <3>8. AsPublished(i).id = i.item.id /\ AsPublished(i).source = i.source
        BY DEF AsPublished
      <3> QED
        BY <3>6, <3>7, <3>8
    <2> QED
      BY <2>3, <2>4 DEF FaithfulModulesArrive
  <1> QED
    BY <1>1, Invariance, PTL
====
