------------------------- MODULE ConfigStartupProofs -------------------------
(***************************************************************************)
(* A host that starts without a write in between holds, for every          *)
(* extension that must be valid at startup, a fragment its schema accepts, *)
(* unless the scope's last file is falsy JSON the schema accepts itself:   *)
(* whatever the files, the extensions, the schemas and the order they are  *)
(* met in.                                                                 *)
(***************************************************************************)
EXTENDS ConfigStartup, Reachability, SequenceTheorems

\* The places already read, and what lies there.
Seen == Listed \ files
At(k) == disk[FileOrder[k]]

\* The files are read in their order, and a later one of a scope stands.
ReadSoFar ==
    /\ files \subseteq Listed
    /\ \A k \in Seen, j \in files : k < j
    /\ \A k \in Seen :
        /\ Reads(At(k))
        /\ \A j \in Seen : ScopeAt(j) = ScopeAt(k) /\ Reads(At(j)) => j <= k
        => ScopeAt(k) \in DOMAIN fragments /\ fragments[ScopeAt(k)] = At(k)

Checked(t) ==
    IF LastIsFalsy(t.scope) THEN Accepts(t.schema, disk[LocatedFile(t.scope)])
    ELSE t.scope \in DOMAIN fragments /\ Accepts(t.schema, Document(fragments[t.scope]))

Among(t, sequence) == \E k \in DOMAIN sequence : sequence[k] = t

\* No extension that must be valid is forgotten: it is still to be looked at or to be
\* validated, is going to be refused, or is valid.
Accounted ==
    \A t \in ExtensionsOf(input) : Requires(t) =>
        Among(t, targets) \/ Among(t, validated) \/ t.scope \in skipped \cup invalid \/ Checked(t)

AllChecked == \A t \in ExtensionsOf(input) : Requires(t) => Checked(t)

IInv ==
    /\ input \in Inputs
    /\ targets \in Seq(ExtensionsOf(input)) /\ validated \in Seq(ExtensionsOf(input))
    /\ undisturbed /\ phase # "list" => ReadSoFar
    /\ phase \notin {"list", "read"} => files = {}
    /\ phase \in {"sort", "validate"} => \A k \in DOMAIN validated : validated[k].scope \in DOMAIN located
    /\ phase \in {"list", "read", "schemas", "locate"} => validated = <<>>
    /\ undisturbed /\ phase \in {"sort", "validate"} =>
        located = [s \in {ScopeAt(k) : k \in Listed} |-> LocatedFile(s)]
    /\ undisturbed /\ phase \in {"locate", "sort", "validate"} => Accounted
    /\ phase = "validate" => targets = <<>>
    /\ undisturbed /\ phase \in {"start", "ready"} /\ input.validation => AllChecked

\* What the host holds in its runtime configuration: the fragments, projected.
Sections(v) == [s \in Projected |-> fragments[s][v]]
SectionsIn(c, v) == [s \in Projected |-> InContext(fragments[s], c, v)]

AnsweredFrom(s) ==
    \/ s \in DOMAIN registry /\ answer = <<s, Accepts(registry[s], Rebuilt(FragmentView(runtime, s)))>>
    \/ answer = <<s, Unregistered>>

\* What is read, projected, registered and answered comes from the files, the fragments,
\* the extensions and the runtime configuration as they still are.
DataInv ==
    /\ input \in Inputs /\ written \in Nat /\ writing \subseteq Range(input.writes)
    /\ DOMAIN disk = DOMAIN FileScope /\ \A f \in DOMAIN disk : Reads(disk[f]) => IsFragment(disk[f])
    /\ files \subseteq DOMAIN FileOrder
    /\ DOMAIN fragments \subseteq Range(ScopeOrder) /\ \A s \in DOMAIN fragments : IsFragment(fragments[s])
    /\ phase = "list" => DOMAIN fragments = {}
    /\ undisturbed => \A s \in DOMAIN fragments : \E k \in Seen : ScopeAt(k) = s /\ Reads(At(k))
    /\ phase \in {"schemas", "locate", "sort", "validate", "start"} =>
        runtime = ProjectSectioned(fragments, ScopeIds)
    /\ phase = "ready" => runtime = Merge(input.host, ProjectSectioned(fragments, ScopeIds), input.privateOutput)
    /\ \A s \in DOMAIN registry :
        input.validation /\ \E t \in ExtensionsOf(input) : t.scope = s /\ registry[s] = t.schema
    /\ answer # <<>> => phase = "ready" /\ \E s \in Range(ScopeOrder) : AnsweredFrom(s)

-----------------------------------------------------------------------------
(***************************************************************************)
(* Listings, assignments and objects.                                      *)
(***************************************************************************)
TotalOn(R, S) ==
    /\ \A x \in S : <<x, x>> \notin R
    /\ \A x, y \in S : x # y => <<x, y>> \in R \/ <<y, x>> \in R
    /\ \A x, y, z \in S : <<x, y>> \in R /\ <<y, z>> \in R => <<x, z>> \in R

\* A listing holds every element once, in the order.
LEMMA ListingHolds ==
    ASSUME NEW S, IsFiniteSet(S), NEW R, TotalOn(R, S)
    PROVE  /\ Cardinality(S) \in Nat /\ Listing(S, R) \in [1..Cardinality(S) -> S]
           /\ \A x \in S : \E n \in 1..Cardinality(S) : Listing(S, R)[n] = x
           /\ \A m, n \in 1..Cardinality(S) : m < n => <<Listing(S, R)[m], Listing(S, R)[n]>> \in R
  <1> DEFINE N == Cardinality(S)
             Below(x) == {y \in S : <<y, x>> \in R}
             f == [x \in S |-> Cardinality(Below(x)) + 1]
             o == [n \in 1..N |-> CHOOSE x \in S : Cardinality(Below(x)) = n - 1]
  <1>1. N \in Nat
    BY FS_CardinalityType
  <1>2. ASSUME NEW x \in S
        PROVE  Cardinality(Below(x)) \in Nat /\ Cardinality(Below(x)) < N /\ IsFiniteSet(Below(x))
    <2>1. Below(x) \in SUBSET S /\ x \notin Below(x)
      BY DEF TotalOn
    <2>2. IsFiniteSet(Below(x)) /\ Cardinality(Below(x)) <= N /\ Cardinality(Below(x)) # N
      BY <2>1, FS_Subset
    <2>3. Cardinality(Below(x)) \in Nat
      BY <2>2, FS_CardinalityType
    <2> QED
      BY <1>1, <2>2, <2>3
  <1>3. ASSUME NEW x \in S, NEW y \in S, <<x, y>> \in R
        PROVE  Cardinality(Below(x)) < Cardinality(Below(y))
    <2>1. Below(x) \in SUBSET Below(y) /\ x \in Below(y) /\ x \notin Below(x)
      BY <1>3 DEF TotalOn
    <2>2. IsFiniteSet(Below(y))
      BY <1>2
    <2> HIDE DEF Below
    <2>3. Cardinality(Below(x)) <= Cardinality(Below(y)) /\ Cardinality(Below(x)) # Cardinality(Below(y))
      BY <2>1, <2>2, FS_Subset
    <2> QED
      BY <1>2, <2>3
  <1> HIDE DEF N, Below
  <1>4. f \in [S -> 1..N]
    BY <1>1, <1>2
  <1>5. ASSUME NEW x \in S, NEW y \in S, Cardinality(Below(x)) = Cardinality(Below(y)) PROVE x = y
    <2>1. Cardinality(Below(x)) \in Nat /\ Cardinality(Below(y)) \in Nat
      BY <1>2
    <2>2. <<x, y>> \notin R /\ <<y, x>> \notin R
      BY <1>3, <1>5, <2>1
    <2> QED
      BY <2>2 DEF TotalOn
  <1>6. \A x, y \in S : f[x] = f[y] => x = y
    BY <1>2, <1>5
  <1>7. f \in Injection(S, 1..N)
    BY <1>4, <1>6 DEF Injection, IsInjective
  <1>8. IsFiniteSet(1..N) /\ Cardinality(1..N) = N
    BY <1>1, FS_Interval
  <1> HIDE DEF f
  <1>9. f \in Surjection(S, 1..N)
    BY <1>7, <1>8, FS_Injection DEF N
  <1>10. \A n \in 1..N : \E x \in S : f[x] = n
    BY <1>9 DEF Surjection
  <1>11. \A n \in 1..N : \E x \in S : Cardinality(Below(x)) = n - 1
    BY <1>1, <1>2, <1>10 DEF f
  <1>12. \A n \in 1..N : o[n] \in S /\ Cardinality(Below(o[n])) = n - 1
    BY <1>11
  <1>13. ASSUME NEW x \in S PROVE \E n \in 1..N : o[n] = x
    <2> DEFINE n == Cardinality(Below(x)) + 1
    <2>1. n \in 1..N /\ n - 1 = Cardinality(Below(x))
      BY <1>1, <1>2
    <2>2. o[n] = x
      BY <1>5, <1>12, <2>1
    <2> QED
      BY <2>1, <2>2
  <1>14. ASSUME NEW m \in 1..N, NEW n \in 1..N, m < n PROVE <<o[m], o[n]>> \in R
    <2>1. /\ o[m] \in S /\ o[n] \in S /\ o[m] # o[n]
          /\ Cardinality(Below(o[m])) < Cardinality(Below(o[n]))
      BY <1>1, <1>12, <1>14
    <2>2. Cardinality(Below(o[m])) \in Nat /\ Cardinality(Below(o[n])) \in Nat
      BY <1>2, <2>1
    <2>3. <<o[n], o[m]>> \in R => Cardinality(Below(o[n])) < Cardinality(Below(o[m]))
      BY <1>3, <2>1
    <2>4. <<o[n], o[m]>> \notin R
      BY <2>1, <2>2, <2>3
    <2> QED
      BY <2>1, <2>4 DEF TotalOn
  <1>15. Listing(S, R) = o
    BY DEF Listing, N, Below
  <1>16. o \in [1..N -> S]
    BY <1>12
  <1> HIDE DEF o
  <1> QED
    BY <1>1, <1>13, <1>14, <1>15, <1>16 DEF N

\* Numbers up to some number are listed in their order.
LEMMA AscendingHolds ==
    ASSUME NEW n \in Nat, NEW S \in SUBSET (1..n)
    PROVE  /\ Cardinality(S) \in Nat /\ Ascending(S) \in [1..Cardinality(S) -> S]
           /\ \A x \in S : \E k \in 1..Cardinality(S) : Ascending(S)[k] = x
           /\ \A k, l \in 1..Cardinality(S) : k < l => Ascending(S)[k] < Ascending(S)[l]
  <1> DEFINE R == {p \in S \X S : p[1] < p[2]}
  <1>1. IsFiniteSet(S)
    <2>1. IsFiniteSet(1..n)
      BY FS_Interval
    <2> QED
      BY <2>1, FS_Subset
  <1>2. \A x, y \in S : x \in Int /\ y \in Int /\ (<<x, y>> \in R <=> x < y)
    OBVIOUS
  <1> HIDE DEF R
  <1>3. TotalOn(R, S)
    BY <1>2 DEF TotalOn
  <1>4. Ascending(S) = Listing(S, R)
    BY DEF Ascending, R
  <1>5. /\ Cardinality(S) \in Nat /\ Listing(S, R) \in [1..Cardinality(S) -> S]
        /\ \A x \in S : \E k \in 1..Cardinality(S) : Listing(S, R)[k] = x
        /\ \A k, l \in 1..Cardinality(S) : k < l => <<Listing(S, R)[k], Listing(S, R)[l]>> \in R
    BY <1>1, <1>3, ListingHolds
  <1>6. \A k \in 1..Cardinality(S) : Listing(S, R)[k] \in S
    BY <1>5
  <1>7. \A k, l \in 1..Cardinality(S) : k < l => Listing(S, R)[k] < Listing(S, R)[l]
    BY <1>2, <1>5, <1>6
  <1> QED
    BY <1>4, <1>5, <1>7

LEMMA GreatestUpTo ==
    ASSUME NEW n \in Nat, NEW S \in SUBSET (1..n), S # {}
    PROVE  \E m \in S : \A j \in S : j <= m
  <1> DEFINE T == {n - k : k \in S}
  <1>1. T \in SUBSET Nat /\ T # {}
    OBVIOUS
  <1>2. PICK x \in T : \A y \in T : x <= y
    BY <1>1, LeastNatural
  <1>3. PICK m \in S : x = n - m
    BY <1>2
  <1>4. ASSUME NEW j \in S PROVE j <= m
    <2>1. n - m <= n - j
      BY <1>2, <1>3
    <2> QED
      BY <2>1
  <1> QED
    BY <1>4

\* What is assigned last to a key stands.
LEMMA AssignedLast ==
    ASSUME NEW n \in Nat, NEW entries, DOMAIN entries \subseteq 1..n, NEW i \in DOMAIN entries,
           \A j \in DOMAIN entries : entries[j].key = entries[i].key => j <= i
    PROVE  /\ entries[i].key \in DOMAIN Assigned(entries)
           /\ Assigned(entries)[entries[i].key] = entries[i].value
  <1> DEFINE k == entries[i].key
  <1>1. k \in {entries[j].key : j \in DOMAIN entries}
    OBVIOUS
  <1>2. LastOf(entries, k) = i
    <2>1. \A j \in DOMAIN entries :
             entries[j].key = k /\ (\A l \in DOMAIN entries : entries[l].key = k => l <= j) => j = i
      <3> TAKE j \in DOMAIN entries
      <3>1. j \in Int /\ i \in Int
        OBVIOUS
      <3> QED
        BY <3>1
    <2> QED
      BY <2>1 DEF LastOf
  <1> QED
    BY <1>1, <1>2 DEF Assigned

\* Every key has a last assignment.
LEMMA LastExists ==
    ASSUME NEW n \in Nat, NEW entries, DOMAIN entries \subseteq 1..n, NEW k \in DOMAIN Assigned(entries)
    PROVE  \E i \in DOMAIN entries :
              /\ entries[i].key = k /\ Assigned(entries)[k] = entries[i].value
              /\ \A j \in DOMAIN entries : entries[j].key = k => j <= i
  <1> DEFINE S == {j \in DOMAIN entries : entries[j].key = k}
  <1>1. S \in SUBSET (1..n) /\ S # {}
    BY DEF Assigned
  <1>2. PICK i \in S : \A j \in S : j <= i
    BY <1>1, GreatestUpTo
  <1>3. i \in DOMAIN entries /\ entries[i].key = k /\ \A j \in DOMAIN entries : entries[j].key = k => j <= i
    BY <1>2
  <1> QED
    BY <1>3, AssignedLast

LEMMA AssignedKeys ==
    ASSUME NEW entries
    PROVE  \A k : k \in DOMAIN Assigned(entries) <=> \E i \in DOMAIN entries : entries[i].key = k
  BY DEF Assigned

\* The places where the keys of an object were assigned first.
FirstPlaces(O, entries, n, N, first) ==
    /\ first \in [1..N -> 1..n] /\ DOMAIN O = 1..N
    /\ \A m \in 1..N :
          /\ O[m].key = entries[first[m]].key
          /\ O[m].value = Assigned(entries)[O[m].key]
          /\ \A j \in 1..n : entries[j].key = O[m].key => first[m] <= j
    /\ \A l, m \in 1..N : l < m => first[l] < first[m]
    /\ \A i \in 1..n : \E m \in 1..N : O[m].key = entries[i].key

\* An object is as many of its entries' keys, where they were assigned first.
LEMMA ObjectHolds ==
    ASSUME NEW n \in Nat, NEW entries, DOMAIN entries = 1..n, NEW O, O = Object(entries)
    PROVE  \E N \in Nat : \E first : FirstPlaces(O, entries, n, N, first)
  <1> DEFINE S == Firsts(entries)
             N == Cardinality(S)
             o == Ascending(S)
  <1>1. S \in SUBSET (1..n)
    BY DEF Firsts
  <1>2. /\ N \in Nat /\ o \in [1..N -> S]
        /\ \A x \in S : \E k \in 1..N : o[k] = x
        /\ \A k, l \in 1..N : k < l => o[k] < o[l]
    BY <1>1, AscendingHolds
  <1>3. \A k \in 1..N : o[k] \in S /\ o[k] \in 1..n
    BY <1>1, <1>2
  <1>4. O = [m \in DOMAIN o |-> [key |-> entries[o[m]].key, value |-> Assigned(entries)[entries[o[m]].key]]]
    BY DEF Object
  <1>5. DOMAIN o = 1..N
    BY <1>2
  <1> HIDE DEF N, o
  <1>6. ASSUME NEW m \in 1..N
        PROVE  /\ O[m].key = entries[o[m]].key /\ O[m].value = Assigned(entries)[O[m].key]
               /\ \A j \in 1..n : entries[j].key = O[m].key => o[m] <= j
    <2>1. O[m].key = entries[o[m]].key /\ O[m].value = Assigned(entries)[O[m].key]
      BY <1>4, <1>5
    <2>2. o[m] \in 1..n /\ \A j \in 1..o[m] - 1 : entries[j].key # entries[o[m]].key
      BY <1>3 DEF Firsts
    <2>3. ASSUME NEW j \in 1..n, entries[j].key = O[m].key PROVE o[m] <= j
      <3>1. j < o[m] => j \in 1..o[m] - 1
        BY <2>2
      <3> QED
        BY <2>1, <2>2, <2>3, <3>1
    <2> QED
      BY <2>1, <2>3
  <1>7. ASSUME NEW i \in 1..n PROVE \E m \in 1..N : O[m].key = entries[i].key
    <2> DEFINE T == {j \in 1..n : entries[j].key = entries[i].key}
    <2>1. T \in SUBSET Nat /\ T # {}
      OBVIOUS
    <2>2. PICK x \in T : \A y \in T : x <= y
      BY <2>1, LeastNatural
    <2>3. x \in 1..n /\ entries[x].key = entries[i].key /\ \A j \in 1..n : entries[j].key = entries[i].key => x <= j
      BY <2>2
    <2>4. x \in S
      BY <2>3 DEF Firsts
    <2>5. PICK m \in 1..N : o[m] = x
      BY <1>2, <2>4
    <2> QED
      BY <1>6, <2>3, <2>5
  <1>8. o \in [1..N -> 1..n]
    BY <1>2, <1>3
  <1>9. DOMAIN O = 1..N
    BY <1>4, <1>5
  <1>10. \A l, m \in 1..N : l < m => o[l] < o[m]
    BY <1>2
  <1> HIDE DEF S
  <1>11. /\ N \in Nat /\ o \in [1..N -> 1..n] /\ DOMAIN O = 1..N
         /\ \A m \in 1..N :
               /\ O[m].key = entries[o[m]].key
               /\ O[m].value = Assigned(entries)[O[m].key]
               /\ \A j \in 1..n : entries[j].key = O[m].key => o[m] <= j
         /\ \A l, m \in 1..N : l < m => o[l] < o[m]
         /\ \A i \in 1..n : \E m \in 1..N : O[m].key = entries[i].key
    BY <1>2, <1>6, <1>7, <1>8, <1>9, <1>10
  <1> QED
    BY <1>11 DEF FirstPlaces

-----------------------------------------------------------------------------
(***************************************************************************)
(* What the sections of scopes leave in a joint object.                    *)
(***************************************************************************)
AreSections(sections) ==
    DOMAIN sections \subseteq Range(ScopeOrder) /\ \A s \in DOMAIN sections : IsSection(sections[s])

\* The entries of one section, under their joint keys.
Prefixed(s, section) ==
    [j \in DOMAIN section |-> [key |-> Joint(s, section[j].key), value |-> section[j].value]]

\* No other scope has the joint key.
Alone(sections, s, k) ==
    \A t \in DOMAIN sections \ {s} : \A j \in DOMAIN sections[t] : Joint(t, sections[t][j].key) # k

LEMMA SectionEntries ==
    ASSUME NEW section, IsSection(section)
    PROVE  /\ Len(section) \in Nat /\ DOMAIN section = 1..Len(section)
           /\ \A j \in DOMAIN section : section[j] \in Range(section) /\ IsName(section[j].key)
  BY DEF IsSection, Range

LEMMA SectionFinite ==
    ASSUME NEW section, IsSection(section)
    PROVE  IsFiniteSet(DOMAIN section)
  <1>1. Len(section) \in Nat /\ DOMAIN section = 1..Len(section)
    BY SectionEntries
  <1>2. IsFiniteSet(1..Len(section))
    BY <1>1, FS_Interval
  <1> QED
    BY <1>1, <1>2

LEMMA ScopePlaces ==
    /\ Len(ScopeOrder) \in Nat /\ DOMAIN ScopeOrder = 1..Len(ScopeOrder)
    /\ \A i, j \in DOMAIN ScopeOrder : ScopeOrder[i] = ScopeOrder[j] => i = j
    /\ \A s \in Range(ScopeOrder) : IsName(s) /\ \E i \in DOMAIN ScopeOrder : ScopeOrder[i] = s
  BY ScopesAssumption DEF Range

LEMMA PlaceOf ==
    ASSUME NEW sections, NEW p
    PROVE  p \in Places(sections) <=>
              \E i \in DOMAIN ScopeOrder :
                 ScopeOrder[i] \in DOMAIN sections /\ \E j \in DOMAIN sections[ScopeOrder[i]] : p = <<i, j>>
  BY DEF Places

LEMMA PlacesFinite ==
    ASSUME NEW sections, AreSections(sections)
    PROVE  IsFiniteSet(Places(sections))
  <1> DEFINE I == {i \in DOMAIN ScopeOrder : ScopeOrder[i] \in DOMAIN sections}
             f == [i \in I |-> {i} \X DOMAIN sections[ScopeOrder[i]]]
             U == {{i} \X DOMAIN sections[ScopeOrder[i]] : i \in I}
  <1>1. IsFiniteSet(I)
    <2>1. IsFiniteSet(DOMAIN ScopeOrder)
      BY ScopePlaces, FS_Interval
    <2> QED
      BY <2>1, FS_Subset
  <1>2. f \in Surjection(I, U)
    BY DEF Surjection
  <1>3. IsFiniteSet(U)
    BY <1>1, <1>2, FS_Surjection
  <1>4. ASSUME NEW T \in U PROVE IsFiniteSet(T)
    <2>1. PICK i \in I : T = {i} \X DOMAIN sections[ScopeOrder[i]]
      OBVIOUS
    <2>2. IsSection(sections[ScopeOrder[i]])
      BY DEF AreSections
    <2>3. IsFiniteSet(DOMAIN sections[ScopeOrder[i]])
      BY <2>2, SectionFinite
    <2> QED
      BY <2>1, <2>3, FS_Singleton, FS_Product
  <1>5. Places(sections) = UNION U
    BY DEF Places
  <1> HIDE DEF U
  <1> QED
    BY <1>3, <1>4, <1>5, FS_UNION

\* Assignments stand in the order of the scopes and, within one, of its entries.
LEMMA AssignmentsHold ==
    ASSUME NEW sections, AreSections(sections)
    PROVE  \E N \in Nat : \E place \in [1..N -> Places(sections)] :
              /\ DOMAIN Assignments(sections) = 1..N
              /\ \A n \in 1..N :
                    LET e == sections[ScopeOrder[place[n][1]]][place[n][2]]
                    IN  /\ Assignments(sections)[n].key = Joint(ScopeOrder[place[n][1]], e.key)
                        /\ Assignments(sections)[n].value = e.value
              /\ \A p \in Places(sections) : \E n \in 1..N : place[n] = p
              /\ \A m, n \in 1..N : m < n /\ place[m][1] = place[n][1] => place[m][2] < place[n][2]
  <1> DEFINE P == Places(sections)
             R == {p \in P \X P : p[1][1] < p[2][1] \/ (p[1][1] = p[2][1] /\ p[1][2] < p[2][2])}
             N == Cardinality(P)
             place == InTurn(P)
  <1>1. \A p \in P : p = <<p[1], p[2]>> /\ p[1] \in Int /\ p[2] \in Int
    <2> TAKE p \in P
    <2>1. PICK i \in DOMAIN ScopeOrder : ScopeOrder[i] \in DOMAIN sections
                                         /\ \E j \in DOMAIN sections[ScopeOrder[i]] : p = <<i, j>>
      BY PlaceOf
    <2>2. IsSection(sections[ScopeOrder[i]])
      BY <2>1 DEF AreSections
    <2>3. DOMAIN sections[ScopeOrder[i]] \subseteq Int /\ i \in Int
      BY <2>2, SectionEntries, ScopePlaces
    <2> QED
      BY <2>1, <2>3
  <1>2. \A p, q \in P : <<p, q>> \in R <=> p[1] < q[1] \/ (p[1] = q[1] /\ p[2] < q[2])
    OBVIOUS
  <1>3. IsFiniteSet(P)
    BY PlacesFinite
  <1>4. place = Listing(P, R)
    BY DEF InTurn
  <1> HIDE DEF R, P
  <1>5. TotalOn(R, P)
    <2>1. \A p \in P : <<p, p>> \notin R
      BY <1>1, <1>2
    <2>2. ASSUME NEW p \in P, NEW q \in P, p # q PROVE <<p, q>> \in R \/ <<q, p>> \in R
      <3>1. p[1] # q[1] \/ p[2] # q[2]
        BY <1>1, <2>2
      <3>2. p[1] \in Int /\ p[2] \in Int /\ q[1] \in Int /\ q[2] \in Int
        BY <1>1
      <3> QED
        BY <1>2, <3>1, <3>2
    <2>3. ASSUME NEW p \in P, NEW q \in P, NEW r \in P, <<p, q>> \in R, <<q, r>> \in R
          PROVE  <<p, r>> \in R
      <3>1. p[1] \in Int /\ p[2] \in Int /\ q[1] \in Int /\ q[2] \in Int /\ r[1] \in Int /\ r[2] \in Int
        BY <1>1
      <3> QED
        BY <1>2, <2>3, <3>1
    <2> QED
      BY <2>1, <2>2, <2>3 DEF TotalOn
  <1>6. /\ N \in Nat /\ place \in [1..N -> P]
        /\ \A p \in P : \E n \in 1..N : place[n] = p
        /\ \A m, n \in 1..N : m < n => <<place[m], place[n]>> \in R
    BY <1>3, <1>4, <1>5, ListingHolds
  <1>7. ASSUME NEW m \in 1..N, NEW n \in 1..N, m < n, place[m][1] = place[n][1]
        PROVE  place[m][2] < place[n][2]
    <2>1. place[m] \in P /\ place[n] \in P /\ <<place[m], place[n]>> \in R
      BY <1>6, <1>7
    <2>2. place[m][1] \in Int /\ place[n][1] \in Int
      BY <1>1, <2>1
    <2> QED
      BY <1>2, <1>7, <2>1, <2>2
  <1>8. DOMAIN place = 1..N
    BY <1>6
  <1>9. Assignments(sections) =
           [n \in DOMAIN place |->
              [key   |-> Joint(ScopeOrder[place[n][1]], sections[ScopeOrder[place[n][1]]][place[n][2]].key),
               value |-> sections[ScopeOrder[place[n][1]]][place[n][2]].value]]
    BY DEF Assignments, P
  <1> HIDE DEF place, N
  <1>10. /\ DOMAIN Assignments(sections) = 1..N
         /\ \A n \in 1..N :
               /\ Assignments(sections)[n].key =
                    Joint(ScopeOrder[place[n][1]], sections[ScopeOrder[place[n][1]]][place[n][2]].key)
               /\ Assignments(sections)[n].value = sections[ScopeOrder[place[n][1]]][place[n][2]].value
    <2>1. DOMAIN Assignments(sections) = 1..N
      BY <1>8, <1>9
    <2>2. ASSUME NEW n \in 1..N
          PROVE  Assignments(sections)[n] =
                    [key   |-> Joint(ScopeOrder[place[n][1]], sections[ScopeOrder[place[n][1]]][place[n][2]].key),
                     value |-> sections[ScopeOrder[place[n][1]]][place[n][2]].value]
      BY <1>8, <1>9
    <2>3. ASSUME NEW n \in 1..N
          PROVE  /\ Assignments(sections)[n].key =
                       Joint(ScopeOrder[place[n][1]], sections[ScopeOrder[place[n][1]]][place[n][2]].key)
                 /\ Assignments(sections)[n].value = sections[ScopeOrder[place[n][1]]][place[n][2]].value
      <3> DEFINE e == Assignments(sections)[n]
                 k == Joint(ScopeOrder[place[n][1]], sections[ScopeOrder[place[n][1]]][place[n][2]].key)
                 v == sections[ScopeOrder[place[n][1]]][place[n][2]].value
      <3>1. e = [key |-> k, value |-> v]
        BY <2>2
      <3> HIDE DEF e, k, v
      <3>2. e.key = k /\ e.value = v
        BY <3>1
      <3> QED
        BY <3>2 DEF e, k, v
    <2> QED
      BY <2>1, <2>3
  <1> QED
    BY <1>6, <1>7, <1>10 DEF P

\* Where no other scope has the joint key, it holds what the scope's own section assigns.
LEMMA JoinedOwn ==
    ASSUME NEW sections, AreSections(sections), NEW s \in DOMAIN sections, NEW k, Alone(sections, s, k)
    PROVE  /\ k \in DOMAIN Assigned(Assignments(sections)) <=> k \in DOMAIN Assigned(Prefixed(s, sections[s]))
           /\ k \in DOMAIN Assigned(Prefixed(s, sections[s])) =>
                Assigned(Assignments(sections))[k] = Assigned(Prefixed(s, sections[s]))[k]
  <1> DEFINE A == Assignments(sections)
             Q == Prefixed(s, sections[s])
  <1>1. PICK N \in Nat : \E place \in [1..N -> Places(sections)] :
              /\ DOMAIN A = 1..N
              /\ \A n \in 1..N :
                    LET e == sections[ScopeOrder[place[n][1]]][place[n][2]]
                    IN  A[n].key = Joint(ScopeOrder[place[n][1]], e.key) /\ A[n].value = e.value
              /\ \A p \in Places(sections) : \E n \in 1..N : place[n] = p
              /\ \A m, n \in 1..N : m < n /\ place[m][1] = place[n][1] => place[m][2] < place[n][2]
    BY AssignmentsHold
  <1>2. PICK place \in [1..N -> Places(sections)] :
              /\ DOMAIN A = 1..N
              /\ \A n \in 1..N :
                    LET e == sections[ScopeOrder[place[n][1]]][place[n][2]]
                    IN  A[n].key = Joint(ScopeOrder[place[n][1]], e.key) /\ A[n].value = e.value
              /\ \A p \in Places(sections) : \E n \in 1..N : place[n] = p
              /\ \A m, n \in 1..N : m < n /\ place[m][1] = place[n][1] => place[m][2] < place[n][2]
    BY <1>1
  <1>3. s \in Range(ScopeOrder) /\ IsSection(sections[s])
    BY DEF AreSections
  <1>4. PICK i \in DOMAIN ScopeOrder : ScopeOrder[i] = s
    BY <1>3, ScopePlaces
  <1>5. /\ Len(sections[s]) \in Nat /\ DOMAIN sections[s] = 1..Len(sections[s])
        /\ DOMAIN Q = 1..Len(sections[s])
        /\ \A j \in DOMAIN Q : Q[j].key = Joint(s, sections[s][j].key) /\ Q[j].value = sections[s][j].value
    BY <1>3, SectionEntries DEF Prefixed
  <1> HIDE DEF A, Q
  \* What is assigned to the key stands in the section.
  <1>6. ASSUME NEW n \in 1..N, A[n].key = k
        PROVE  place[n][1] = i /\ place[n][2] \in DOMAIN Q /\ Q[place[n][2]].key = k
    <2>1. place[n] \in Places(sections)
      OBVIOUS
    <2>2. PICK h \in DOMAIN ScopeOrder :
             ScopeOrder[h] \in DOMAIN sections /\ \E j \in DOMAIN sections[ScopeOrder[h]] : place[n] = <<h, j>>
      BY <2>1, PlaceOf
    <2>3. PICK j \in DOMAIN sections[ScopeOrder[h]] : place[n] = <<h, j>>
      BY <2>2
    <2>4. A[n].key = Joint(ScopeOrder[h], sections[ScopeOrder[h]][j].key)
      BY <1>2, <2>3
    <2>5. ScopeOrder[h] = s
      BY <1>6, <2>2, <2>3, <2>4 DEF Alone
    <2>6. h = i
      BY <1>4, <2>5, ScopePlaces
    <2> QED
      BY <1>5, <1>6, <2>3, <2>4, <2>5, <2>6
  <1>7. ASSUME NEW j \in DOMAIN Q
        PROVE  \E n \in 1..N : place[n] = <<i, j>> /\ A[n].key = Q[j].key /\ A[n].value = Q[j].value
    <2>1. <<i, j>> \in Places(sections)
      BY <1>4, <1>5, PlaceOf
    <2>2. PICK n \in 1..N : place[n] = <<i, j>>
      BY <1>2, <2>1
    <2> QED
      BY <1>2, <1>4, <1>5, <2>2
  <1>8. ASSUME k \in DOMAIN Assigned(A) PROVE k \in DOMAIN Assigned(Q)
    <2>1. PICK n \in DOMAIN A : A[n].key = k
      BY <1>8, AssignedKeys
    <2>2. place[n][2] \in DOMAIN Q /\ Q[place[n][2]].key = k
      BY <1>2, <1>6, <2>1
    <2> QED
      BY <2>2, AssignedKeys
  <1>9. ASSUME k \in DOMAIN Assigned(Q)
        PROVE  k \in DOMAIN Assigned(A) /\ Assigned(A)[k] = Assigned(Q)[k]
    <2>1. PICK j \in DOMAIN Q :
             /\ Q[j].key = k /\ Assigned(Q)[k] = Q[j].value
             /\ \A l \in DOMAIN Q : Q[l].key = k => l <= j
      <3>1. Len(sections[s]) \in Nat /\ DOMAIN Q \subseteq 1..Len(sections[s])
        BY <1>5
      <3> QED
        BY <1>9, <3>1, LastExists
    <2>2. PICK n \in 1..N : place[n] = <<i, j>> /\ A[n].key = k /\ A[n].value = Q[j].value
      BY <1>7, <2>1
    <2>3. ASSUME NEW m \in DOMAIN A, A[m].key = A[n].key PROVE m <= n
      <3>1. m \in 1..N /\ place[m][1] = i /\ place[m][2] \in DOMAIN Q /\ Q[place[m][2]].key = k
        BY <1>2, <1>6, <2>2, <2>3
      <3>2. place[m][2] <= j
        BY <2>1, <3>1
      <3>3. n < m => j < place[m][2]
        BY <1>2, <2>2, <3>1
      <3>4. j \in Int /\ place[m][2] \in Int
        BY <1>5, <3>1
      <3> QED
        BY <3>1, <3>2, <3>3, <3>4
    <2>4. A[n].key \in DOMAIN Assigned(A) /\ Assigned(A)[A[n].key] = A[n].value
      <3>1. DOMAIN A \subseteq 1..N /\ n \in DOMAIN A
        BY <1>2
      <3> QED
        BY <2>3, <3>1, AssignedLast
    <2> QED
      BY <2>1, <2>2, <2>4
  <1> QED
    BY <1>8, <1>9 DEF A, Q

-----------------------------------------------------------------------------
(***************************************************************************)
(* Names, and objects made of objects.                                     *)
(***************************************************************************)
IsSequence(s) == s \in Seq(Range(s))

LEMMA SequenceOf ==
    ASSUME NEW n \in Nat, NEW s, DOMAIN s = 1..n, s = [i \in 1..n |-> s[i]]
    PROVE  IsSequence(s) /\ s \in Seq(Range(s)) /\ Len(s) = n
  <1>1. s \in [1..n -> Range(s)]
    BY DEF Range
  <1> HIDE DEF Range
  <1> QED
    BY <1>1 DEF IsSequence

LEMMA ConcatHolds ==
    ASSUME NEW s, NEW t, IsSequence(s), IsSequence(t), NEW u, u = s \o t
    PROVE  /\ Len(s) \in Nat /\ Len(t) \in Nat
           /\ DOMAIN s = 1..Len(s) /\ DOMAIN t = 1..Len(t)
           /\ DOMAIN u = 1..Len(s) + Len(t) /\ Len(u) = Len(s) + Len(t)
           /\ \A i \in 1..Len(s) : u[i] = s[i]
           /\ \A i \in 1..Len(t) : u[Len(s) + i] = t[i]
  <1> DEFINE S == Range(s) \cup Range(t)
  <1>1. /\ Len(s) \in Nat /\ Len(t) \in Nat
        /\ s \in [1..Len(s) -> Range(s)] /\ t \in [1..Len(t) -> Range(t)]
    BY DEF IsSequence
  <1>2. s \in [1..Len(s) -> S] /\ t \in [1..Len(t) -> S]
    BY <1>1
  <1> HIDE DEF S
  <1>3. s \in Seq(S) /\ t \in Seq(S)
    BY <1>1, <1>2, SeqDef
  <1> QED
    BY <1>1, <1>3

LEMMA NameLength ==
    ASSUME NEW name, IsName(name)
    PROVE  Len(name) \in Nat /\ Len(name) >= 1 /\ DOMAIN name = 1..Len(name)
  BY DEF IsName

\* What follows the scope in a joint key.
GoesOn(joint, s, k) ==
    \A j \in 1..Len(k) :
        joint[Len(s) + j] = [text |-> CamelCase(k)[j].text, form |-> IF j = 1 THEN "Cap" ELSE CamelCase(k)[j].form]

\* A joint key is the scope in camel case, and the key in camel case with a capital.
LEMMA JointPieces ==
    ASSUME NEW s, IsName(s), NEW k, IsName(k)
    PROVE  /\ Joint(s, k) \in Seq(Range(Joint(s, k)))
           /\ Len(Joint(s, k)) = Len(s) + Len(k) /\ DOMAIN Joint(s, k) = 1..Len(s) + Len(k)
           /\ \A i \in 1..Len(s) : Joint(s, k)[i] = CamelCase(s)[i]
           /\ GoesOn(Joint(s, k), s, k)
  <1> DEFINE t == Separated(k)
             u == s \o t
  <1>1. Len(s) \in Nat /\ Len(s) >= 1 /\ DOMAIN s = 1..Len(s) /\ IsSequence(s)
    BY NameLength DEF IsName, IsSequence
  <1>2. Len(k) \in Nat /\ Len(k) >= 1 /\ DOMAIN k = 1..Len(k)
    BY NameLength
  <1>3. DOMAIN t = 1..Len(k) /\ t = [i \in 1..Len(k) |-> t[i]]
    BY <1>2 DEF Separated
  <1>4. IsSequence(t) /\ Len(t) = Len(k)
    BY <1>2, <1>3, SequenceOf
  <1>5. \A j \in 1..Len(k) : t[j].text = k[j].text /\ t[j].form = IF j = 1 THEN "sep" ELSE k[j].form
    BY <1>2 DEF Separated
  <1> HIDE DEF t
  <1>6. /\ DOMAIN u = 1..Len(s) + Len(k) /\ \A i \in 1..Len(s) : u[i] = s[i]
        /\ \A j \in 1..Len(k) : u[Len(s) + j] = t[j]
    <2>1. u = s \o t
      OBVIOUS
    <2> HIDE DEF u
    <2>2. DOMAIN u = 1..Len(s) + Len(t)
      BY <1>1, <1>4, <2>1, ConcatHolds
    <2>3. \A i \in 1..Len(s) : u[i] = s[i]
      BY <1>1, <1>4, <2>1, ConcatHolds
    <2>4. \A i \in 1..Len(t) : u[Len(s) + i] = t[i]
      BY <1>1, <1>4, <2>1, ConcatHolds
    <2> QED
      BY <1>4, <2>2, <2>3, <2>4
  <1>7. Joint(s, k) = CamelCase(u)
    BY DEF Joint, t
  <1> HIDE DEF u
  <1>8. /\ DOMAIN Joint(s, k) = 1..Len(s) + Len(k)
        /\ \A i \in 1..Len(s) + Len(k) :
              Joint(s, k)[i] =
                [text |-> u[i].text, form |-> IF i > 1 /\ u[i].form \in {"Cap", "sep"} THEN "Cap" ELSE "low"]
    BY <1>6, <1>7 DEF CamelCase
  <1>9. Joint(s, k) = [i \in 1..Len(s) + Len(k) |-> Joint(s, k)[i]]
    BY <1>6, <1>7 DEF CamelCase
  <1>10. Joint(s, k) \in Seq(Range(Joint(s, k))) /\ Len(Joint(s, k)) = Len(s) + Len(k)
    <2>1. Len(s) + Len(k) \in Nat
      BY <1>1, <1>2
    <2> HIDE DEF u
    <2>2. DOMAIN Joint(s, k) = 1..Len(s) + Len(k)
      BY <1>8
    <2> QED
      BY <2>1, <2>2, <1>9, SequenceOf
  <1>11. ASSUME NEW i \in 1..Len(s) PROVE Joint(s, k)[i] = CamelCase(s)[i]
    BY <1>1, <1>2, <1>6, <1>8 DEF CamelCase
  <1>12. ASSUME NEW j \in 1..Len(k)
         PROVE  Joint(s, k)[Len(s) + j] =
                  [text |-> CamelCase(k)[j].text, form |-> IF j = 1 THEN "Cap" ELSE CamelCase(k)[j].form]
    <2>1. /\ Len(s) + j \in 1..Len(s) + Len(k) /\ Len(s) + j > 1 /\ u[Len(s) + j] = t[j]
          /\ j \in DOMAIN k /\ (j > 1 <=> j # 1)
      BY <1>1, <1>2, <1>6
    <2>2. Joint(s, k)[Len(s) + j] =
             [text |-> t[j].text, form |-> IF t[j].form \in {"Cap", "sep"} THEN "Cap" ELSE "low"]
      BY <1>8, <2>1
    <2>3. CamelCase(k)[j].text = k[j].text
          /\ CamelCase(k)[j].form = IF j > 1 /\ k[j].form \in {"Cap", "sep"} THEN "Cap" ELSE "low"
      BY <2>1 DEF CamelCase
    <2> QED
      BY <1>5, <2>1, <2>2, <2>3
  <1>13. GoesOn(Joint(s, k), s, k)
    BY <1>12 DEF GoesOn
  <1> QED
    BY <1>8, <1>10, <1>11, <1>13

LEMMA JointRest ==
    ASSUME NEW s, IsName(s), NEW k, IsName(k), NEW j \in 1..Len(k)
    PROVE  Joint(s, k)[Len(s) + j] =
              [text |-> CamelCase(k)[j].text, form |-> IF j = 1 THEN "Cap" ELSE CamelCase(k)[j].form]
  <1>1. GoesOn(Joint(s, k), s, k)
    BY JointPieces
  <1> QED
    BY <1>1 DEF GoesOn

\* A joint key is read back in camel case.
LEMMA JointReadsBack ==
    ASSUME NEW s, IsName(s), NEW k, IsName(k)
    PROVE  BeginsWith(Joint(s, k), s) /\ Strip(s, Joint(s, k)) = CamelCase(k)
  <1>1. /\ Len(s) \in Nat /\ Len(s) >= 1 /\ DOMAIN s = 1..Len(s)
        /\ Len(k) \in Nat /\ Len(k) >= 1 /\ DOMAIN k = 1..Len(k)
    <2>1. Len(s) \in Nat /\ Len(s) >= 1 /\ DOMAIN s = 1..Len(s)
      BY NameLength
    <2>2. Len(k) \in Nat /\ Len(k) >= 1 /\ DOMAIN k = 1..Len(k)
      BY NameLength
    <2> QED
      BY <2>1, <2>2
  <1> DEFINE J == Joint(s, k)
             c == CamelCase(k)
  <1>2. /\ Len(J) = Len(s) + Len(k) /\ \A i \in 1..Len(s) : J[i] = CamelCase(s)[i]
        /\ \A j \in 1..Len(k) :
              J[Len(s) + j] = [text |-> c[j].text, form |-> IF j = 1 THEN "Cap" ELSE c[j].form]
    <2>1. Len(J) = Len(s) + Len(k)
      BY JointPieces
    <2>2. \A i \in 1..Len(s) : J[i] = CamelCase(s)[i]
      BY JointPieces
    <2>3. \A j \in 1..Len(k) :
             J[Len(s) + j] = [text |-> c[j].text, form |-> IF j = 1 THEN "Cap" ELSE c[j].form]
      BY JointRest
    <2> QED
      BY <2>1, <2>2, <2>3
  <1>3. \A j \in 1..Len(k) : c[j] = [text |-> c[j].text, form |-> c[j].form] /\ (j = 1 => c[j].form = "low")
    BY <1>1 DEF CamelCase
  <1>4. c = [j \in 1..Len(k) |-> c[j]]
    BY <1>1 DEF CamelCase
  <1> HIDE DEF J, c
  <1>5. BeginsWith(J, s)
    BY <1>1, <1>2 DEF BeginsWith
  <1>6. Len(J) - Len(s) = Len(k)
    BY <1>1, <1>2
  <1>7. Strip(s, J) = [j \in 1..Len(k) |->
                         [text |-> J[Len(s) + j].text, form |-> IF j = 1 THEN "low" ELSE J[Len(s) + j].form]]
    BY <1>6 DEF Strip
  <1>8. ASSUME NEW j \in 1..Len(k)
        PROVE  [text |-> J[Len(s) + j].text, form |-> IF j = 1 THEN "low" ELSE J[Len(s) + j].form] = c[j]
    <2>1. J[Len(s) + j] = [text |-> c[j].text, form |-> IF j = 1 THEN "Cap" ELSE c[j].form]
      BY <1>2
    <2>2. c[j] = [text |-> c[j].text, form |-> c[j].form] /\ (j = 1 => c[j].form = "low")
      BY <1>3
    <2>3. /\ J[Len(s) + j].text = c[j].text
          /\ J[Len(s) + j].form = IF j = 1 THEN "Cap" ELSE c[j].form
      BY <2>1
    <2>4. (IF j = 1 THEN "low" ELSE J[Len(s) + j].form) = c[j].form
      BY <2>2, <2>3
    <2> QED
      BY <2>2, <2>3, <2>4
  <1>9. Strip(s, J) = c
    BY <1>4, <1>7, <1>8
  <1> QED
    BY <1>5, <1>9 DEF J, c

LEMMA JointsMeet ==
    ASSUME NEW s, IsName(s), NEW k, IsName(k), NEW l, IsName(l)
    PROVE  Joint(s, k) = Joint(s, l) <=> CamelCase(k) = CamelCase(l)
  <1>1. Joint(s, k) = Joint(s, l) => CamelCase(k) = CamelCase(l)
    BY JointReadsBack
  <1>2. ASSUME CamelCase(k) = CamelCase(l) PROVE Joint(s, k) = Joint(s, l)
    <2>1. Len(k) \in Nat /\ Len(l) \in Nat /\ Len(s) \in Nat /\ DOMAIN k = 1..Len(k) /\ DOMAIN l = 1..Len(l)
      BY NameLength
    <2>2. DOMAIN k = DOMAIN l
      BY <1>2 DEF CamelCase
    <2>3. Len(k) = Len(l)
      <3>1. 1..Len(k) = 1..Len(l)
        BY <2>1, <2>2, Zenon
      <3>2. \A i \in Nat : i >= 1 => (i <= Len(k) <=> i <= Len(l))
        <4> TAKE i \in Nat
        <4>1. i \in 1..Len(k) <=> i \in 1..Len(l)
          BY <3>1, Zenon
        <4> QED
          BY <2>1, <4>1
      <3>3. Len(k) >= 1 /\ Len(l) >= 1 /\ Len(k) <= Len(k) /\ Len(l) <= Len(l)
        BY <2>1, NameLength
      <3>4. Len(k) \in Nat /\ Len(l) \in Nat
        BY <2>1
      <3>5. Len(k) <= Len(l) /\ Len(l) <= Len(k)
        BY <3>2, <3>3, <3>4
      <3> QED
        BY <3>4, <3>5
    <2>4. /\ Joint(s, k) \in Seq(Range(Joint(s, k))) /\ Joint(s, l) \in Seq(Range(Joint(s, l)))
          /\ DOMAIN Joint(s, k) = 1..Len(s) + Len(k) /\ DOMAIN Joint(s, l) = 1..Len(s) + Len(k)
      BY <2>3, JointPieces
    <2>5. ASSUME NEW i \in 1..Len(s) + Len(k) PROVE Joint(s, k)[i] = Joint(s, l)[i]
      <3>1. CASE i \in 1..Len(s)
        BY <3>1, JointPieces
      <3>2. CASE i \notin 1..Len(s)
        <4>1. i - Len(s) \in 1..Len(k) /\ i = Len(s) + (i - Len(s))
          BY <2>1, <3>2
        <4> DEFINE j == i - Len(s)
        <4>2. Joint(s, k)[Len(s) + j] =
                 [text |-> CamelCase(k)[j].text, form |-> IF j = 1 THEN "Cap" ELSE CamelCase(k)[j].form]
          BY <4>1, JointRest
        <4>3. Joint(s, l)[Len(s) + j] =
                 [text |-> CamelCase(l)[j].text, form |-> IF j = 1 THEN "Cap" ELSE CamelCase(l)[j].form]
          BY <2>3, <4>1, JointRest
        <4> QED
          BY <1>2, <4>1, <4>2, <4>3
      <3> QED
        BY <3>1, <3>2
    <2> QED
      BY <2>1, <2>4, <2>5
  <1> QED
    BY <1>1, <1>2

\* The values of f, and under them those of g.
IsOver(x, f, g) ==
    /\ \A k : k \in DOMAIN x <=> k \in DOMAIN g \/ k \in DOMAIN f
    /\ \A k \in DOMAIN f : x[k] = f[k]
    /\ \A k \in DOMAIN g : k \notin DOMAIN f => x[k] = g[k]

\* Assignments after others win.
LEMMA ConcatAssigned ==
    ASSUME NEW a, IsSequence(a), NEW b, IsSequence(b), NEW u, u = a \o b
    PROVE  IsOver(Assigned(u), Assigned(b), Assigned(a))
  <1>1. Len(a) \in Nat /\ Len(b) \in Nat /\ DOMAIN a = 1..Len(a) /\ DOMAIN b = 1..Len(b)
    BY ConcatHolds
  <1>2. DOMAIN u = 1..Len(a) + Len(b)
    BY ConcatHolds
  <1>3. \A i \in 1..Len(a) : u[i] = a[i]
    BY ConcatHolds
  <1>4. \A i \in 1..Len(b) : u[Len(a) + i] = b[i]
    BY ConcatHolds
  <1> DEFINE m == Len(a)
             n == Len(b)
  <1>5. m \in Nat /\ n \in Nat /\ m + n \in Nat
    BY <1>1
  <1> HIDE DEF m, n
  <1>6. \A i \in 1..m + n : (i \in 1..m /\ u[i] = a[i]) \/ (i - m \in 1..n /\ u[i] = b[i - m])
    <2> TAKE i \in 1..m + n
    <2>1. CASE i <= m
      BY <1>3, <1>5, <2>1 DEF m
    <2>2. CASE ~(i <= m)
      <3>1. i - m \in 1..n /\ m + (i - m) = i
        BY <1>5, <2>2
      <3>2. u[m + (i - m)] = b[i - m]
        BY <1>4, <3>1 DEF m, n
      <3> QED
        BY <3>1, <3>2
    <2> QED
      BY <2>1, <2>2
  <1>7. \A i \in 1..m : i \in DOMAIN u
    BY <1>2, <1>5 DEF m, n
  <1>8. \A i \in 1..n : m + i \in DOMAIN u
    BY <1>2, <1>5 DEF m, n
  <1>9. ASSUME NEW k PROVE k \in DOMAIN Assigned(u) <=> k \in DOMAIN Assigned(a) \/ k \in DOMAIN Assigned(b)
    <2>1. ASSUME k \in DOMAIN Assigned(u) PROVE k \in DOMAIN Assigned(a) \/ k \in DOMAIN Assigned(b)
      <3>1. PICK i \in DOMAIN u : u[i].key = k
        BY <2>1, AssignedKeys
      <3>2. (i \in 1..m /\ u[i] = a[i]) \/ (i - m \in 1..n /\ u[i] = b[i - m])
        BY <1>2, <1>6 DEF m, n
      <3> QED
        BY <1>1, <3>1, <3>2, AssignedKeys DEF m, n
    <2>2. ASSUME k \in DOMAIN Assigned(a) PROVE k \in DOMAIN Assigned(u)
      <3>1. PICK i \in DOMAIN a : a[i].key = k
        BY <2>2, AssignedKeys
      <3> QED
        BY <1>1, <1>3, <1>7, <3>1, AssignedKeys DEF m
    <2>3. ASSUME k \in DOMAIN Assigned(b) PROVE k \in DOMAIN Assigned(u)
      <3>1. PICK i \in DOMAIN b : b[i].key = k
        BY <2>3, AssignedKeys
      <3>2. m + i \in DOMAIN u /\ u[m + i].key = k
        BY <1>1, <1>4, <1>8, <3>1 DEF m, n
      <3> QED
        BY <3>2, AssignedKeys
    <2> QED
      BY <2>1, <2>2, <2>3
  <1>10. ASSUME NEW k \in DOMAIN Assigned(b) PROVE Assigned(u)[k] = Assigned(b)[k]
    <2>1. PICK j \in DOMAIN b :
             b[j].key = k /\ Assigned(b)[k] = b[j].value /\ \A l \in DOMAIN b : b[l].key = k => l <= j
      BY <1>1, LastExists
    <2>2. j \in 1..n /\ m + j \in DOMAIN u /\ u[m + j] = b[j]
      BY <1>1, <1>4, <1>8 DEF m, n
    <2>3. ASSUME NEW l \in DOMAIN u, u[l].key = u[m + j].key PROVE l <= m + j
      <3>1. l \in 1..m + n
        BY <1>2 DEF m, n
      <3>2. CASE l \in 1..m
        BY <1>5, <2>2, <3>2
      <3>3. CASE l - m \in 1..n /\ u[l] = b[l - m]
        <4>1. l - m <= j
          BY <1>1, <2>1, <2>2, <2>3, <3>3 DEF n
        <4> QED
          BY <1>5, <2>2, <3>1, <4>1
      <3> QED
        BY <1>6, <3>1, <3>2, <3>3
    <2>4. DOMAIN u \subseteq 1..m + n
      BY <1>2 DEF m, n
    <2>5. Assigned(u)[u[m + j].key] = u[m + j].value
      BY <1>5, <2>2, <2>3, <2>4, AssignedLast
    <2> QED
      BY <2>1, <2>2, <2>5
  <1>11. ASSUME NEW k \in DOMAIN Assigned(a), k \notin DOMAIN Assigned(b) PROVE Assigned(u)[k] = Assigned(a)[k]
    <2>1. PICK j \in DOMAIN a :
             a[j].key = k /\ Assigned(a)[k] = a[j].value /\ \A l \in DOMAIN a : a[l].key = k => l <= j
      BY <1>1, LastExists
    <2>2. j \in 1..m /\ j \in DOMAIN u /\ u[j] = a[j]
      BY <1>1, <1>3, <1>7 DEF m
    <2>3. ASSUME NEW l \in DOMAIN u, u[l].key = u[j].key PROVE l <= j
      <3>1. l \in 1..m + n
        BY <1>2 DEF m, n
      <3>2. CASE l \in 1..m /\ u[l] = a[l]
        BY <1>1, <2>1, <2>2, <2>3, <3>2 DEF m
      <3>3. CASE l - m \in 1..n /\ u[l] = b[l - m]
        <4>1. l - m \in DOMAIN b /\ b[l - m].key = k
          BY <1>1, <2>1, <2>2, <2>3, <3>3 DEF n
        <4> QED
          BY <1>11, <4>1, AssignedKeys
      <3> QED
        BY <1>6, <3>1, <3>2, <3>3
    <2>4. DOMAIN u \subseteq 1..m + n
      BY <1>2 DEF m, n
    <2>5. Assigned(u)[u[j].key] = u[j].value
      BY <1>5, <2>2, <2>3, <2>4, AssignedLast
    <2> QED
      BY <2>1, <2>2, <2>5
  <1> QED
    BY <1>9, <1>10, <1>11 DEF IsOver

\* An object has every key once, with the last value assigned to it.
LEMMA ObjectKeys ==
    ASSUME NEW n \in Nat, NEW entries, DOMAIN entries = 1..n, NEW O, O = Object(entries)
    PROVE  /\ IsSequence(O) /\ \E N \in Nat : DOMAIN O = 1..N
           /\ \A i, j \in DOMAIN O : O[i].key = O[j].key => i = j
           /\ \A i \in DOMAIN O :
                 /\ O[i].key \in DOMAIN Assigned(entries)
                 /\ O[i].value = Assigned(entries)[O[i].key]
           /\ \A k \in DOMAIN Assigned(entries) : \E i \in DOMAIN O : O[i].key = k
  <1>1. PICK N \in Nat : \E first : FirstPlaces(O, entries, n, N, first)
    BY ObjectHolds
  <1>2. PICK first : FirstPlaces(O, entries, n, N, first)
    BY <1>1
  <1>2a. /\ first \in [1..N -> 1..n] /\ DOMAIN O = 1..N
         /\ \A m \in 1..N :
               /\ O[m].key = entries[first[m]].key
               /\ O[m].value = Assigned(entries)[O[m].key]
               /\ \A j \in 1..n : entries[j].key = O[m].key => first[m] <= j
         /\ \A l, m \in 1..N : l < m => first[l] < first[m]
         /\ \A i \in 1..n : \E m \in 1..N : O[m].key = entries[i].key
    BY <1>2 DEF FirstPlaces
  <1>3. O = [i \in DOMAIN O |-> O[i]]
    BY DEF Object
  <1>4. IsSequence(O)
    <2>1. O = [i \in 1..N |-> O[i]]
      BY <1>2a, <1>3
    <2> QED
      BY <1>2a, <2>1, SequenceOf
  <1>5. ASSUME NEW i \in 1..N, NEW j \in 1..N, O[i].key = O[j].key PROVE i = j
    <2>1. first[i] \in 1..n /\ first[j] \in 1..n
      BY <1>2a
    <2>2. entries[first[j]].key = O[i].key /\ entries[first[i]].key = O[j].key
      BY <1>2a, <1>5
    <2>3. first[i] <= first[j] /\ first[j] <= first[i]
      BY <1>2a, <2>1, <2>2
    <2>4. (i < j => first[i] < first[j]) /\ (j < i => first[j] < first[i])
      BY <1>2a
    <2> QED
      BY <2>1, <2>3, <2>4
  <1>6. ASSUME NEW i \in 1..N PROVE O[i].key \in DOMAIN Assigned(entries) /\ O[i].value = Assigned(entries)[O[i].key]
    <2>1. first[i] \in DOMAIN entries /\ entries[first[i]].key = O[i].key
      BY <1>2a
    <2> QED
      BY <1>2a, <2>1, AssignedKeys
  <1>7. ASSUME NEW k \in DOMAIN Assigned(entries) PROVE \E i \in 1..N : O[i].key = k
    <2>1. PICK i \in DOMAIN entries : entries[i].key = k
      BY AssignedKeys
    <2> QED
      BY <1>2a, <2>1
  <1>8. /\ IsSequence(O) /\ \E M \in Nat : DOMAIN O = 1..M
        /\ \A i, j \in DOMAIN O : O[i].key = O[j].key => i = j
        /\ \A i \in DOMAIN O : O[i].key \in DOMAIN Assigned(entries) /\ O[i].value = Assigned(entries)[O[i].key]
        /\ \A k \in DOMAIN Assigned(entries) : \E i \in DOMAIN O : O[i].key = k
    BY <1>2a, <1>4, <1>5, <1>6, <1>7
  <1> QED
    BY <1>8

\* An object assigns what its entries did.
LEMMA ObjectAssigns ==
    ASSUME NEW n \in Nat, NEW entries, DOMAIN entries = 1..n
    PROVE  /\ \A k : k \in DOMAIN Assigned(Object(entries)) <=> k \in DOMAIN Assigned(entries)
           /\ \A k \in DOMAIN Assigned(entries) : Assigned(Object(entries))[k] = Assigned(entries)[k]
  <1> DEFINE O == Object(entries)
  <1>0. O = Object(entries)
    OBVIOUS
  <1> HIDE DEF O
  <1>1. /\ \E M \in Nat : DOMAIN O = 1..M
        /\ \A i \in DOMAIN O : O[i].key \in DOMAIN Assigned(entries) /\ O[i].value = Assigned(entries)[O[i].key]
        /\ \A k \in DOMAIN Assigned(entries) : \E i \in DOMAIN O : O[i].key = k
    BY <1>0, ObjectKeys
  <1>2. \A k : k \in DOMAIN Assigned(O) <=> k \in DOMAIN Assigned(entries)
    BY <1>1, AssignedKeys
  <1>3. ASSUME NEW k \in DOMAIN Assigned(entries) PROVE Assigned(O)[k] = Assigned(entries)[k]
    <2>1. PICK M \in Nat : DOMAIN O \subseteq 1..M
      BY <1>1
    <2>2. k \in DOMAIN Assigned(O)
      BY <1>2
    <2>3. PICK i \in DOMAIN O : O[i].key = k /\ Assigned(O)[k] = O[i].value
      BY <2>1, <2>2, LastExists
    <2> QED
      BY <1>1, <2>3
  <1> QED
    BY <1>2, <1>3 DEF O

HeldAt(section, k) == {section[i].value : i \in {j \in DOMAIN section : section[j].key = k}}

LEMMA ObjectHeld ==
    ASSUME NEW n \in Nat, NEW entries, DOMAIN entries = 1..n, NEW k
    PROVE  HeldAt(Object(entries), k) =
              IF k \in DOMAIN Assigned(entries) THEN {Assigned(entries)[k]} ELSE {}
  <1> DEFINE O == Object(entries)
  <1>0. O = Object(entries)
    OBVIOUS
  <1> HIDE DEF O
  <1>1. /\ \A i \in DOMAIN O : O[i].key \in DOMAIN Assigned(entries) /\ O[i].value = Assigned(entries)[O[i].key]
        /\ \A l \in DOMAIN Assigned(entries) : \E i \in DOMAIN O : O[i].key = l
    BY <1>0, ObjectKeys
  <1>2. \A x : x \in HeldAt(O, k) <=> \E i \in DOMAIN O : O[i].key = k /\ x = O[i].value
    BY DEF HeldAt
  <1>3. CASE k \in DOMAIN Assigned(entries)
    <2>1. \A x : x \in HeldAt(O, k) <=> x = Assigned(entries)[k]
      BY <1>1, <1>2, <1>3
    <2> QED
      BY <1>3, <2>1 DEF O
  <1>4. CASE k \notin DOMAIN Assigned(entries)
    <2>1. \A x : x \notin HeldAt(O, k)
      BY <1>1, <1>2, <1>4
    <2> QED
      BY <1>4, <2>1 DEF O
  <1> QED
    BY <1>3, <1>4

\* What was assigned before comes first.
LEMMA MergedOrder ==
    ASSUME NEW a, IsSequence(a), NEW b, IsSequence(b), NEW O, O = Object(a \o b),
           NEW i \in DOMAIN O, O[i].key \in DOMAIN Assigned(a),
           NEW j \in DOMAIN O, O[j].key \notin DOMAIN Assigned(a)
    PROVE  i < j
  <1> DEFINE u == a \o b
             m == Len(a)
             n == Len(a) + Len(b)
  <1>1. u = a \o b /\ O = Object(u)
    OBVIOUS
  <1> HIDE DEF u
  <1>2. /\ Len(a) \in Nat /\ Len(b) \in Nat /\ DOMAIN a = 1..Len(a)
    BY ConcatHolds
  <1>3. DOMAIN u = 1..n
    BY <1>1, ConcatHolds
  <1>4. \A l \in 1..m : u[l] = a[l]
    BY <1>1, ConcatHolds
  <1>5. m \in Nat /\ n \in Nat /\ m <= n
    BY <1>2
  <1> HIDE DEF m, n
  <1>6. PICK N \in Nat : \E first : FirstPlaces(O, u, n, N, first)
    BY <1>1, <1>3, <1>5, ObjectHolds
  <1>7. PICK first : FirstPlaces(O, u, n, N, first)
    BY <1>6
  <1>8. /\ first \in [1..N -> 1..n] /\ DOMAIN O = 1..N
        /\ \A l \in 1..N :
              /\ O[l].key = u[first[l]].key
              /\ \A h \in 1..n : u[h].key = O[l].key => first[l] <= h
        /\ \A l, h \in 1..N : l < h => first[l] < first[h]
    BY <1>7 DEF FirstPlaces
  <1>9. first[i] \in 1..n /\ first[j] \in 1..n /\ first[i] <= m
    <2>1. PICK h \in DOMAIN a : a[h].key = O[i].key
      BY AssignedKeys
    <2>2. h \in 1..m
      BY <1>2, <2>1 DEF m
    <2>3. h \in 1..n /\ u[h].key = O[i].key
      BY <1>4, <1>5, <2>1, <2>2
    <2>4. first[i] <= h /\ first[i] \in 1..n /\ first[j] \in 1..n
      BY <1>8, <2>3
    <2> QED
      BY <1>5, <2>2, <2>4
  <1>10. ~(first[j] <= m)
    <2> SUFFICES ASSUME first[j] <= m PROVE FALSE
      OBVIOUS
    <2>1. first[j] \in 1..m
      BY <1>5, <1>9
    <2>2. a[first[j]].key = O[j].key /\ first[j] \in DOMAIN a
      BY <1>2, <1>4, <1>8, <2>1 DEF m
    <2> QED
      BY <2>2, AssignedKeys
  <1>11. i \in 1..N /\ j \in 1..N /\ (j < i => first[j] < first[i]) /\ (i = j => first[i] = first[j])
    BY <1>8
  <1> QED
    BY <1>5, <1>6, <1>9, <1>10, <1>11

-----------------------------------------------------------------------------
(***************************************************************************)
(* Views of a scope.                                                       *)
(***************************************************************************)
Viewed(section, s) ==
    [i \in {j \in DOMAIN section : BeginsWith(section[j].key, s)} |->
        [key |-> Strip(s, section[i].key), value |-> section[i].value]]

Localized(section) ==
    [i \in DOMAIN section |-> [key |-> CamelCase(section[i].key), value |-> section[i].value]]

\* No two keys of a section are one in the view of the scope.
Clear(section, s) ==
    \A e, f \in Range(section) :
        BeginsWith(e.key, s) /\ BeginsWith(f.key, s) /\ Strip(s, e.key) = Strip(s, f.key) => e.key = f.key

\* An object of own entries over the host's, which come first.
Layered(O, own, host, s) ==
    /\ \A i, j \in DOMAIN O : O[i].key = O[j].key => i = j
    /\ \A i \in DOMAIN O : BeginsWith(O[i].key, s) =>
          \/ O[i].key \in DOMAIN Assigned(own) /\ O[i].value = Assigned(own)[O[i].key]
          \/ /\ O[i].key \notin DOMAIN Assigned(own) /\ O[i].key \in DOMAIN Assigned(host)
             /\ O[i].value = Assigned(host)[O[i].key]
    /\ \A k : k \in DOMAIN Assigned(own) \/ k \in DOMAIN Assigned(host) => \E i \in DOMAIN O : O[i].key = k
    /\ \A i, j \in DOMAIN O :
          O[i].key \in DOMAIN Assigned(host) /\ O[j].key \notin DOMAIN Assigned(host) => i < j

LEMMA ViewedEntries ==
    ASSUME NEW section, NEW s
    PROVE  \A i : i \in DOMAIN Viewed(section, s) <=> i \in DOMAIN section /\ BeginsWith(section[i].key, s)
  BY DEF Viewed

LEMMA ViewedEntry ==
    ASSUME NEW section, NEW s, NEW i \in DOMAIN section, BeginsWith(section[i].key, s)
    PROVE  /\ Viewed(section, s)[i].key = Strip(s, section[i].key)
           /\ Viewed(section, s)[i].value = section[i].value
  BY DEF Viewed

\* A scope's own values, by their joint keys and by its own.
LEMMA PrefixedLocal ==
    ASSUME NEW s, IsName(s), NEW section, IsSection(section), NEW j \in DOMAIN section
    PROVE  /\ Joint(s, section[j].key) \in DOMAIN Assigned(Prefixed(s, section))
           /\ CamelCase(section[j].key) \in DOMAIN Local(section)
           /\ Assigned(Prefixed(s, section))[Joint(s, section[j].key)] = Local(section)[CamelCase(section[j].key)]
  <1> DEFINE P == Prefixed(s, section)
             L == Localized(section)
             q == Joint(s, section[j].key)
             n == Len(section)
  <1>1. n \in Nat /\ DOMAIN section = 1..n /\ \A i \in DOMAIN section : IsName(section[i].key)
    BY SectionEntries
  <1>2. DOMAIN P = 1..n /\ \A i \in 1..n : P[i].key = Joint(s, section[i].key) /\ P[i].value = section[i].value
    BY <1>1 DEF Prefixed
  <1>3. DOMAIN L = 1..n /\ \A i \in 1..n : L[i].key = CamelCase(section[i].key) /\ L[i].value = section[i].value
    BY <1>1 DEF Localized
  <1>4. Local(section) = Assigned(L)
    BY DEF Local, Localized
  <1> HIDE DEF P, L, n
  <1>5. j \in 1..n /\ P[j].key = q /\ q \in DOMAIN Assigned(P)
    <2>1. j \in DOMAIN P /\ P[j].key = q
      BY <1>1, <1>2
    <2> QED
      BY <1>2, <2>1, AssignedKeys
  <1>6. PICK i \in DOMAIN P :
           P[i].key = q /\ Assigned(P)[q] = P[i].value /\ \A l \in DOMAIN P : P[l].key = q => l <= i
    <2>1. DOMAIN P \subseteq 1..n
      BY <1>2
    <2> QED
      BY <1>1, <1>5, <2>1, LastExists
  <1>7. \A l \in 1..n : P[l].key = q <=> L[l].key = CamelCase(section[j].key)
    <2> TAKE l \in 1..n
    <2>1. IsName(section[l].key) /\ IsName(section[j].key)
      BY <1>1
    <2>2. Joint(s, section[l].key) = q <=> CamelCase(section[l].key) = CamelCase(section[j].key)
      BY <2>1, JointsMeet
    <2> QED
      BY <1>2, <1>3, <2>2
  <1>8. /\ i \in DOMAIN L /\ L[i].key = CamelCase(section[j].key) /\ L[i].value = P[i].value
        /\ \A l \in DOMAIN L : L[l].key = L[i].key => l <= i
    BY <1>2, <1>3, <1>6, <1>7
  <1>9. L[i].key \in DOMAIN Assigned(L) /\ Assigned(L)[L[i].key] = L[i].value
    <2>1. DOMAIN L \subseteq 1..n
      BY <1>3
    <2> QED
      BY <1>1, <1>8, <2>1, AssignedLast
  <1> QED
    BY <1>4, <1>5, <1>6, <1>8, <1>9 DEF P

\* Every own key, joint or not, is that of an own entry.
LEMMA OwnKeys ==
    ASSUME NEW s, NEW section
    PROVE  /\ \A k \in DOMAIN Assigned(Prefixed(s, section)) : \E j \in DOMAIN section : k = Joint(s, section[j].key)
           /\ \A k \in DOMAIN Local(section) : \E j \in DOMAIN section : k = CamelCase(section[j].key)
  <1>1. DOMAIN Prefixed(s, section) = DOMAIN section
        /\ \A j \in DOMAIN section : Prefixed(s, section)[j].key = Joint(s, section[j].key)
    BY DEF Prefixed
  <1>2. DOMAIN Localized(section) = DOMAIN section
        /\ \A j \in DOMAIN section : Localized(section)[j].key = CamelCase(section[j].key)
    BY DEF Localized
  <1>3. Local(section) = Assigned(Localized(section))
    BY DEF Local, Localized
  <1> QED
    BY <1>1, <1>2, <1>3, AssignedKeys

LEMMA AssignedFunction ==
    ASSUME NEW entries
    PROVE  Assigned(entries) = [k \in DOMAIN Assigned(entries) |-> Assigned(entries)[k]]
  BY DEF Assigned

\* The view of an object in layers is the own values over the host's.
LEMMA LayeredView ==
    ASSUME NEW s, IsName(s), NEW section, IsSection(section), NEW host, IsSequence(host), Clear(host, s),
           NEW n \in Nat, NEW O, DOMAIN O = 1..n, Layered(O, Prefixed(s, section), host, s)
    PROVE  ScopeValues(O, s) = Over(Local(section), ScopeValues(host, s))
  <1> DEFINE P == Prefixed(s, section)
             V == Viewed(O, s)
             W == Viewed(host, s)
             L == Local(section)
  <1>1. ScopeValues(O, s) = Assigned(V) /\ ScopeValues(host, s) = Assigned(W)
    BY DEF ScopeValues, Viewed
  <1>2. Layered(O, P, host, s)
    OBVIOUS
  <1>3. Len(host) \in Nat /\ DOMAIN host = 1..Len(host)
    BY DEF IsSequence
  <1>4. \A i : i \in DOMAIN V <=> i \in DOMAIN O /\ BeginsWith(O[i].key, s)
    BY ViewedEntries
  <1>5. \A i \in DOMAIN V : V[i].key = Strip(s, O[i].key) /\ V[i].value = O[i].value
    BY <1>4, ViewedEntry
  <1>6. \A i : i \in DOMAIN W <=> i \in DOMAIN host /\ BeginsWith(host[i].key, s)
    BY ViewedEntries
  <1>7. \A i \in DOMAIN W : W[i].key = Strip(s, host[i].key) /\ W[i].value = host[i].value
    BY <1>6, ViewedEntry
  <1>8. \A k \in DOMAIN Assigned(P) : \E j \in DOMAIN section : k = Joint(s, section[j].key)
    BY OwnKeys
  <1>9. \A k \in DOMAIN L : \E j \in DOMAIN section : k = CamelCase(section[j].key)
    BY OwnKeys
  <1>10. ASSUME NEW j \in DOMAIN section
         PROVE  LET q == Joint(s, section[j].key)
                    k == CamelCase(section[j].key)
                IN  /\ q \in DOMAIN Assigned(P) /\ k \in DOMAIN L /\ Assigned(P)[q] = L[k]
                    /\ BeginsWith(q, s) /\ Strip(s, q) = k
    <2>1. IsName(section[j].key)
      BY SectionEntries
    <2>2. /\ Joint(s, section[j].key) \in DOMAIN Assigned(P) /\ CamelCase(section[j].key) \in DOMAIN L
          /\ Assigned(P)[Joint(s, section[j].key)] = L[CamelCase(section[j].key)]
      BY PrefixedLocal
    <2>3. BeginsWith(Joint(s, section[j].key), s) /\ Strip(s, Joint(s, section[j].key)) = CamelCase(section[j].key)
      BY <2>1, JointReadsBack
    <2> QED
      BY <2>2, <2>3
  <1>11. ASSUME NEW j \in DOMAIN section, NEW l \in DOMAIN section,
                CamelCase(section[j].key) = CamelCase(section[l].key)
         PROVE  Joint(s, section[j].key) = Joint(s, section[l].key)
    <2>1. IsName(section[j].key) /\ IsName(section[l].key)
      BY SectionEntries
    <2> QED
      BY <1>11, <2>1, JointsMeet
  <1>12. \A k \in DOMAIN Assigned(host) : \E h \in DOMAIN host : host[h].key = k
    BY AssignedKeys
  <1>13. ASSUME NEW g \in DOMAIN host, NEW h \in DOMAIN host, BeginsWith(host[g].key, s), BeginsWith(host[h].key, s),
                Strip(s, host[g].key) = Strip(s, host[h].key)
         PROVE  host[g].key = host[h].key
    <2>1. host[g] \in Range(host) /\ host[h] \in Range(host)
      BY DEF Range
    <2> QED
      BY <1>13, <2>1 DEF Clear
  <1> HIDE DEF P, V, W, L
  <1>14. /\ \A i, j \in DOMAIN O : O[i].key = O[j].key => i = j
         /\ \A i \in DOMAIN O : BeginsWith(O[i].key, s) =>
               \/ O[i].key \in DOMAIN Assigned(P) /\ O[i].value = Assigned(P)[O[i].key]
               \/ /\ O[i].key \notin DOMAIN Assigned(P) /\ O[i].key \in DOMAIN Assigned(host)
                  /\ O[i].value = Assigned(host)[O[i].key]
         /\ \A k : k \in DOMAIN Assigned(P) \/ k \in DOMAIN Assigned(host) => \E i \in DOMAIN O : O[i].key = k
         /\ \A i, j \in DOMAIN O :
               O[i].key \in DOMAIN Assigned(host) /\ O[j].key \notin DOMAIN Assigned(host) => i < j
    BY <1>2 DEF Layered
  <1>15. ASSUME NEW k \in DOMAIN Assigned(V) PROVE k \in DOMAIN L \/ k \in DOMAIN Assigned(W)
    <2>1. PICK i \in DOMAIN V : V[i].key = k
      BY AssignedKeys
    <2>2. i \in DOMAIN O /\ BeginsWith(O[i].key, s) /\ Strip(s, O[i].key) = k
      BY <1>4, <1>5, <2>1
    <2>3. CASE O[i].key \in DOMAIN Assigned(P)
      <3>1. PICK j \in DOMAIN section : O[i].key = Joint(s, section[j].key)
        BY <1>8, <2>3
      <3> QED
        BY <1>10, <2>2, <3>1
    <2>4. CASE O[i].key \in DOMAIN Assigned(host)
      <3>1. PICK h \in DOMAIN host : host[h].key = O[i].key
        BY <1>12, <2>4
      <3>2. h \in DOMAIN W /\ W[h].key = k
        BY <1>6, <1>7, <2>2, <3>1
      <3> QED
        BY <3>2, AssignedKeys
    <2> QED
      BY <1>14, <2>2, <2>3, <2>4
  <1>16. ASSUME NEW k \in DOMAIN L PROVE k \in DOMAIN Assigned(V) /\ Assigned(V)[k] = L[k]
    <2>1. PICK j \in DOMAIN section : k = CamelCase(section[j].key)
      BY <1>9
    <2> DEFINE q == Joint(s, section[j].key)
    <2>2. q \in DOMAIN Assigned(P) /\ Assigned(P)[q] = L[k] /\ BeginsWith(q, s) /\ Strip(s, q) = k
      BY <1>10, <2>1
    <2>3. \A l \in DOMAIN section : CamelCase(section[l].key) = k => Joint(s, section[l].key) = q
      BY <1>11, <2>1
    <2> HIDE DEF q
    <2>4. PICK i \in DOMAIN O : O[i].key = q
      BY <1>14, <2>2
    <2>5. i \in DOMAIN V /\ V[i].key = k /\ V[i].value = L[k]
      <3>1. i \in DOMAIN V /\ V[i].key = k /\ V[i].value = O[i].value
        BY <1>4, <1>5, <2>2, <2>4
      <3>2. O[i].value = Assigned(P)[q]
        BY <1>14, <2>2, <2>4
      <3> QED
        BY <2>2, <3>1, <3>2
    <2>6. ASSUME NEW l \in DOMAIN V, V[l].key = V[i].key PROVE l <= i
      <3>1. l \in DOMAIN O /\ BeginsWith(O[l].key, s) /\ Strip(s, O[l].key) = k
        BY <1>4, <1>5, <2>5, <2>6
      <3>2. l \in Int /\ i \in Int
        BY <3>1
      <3>3. CASE O[l].key \in DOMAIN Assigned(P)
        <4>1. PICK m \in DOMAIN section : O[l].key = Joint(s, section[m].key)
          BY <1>8, <3>3
        <4>2. O[l].key = q
          BY <1>10, <2>3, <3>1, <4>1
        <4> QED
          BY <1>14, <2>4, <3>1, <3>2, <4>2
      <3>4. CASE O[l].key \notin DOMAIN Assigned(P) /\ O[l].key \in DOMAIN Assigned(host)
        <4>1. PICK g \in DOMAIN host : host[g].key = O[l].key
          BY <1>12, <3>4
        <4>2. q \notin DOMAIN Assigned(host)
          <5> SUFFICES ASSUME q \in DOMAIN Assigned(host) PROVE FALSE
            OBVIOUS
          <5>1. PICK h \in DOMAIN host : host[h].key = q
            BY <1>12
          <5>2. host[g].key = host[h].key
            BY <1>13, <2>2, <3>1, <4>1, <5>1
          <5> QED
            BY <2>2, <3>4, <4>1, <5>1, <5>2
        <4>3. l < i
          BY <1>14, <2>4, <3>1, <3>4, <4>2
        <4> QED
          BY <3>2, <4>3
      <3> QED
        BY <1>14, <3>1, <3>3, <3>4
    <2>7. DOMAIN V \subseteq 1..n
      BY <1>4
    <2>8. V[i].key \in DOMAIN Assigned(V) /\ Assigned(V)[V[i].key] = V[i].value
      BY <2>5, <2>6, <2>7, AssignedLast
    <2> QED
      BY <2>5, <2>8
  <1>17. ASSUME NEW k \in DOMAIN Assigned(W), k \notin DOMAIN L
         PROVE  k \in DOMAIN Assigned(V) /\ Assigned(V)[k] = Assigned(W)[k]
    <2>1. k \in DOMAIN Assigned(V)
      <3>1. PICK h \in DOMAIN W : W[h].key = k
        BY AssignedKeys
      <3>2. h \in DOMAIN host /\ BeginsWith(host[h].key, s) /\ Strip(s, host[h].key) = k
        BY <1>6, <1>7, <3>1
      <3>3. host[h].key \in DOMAIN Assigned(host)
        BY <3>2, AssignedKeys
      <3>4. PICK i \in DOMAIN O : O[i].key = host[h].key
        BY <1>14, <3>3
      <3>5. i \in DOMAIN V /\ V[i].key = k
        BY <1>4, <1>5, <3>2, <3>4
      <3> QED
        BY <3>5, AssignedKeys
    <2>2. PICK i \in DOMAIN V : V[i].key = k /\ Assigned(V)[k] = V[i].value
      <3>1. DOMAIN V \subseteq 1..n
        BY <1>4
      <3> QED
        BY <2>1, <3>1, LastExists
    <2>3. i \in DOMAIN O /\ BeginsWith(O[i].key, s) /\ Strip(s, O[i].key) = k /\ V[i].value = O[i].value
      BY <1>4, <1>5, <2>2
    <2>4. O[i].key \notin DOMAIN Assigned(P)
      <3> SUFFICES ASSUME O[i].key \in DOMAIN Assigned(P) PROVE FALSE
        OBVIOUS
      <3>1. PICK j \in DOMAIN section : O[i].key = Joint(s, section[j].key)
        BY <1>8
      <3> QED
        BY <1>10, <1>17, <2>3, <3>1
    <2>5. O[i].key \in DOMAIN Assigned(host) /\ O[i].value = Assigned(host)[O[i].key]
      BY <1>14, <2>3, <2>4
    <2>6. PICK h \in DOMAIN host :
             /\ host[h].key = O[i].key /\ Assigned(host)[O[i].key] = host[h].value
             /\ \A g \in DOMAIN host : host[g].key = O[i].key => g <= h
      <3>1. DOMAIN host \subseteq 1..Len(host)
        BY <1>3
      <3> QED
        BY <1>3, <2>5, <3>1, LastExists
    <2>7. h \in DOMAIN W /\ W[h].key = k /\ W[h].value = host[h].value
      BY <1>6, <1>7, <2>3, <2>6
    <2>8. ASSUME NEW g \in DOMAIN W, W[g].key = W[h].key PROVE g <= h
      <3>1. g \in DOMAIN host /\ BeginsWith(host[g].key, s) /\ Strip(s, host[g].key) = k
        BY <1>6, <1>7, <2>7, <2>8
      <3>2. host[g].key = host[h].key
        BY <1>13, <2>3, <2>6, <3>1
      <3> QED
        BY <2>6, <3>1, <3>2
    <2>9. Assigned(W)[W[h].key] = W[h].value
      <3>1. DOMAIN W \subseteq 1..Len(host)
        BY <1>3, <1>6
      <3> QED
        BY <1>3, <2>7, <2>8, <3>1, AssignedLast
    <2> QED
      BY <2>1, <2>2, <2>3, <2>5, <2>6, <2>7, <2>9
  <1>18. DOMAIN Assigned(V) = DOMAIN L \cup DOMAIN Assigned(W)
    BY <1>15, <1>16, <1>17
  <1>19. \A k \in DOMAIN Assigned(V) : Assigned(V)[k] = IF k \in DOMAIN L THEN L[k] ELSE Assigned(W)[k]
    BY <1>15, <1>16, <1>17
  <1>20. Assigned(V) = [k \in DOMAIN Assigned(V) |-> Assigned(V)[k]]
    BY AssignedFunction
  <1>21. Over(L, Assigned(W)) =
            [k \in DOMAIN L \cup DOMAIN Assigned(W) |-> IF k \in DOMAIN L THEN L[k] ELSE Assigned(W)[k]]
    BY DEF Over
  <1> QED
    BY <1>1, <1>18, <1>19, <1>20, <1>21 DEF L

\* No other scope has a joint key that begins with this one.
Undisputed(sections, s) ==
    \A t \in DOMAIN sections \ {s} : \A j \in DOMAIN sections[t] : ~BeginsWith(Joint(t, sections[t][j].key), s)

LEMMA AssignmentsDomain ==
    ASSUME NEW sections, AreSections(sections)
    PROVE  \E n \in Nat : DOMAIN Assignments(sections) = 1..n
  BY AssignmentsHold

\* Of the keys that begin with an undisputed scope, its own section has every one and decides it.
LEMMA OwnAssigned ==
    ASSUME NEW sections, AreSections(sections), NEW s \in DOMAIN sections, Undisputed(sections, s)
    PROVE  /\ \A k \in DOMAIN Assigned(Prefixed(s, sections[s])) :
                 /\ BeginsWith(k, s) /\ k \in DOMAIN Assigned(Assignments(sections))
                 /\ Assigned(Assignments(sections))[k] = Assigned(Prefixed(s, sections[s]))[k]
           /\ \A k \in DOMAIN Assigned(Assignments(sections)) :
                 BeginsWith(k, s) => k \in DOMAIN Assigned(Prefixed(s, sections[s]))
  <1>1. ASSUME NEW k, BeginsWith(k, s) PROVE Alone(sections, s, k)
    BY <1>1 DEF Undisputed, Alone
  <1>2. ASSUME NEW k \in DOMAIN Assigned(Prefixed(s, sections[s])) PROVE BeginsWith(k, s)
    <2>1. PICK j \in DOMAIN sections[s] : k = Joint(s, sections[s][j].key)
      BY OwnKeys
    <2>2. IsSection(sections[s]) /\ IsName(s)
      BY ScopePlaces DEF AreSections
    <2>3. IsName(sections[s][j].key)
      BY <2>2, SectionEntries
    <2> QED
      BY <2>1, <2>2, <2>3, JointReadsBack
  <1> QED
    BY <1>1, <1>2, JoinedOwn

LEMMA EmptySection ==
    /\ IsSection(<<>>) /\ IsSequence(<<>>) /\ DOMAIN Assigned(<<>>) = {} /\ DOMAIN Local(<<>>) = {}
    /\ \A s : DOMAIN ScopeValues(<<>>, s) = {} /\ Clear(<<>>, s)
  <1>1. DOMAIN <<>> = {} /\ Range(<<>>) = {}
    BY DEF Range
  <1>2. <<>> \in Seq(Range(<<>>))
    OBVIOUS
  <1>3. IsSection(<<>>) /\ IsSequence(<<>>)
    BY <1>1, <1>2 DEF IsSection, IsSequence
  <1>4. DOMAIN Assigned(<<>>) = {} /\ DOMAIN Local(<<>>) = {}
    BY <1>1 DEF Assigned, Local
  <1>5. ASSUME NEW s PROVE DOMAIN ScopeValues(<<>>, s) = {} /\ Clear(<<>>, s)
    BY <1>1 DEF Assigned, ScopeValues, Clear
  <1> QED
    BY <1>3, <1>4, <1>5

LEMMA JoinedLayers ==
    ASSUME NEW sections, AreSections(sections), NEW s \in DOMAIN sections, Undisputed(sections, s)
    PROVE  Layered(Joined(sections), Prefixed(s, sections[s]), <<>>, s)
  <1> DEFINE A == Assignments(sections)
             O == Joined(sections)
             P == Prefixed(s, sections[s])
  <1>1. PICK n \in Nat : DOMAIN A = 1..n
    BY AssignmentsDomain
  <1>2. O = Object(A)
    BY DEF Joined
  <1>3. /\ \A k \in DOMAIN Assigned(P) : k \in DOMAIN Assigned(A) /\ Assigned(A)[k] = Assigned(P)[k]
        /\ \A k \in DOMAIN Assigned(A) : BeginsWith(k, s) => k \in DOMAIN Assigned(P)
    BY OwnAssigned
  <1>4. DOMAIN Assigned(<<>>) = {}
    BY EmptySection
  <1> HIDE DEF A, O, P
  <1>5. /\ \A i, j \in DOMAIN O : O[i].key = O[j].key => i = j
        /\ \A i \in DOMAIN O : O[i].key \in DOMAIN Assigned(A) /\ O[i].value = Assigned(A)[O[i].key]
        /\ \A k \in DOMAIN Assigned(A) : \E i \in DOMAIN O : O[i].key = k
    BY <1>1, <1>2, ObjectKeys
  <1>6. Layered(O, P, <<>>, s)
    BY <1>3, <1>4, <1>5 DEF Layered
  <1> QED
    BY <1>6 DEF O, P

LEMMA MergedLayers ==
    ASSUME NEW sections, AreSections(sections), NEW s \in DOMAIN sections, Undisputed(sections, s),
           NEW host, IsSequence(host)
    PROVE  Layered(Object(host \o Joined(sections)), Prefixed(s, sections[s]), host, s)
  <1> DEFINE A == Assignments(sections)
             J == Joined(sections)
             u == host \o J
             O == Object(u)
             P == Prefixed(s, sections[s])
  <1>1. PICK n \in Nat : DOMAIN A = 1..n
    BY AssignmentsDomain
  <1>2. J = Object(A) /\ u = host \o J /\ O = Object(u) /\ O = Object(host \o J)
    BY DEF Joined
  <1>3. /\ \A k \in DOMAIN Assigned(P) : k \in DOMAIN Assigned(A) /\ Assigned(A)[k] = Assigned(P)[k]
        /\ \A k \in DOMAIN Assigned(A) : BeginsWith(k, s) => k \in DOMAIN Assigned(P)
    BY OwnAssigned
  <1> HIDE DEF A, J, u, O, P
  <1>4. IsSequence(J)
    BY <1>1, <1>2, ObjectKeys
  <1>5. /\ \A k : k \in DOMAIN Assigned(J) <=> k \in DOMAIN Assigned(A)
        /\ \A k \in DOMAIN Assigned(A) : Assigned(J)[k] = Assigned(A)[k]
    BY <1>1, <1>2, ObjectAssigns
  <1>6. /\ \A k : k \in DOMAIN Assigned(u) <=> k \in DOMAIN Assigned(host) \/ k \in DOMAIN Assigned(J)
        /\ \A k \in DOMAIN Assigned(J) : Assigned(u)[k] = Assigned(J)[k]
        /\ \A k \in DOMAIN Assigned(host) : k \notin DOMAIN Assigned(J) => Assigned(u)[k] = Assigned(host)[k]
    <2>1. u = host \o J
      BY <1>2
    <2>2. IsOver(Assigned(u), Assigned(J), Assigned(host))
      BY <1>4, <2>1, ConcatAssigned
    <2> QED
      BY <2>2 DEF IsOver
  <1>7. PICK m \in Nat : DOMAIN u = 1..m
    <2>1. Len(host) \in Nat /\ Len(J) \in Nat
      BY <1>2, <1>4, ConcatHolds
    <2>2. DOMAIN u = 1..Len(host) + Len(J)
      BY <1>2, <1>4, ConcatHolds
    <2>3. Len(host) + Len(J) \in Nat
      BY <2>1
    <2> QED
      BY <2>2, <2>3
  <1>8. /\ \A i, j \in DOMAIN O : O[i].key = O[j].key => i = j
        /\ \A i \in DOMAIN O : O[i].key \in DOMAIN Assigned(u) /\ O[i].value = Assigned(u)[O[i].key]
        /\ \A k \in DOMAIN Assigned(u) : \E i \in DOMAIN O : O[i].key = k
    <2>1. O = Object(u)
      BY <1>2
    <2> QED
      BY <1>7, <2>1, ObjectKeys
  <1>9. \A i, j \in DOMAIN O :
           O[i].key \in DOMAIN Assigned(host) /\ O[j].key \notin DOMAIN Assigned(host) => i < j
    BY <1>2, <1>4, MergedOrder
  <1>10. ASSUME NEW i \in DOMAIN O, BeginsWith(O[i].key, s)
         PROVE  \/ O[i].key \in DOMAIN Assigned(P) /\ O[i].value = Assigned(P)[O[i].key]
                \/ /\ O[i].key \notin DOMAIN Assigned(P) /\ O[i].key \in DOMAIN Assigned(host)
                   /\ O[i].value = Assigned(host)[O[i].key]
    <2>1. O[i].key \in DOMAIN Assigned(u) /\ O[i].value = Assigned(u)[O[i].key]
      BY <1>8
    <2>2. CASE O[i].key \in DOMAIN Assigned(J)
      BY <1>3, <1>5, <1>6, <1>10, <2>1, <2>2
    <2>3. CASE O[i].key \notin DOMAIN Assigned(J)
      BY <1>3, <1>5, <1>6, <2>1, <2>3
    <2> QED
      BY <2>2, <2>3
  <1>11. \A k : k \in DOMAIN Assigned(P) \/ k \in DOMAIN Assigned(host) => \E i \in DOMAIN O : O[i].key = k
    BY <1>3, <1>5, <1>6, <1>8
  <1>12. Layered(O, P, host, s)
    BY <1>8, <1>9, <1>10, <1>11 DEF Layered
  <1> QED
    BY <1>2, <1>12 DEF J, P

\* The view of a scope is its own section.
LEMMA JoinedView ==
    ASSUME NEW sections, AreSections(sections), NEW s \in DOMAIN sections, Undisputed(sections, s)
    PROVE  ScopeValues(Joined(sections), s) = Local(sections[s])
  <1> DEFINE O == Joined(sections)
  <1>1. PICK n \in Nat : DOMAIN O = 1..n
    <2>1. PICK m \in Nat : DOMAIN Assignments(sections) = 1..m
      BY AssignmentsDomain
    <2>2. O = Object(Assignments(sections))
      BY DEF Joined
    <2> HIDE DEF O
    <2> QED
      BY <2>1, <2>2, ObjectKeys
  <1>2. Layered(O, Prefixed(s, sections[s]), <<>>, s)
    BY JoinedLayers
  <1>3. IsName(s) /\ IsSection(sections[s])
    BY ScopePlaces DEF AreSections
  <1>4. IsSequence(<<>>) /\ Clear(<<>>, s) /\ DOMAIN ScopeValues(<<>>, s) = {}
    BY EmptySection
  <1> HIDE DEF O
  <1>5. ScopeValues(O, s) = Over(Local(sections[s]), ScopeValues(<<>>, s))
    BY <1>1, <1>2, <1>3, <1>4, LayeredView
  <1>6. Local(sections[s]) = [k \in DOMAIN Local(sections[s]) |-> Local(sections[s])[k]]
    BY AssignedFunction DEF Local
  <1>7. Over(Local(sections[s]), ScopeValues(<<>>, s)) = [k \in DOMAIN Local(sections[s]) |-> Local(sections[s])[k]]
    BY <1>4 DEF Over
  <1> QED
    BY <1>5, <1>6, <1>7 DEF O

\* With a host's configuration, it is that over what the host has under the scope.
LEMMA MergedView ==
    ASSUME NEW sections, AreSections(sections), NEW s \in DOMAIN sections, Undisputed(sections, s),
           NEW host, IsSequence(host), Clear(host, s)
    PROVE  ScopeValues(Object(host \o Joined(sections)), s) = Over(Local(sections[s]), ScopeValues(host, s))
  <1> DEFINE J == Joined(sections)
             u == host \o J
             O == Object(u)
  <1>1. PICK n \in Nat : DOMAIN O = 1..n
    <2>1. PICK m \in Nat : DOMAIN Assignments(sections) = 1..m
      BY AssignmentsDomain
    <2>2. J = Object(Assignments(sections)) /\ u = host \o J /\ O = Object(u)
      BY DEF Joined
    <2> HIDE DEF J, u, O
    <2>3. IsSequence(J)
      BY <2>1, <2>2, ObjectKeys
    <2>4. Len(host) \in Nat /\ Len(J) \in Nat
      BY <2>2, <2>3, ConcatHolds
    <2>5. DOMAIN u = 1..Len(host) + Len(J)
      BY <2>2, <2>3, ConcatHolds
    <2>6. PICK N \in Nat : DOMAIN u = 1..N
      BY <2>4, <2>5
    <2>7. \E M \in Nat : DOMAIN O = 1..M
      BY <2>2, <2>6, ObjectKeys
    <2> QED
      BY <2>7
  <1>2. Layered(O, Prefixed(s, sections[s]), host, s)
    BY MergedLayers
  <1>3. IsName(s) /\ IsSection(sections[s])
    BY ScopePlaces DEF AreSections
  <1> HIDE DEF O
  <1>4. ScopeValues(O, s) = Over(Local(sections[s]), ScopeValues(host, s))
    BY <1>1, <1>2, <1>3, LayeredView
  <1> QED
    BY <1>4 DEF O

\* What a joint object holds at a key no other scope has.
LEMMA JoinedHeld ==
    ASSUME NEW sections, AreSections(sections), NEW s \in DOMAIN sections, NEW k, Alone(sections, s, k)
    PROVE  HeldAt(Joined(sections), k) =
              IF k \in DOMAIN Assigned(Prefixed(s, sections[s]))
              THEN {Assigned(Prefixed(s, sections[s]))[k]} ELSE {}
  <1>1. PICK n \in Nat : DOMAIN Assignments(sections) = 1..n
    BY AssignmentsDomain
  <1>2. HeldAt(Object(Assignments(sections)), k) =
           IF k \in DOMAIN Assigned(Assignments(sections)) THEN {Assigned(Assignments(sections))[k]} ELSE {}
    BY <1>1, ObjectHeld
  <1> QED
    BY <1>2, JoinedOwn DEF Joined

LEMMA MergedHeld ==
    ASSUME NEW sections, AreSections(sections), NEW s \in DOMAIN sections, NEW k, Alone(sections, s, k),
           k \in DOMAIN Assigned(Prefixed(s, sections[s])), NEW host, IsSequence(host)
    PROVE  HeldAt(Object(host \o Joined(sections)), k) = HeldAt(Joined(sections), k)
  <1> DEFINE A == Assignments(sections)
             J == Joined(sections)
             u == host \o J
  <1>1. PICK n \in Nat : DOMAIN A = 1..n
    BY AssignmentsDomain
  <1>2. J = Object(A) /\ u = host \o J
    BY DEF Joined
  <1>3. k \in DOMAIN Assigned(A)
    BY JoinedOwn
  <1> HIDE DEF A, J, u
  <1>4. IsSequence(J) /\ k \in DOMAIN Assigned(J) /\ Assigned(J)[k] = Assigned(A)[k]
    <2>1. IsSequence(J)
      BY <1>1, <1>2, ObjectKeys
    <2>2. k \in DOMAIN Assigned(J) /\ Assigned(J)[k] = Assigned(A)[k]
      BY <1>1, <1>2, <1>3, ObjectAssigns
    <2> QED
      BY <2>1, <2>2
  <1>5. k \in DOMAIN Assigned(u) /\ Assigned(u)[k] = Assigned(A)[k]
    <2>1. u = host \o J
      BY <1>2
    <2>2. IsOver(Assigned(u), Assigned(J), Assigned(host))
      BY <1>4, <2>1, ConcatAssigned
    <2> QED
      BY <1>4, <2>2 DEF IsOver
  <1>6. PICK m \in Nat : DOMAIN u = 1..m
    <2>1. Len(host) \in Nat /\ Len(J) \in Nat
      BY <1>2, <1>4, ConcatHolds
    <2>2. DOMAIN u = 1..Len(host) + Len(J)
      BY <1>2, <1>4, ConcatHolds
    <2>3. Len(host) + Len(J) \in Nat
      BY <2>1
    <2> QED
      BY <2>2, <2>3
  <1>7. HeldAt(Object(u), k) = {Assigned(A)[k]}
    BY <1>5, <1>6, ObjectHeld
  <1>8. HeldAt(Object(A), k) = {Assigned(A)[k]}
    BY <1>1, <1>3, ObjectHeld
  <1> QED
    BY <1>2, <1>7, <1>8 DEF J, u

-----------------------------------------------------------------------------
LEMMA PlacesListed == Listed \subseteq Int /\ \A s : PlacesOf(s) \subseteq Listed
  <1>1. DOMAIN FileOrder = 1..Len(FileOrder) /\ Len(FileOrder) \in Nat
    BY FilesAssumption
  <1> QED
    BY <1>1 DEF Listed, PlacesOf

LEMMA InputFields ==
    ASSUME NEW i \in Inputs
    PROVE  /\ i.targets \in Seq(ExtensionsOf(i))
           /\ i.resolved = {} \/ \A t \in ExtensionsOf(i) : t.scope \in i.resolved
  BY InputsAssumption

\* Taking the first of a row and putting it elsewhere loses no other.
LEMMA AmongTail ==
    ASSUME NEW S, NEW q \in Seq(S), q # <<>>, NEW t, Among(t, q)
    PROVE  t = Head(q) \/ Among(t, Tail(q))
  <1>1. PICK k \in DOMAIN q : q[k] = t
    BY DEF Among
  <1>2. Len(q) \in Nat /\ DOMAIN q = 1..Len(q) /\ Head(q) = q[1]
    OBVIOUS
  <1>3. CASE k = 1
    BY <1>1, <1>2, <1>3
  <1>4. CASE k # 1
    <2>1. k - 1 \in 1..Len(q) - 1 /\ Len(Tail(q)) = Len(q) - 1
      BY <1>2, <1>4
    <2>2. Tail(q)[k - 1] = t /\ k - 1 \in DOMAIN Tail(q)
      BY <1>1, <2>1
    <2> QED
      BY <2>2 DEF Among
  <1> QED
    BY <1>3, <1>4

LEMMA AmongAppend ==
    ASSUME NEW S, NEW q \in Seq(S), NEW u \in S
    PROVE  /\ Among(u, Append(q, u))
           /\ \A t : Among(t, q) => Among(t, Append(q, u))
           /\ \A k \in DOMAIN Append(q, u) : Append(q, u)[k] = u \/ (k \in DOMAIN q /\ Append(q, u)[k] = q[k])
  <1>1. /\ Len(q) \in Nat /\ DOMAIN q = 1..Len(q) /\ Len(Append(q, u)) = Len(q) + 1
        /\ DOMAIN Append(q, u) = 1..Len(q) + 1 /\ Append(q, u)[Len(q) + 1] = u
        /\ \A k \in 1..Len(q) : Append(q, u)[k] = q[k]
    OBVIOUS
  <1>2. ASSUME NEW t, Among(t, q) PROVE Among(t, Append(q, u))
    <2>1. PICK k \in DOMAIN q : q[k] = t
      BY <1>2 DEF Among
    <2>2. k \in DOMAIN Append(q, u) /\ Append(q, u)[k] = t
      BY <1>1, <2>1
    <2> QED
      BY <2>2 DEF Among
  <1>3. Among(u, Append(q, u))
    <2>1. Len(q) + 1 \in DOMAIN Append(q, u)
      BY <1>1
    <2> QED
      BY <1>1, <2>1 DEF Among
  <1>4. ASSUME NEW k \in DOMAIN Append(q, u)
        PROVE  Append(q, u)[k] = u \/ (k \in DOMAIN q /\ Append(q, u)[k] = q[k])
    <2>1. k = Len(q) + 1 \/ k \in 1..Len(q)
      BY <1>1
    <2>2. CASE k = Len(q) + 1
      BY <1>1, <2>2
    <2>3. CASE k \in 1..Len(q)
      BY <1>1, <2>3
    <2> QED
      BY <2>1, <2>2, <2>3
  <1> QED
    BY <1>2, <1>3, <1>4

LEMMA TailWithin ==
    ASSUME NEW S, NEW q \in Seq(S), q # <<>>
    PROVE  /\ Tail(q) \in Seq(S) /\ Head(q) \in S /\ 1 \in DOMAIN q /\ Head(q) = q[1]
           /\ \A k \in DOMAIN Tail(q) : k + 1 \in DOMAIN q /\ Tail(q)[k] = q[k + 1]
  OBVIOUS

\* The file validation takes for a scope lies at the last of the scope's places.
LEMMA LatestPlace ==
    ASSUME NEW s, PlacesOf(s) # {}
    PROVE  \E k \in PlacesOf(s) : LocatedFile(s) = FileOrder[k] /\ \A j \in PlacesOf(s) : j <= k
  <1> DEFINE n == Len(FileOrder)
             T == {n - k : k \in PlacesOf(s)}
  <1>1. n \in Nat /\ PlacesOf(s) \subseteq 1..n
    BY FilesAssumption DEF PlacesOf, Listed
  <1> HIDE DEF n
  <1>2. T \in SUBSET Nat /\ T # {}
    BY <1>1
  <1>3. PICK x \in T : \A y \in T : x <= y
    BY <1>2, LeastNatural
  <1>4. PICK m \in PlacesOf(s) : x = n - m
    BY <1>3
  <1>5. ASSUME NEW j \in PlacesOf(s) PROVE j <= m
    <2>1. n - m <= n - j
      BY <1>3, <1>4
    <2> QED
      BY <1>1, <2>1
  <1> HIDE DEF T
  <1> QED
    BY <1>4, <1>5 DEF LocatedFile

\* What is located for a scope is what was read for it, if it could be read.
LEMMA LocatedIsHeld ==
    ASSUME ReadSoFar, files = {}, NEW s \in {ScopeAt(k) : k \in Listed}, Reads(disk[LocatedFile(s)])
    PROVE  s \in DOMAIN fragments /\ fragments[s] = disk[LocatedFile(s)]
  <1>1. PlacesOf(s) # {}
    BY DEF PlacesOf
  <1>2. PICK k \in PlacesOf(s) : LocatedFile(s) = FileOrder[k] /\ \A j \in PlacesOf(s) : j <= k
    BY <1>1, LatestPlace
  <1>3. k \in Seen /\ ScopeAt(k) = s /\ At(k) = disk[LocatedFile(s)]
    BY <1>2 DEF PlacesOf, Seen, At
  <1>4. \A j \in Seen : ScopeAt(j) = ScopeAt(k) => j <= k
    BY <1>2, <1>3 DEF PlacesOf, Seen
  <1> QED
    BY <1>3, <1>4 DEF ReadSoFar

LEMMA LocatedListed ==
    ASSUME NEW s \in {ScopeAt(k) : k \in Listed}
    PROVE  disk[LocatedFile(s)] # Absent
  <1>1. PlacesOf(s) # {}
    BY DEF PlacesOf
  <1>2. PICK k \in PlacesOf(s) : LocatedFile(s) = FileOrder[k]
    BY <1>1, LatestPlace
  <1> QED
    BY <1>2 DEF PlacesOf, Listed

-----------------------------------------------------------------------------
LEMMA InitInv == Init => IInv
  <1> SUFFICES ASSUME Init PROVE IInv
    OBVIOUS
  <1>1. \A k \in DOMAIN <<>> : FALSE
    OBVIOUS
  <1> QED
    BY <1>1 DEF Init, IInv

\* What a step leaves alone keeps its part of the invariant.
LEMMA SameReads ==
    ASSUME UNCHANGED <<disk, files, fragments>>
    PROVE  ReadSoFar <=> ReadSoFar'
  BY DEF ReadSoFar, Seen, At, Listed, ScopeAt, Reads

LEMMA SameChecked ==
    ASSUME UNCHANGED <<input, disk, fragments>>
    PROVE  /\ \A t : Checked(t) <=> Checked(t)'
           /\ AllChecked <=> AllChecked'
  BY DEF Checked, AllChecked, LastIsFalsy, LocatedFile, PlacesOf, Listed, ScopeAt, Document, ExtensionsOf

LEMMA SameAccounted ==
    ASSUME UNCHANGED <<input, disk, fragments, targets, validated, skipped, invalid>>
    PROVE  Accounted <=> Accounted'
  BY SameChecked DEF Accounted, ExtensionsOf, Among

LEMMA SameLocated ==
    ASSUME UNCHANGED <<disk, located>>
    PROVE  (located = [s \in {ScopeAt(k) : k \in Listed} |-> LocatedFile(s)])
             <=> (located = [s \in {ScopeAt(k) : k \in Listed} |-> LocatedFile(s)])'
  BY DEF ScopeAt, Listed, LocatedFile, PlacesOf

LEMMA ListSourcesInv == IInv /\ ListSources => IInv'
  <1> SUFFICES ASSUME IInv, ListSources PROVE IInv'
    OBVIOUS
  <1>1. /\ phase = "list" /\ phase' = "read" /\ files' = Listed
        /\ UNCHANGED <<input, disk, undisturbed, fragments, targets, validated>>
    BY DEF ListSources, outside
  <1>2. ReadSoFar'
    <2>1. Listed' = Listed
      BY <1>1 DEF Listed
    <2>2. Seen' = {} /\ files' = Listed'
      BY <1>1, <2>1 DEF Seen
    <2> QED
      BY <2>2 DEF ReadSoFar
  <1> QED
    BY <1>1, <1>2 DEF IInv

LEMMA ReadSourceInv == IInv /\ ReadSource => IInv'
  <1> SUFFICES ASSUME IInv, ReadSource PROVE IInv'
    OBVIOUS
  <1>1. /\ phase = "read" /\ phase' = "read"
        /\ UNCHANGED <<input, disk, undisturbed, targets, validated>>
    BY DEF ReadSource, outside
  <1>2. ASSUME undisturbed PROVE ReadSoFar'
    <2>1. ReadSoFar /\ Listed' = Listed /\ \A j : At(j)' = At(j) /\ ScopeAt(j)' = ScopeAt(j)
      BY <1>1, <1>2 DEF IInv, Listed, At, ScopeAt
    <2>2. PICK k \in files :
            /\ \A j \in files : k <= j
            /\ files' = files \ {k}
            /\ fragments' = IF Reads(At(k)) THEN Held(ScopeAt(k), At(k)) ELSE fragments
      BY DEF ReadSource, At
    <2>3. files \subseteq Listed /\ Listed \subseteq Int /\ Seen' = Seen \cup {k} /\ \A j \in Seen : j < k
      BY <2>1, <2>2, PlacesListed DEF ReadSoFar, Seen
    <2>4. files' \subseteq Listed' /\ \A i \in Seen', j \in files' : i < j
      <3>1. \A j \in files' : k < j
        BY <2>2, <2>3
      <3> QED
        BY <2>1, <2>2, <2>3, <3>1 DEF ReadSoFar
    <2>5. ASSUME NEW i \in Seen', Reads(At(i)),
                 \A j \in Seen' : ScopeAt(j) = ScopeAt(i) /\ Reads(At(j)) => j <= i
          PROVE  ScopeAt(i) \in DOMAIN fragments' /\ fragments'[ScopeAt(i)] = At(i)
      <3>1. CASE i = k
        BY <2>2, <2>5, <3>1 DEF Held
      <3>2. CASE i # k
        <4>1. i \in Seen /\ i < k
          BY <2>3, <3>2
        <4>2. ~(ScopeAt(k) = ScopeAt(i) /\ Reads(At(k)))
          <5>1. k \in Int /\ i \in Int
            BY <2>2, <2>3, <4>1 DEF Seen
          <5>2. k \in Seen' /\ ~(k <= i)
            BY <2>3, <4>1, <5>1
          <5> QED
            BY <2>5, <5>2
        <4>3. ScopeAt(i) \in DOMAIN fragments /\ fragments[ScopeAt(i)] = At(i)
          BY <2>1, <2>3, <2>5, <4>1 DEF ReadSoFar
        <4> QED
          BY <2>2, <4>2, <4>3 DEF Held
      <3> QED
        BY <3>1, <3>2
    <2>6. \A c : Reads(c)' <=> Reads(c)
      BY DEF Reads
    <2> QED
      BY <2>1, <2>4, <2>5, <2>6 DEF ReadSoFar
  <1> QED
    BY <1>1, <1>2 DEF IInv

LEMMA ProjectInv == IInv /\ Project => IInv'
  <1> SUFFICES ASSUME IInv, Project PROVE IInv'
    OBVIOUS
  <1>1. /\ phase = "read" /\ phase' = "schemas" /\ files = {}
        /\ UNCHANGED <<input, disk, undisturbed, files, fragments, targets, validated>>
    BY DEF Project, outside, setup
  <1> QED
    BY <1>1, SameReads DEF IInv

LEMMA ReadSchemasInv == IInv /\ ReadSchemas => IInv'
  <1> SUFFICES ASSUME IInv, ReadSchemas PROVE IInv'
    OBVIOUS
  <1>1. /\ phase = "schemas"
        /\ UNCHANGED <<input, disk, undisturbed, files, fragments, validated>>
        /\ \/ phase' = "threw" /\ UNCHANGED targets
           \/ /\ phase' = IF input.validation /\ input.targets # <<>> THEN "locate" ELSE "start"
              /\ targets' = input.targets
    BY DEF ReadSchemas, outside
  <1>2. targets' \in Seq(ExtensionsOf(input))
    BY <1>1, InputFields DEF IInv
  <1>3. ASSUME phase' = "locate" PROVE Accounted'
    <2>1. targets' = input.targets
      BY <1>1, <1>3
    <2>2. \A t \in ExtensionsOf(input) : Among(t, input.targets)
      BY DEF ExtensionsOf, Among
    <2> QED
      BY <1>1, <2>1, <2>2 DEF Accounted
  <1>4. ASSUME phase' = "start", input.validation PROVE AllChecked'
    <2>1. input.targets = <<>>
      BY <1>1, <1>4
    <2>2. ExtensionsOf(input) = {}
      BY <2>1 DEF ExtensionsOf
    <2> QED
      BY <1>1, <2>2 DEF AllChecked
  <1> QED
    BY <1>1, <1>2, <1>3, <1>4, SameReads DEF IInv

LEMMA LocateInv == IInv /\ Locate => IInv'
  <1> SUFFICES ASSUME IInv, Locate PROVE IInv'
    OBVIOUS
  <1>1. /\ phase = "locate" /\ phase' = "sort"
        /\ located' = [s \in {ScopeAt(k) : k \in Listed} |-> LocatedFile(s)]
        /\ UNCHANGED <<input, disk, undisturbed, files, fragments, targets, skipped, validated, invalid>>
    BY DEF Locate, outside
  <1>2. located' = [s \in {ScopeAt(k) : k \in Listed} |-> LocatedFile(s)]'
    BY <1>1 DEF ScopeAt, Listed, LocatedFile, PlacesOf
  <1>3. \A k \in DOMAIN validated' : FALSE
    BY <1>1 DEF IInv
  <1> QED
    BY <1>1, <1>2, <1>3, SameReads, SameAccounted DEF IInv

LEMMA SortTargetInv == IInv /\ SortTarget => IInv'
  <1> SUFFICES ASSUME IInv, SortTarget PROVE IInv'
    OBVIOUS
  <1> DEFINE E == ExtensionsOf(input)
             t == Head(targets)
  <1>1. /\ phase = "sort" /\ phase' = "sort" /\ targets # <<>> /\ targets' = Tail(targets)
        /\ UNCHANGED <<input, disk, undisturbed, files, fragments, located, invalid>>
        /\ \/ /\ ~(Registers(t) /\ (Reports(t) \/ (t.directory /\ t.scope \in DOMAIN located)))
              /\ UNCHANGED <<skipped, validated>>
           \/ skipped' = skipped \cup {t.scope} /\ UNCHANGED validated
           \/ t.scope \in DOMAIN located /\ validated' = Append(validated, t) /\ UNCHANGED skipped
    BY DEF SortTarget, outside
  <1>2. /\ targets \in Seq(E) /\ validated \in Seq(E) /\ ExtensionsOf(input') = E
        /\ \A k \in DOMAIN validated : validated[k].scope \in DOMAIN located
    BY <1>1 DEF IInv
  <1>3. targets' \in Seq(E) /\ t \in E
    BY <1>1, <1>2, TailWithin
  <1> HIDE DEF E, t
  <1>4. Append(validated, t) \in Seq(E)
    BY <1>2, <1>3
  <1>5. /\ validated' \in Seq(E)
        /\ \A k \in DOMAIN validated' : validated'[k].scope \in DOMAIN located'
    <2>1. CASE UNCHANGED validated
      BY <1>1, <1>2, <2>1
    <2>2. CASE t.scope \in DOMAIN located /\ validated' = Append(validated, t)
      BY <1>1, <1>2, <1>3, <1>4, <2>2, AmongAppend
    <2> QED
      BY <1>1, <2>1, <2>2
  <1>6. ASSUME Accounted PROVE Accounted'
    <2> SUFFICES ASSUME NEW u \in E, Requires(u)
                 PROVE  \/ Among(u, targets') \/ Among(u, validated')
                        \/ u.scope \in skipped' \cup invalid' \/ Checked(u)'
      BY <1>2 DEF Accounted, E
    <2>1. Among(u, targets) \/ Among(u, validated) \/ u.scope \in skipped \cup invalid \/ Checked(u)
      BY <1>6 DEF Accounted, E
    <2>2. Among(u, targets) => u = t \/ Among(u, targets')
      BY <1>1, <1>2, AmongTail DEF t
    <2>a. Among(t, Append(validated, t)) /\ (Among(u, validated) => Among(u, Append(validated, t)))
      BY <1>2, <1>3, AmongAppend
    <2>3. Among(u, validated) => Among(u, validated')
      BY <1>1, <2>a
    <2>4. skipped \subseteq skipped'
      BY <1>1
    <2>5. Registers(u) /\ Reports(u)
      BY DEF Requires, Registers, Reports, Mode
    <2>6. u = t => Among(u, validated') \/ u.scope \in skipped'
      <3>1. CASE ~(Registers(t) /\ (Reports(t) \/ (t.directory /\ t.scope \in DOMAIN located)))
        BY <2>5, <3>1
      <3>2. CASE skipped' = skipped \cup {t.scope}
        BY <3>2
      <3>3. CASE validated' = Append(validated, t)
        BY <2>a, <3>3
      <3> QED
        BY <1>1, <3>1, <3>2, <3>3
    <2> QED
      BY <1>1, <2>1, <2>2, <2>3, <2>4, <2>6, SameChecked
  <1> QED
    BY <1>1, <1>2, <1>3, <1>5, <1>6, SameReads, SameLocated DEF IInv, E

LEMMA EndTargetsInv == IInv /\ EndTargets => IInv'
  <1> SUFFICES ASSUME IInv, EndTargets PROVE IInv'
    OBVIOUS
  <1>1. /\ phase = "sort" /\ phase' = "validate" /\ targets = <<>>
        /\ UNCHANGED <<input, disk, undisturbed, files, fragments, located, targets, skipped, validated, invalid>>
    BY DEF EndTargets, outside, setup
  <1> QED
    BY <1>1, SameReads, SameAccounted, SameLocated DEF IInv

LEMMA ValidateInv == IInv /\ Validate => IInv'
  <1> SUFFICES ASSUME IInv, Validate PROVE IInv'
    OBVIOUS
  <1> DEFINE E == ExtensionsOf(input)
             t == Head(validated)
             content == disk[located[t.scope]]
  <1>1. /\ phase = "validate" /\ validated # <<>>
        /\ UNCHANGED <<input, disk, undisturbed, files, fragments, located, targets, skipped>>
        /\ \/ phase' = "threw" /\ UNCHANGED <<validated, invalid>>
           \/ /\ Broken \notin {content, t.schema}
              /\ invalid' = IF Passes(t.schema, content) THEN invalid ELSE invalid \cup {t.scope}
              /\ validated' = Tail(validated) /\ phase' = phase
    BY DEF Validate, outside
  <1>2. /\ targets \in Seq(E) /\ validated \in Seq(E) /\ ExtensionsOf(input') = E /\ targets = <<>>
        /\ \A k \in DOMAIN validated : validated[k].scope \in DOMAIN located
    BY <1>1 DEF IInv
  <1>3. t \in E /\ t.scope \in DOMAIN located /\ Tail(validated) \in Seq(E)
    BY <1>1, <1>2, TailWithin
  <1>4. \A k \in DOMAIN Tail(validated) : Tail(validated)[k].scope \in DOMAIN located
    BY <1>1, <1>2, TailWithin
  <1>5. ASSUME undisturbed, content # Broken, Passes(t.schema, content) PROVE Checked(t)
    <2>1. /\ ReadSoFar /\ files = {}
          /\ located = [s \in {ScopeAt(k) : k \in Listed} |-> LocatedFile(s)]
      BY <1>1, <1>5 DEF IInv
    <2>2. t.scope \in {ScopeAt(k) : k \in Listed} /\ located[t.scope] = LocatedFile(t.scope)
      BY <1>3, <2>1
    <2>3. content # Absent /\ content = disk[LocatedFile(t.scope)] /\ PlacesOf(t.scope) # {}
      BY <2>2, LocatedListed DEF PlacesOf
    <2> HIDE DEF t, content
    <2>4. CASE content \in Falsy
      BY <1>5, <2>3, <2>4 DEF Passes, LastIsFalsy, Checked
    <2>5. CASE content \notin Falsy
      <3>1. Reads(content)
        BY <1>5, <2>3, <2>5 DEF Reads
      <3>2. t.scope \in DOMAIN fragments /\ fragments[t.scope] = content
        BY <2>1, <2>2, <2>3, <3>1, LocatedIsHeld
      <3> QED
        BY <1>5, <2>3, <2>5, <3>2 DEF Passes, LastIsFalsy, Checked
    <2> QED
      BY <2>4, <2>5
  <1> HIDE DEF E, t, content
  <1>6. CASE phase' = "threw"
    BY <1>1, <1>2, <1>6, <1>3, SameReads, SameLocated DEF IInv, E
  <1>7. CASE phase' = phase /\ validated' = Tail(validated) /\ content # Broken
             /\ invalid' = IF Passes(t.schema, content) THEN invalid ELSE invalid \cup {t.scope}
    <2>1. ASSUME undisturbed PROVE Accounted'
      <3> SUFFICES ASSUME NEW u \in E, Requires(u)
                   PROVE  \/ Among(u, validated') \/ u.scope \in skipped' \cup invalid' \/ Checked(u)'
        BY <1>2 DEF Accounted, E
      <3>1. Among(u, targets) \/ Among(u, validated) \/ u.scope \in skipped \cup invalid \/ Checked(u)
        BY <1>1, <2>1 DEF IInv, Accounted, E
      <3>2. ~Among(u, targets)
        BY <1>2 DEF Among
      <3>3. Among(u, validated) => u = t \/ Among(u, validated')
        BY <1>1, <1>2, <1>7, AmongTail DEF t
      <3>4. u = t => u.scope \in invalid' \/ Checked(u)
        BY <1>5, <1>7, <2>1
      <3>5. invalid \subseteq invalid'
        BY <1>7
      <3> QED
        BY <1>1, <3>1, <3>2, <3>3, <3>4, <3>5, SameChecked
    <2> QED
      BY <1>1, <1>2, <1>3, <1>4, <1>7, <2>1, SameReads, SameLocated DEF IInv, E
  <1> QED
    BY <1>1, <1>6, <1>7

LEMMA AssertRequiredInv == IInv /\ AssertRequired => IInv'
  <1> SUFFICES ASSUME IInv, AssertRequired PROVE IInv'
    OBVIOUS
  <1> DEFINE required == {t.scope : t \in {u \in ExtensionsOf(input) : Requires(u)}}
  <1>1. /\ phase = "validate" /\ validated = <<>> /\ phase' \in {"start", "refused"}
        /\ phase' = "start" => required \cap (skipped \cup invalid) = {}
        /\ UNCHANGED <<input, disk, undisturbed, files, fragments, targets, validated>>
    BY DEF AssertRequired, outside, setup
  <1>2. ASSUME undisturbed, phase' = "start" PROVE AllChecked
    <2> SUFFICES ASSUME NEW u \in ExtensionsOf(input), Requires(u) PROVE Checked(u)
      BY DEF AllChecked
    <2>1. ~Among(u, targets) /\ ~Among(u, validated)
      BY <1>1 DEF IInv, Among
    <2>2. u.scope \in required
      OBVIOUS
    <2> HIDE DEF required
    <2>3. u.scope \notin skipped \cup invalid
      BY <1>1, <1>2, <2>2
    <2> QED
      BY <1>1, <1>2, <2>1, <2>3 DEF IInv, Accounted
  <1> HIDE DEF required
  <1> QED
    BY <1>1, <1>2, SameReads, SameChecked DEF IInv

LEMMA StartInv == IInv /\ (Start \/ UseValidated) => IInv'
  <1> SUFFICES ASSUME IInv, Start \/ UseValidated PROVE IInv'
    OBVIOUS
  <1>1. /\ phase \in {"start", "ready"} /\ phase' = "ready"
        /\ UNCHANGED <<input, disk, undisturbed, files, fragments, targets, validated>>
    BY DEF Start, UseValidated, outside, setup
  <1> QED
    BY <1>1, SameReads, SameChecked DEF IInv

\* A write either comes before the files are listed, or disturbs.
LEMMA WriteInv == IInv /\ (BeginWrite \/ EndWrite) => IInv'
  <1> SUFFICES ASSUME IInv, BeginWrite \/ EndWrite PROVE IInv'
    OBVIOUS
  <1>1. /\ undisturbed' = (undisturbed /\ phase = "list") /\ UNCHANGED <<input, phase, setup>>
    BY DEF BeginWrite, EndWrite
  <1>2. UNCHANGED <<files, fragments, located, targets, skipped, validated, invalid>>
    BY <1>1 DEF setup
  <1> QED
    BY <1>1, <1>2 DEF IInv

LEMMA StepInv == IInv /\ [Next]_vars => IInv'
  <1> SUFFICES ASSUME IInv, [Next]_vars PROVE IInv'
    OBVIOUS
  <1>1. CASE UNCHANGED vars
    <2>1. UNCHANGED <<input, disk, undisturbed, phase, files, fragments, located, targets,
                      skipped, validated, invalid>>
      BY <1>1 DEF vars, outside, setup
    <2> QED
      BY <2>1, SameReads, SameAccounted, SameLocated, SameChecked DEF IInv
  <1> QED
    BY <1>1, ListSourcesInv, ReadSourceInv, ProjectInv, ReadSchemasInv, LocateInv, SortTargetInv,
       EndTargetsInv, ValidateInv, AssertRequiredInv, StartInv, WriteInv DEF Next

LEMMA AlwaysIInv == Spec => []IInv
  BY InitInv, StepInv, PTL DEF Spec

\* A host that started undisturbed holds a fragment its schema accepted for every
\* extension that must be valid at startup, although what it holds was read before, and
\* separately from, what was validated; for any files, extensions and schemas. Only where
\* the last file of the scope holds falsy JSON, and the schema accepts that, is what the
\* host holds of the scope not what was validated.
\* (applyRuntimeConfigModule, validateRuntimeConfigSourceScopes)
THEOREM ChecksWhatItHolds == Spec => []StartedMeansChecked
  <1>1. IInv => StartedMeansChecked
    <2> SUFFICES ASSUME IInv, phase = "ready", undisturbed, input.validation,
                        NEW t \in ExtensionsOf(input), Requires(t)
                 PROVE  IF LastIsFalsy(t.scope) THEN Accepts(t.schema, disk[LocatedFile(t.scope)])
                        ELSE t.scope \in Projected /\ Accepts(t.schema, Document(fragments[t.scope]))
      BY DEF StartedMeansChecked
    <2>1. Checked(t) /\ input \in Inputs
      BY DEF IInv, AllChecked
    <2>2. ~LastIsFalsy(t.scope) => t.scope \in ScopeIds
      BY <2>1, InputFields DEF ScopeIds, Checked
    <2> QED
      BY <2>1, <2>2 DEF Checked, Projected
  <1> QED
    BY <1>1, AlwaysIInv, PTL

-----------------------------------------------------------------------------
(***************************************************************************)
(* What the host reads, projects, registers and answers.                   *)
(***************************************************************************)
LEMMA InitData == Init => DataInv
  <1> SUFFICES ASSUME Init PROVE DataInv
    OBVIOUS
  <1>1. DOMAIN <<>> = {}
    OBVIOUS
  <1>2. input \in Inputs /\ disk = input.disk /\ writing = {} /\ written = 0 /\ files = {}
        /\ fragments = <<>> /\ registry = <<>> /\ answer = <<>> /\ phase = "list"
    BY DEF Init
  <1>3. DOMAIN disk = DOMAIN FileScope /\ \A f \in DOMAIN disk : Reads(disk[f]) => IsFragment(disk[f])
    BY <1>2, InputsAssumption
  <1> QED
    BY <1>1, <1>2, <1>3 DEF DataInv

\* What a step that touches none of it keeps.
LEMMA KeepsData ==
    ASSUME DataInv, UNCHANGED <<input, disk, writing, written, undisturbed, files, fragments, runtime, registry, answer>>,
           phase' = "list" => phase = "list",
           phase' \in {"schemas", "locate", "sort", "validate", "start"} =>
               phase \in {"schemas", "locate", "sort", "validate", "start"},
           phase = "ready" <=> phase' = "ready"
    PROVE  DataInv'
  <1>1. /\ \A f : IsFragment(f)' <=> IsFragment(f)
        /\ \A c : Reads(c)' <=> Reads(c)
    BY DEF IsFragment, IsSection, Reads, IsName
  <1>2. ExtensionsOf(input)' = ExtensionsOf(input) /\ ScopeIds' = ScopeIds
    BY DEF ExtensionsOf, ScopeIds
  <1>3. Seen' = Seen /\ \A k : At(k)' = At(k) /\ ScopeAt(k)' = ScopeAt(k)
    BY DEF Seen, Listed, At, ScopeAt
  <1>4. ProjectSectioned(fragments, ScopeIds)' = ProjectSectioned(fragments, ScopeIds)
    BY <1>2
  <1>5. \A s : AnsweredFrom(s)' <=> AnsweredFrom(s)
    BY DEF AnsweredFrom, FragmentView, ScopeView, ScopeValues
  <1> QED
    BY <1>1, <1>2, <1>3, <1>4, <1>5 DEF DataInv

LEMMA ConstantData ==
    /\ \A f : IsFragment(f)' <=> IsFragment(f)
    /\ \A c : Reads(c)' <=> Reads(c)
    /\ \A k : ScopeAt(k)' = ScopeAt(k)
  BY DEF IsFragment, IsSection, Reads, IsName, ScopeAt

LEMMA ListSourcesData == DataInv /\ ListSources => DataInv'
  <1> SUFFICES ASSUME DataInv, ListSources PROVE DataInv'
    OBVIOUS
  <1>1. /\ phase = "list" /\ phase' = "read" /\ files' = Listed
        /\ UNCHANGED <<input, disk, writing, written, undisturbed, fragments, runtime, registry, answer>>
    BY DEF ListSources, outside
  <1>2. files' \subseteq DOMAIN FileOrder
    BY <1>1 DEF Listed
  <1>3. DOMAIN fragments = {} /\ answer = <<>>
    BY <1>1 DEF DataInv
  <1>4. ExtensionsOf(input)' = ExtensionsOf(input)
    BY <1>1 DEF ExtensionsOf
  <1> QED
    BY <1>1, <1>2, <1>3, <1>4, ConstantData DEF DataInv

LEMMA ReadSourceData == IInv /\ DataInv /\ ReadSource => DataInv'
  <1> SUFFICES ASSUME IInv, DataInv, ReadSource PROVE DataInv'
    OBVIOUS
  <1>1. /\ phase = "read" /\ phase' = "read"
        /\ UNCHANGED <<input, disk, writing, written, undisturbed, runtime, registry, answer>>
    BY DEF ReadSource, outside
  <1>2. PICK k \in files :
           files' = files \ {k} /\ fragments' = IF Reads(At(k)) THEN Held(ScopeAt(k), At(k)) ELSE fragments
    BY DEF ReadSource, At
  <1>3. k \in DOMAIN FileOrder /\ ScopeAt(k) \in Range(ScopeOrder) /\ (Reads(At(k)) => IsFragment(At(k)))
    <2>1. k \in DOMAIN FileOrder /\ FileOrder[k] \in DOMAIN FileScope
      BY FilesAssumption DEF DataInv
    <2>2. FileScope[FileOrder[k]] \in Range(ScopeOrder)
      BY <2>1, FilesAssumption
    <2> QED
      BY <2>1, <2>2 DEF DataInv, At, ScopeAt
  <1>4. ASSUME Reads(At(k))
        PROVE  /\ DOMAIN fragments' = DOMAIN fragments \cup {ScopeAt(k)}
               /\ \A s \in DOMAIN fragments' : fragments'[s] = IF s = ScopeAt(k) THEN At(k) ELSE fragments[s]
    BY <1>2, <1>4 DEF Held
  <1>5. DOMAIN fragments' \subseteq Range(ScopeOrder) /\ \A s \in DOMAIN fragments' : IsFragment(fragments'[s])
    BY <1>2, <1>3, <1>4 DEF DataInv
  <1>6. ASSUME undisturbed PROVE \A s \in DOMAIN fragments' : \E j \in Seen' : ScopeAt(j) = s /\ Reads(At(j))
    <2>1. files \subseteq Listed
      BY <1>1, <1>6 DEF IInv, ReadSoFar
    <2>2. Seen' = Seen \cup {k}
      <3>1. Listed' = Listed
        BY <1>1 DEF Listed
      <3> QED
        BY <1>2, <2>1, <3>1 DEF Seen
    <2>3. \A s \in DOMAIN fragments : \E j \in Seen : ScopeAt(j) = s /\ Reads(At(j))
      BY <1>6 DEF DataInv
    <2> QED
      BY <1>2, <1>4, <2>2, <2>3
  <1>7. files' \subseteq DOMAIN FileOrder
    BY <1>2 DEF DataInv
  <1>8. \A j : At(j)' = At(j)
    BY <1>1 DEF At
  <1>9. ExtensionsOf(input)' = ExtensionsOf(input) /\ answer = <<>>
    BY <1>1 DEF ExtensionsOf, DataInv
  <1> QED
    BY <1>1, <1>5, <1>6, <1>7, <1>8, <1>9, ConstantData DEF DataInv

LEMMA ProjectData == DataInv /\ Project => DataInv'
  <1> SUFFICES ASSUME DataInv, Project PROVE DataInv'
    OBVIOUS
  <1>1. /\ phase = "read" /\ phase' = "schemas" /\ runtime' = ProjectSectioned(fragments, ScopeIds)
        /\ UNCHANGED <<input, disk, writing, written, undisturbed, files, fragments, registry, answer>>
    BY DEF Project, outside, setup
  <1>2. ProjectSectioned(fragments, ScopeIds)' = ProjectSectioned(fragments, ScopeIds)
    BY <1>1 DEF ScopeIds
  <1>3. Seen' = Seen /\ \A k : At(k)' = At(k)
    BY <1>1 DEF Seen, Listed, At
  <1>4. ExtensionsOf(input)' = ExtensionsOf(input) /\ answer = <<>>
    BY <1>1 DEF ExtensionsOf, DataInv
  <1> QED
    BY <1>1, <1>2, <1>3, <1>4, ConstantData DEF DataInv

LEMMA ReadSchemasData == DataInv /\ ReadSchemas => DataInv'
  <1> SUFFICES ASSUME DataInv, ReadSchemas PROVE DataInv'
    OBVIOUS
  <1> DEFINE registered == {t \in ExtensionsOf(input) : input.validation /\ Registers(t) /\ HasSchema(t)}
  <1>1. /\ phase = "schemas" /\ phase' \in {"threw", "locate", "start"}
        /\ UNCHANGED <<input, disk, writing, written, undisturbed, files, fragments, runtime, answer>>
        /\ \/ UNCHANGED registry
           \/ registry' = [s \in {t.scope : t \in registered} |-> (CHOOSE t \in registered : t.scope = s).schema]
    BY DEF ReadSchemas, outside
  <1>2. ProjectSectioned(fragments, ScopeIds)' = ProjectSectioned(fragments, ScopeIds)
    BY <1>1 DEF ScopeIds
  <1>3. Seen' = Seen /\ \A k : At(k)' = At(k)
    BY <1>1 DEF Seen, Listed, At
  <1>4. ExtensionsOf(input)' = ExtensionsOf(input) /\ answer = <<>>
    BY <1>1 DEF ExtensionsOf, DataInv
  <1>5. \A s \in DOMAIN registry' :
           input.validation /\ \E t \in ExtensionsOf(input) : t.scope = s /\ registry'[s] = t.schema
    <2>1. CASE UNCHANGED registry
      BY <2>1 DEF DataInv
    <2>2. CASE registry' = [s \in {t.scope : t \in registered} |-> (CHOOSE t \in registered : t.scope = s).schema]
      <3> SUFFICES ASSUME NEW s \in DOMAIN registry'
                   PROVE  input.validation /\ \E t \in ExtensionsOf(input) : t.scope = s /\ registry'[s] = t.schema
        OBVIOUS
      <3>1. \E t \in registered : t.scope = s
        BY <2>2
      <3>2. registry'[s] = (CHOOSE t \in registered : t.scope = s).schema
        BY <2>2
      <3> DEFINE chosen == CHOOSE t \in registered : t.scope = s
      <3>3. chosen \in registered /\ chosen.scope = s
        BY <3>1
      <3>4. registry'[s] = chosen.schema
        BY <3>2
      <3> HIDE DEF chosen
      <3> QED
        BY <3>3, <3>4
    <2> QED
      BY <1>1, <2>1, <2>2
  <1> QED
    BY <1>1, <1>2, <1>3, <1>4, <1>5, ConstantData DEF DataInv

LEMMA StartData == DataInv /\ Start => DataInv'
  <1> SUFFICES ASSUME DataInv, Start PROVE DataInv'
    OBVIOUS
  <1>1. /\ phase = "start" /\ phase' = "ready" /\ runtime' = Merge(input.host, runtime, input.privateOutput)
        /\ UNCHANGED <<input, disk, writing, written, undisturbed, files, fragments, registry, answer>>
    BY DEF Start, outside, setup
  <1>2. ProjectSectioned(fragments, ScopeIds)' = ProjectSectioned(fragments, ScopeIds)
    BY <1>1 DEF ScopeIds
  <1>3. runtime = ProjectSectioned(fragments, ScopeIds)
    BY <1>1 DEF DataInv
  <1>4. runtime' = Merge(input.host, ProjectSectioned(fragments, ScopeIds), input.privateOutput)'
    BY <1>1, <1>2, <1>3
  <1>5. Seen' = Seen /\ \A k : At(k)' = At(k)
    BY <1>1 DEF Seen, Listed, At
  <1>6. ExtensionsOf(input)' = ExtensionsOf(input) /\ answer = <<>>
    BY <1>1 DEF ExtensionsOf, DataInv
  <1> QED
    BY <1>1, <1>4, <1>5, <1>6, ConstantData DEF DataInv

LEMMA UseValidatedData == DataInv /\ UseValidated => DataInv'
  <1> SUFFICES ASSUME DataInv, UseValidated PROVE DataInv'
    OBVIOUS
  <1>1. /\ phase = "ready" /\ phase' = "ready"
        /\ UNCHANGED <<input, disk, writing, written, undisturbed, files, fragments, runtime, registry>>
    BY DEF UseValidated, outside, setup
  <1>2. PICK s \in Range(ScopeOrder) :
           \/ s \in DOMAIN registry /\ answer' = <<s, Accepts(registry[s], Rebuilt(FragmentView(runtime, s)))>>
           \/ answer' = <<s, Unregistered>>
    BY DEF UseValidated
  <1>3. AnsweredFrom(s)'
    <2>1. FragmentView(runtime, s)' = FragmentView(runtime, s)
      BY <1>1 DEF FragmentView, ScopeView, ScopeValues
    <2> QED
      BY <1>1, <1>2, <2>1 DEF AnsweredFrom
  <1>4. ProjectSectioned(fragments, ScopeIds)' = ProjectSectioned(fragments, ScopeIds)
    BY <1>1 DEF ScopeIds
  <1>5. Seen' = Seen /\ \A k : At(k)' = At(k)
    BY <1>1 DEF Seen, Listed, At
  <1>6. ExtensionsOf(input)' = ExtensionsOf(input)
    BY <1>1 DEF ExtensionsOf
  <1> QED
    BY <1>1, <1>3, <1>4, <1>5, <1>6, ConstantData DEF DataInv

\* A write either comes before anything is read, or disturbs.
LEMMA WriteData == DataInv /\ (BeginWrite \/ EndWrite) => DataInv'
  <1> SUFFICES ASSUME DataInv, BeginWrite \/ EndWrite PROVE DataInv'
    OBVIOUS
  <1>1. /\ undisturbed' = (undisturbed /\ phase = "list")
        /\ UNCHANGED <<input, phase, files, fragments, registry, runtime, answer>>
    BY DEF BeginWrite, EndWrite, setup
  <1>2. /\ written' \in Nat /\ writing' \subseteq Range(input.writes)
        /\ DOMAIN disk' = DOMAIN FileScope /\ \A f \in DOMAIN disk' : Reads(disk'[f]) => IsFragment(disk'[f])
    <2>1. input \in Inputs /\ written \in Nat /\ writing \subseteq Range(input.writes)
          /\ DOMAIN disk = DOMAIN FileScope /\ \A f \in DOMAIN disk : Reads(disk[f]) => IsFragment(disk[f])
      BY DEF DataInv
    <2>2. /\ input.writes \in Seq(Range(input.writes))
          /\ \A w \in Range(input.writes) : Reads(w.content) => IsFragment(w.content)
      BY <2>1, InputsAssumption
    <2>3. CASE BeginWrite
      <3> DEFINE w == input.writes[written + 1]
      <3>1. /\ written < Len(input.writes) /\ disk' = [disk EXCEPT ![w.file] = Broken]
            /\ writing' = writing \cup {w} /\ written' = written + 1
        BY <2>3 DEF BeginWrite
      <3>2. written + 1 \in DOMAIN input.writes
        BY <2>1, <2>2, <3>1
      <3>3. w \in Range(input.writes)
        BY <3>2 DEF Range
      <3> HIDE DEF w
      <3>4. ~Reads(Broken)
        BY DEF Reads
      <3>5. DOMAIN disk' = DOMAIN disk /\ \A f \in DOMAIN disk : disk'[f] = disk[f] \/ disk'[f] = Broken
        BY <3>1
      <3> QED
        BY <2>1, <3>1, <3>3, <3>4, <3>5
    <2>4. CASE EndWrite
      <3>1. PICK w \in writing : disk' = [disk EXCEPT ![w.file] = w.content] /\ writing' = writing \ {w}
        BY <2>4 DEF EndWrite
      <3>2. written' = written
        BY <2>4 DEF EndWrite
      <3>3. DOMAIN disk' = DOMAIN disk /\ \A f \in DOMAIN disk : disk'[f] = disk[f] \/ disk'[f] = w.content
        BY <3>1
      <3>4. Reads(w.content) => IsFragment(w.content)
        BY <2>1, <2>2
      <3> QED
        BY <2>1, <3>1, <3>2, <3>3, <3>4
    <2> QED
      BY <2>3, <2>4
  <1>3. ProjectSectioned(fragments, ScopeIds)' = ProjectSectioned(fragments, ScopeIds)
    BY <1>1 DEF ScopeIds
  <1>4. ExtensionsOf(input)' = ExtensionsOf(input)
    BY <1>1 DEF ExtensionsOf
  <1>5. undisturbed' => DOMAIN fragments' = {}
    BY <1>1 DEF DataInv
  <1>6. \A s : AnsweredFrom(s)' <=> AnsweredFrom(s)
    BY <1>1 DEF AnsweredFrom, FragmentView, ScopeView, ScopeValues
  <1> QED
    BY <1>1, <1>2, <1>3, <1>4, <1>5, <1>6, ConstantData DEF DataInv

LEMMA StepData == IInv /\ DataInv /\ [Next]_vars => DataInv'
  <1> SUFFICES ASSUME IInv, DataInv, [Next]_vars PROVE DataInv'
    OBVIOUS
  <1>1. CASE UNCHANGED vars
    BY <1>1, KeepsData DEF vars, outside, setup
  <1>2. CASE Locate
    BY <1>2, KeepsData DEF Locate, outside
  <1>3. CASE SortTarget
    BY <1>3, KeepsData DEF SortTarget, outside
  <1>4. CASE EndTargets
    BY <1>4, KeepsData DEF EndTargets, outside, setup
  <1>5. CASE Validate
    <2>1. /\ phase = "validate" /\ phase' \in {"validate", "threw"}
          /\ UNCHANGED <<input, outside, files, fragments, runtime, registry, answer>>
      BY <1>5 DEF Validate
    <2> QED
      BY <2>1, KeepsData DEF outside
  <1>6. CASE AssertRequired
    <2>1. /\ phase = "validate" /\ phase' \in {"start", "refused"}
          /\ UNCHANGED <<input, outside, files, fragments, runtime, registry, answer>>
      BY <1>6 DEF AssertRequired, setup
    <2> QED
      BY <2>1, KeepsData DEF outside
  <1> QED
    BY <1>1, <1>2, <1>3, <1>4, <1>5, <1>6, ListSourcesData, ReadSourceData, ProjectData, ReadSchemasData,
       StartData, UseValidatedData, WriteData DEF Next

LEMMA AlwaysData == Spec => [](IInv /\ DataInv)
  <1>1. Init => IInv /\ DataInv
    BY InitInv, InitData
  <1>2. IInv /\ DataInv /\ [Next]_vars => (IInv /\ DataInv)'
    BY StepInv, StepData
  <1> QED
    BY <1>1, <1>2, PTL DEF Spec

-----------------------------------------------------------------------------
(***************************************************************************)
(* Views and queries of a started host.                                    *)
(***************************************************************************)
LEMMA FragmentSections ==
    ASSUME DataInv, NEW v \in Visibilities
    PROVE  /\ AreSections(Sections(v)) /\ DOMAIN Sections(v) = Projected
           /\ \A s \in Projected : Sections(v)[s] = fragments[s][v]
           /\ \A c : /\ AreSections(SectionsIn(c, v)) /\ DOMAIN SectionsIn(c, v) = Projected
                     /\ \A s \in Projected : SectionsIn(c, v)[s] = InContext(fragments[s], c, v)
  <1>1. Projected \subseteq Range(ScopeOrder) /\ \A s \in Projected : IsFragment(fragments[s])
    BY DEF DataInv, Projected
  <1>2. \A s \in Projected : IsSection(fragments[s][v])
    BY <1>1 DEF IsFragment
  <1>3. ASSUME NEW c, NEW s \in Projected PROVE IsSection(InContext(fragments[s], c, v))
    BY <1>1, EmptySection DEF IsFragment, InContext
  <1>4. /\ DOMAIN Sections(v) = Projected /\ \A s \in Projected : Sections(v)[s] = fragments[s][v]
        /\ \A c : /\ DOMAIN SectionsIn(c, v) = Projected
                  /\ \A s \in Projected : SectionsIn(c, v)[s] = InContext(fragments[s], c, v)
    BY DEF Sections, SectionsIn
  <1> HIDE DEF Projected
  <1> QED
    BY <1>1, <1>2, <1>3, <1>4 DEF AreSections

LEMMA RuntimeParts ==
    ASSUME DataInv, phase = "ready", NEW v \in Visibilities
    PROVE  /\ runtime[v].values = IF v = "private" /\ input.privateOutput = "section"
                                  THEN Joined(Sections(v)) ELSE Object(input.host[v] \o Joined(Sections(v)))
           /\ \A c \in Contexts : runtime[v].contexts[c] = Joined(SectionsIn(c, v))
  <1> DEFINE projected == ProjectSectioned(fragments, ScopeIds)
  <1>1. ScopeIds \cap DOMAIN fragments = Projected
    BY DEF Projected
  <1>2. projected[v] =
           [values   |-> Joined([s \in ScopeIds \cap DOMAIN fragments |-> fragments[s][v]]),
            contexts |-> [c \in Contexts |->
                             Joined([s \in ScopeIds \cap DOMAIN fragments |-> InContext(fragments[s], c, v)])]]
    BY DEF ProjectSectioned
  <1>3. projected[v] = [values   |-> Joined(Sections(v)),
                        contexts |-> [c \in Contexts |-> Joined(SectionsIn(c, v))]]
    BY <1>1, <1>2 DEF Sections, SectionsIn
  <1>4. runtime = Merge(input.host, projected, input.privateOutput)
    BY DEF DataInv
  <1> HIDE DEF projected
  <1>5. runtime[v] = [projected[v] EXCEPT !.values =
                         IF v = "private" /\ input.privateOutput = "section" THEN @ ELSE Object(input.host[v] \o @)]
    BY <1>4 DEF Merge
  <1> QED
    BY <1>3, <1>5

LEMMA HostSections ==
    ASSUME DataInv, NEW v \in Visibilities
    PROVE  IsSequence(input.host[v]) /\ IsSequence(HostSection(v))
  <1>1. IsSection(input.host[v])
    BY InputsAssumption DEF DataInv
  <1> QED
    BY <1>1, EmptySection DEF IsSection, IsSequence, HostSection

\* A scope that is apart has no other's joint key, in any section.
LEMMA ApartUndisputed ==
    ASSUME DataInv, NEW s \in Projected, Apart(s), NEW v \in Visibilities
    PROVE  Undisputed(Sections(v), s) /\ \A c \in Contexts : Undisputed(SectionsIn(c, v), s)
  <1>1. ASSUME NEW t \in Projected \ {s}, NEW j \in DOMAIN fragments[t][v]
        PROVE  ~BeginsWith(Joint(t, fragments[t][v][j].key), s)
    <2>1. fragments[t][v][j].key \in KeysOf(fragments[t], v)
      BY DEF KeysOf, Range
    <2> QED
      BY <2>1 DEF Apart
  <1>2. ASSUME NEW c \in Contexts, NEW t \in Projected \ {s}, NEW j \in DOMAIN InContext(fragments[t], c, v)
        PROVE  ~BeginsWith(Joint(t, InContext(fragments[t], c, v)[j].key), s)
    <2>1. InContext(fragments[t], c, v)[j] \in Range(InContext(fragments[t], c, v))
      BY DEF Range
    <2>2. InContext(fragments[t], c, v)[j].key \in KeysOf(fragments[t], v)
      BY <2>1 DEF KeysOf
    <2> QED
      BY <2>2 DEF Apart
  <1>3. DOMAIN Sections(v) = Projected /\ \A t \in Projected : Sections(v)[t] = fragments[t][v]
    BY FragmentSections
  <1>4. ASSUME NEW c
        PROVE  /\ DOMAIN SectionsIn(c, v) = Projected
               /\ \A t \in Projected : SectionsIn(c, v)[t] = InContext(fragments[t], c, v)
    BY FragmentSections
  <1> HIDE DEF Projected
  <1>5. Undisputed(Sections(v), s)
    BY <1>1, <1>3 DEF Undisputed
  <1>6. ASSUME NEW c \in Contexts PROVE Undisputed(SectionsIn(c, v), s)
    <2>1. \A t \in Projected \ {s} : \A j \in DOMAIN InContext(fragments[t], c, v) :
             ~BeginsWith(Joint(t, InContext(fragments[t], c, v)[j].key), s)
      BY <1>2
    <2>2. /\ DOMAIN SectionsIn(c, v) = Projected
          /\ \A t \in Projected : SectionsIn(c, v)[t] = InContext(fragments[t], c, v)
      BY <1>4
    <2> QED
      BY <2>1, <2>2 DEF Undisputed
  <1> QED
    BY <1>5, <1>6

\* The common values of a scope that is apart are its own, over the host's.
LEMMA CommonValues ==
    ASSUME DataInv, phase = "ready", NEW s \in Projected, Apart(s), NEW v \in Visibilities, HostClear(s, v)
    PROVE  ScopeValues(runtime[v].values, s) = Over(Local(fragments[s][v]), HostUnder(s, v))
  <1>1. AreSections(Sections(v)) /\ s \in DOMAIN Sections(v) /\ Sections(v)[s] = fragments[s][v]
        /\ Undisputed(Sections(v), s)
    BY FragmentSections, ApartUndisputed
  <1>2. CASE v = "private" /\ input.privateOutput = "section"
    <2>1. runtime[v].values = Joined(Sections(v)) /\ HostUnder(s, v) = ScopeValues(<<>>, s)
      BY <1>2, RuntimeParts DEF HostUnder, HostSection
    <2>2. ScopeValues(Joined(Sections(v)), s) = Local(fragments[s][v])
      BY <1>1, JoinedView
    <2>3. DOMAIN ScopeValues(<<>>, s) = {}
      BY EmptySection
    <2>4. Local(fragments[s][v]) = [k \in DOMAIN Local(fragments[s][v]) |-> Local(fragments[s][v])[k]]
      BY AssignedFunction DEF Local
    <2>5. Over(Local(fragments[s][v]), ScopeValues(<<>>, s)) =
             [k \in DOMAIN Local(fragments[s][v]) |-> Local(fragments[s][v])[k]]
      BY <2>3 DEF Over
    <2> QED
      BY <2>1, <2>2, <2>4, <2>5
  <1>3. CASE ~(v = "private" /\ input.privateOutput = "section")
    <2>1. /\ runtime[v].values = Object(input.host[v] \o Joined(Sections(v)))
          /\ HostUnder(s, v) = ScopeValues(input.host[v], s) /\ HostSection(v) = input.host[v]
      BY <1>3, RuntimeParts DEF HostUnder, HostSection
    <2>2. IsSequence(input.host[v]) /\ Clear(input.host[v], s)
      BY <2>1, HostSections DEF HostClear, Clear
    <2>3. ScopeValues(Object(input.host[v] \o Joined(Sections(v))), s) =
             Over(Local(Sections(v)[s]), ScopeValues(input.host[v], s))
      BY <1>1, <2>2, MergedView
    <2> QED
      BY <1>1, <2>1, <2>3
  <1> QED
    BY <1>2, <1>3

\* The view of a scope that no other scope's joint keys begin with is its own fragment,
\* the context's values over its common ones, and those over what the host configured:
\* for any scopes, keys, contexts and files, and whatever other processes wrote meanwhile.
\* (projectSectionedRuntimeConfig, mergeRuntimeConfig, getRuntimeConfigScope)
THEOREM ViewsAreOwn == Spec => []ViewsReadBack
  <1>1. DataInv => ViewsReadBack
    <2> SUFFICES ASSUME DataInv, phase = "ready", NEW s \in Projected, Apart(s),
                        NEW v \in Visibilities, NEW c \in Contexts \cup {"none"}, HostClear(s, v)
                 PROVE  ScopeView(runtime, s, v, c) =
                           Over(Local(InContext(fragments[s], c, v)), Over(Local(fragments[s][v]), HostUnder(s, v)))
      BY DEF ViewsReadBack
    <2>1. ScopeValues(runtime[v].values, s) = Over(Local(fragments[s][v]), HostUnder(s, v))
      BY CommonValues
    <2>2. CASE c \in Contexts
      <3>1. runtime[v].contexts[c] = Joined(SectionsIn(c, v))
        BY <2>2, RuntimeParts
      <3>2. AreSections(SectionsIn(c, v)) /\ s \in DOMAIN SectionsIn(c, v)
            /\ SectionsIn(c, v)[s] = InContext(fragments[s], c, v) /\ Undisputed(SectionsIn(c, v), s)
        BY <2>2, FragmentSections, ApartUndisputed
      <3>3. ScopeValues(runtime[v].contexts[c], s) = Local(InContext(fragments[s], c, v))
        BY <3>1, <3>2, JoinedView
      <3> QED
        BY <2>1, <2>2, <3>3 DEF ScopeView
    <2>3. CASE c \notin Contexts
      <3> DEFINE X == Over(Local(fragments[s][v]), HostUnder(s, v))
      <3>1. ScopeView(runtime, s, v, c) = X
        BY <2>1, <2>3 DEF ScopeView
      <3>2. InContext(fragments[s], c, v) = <<>>
        BY <2>3 DEF InContext, DataInv, IsFragment, Projected
      <3>3. DOMAIN Local(<<>>) = {}
        BY EmptySection
      <3>4. X = [k \in DOMAIN X |-> X[k]]
        BY DEF Over
      <3> HIDE DEF X
      <3>5. Over(Local(<<>>), X) = [k \in DOMAIN X |-> X[k]]
        BY <3>3 DEF Over
      <3> QED
        BY <3>1, <3>2, <3>4, <3>5 DEF X
    <2> QED
      BY <2>2, <2>3
  <1> QED
    BY <1>1, AlwaysData, PTL

\* A scope whose files are all that of the tree holds what lies there.
LEMMA TreeHolds ==
    ASSUME IInv, DataInv, phase = "ready", undisturbed, NEW s \in Projected,
           \A k \in PlacesOf(s) : FileOrder[k] = TreeFile[s]
    PROVE  Reads(disk[TreeFile[s]]) /\ fragments[s] = disk[TreeFile[s]]
  <1> DEFINE T == {k \in Seen : ScopeAt(k) = s}
             n == Len(FileOrder)
  <1>1. ReadSoFar /\ files = {}
    BY DEF IInv
  <1>2. n \in Nat /\ T \in SUBSET (1..n) /\ \A k \in T : k \in Seen /\ ScopeAt(k) = s /\ At(k) = disk[TreeFile[s]]
    BY FilesAssumption DEF Seen, Listed, PlacesOf, At
  <1>3. PICK i \in Seen : ScopeAt(i) = s /\ Reads(At(i))
    BY DEF DataInv, Projected
  <1>4. i \in T
    BY <1>3
  <1>5. \A k \in Seen : ScopeAt(k) = s => k \in T
    OBVIOUS
  <1> HIDE DEF T, n
  <1>6. Reads(disk[TreeFile[s]])
    BY <1>2, <1>3, <1>4
  <1>7. PICK k \in T : \A j \in T : j <= k
    BY <1>2, <1>4, GreatestUpTo
  <1>8. k \in Seen /\ ScopeAt(k) = s /\ Reads(At(k)) /\ \A j \in Seen : ScopeAt(j) = s => j <= k
    BY <1>2, <1>5, <1>6, <1>7
  <1> QED
    BY <1>1, <1>2, <1>6, <1>7, <1>8 DEF ReadSoFar

\* What resolves from common values and those of a context.
LEMMA ResolveHeld ==
    ASSUME NEW r, NEW s, NEW key, NEW v, NEW c
    PROVE  Resolve(r, s, key, v, c) =
              IF c \in Contexts /\ HeldAt(r[v].contexts[c], Joint(s, key)) # {}
              THEN HeldAt(r[v].contexts[c], Joint(s, key)) ELSE HeldAt(r[v].values, Joint(s, key))
  BY DEF Resolve, HeldAt

\* The same sections of a scope leave the same at a key that no other scope has.
LEMMA SameHeld ==
    ASSUME NEW one, AreSections(one), NEW other, AreSections(other), NEW s \in DOMAIN one \cap DOMAIN other,
           one[s] = other[s], NEW k, Alone(one, s, k), Alone(other, s, k)
    PROVE  HeldAt(Joined(one), k) = HeldAt(Joined(other), k)
  <1>1. HeldAt(Joined(one), k) =
           IF k \in DOMAIN Assigned(Prefixed(s, one[s])) THEN {Assigned(Prefixed(s, one[s]))[k]} ELSE {}
    BY JoinedHeld
  <1>2. HeldAt(Joined(other), k) =
           IF k \in DOMAIN Assigned(Prefixed(s, other[s])) THEN {Assigned(Prefixed(s, other[s]))[k]} ELSE {}
    BY JoinedHeld
  <1> QED
    BY <1>1, <1>2

\* What a query of the tree answers for a key is what the started host resolves it to, unless
\* another scope has the same joint key or another source has a file of the scope: for any
\* files, scopes and keys, although one joins a single scope and the other all of them.
\* (getRuntimeConfigValue, resolveNuxtRuntimeConfigValue)
THEOREM TreeAnswersAlike == Spec => []QueriesAgree
  <1>1. IInv /\ DataInv => QueriesAgree
    <2> SUFFICES ASSUME IInv, DataInv, phase = "ready", undisturbed, NEW s \in Projected \cap DOMAIN TreeFile,
                        NEW v \in Visibilities, NEW c \in Contexts \cup {"none"}, NEW e \in Range(fragments[s][v]),
                        \A k \in PlacesOf(s) : FileOrder[k] = TreeFile[s],
                        \A t \in Projected \ {s} : \A k \in KeysOf(fragments[t], v) : Joint(t, k) # Joint(s, e.key)
                 PROVE  TreeValue(s, e.key, v, c) = Resolve(runtime, s, e.key, v, c)
      BY DEF QueriesAgree
    <2> DEFINE q == Joint(s, e.key)
               held == {t \in DOMAIN TreeFile : Reads(disk[TreeFile[t]])}
               tree == [t \in held |-> disk[TreeFile[t]]]
               alone == ProjectSectioned(tree, {s})
               own == [t \in {s} \cap DOMAIN tree |-> tree[t][v]]
               ownIn == [t \in {s} \cap DOMAIN tree |-> InContext(tree[t], c, v)]
    <2>1. Reads(disk[TreeFile[s]]) /\ fragments[s] = disk[TreeFile[s]]
      BY TreeHolds
    <2>2. s \in DOMAIN tree /\ tree[s] = fragments[s]
      BY <2>1
    <2>3. TreeValue(s, e.key, v, c) = Resolve(alone, s, e.key, v, c)
      BY DEF TreeValue
    <2>4. alone[v].values = Joined(own) /\ (c \in Contexts => alone[v].contexts[c] = Joined(ownIn))
      BY DEF ProjectSectioned
    <2>5. /\ DOMAIN own = {s} /\ own[s] = fragments[s][v]
          /\ DOMAIN ownIn = {s} /\ ownIn[s] = InContext(fragments[s], c, v)
      BY <2>2
    <2>6. /\ AreSections(Sections(v)) /\ DOMAIN Sections(v) = Projected
          /\ \A t \in Projected : Sections(v)[t] = fragments[t][v]
      BY FragmentSections
    <2>7. /\ AreSections(SectionsIn(c, v)) /\ DOMAIN SectionsIn(c, v) = Projected
          /\ \A t \in Projected : SectionsIn(c, v)[t] = InContext(fragments[t], c, v)
      BY FragmentSections
    <2>8. \A t \in Projected \ {s} : \A j \in DOMAIN fragments[t][v] : Joint(t, fragments[t][v][j].key) # q
      BY DEF KeysOf, Range
    <2>9. ASSUME c \in Contexts, NEW t \in Projected \ {s}, NEW j \in DOMAIN InContext(fragments[t], c, v)
          PROVE  Joint(t, InContext(fragments[t], c, v)[j].key) # q
      <3>1. InContext(fragments[t], c, v)[j] \in Range(InContext(fragments[t], c, v))
        BY DEF Range
      <3>2. InContext(fragments[t], c, v)[j].key \in KeysOf(fragments[t], v)
        BY <2>9, <3>1 DEF KeysOf
      <3> QED
        BY <3>2
    <2> HIDE DEF q, tree, alone, own, ownIn, Projected
    <2>10. Alone(Sections(v), s, q)
      BY <2>6, <2>8 DEF Alone
    <2>11. c \in Contexts => Alone(SectionsIn(c, v), s, q)
      BY <2>7, <2>9 DEF Alone
    <2>12. Alone(own, s, q) /\ Alone(ownIn, s, q)
      BY <2>5 DEF Alone
    <2>13. AreSections(own) /\ AreSections(ownIn)
      BY <2>5, <2>6, <2>7 DEF AreSections
    <2>14. HeldAt(alone[v].values, q) = HeldAt(Joined(Sections(v)), q)
      BY <2>4, <2>5, <2>6, <2>10, <2>12, <2>13, SameHeld
    <2>15. HeldAt(runtime[v].values, q) = HeldAt(Joined(Sections(v)), q)
      <3>1. PICK j \in DOMAIN fragments[s][v] : fragments[s][v][j] = e
        BY DEF Range
      <3>2. IsName(s) /\ IsSection(fragments[s][v])
        BY <2>6, ScopePlaces DEF AreSections
      <3>3. q \in DOMAIN Assigned(Prefixed(s, fragments[s][v]))
        BY <3>1, <3>2, PrefixedLocal DEF q
      <3>4. IsSequence(input.host[v])
        BY HostSections
      <3>5. HeldAt(Object(input.host[v] \o Joined(Sections(v))), q) = HeldAt(Joined(Sections(v)), q)
        BY <2>6, <2>10, <3>3, <3>4, MergedHeld
      <3> QED
        BY <3>5, RuntimeParts
    <2>16. ASSUME c \in Contexts PROVE HeldAt(runtime[v].contexts[c], q) = HeldAt(alone[v].contexts[c], q)
      <3>1. HeldAt(Joined(ownIn), q) = HeldAt(Joined(SectionsIn(c, v)), q)
        BY <2>5, <2>7, <2>11, <2>12, <2>13, <2>16, SameHeld
      <3> QED
        BY <2>4, <2>16, <3>1, RuntimeParts
    <2>17. Resolve(alone, s, e.key, v, c) =
              IF c \in Contexts /\ HeldAt(alone[v].contexts[c], q) # {}
              THEN HeldAt(alone[v].contexts[c], q) ELSE HeldAt(alone[v].values, q)
      BY ResolveHeld DEF q
    <2>18. Resolve(runtime, s, e.key, v, c) =
              IF c \in Contexts /\ HeldAt(runtime[v].contexts[c], q) # {}
              THEN HeldAt(runtime[v].contexts[c], q) ELSE HeldAt(runtime[v].values, q)
      BY ResolveHeld DEF q
    <2> QED
      BY <2>3, <2>14, <2>15, <2>16, <2>17, <2>18
  <1> QED
    BY <1>1, AlwaysData, PTL

\* Keys in camel case are the joint object's too.
LEMMA LocalIsAssigned ==
    ASSUME NEW section, IsSection(section), \A e \in Range(section) : CamelCase(e.key) = e.key
    PROVE  Local(section) = Assigned(section)
  <1> DEFINE L == Localized(section)
             n == Len(section)
  <1>1. n \in Nat /\ DOMAIN section = 1..n /\ \A i \in DOMAIN section : section[i] \in Range(section)
    BY SectionEntries
  <1>2. Local(section) = Assigned(L)
    BY DEF Local, Localized
  <1>3. DOMAIN L = 1..n /\ \A i \in 1..n : L[i].key = section[i].key /\ L[i].value = section[i].value
    BY <1>1 DEF Localized
  <1> HIDE DEF L, n
  <1>4. DOMAIN Assigned(L) = DOMAIN Assigned(section)
    <2>1. \A k : k \in DOMAIN Assigned(L) <=> \E i \in DOMAIN L : L[i].key = k
      BY AssignedKeys
    <2>2. \A k : k \in DOMAIN Assigned(section) <=> \E i \in DOMAIN section : section[i].key = k
      BY AssignedKeys
    <2>3. \A k : k \in DOMAIN Assigned(L) <=> k \in DOMAIN Assigned(section)
      BY <1>1, <1>3, <2>1, <2>2
    <2> QED
      BY <2>3
  <1>5. ASSUME NEW k \in DOMAIN Assigned(section) PROVE Assigned(L)[k] = Assigned(section)[k]
    <2>1. PICK i \in DOMAIN section :
             /\ section[i].key = k /\ Assigned(section)[k] = section[i].value
             /\ \A j \in DOMAIN section : section[j].key = k => j <= i
      <3>1. DOMAIN section \subseteq 1..n
        BY <1>1
      <3> QED
        BY <1>1, <3>1, LastExists
    <2>2. /\ i \in DOMAIN L /\ L[i].key = k /\ L[i].value = section[i].value
          /\ \A j \in DOMAIN L : L[j].key = L[i].key => j <= i
      BY <1>1, <1>3, <2>1
    <2>3. Assigned(L)[L[i].key] = L[i].value
      <3>1. DOMAIN L \subseteq 1..n
        BY <1>3
      <3> QED
        BY <1>1, <2>2, <3>1, AssignedLast
    <2> QED
      BY <2>1, <2>2, <2>3
  <1>6. Assigned(L) = [k \in DOMAIN Assigned(L) |-> Assigned(L)[k]]
        /\ Assigned(section) = [k \in DOMAIN Assigned(section) |-> Assigned(section)[k]]
    BY AssignedFunction
  <1> QED
    BY <1>2, <1>4, <1>5, <1>6

\* A fragment that was valid at startup is not refused on use, unless its last file was
\* falsy JSON, the schema itself tells the file from both sections with nothing beside
\* them, another scope or the host contributes keys that begin with its scope, or its own
\* keys are not in camel case: for any schema, although what the schema sees then was taken
\* apart from the joint object. (useValidatedRuntimeConfigFragment)
THEOREM ValidOnUse == Spec => []ValidStaysValid
  <1>1. IInv /\ DataInv => ValidStaysValid
    <2> SUFFICES ASSUME IInv, DataInv, answer # <<>>, undisturbed,
                        NEW t \in ExtensionsOf(input), Requires(t), answer = <<t.scope, FALSE>>,
                        ~LastIsFalsy(t.scope), ~TellsRebuilt(t.schema, fragments[t.scope]),
                        Apart(t.scope), \A v \in Visibilities : HostUnder(t.scope, v) = <<>>,
                        \A v \in Visibilities : \A e \in Range(fragments[t.scope][v]) : CamelCase(e.key) = e.key
                 PROVE  FALSE
      BY DEF ValidStaysValid
    <2> DEFINE s == t.scope
    <2>1. phase = "ready" /\ input \in Inputs
      BY DEF DataInv
    <2>2. PICK r \in Range(ScopeOrder) : AnsweredFrom(r)
      BY DEF DataInv
    <2>3. s \in DOMAIN registry /\ Accepts(registry[s], Rebuilt(FragmentView(runtime, s))) = FALSE
      BY <2>2, UnregisteredAssumption DEF AnsweredFrom
    <2>4. input.validation /\ registry[s] = t.schema
      <3>1. PICK u \in ExtensionsOf(input) : u.scope = s /\ registry[s] = u.schema
        BY <2>3 DEF DataInv
      <3>2. u = t
        BY <2>1, <3>1, InputsAssumption
      <3> QED
        BY <2>3, <3>1, <3>2 DEF DataInv
    <2>5. /\ s \in DOMAIN fragments
          /\ Accepts(t.schema, Rebuilt([v \in Visibilities |-> Assigned(fragments[s][v])]))
      BY <2>1, <2>4 DEF IInv, AllChecked, Checked, TellsRebuilt
    <2>6. s \in Projected
      BY <2>1, <2>5, InputFields DEF ScopeIds, Projected
    <2> HIDE DEF s, Projected
    <2>7. ASSUME NEW v \in Visibilities PROVE ScopeView(runtime, s, v, "none") = Assigned(fragments[s][v])
      <3>1. DOMAIN ScopeValues(HostSection(v), s) = {}
        <4>1. ScopeValues(HostSection(v), s) = <<>>
          BY DEF HostUnder, s
        <4> QED
          BY <4>1
      <3>2. HostClear(s, v)
        <4>1. ScopeValues(HostSection(v), s) = Assigned(Viewed(HostSection(v), s))
          BY DEF ScopeValues, Viewed
        <4>2. \A i : i \notin DOMAIN Viewed(HostSection(v), s)
          <5> SUFFICES ASSUME NEW i \in DOMAIN Viewed(HostSection(v), s) PROVE FALSE
            OBVIOUS
          <5>1. Viewed(HostSection(v), s)[i].key \in DOMAIN Assigned(Viewed(HostSection(v), s))
            BY AssignedKeys
          <5> QED
            BY <3>1, <4>1, <5>1
        <4>3. \A i \in DOMAIN HostSection(v) : ~BeginsWith(HostSection(v)[i].key, s)
          BY <4>2, ViewedEntries
        <4>4. \A e \in Range(HostSection(v)) : ~BeginsWith(e.key, s)
          BY <4>3 DEF Range
        <4> QED
          BY <4>4 DEF HostClear
      <3>3. ScopeValues(runtime[v].values, s) = Over(Local(fragments[s][v]), HostUnder(s, v))
        BY <2>1, <2>6, <3>2, CommonValues DEF s
      <3>4. ScopeView(runtime, s, v, "none") = Over(Local(fragments[s][v]), HostUnder(s, v))
        BY <3>3, ScopesAssumption DEF ScopeView
      <3>5. Over(Local(fragments[s][v]), HostUnder(s, v)) =
               [k \in DOMAIN Local(fragments[s][v]) |-> Local(fragments[s][v])[k]]
        BY <3>1 DEF Over, HostUnder
      <3>6. Local(fragments[s][v]) = [k \in DOMAIN Local(fragments[s][v]) |-> Local(fragments[s][v])[k]]
        BY AssignedFunction DEF Local
      <3>7. Local(fragments[s][v]) = Assigned(fragments[s][v])
        <4>1. IsSection(fragments[s][v])
          BY <2>5 DEF DataInv, IsFragment
        <4>2. \A e \in Range(fragments[s][v]) : CamelCase(e.key) = e.key
          BY DEF s
        <4> QED
          BY <4>1, <4>2, LocalIsAssigned
      <3> QED
        BY <3>4, <3>5, <3>6, <3>7
    <2>8. FragmentView(runtime, s) = [v \in Visibilities |-> Assigned(fragments[s][v])]
      BY <2>7 DEF FragmentView
    <2> QED
      BY <2>3, <2>4, <2>5, <2>8
  <1> QED
    BY <1>1, AlwaysData, PTL
=============================================================================
