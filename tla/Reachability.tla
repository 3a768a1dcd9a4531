---------------------------- MODULE Reachability ----------------------------
(***************************************************************************)
(* The set a worklist traversal of a directed graph is meant to compute.   *)
(* It is defined as the least set that holds the roots and is closed under *)
(* the edges, without recursion, so that it can be reasoned about: the     *)
(* lemmas are what the proofs about traversals need to know of it. The     *)
(* last two are about numbers: the proofs that look for a last place of a  *)
(* row, or go through it place by place, need them.                        *)
(***************************************************************************)
EXTENDS Naturals, FiniteSetTheorems, TLAPS

\* The ids a relation R, a set of pairs, mentions together with the roots.
Field(roots, R) == roots \cup {e[2] : e \in R}

\* Nothing outside S is one edge away from S.
Closed(S, R) == \A e \in R : e[1] \in S => e[2] \in S

\* The sets of known ids that hold the roots and are closed under the edges.
ClosedSupersets(roots, R) ==
    {S \in SUBSET Field(roots, R) : roots \subseteq S /\ Closed(S, R)}

\* The ids reachable from the roots: what every closed superset has in common.
Reach(roots, R) ==
    LET supersets == ClosedSupersets(roots, R)
    IN  {x \in Field(roots, R) : \A S \in supersets : x \in S}

-----------------------------------------------------------------------------

\* A walk reaches at least the ids it starts from (seed and base descriptors).
LEMMA ReachHoldsRoots ==
    ASSUME NEW roots, NEW R
    PROVE  roots \subseteq Reach(roots, R)
  BY DEF Reach, ClosedSupersets, Field

\* A walk mentions no id beyond its roots and the targets of the edges.
LEMMA ReachWithinField ==
    ASSUME NEW roots, NEW R
    PROVE  Reach(roots, R) \subseteq Field(roots, R)
  BY DEF Reach

\* No edge leaves the set of reached ids.
LEMMA ReachClosed ==
    ASSUME NEW roots, NEW R
    PROVE  Closed(Reach(roots, R), R)
  <1> SUFFICES ASSUME NEW e \in R, e[1] \in Reach(roots, R)
               PROVE  e[2] \in Reach(roots, R)
    BY DEF Closed
  <1>1. e[2] \in Field(roots, R)
    BY DEF Field
  <1>2. \A S \in ClosedSupersets(roots, R) : e[2] \in S
    BY DEF Reach, ClosedSupersets, Closed
  <1> QED
    BY <1>1, <1>2 DEF Reach

\* A set that holds the roots and that no edge leaves holds every reached id.
LEMMA ReachLeast ==
    ASSUME NEW roots, NEW R, NEW S, roots \subseteq S, Closed(S, R)
    PROVE  Reach(roots, R) \subseteq S
  <1> DEFINE T == S \cap Field(roots, R)
  <1>1. T \in ClosedSupersets(roots, R)
    BY DEF ClosedSupersets, Closed, Field
  <1>2. Reach(roots, R) \subseteq T
    BY <1>1 DEF Reach
  <1> QED
    BY <1>2

\* Adding an edge or a root never loses an id.
LEMMA ReachMonotone ==
    ASSUME NEW roots, NEW R, NEW more, NEW Q,
           roots \subseteq Reach(more, Q), R \subseteq Q
    PROVE  Reach(roots, R) \subseteq Reach(more, Q)
  <1>1. Closed(Reach(more, Q), R)
    BY ReachClosed DEF Closed
  <1> QED
    BY <1>1, ReachLeast

\* An edge from a reached id leads to a reached id.
LEMMA ReachStep ==
    ASSUME NEW roots, NEW R, NEW e \in R, e[1] \in Reach(roots, R)
    PROVE  e[2] \in Reach(roots, R)
  BY ReachClosed DEF Closed

\* What is reached from a reached id is reached.
LEMMA ReachTransitive ==
    ASSUME NEW roots, NEW R, NEW y \in Reach(roots, R)
    PROVE  Reach({y}, R) \subseteq Reach(roots, R)
  BY ReachMonotone

\* The ids of S an id can be reached from.
Behind(S, R, x) == {y \in S : x \in Reach({y}, R)}

\* An id reached from two sets of roots together is reached from one of them.
LEMMA ReachFromOne ==
    ASSUME NEW roots, NEW more, NEW R, NEW x \in Reach(more, R), x \notin Reach(roots, R)
    PROVE  Behind(more \ roots, R, x) # {}
  <1> DEFINE Others == {z \in Field(more, R) : \E y \in more \ roots : z \in Reach({y}, R)}
             S == Reach(roots, R) \cup Others
  <1>1. more \subseteq S
    <2>1. ASSUME NEW y \in more \ roots PROVE y \in Others
      <3>1. y \in Reach({y}, R) /\ y \in Field(more, R)
        BY ReachHoldsRoots DEF Field
      <3> QED
        BY <3>1
    <2> QED
      BY <2>1, ReachHoldsRoots
  <1>2. Closed(S, R)
    <2> SUFFICES ASSUME NEW e \in R, e[1] \in S PROVE e[2] \in S
      BY DEF Closed
    <2>1. CASE e[1] \in Reach(roots, R)
      BY <2>1, ReachStep
    <2>2. CASE e[1] \in Others
      <3>1. e[2] \in Field(more, R)
        BY DEF Field
      <3> QED
        BY <2>2, <3>1, ReachStep
    <2> QED
      BY <2>1, <2>2
  <1> HIDE DEF S
  <1>3. Reach(more, R) \subseteq S
    BY <1>1, <1>2, ReachLeast
  <1> QED
    BY <1>3 DEF S, Behind

\* Where no id reaches itself, strictly fewer ids lie behind an id than behind those it
\* leads to.
LEMMA BehindGrows ==
    ASSUME NEW S, NEW R, \A e \in R : e[1] \notin Reach({e[2]}, R),
           NEW y \in S, NEW e \in R, e[1] \in Reach({y}, R), e[2] \in S
    PROVE  /\ Behind(S, R, y) \subseteq Behind(S, R, e[2])
           /\ e[2] \in Behind(S, R, e[2]) \ Behind(S, R, y)
  <1>1. e[2] \in Reach({y}, R)
    BY ReachStep
  <1>2. Behind(S, R, y) \subseteq Behind(S, R, e[2])
    BY <1>1, ReachTransitive DEF Behind
  <1>3. e[2] \in Behind(S, R, e[2])
    BY ReachHoldsRoots DEF Behind
  <1>4. y \notin Reach({e[2]}, R)
    BY ReachTransitive
  <1> QED
    BY <1>2, <1>3, <1>4 DEF Behind

\* A set of natural numbers has a least one: the files of a scope have a last place, and
\* the finite sets 0..n are well-founded.
LEMMA LeastNatural ==
    ASSUME NEW T \in SUBSET Nat, T # {}
    PROVE  \E x \in T : \A y \in T : x <= y
  <1> DEFINE U == {0..x : x \in T}
  <1>1. \A x \in T : 0..x \in FiniteSubsetsOf(Nat)
    <2> TAKE x \in T
    <2>1. x \in Nat
      OBVIOUS
    <2>2. IsFiniteSet(0..x) /\ 0..x \in SUBSET Nat
      BY <2>1, FS_Interval
    <2> QED
      BY <2>2 DEF FiniteSubsetsOf
  <1>2. U \subseteq FiniteSubsetsOf(Nat) /\ U # {}
    BY <1>1
  <1>3. PICK B \in U : \A A \in U : <<A, B>> \notin StrictSubsetOrdering(Nat)
    BY <1>2, FS_StrictSubsetOrderingWellFounded, WFMin
  <1>4. PICK x \in T : B = 0..x
    OBVIOUS
  <1>5. ASSUME NEW y \in T, ~(x <= y) PROVE FALSE
    <2>1. x \in Nat /\ y \in Nat
      OBVIOUS
    <2>2. 0..y \in SUBSET Nat /\ 0..x \in SUBSET Nat /\ 0..y \subseteq 0..x /\ x \in 0..x /\ x \notin 0..y
      BY <1>5, <2>1
    <2>3. <<0..y, 0..x>> \in StrictSubsetOrdering(Nat)
      BY <2>2 DEF StrictSubsetOrdering
    <2> QED
      BY <1>3, <1>4, <2>3
  <1> QED
    BY <1>5

\* A set of numbers up to n that starts at 0 and goes on holds them all.
LEMMA PlaceByPlace ==
    ASSUME NEW n \in Nat, NEW S, 0 \in S, \A i \in 0..n : i \in S /\ i < n => i + 1 \in S
    PROVE  \A i \in 0..n : i \in S
  <1> DEFINE T == {i \in 0..n : i \notin S}
  <1> SUFFICES ASSUME T # {} PROVE FALSE
    OBVIOUS
  <1>1. T \in SUBSET Nat
    OBVIOUS
  <1>2. PICK x \in T : \A y \in T : x <= y
    BY <1>1, LeastNatural
  <1>3. x \in 0..n /\ x \notin S /\ x # 0
    BY <1>2
  <1>4. x - 1 \in 0..n /\ x - 1 < n /\ x - 1 + 1 = x /\ ~(x <= x - 1)
    BY <1>3
  <1>5. x - 1 \in S
    BY <1>2, <1>4
  <1> QED
    BY <1>3, <1>4, <1>5
=============================================================================
