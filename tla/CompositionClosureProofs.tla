---------------------- MODULE CompositionClosureProofs ----------------------
(***************************************************************************)
(* The worklist of getTransitiveTargets and resolveWithMembers computes    *)
(* the closure its contract names, for every catalog, policy, membership   *)
(* and selection over a finite set of names.                               *)
(***************************************************************************)
EXTENDS CompositionClosure, FiniteSetTheorems

\* The ids the walk has visited or still holds on its stack.
Seen == visited \cup {stack[k] : k \in DOMAIN stack}

\* The targets of the allowed edges the walk has not followed yet.
Ahead == {edges[k].to : k \in {i \in DOMAIN edges : edges[i].relation \in request.relations}}

\* During a walk every root has been seen, every edge of a visited id leads to an
\* id that was seen or is ahead, and nothing beyond the reachable ids was seen.
WalkInv ==
    /\ selectedIds \subseteq Ids
    /\ selectedIds \subseteq Seen
    /\ \A p \in EdgePairs(request) : p[1] \in visited => p[2] \in Seen \cup Ahead
    /\ Seen \cup Ahead \subseteq Reach(selectedIds, EdgePairs(request))

IInv ==
    /\ TypeOK
    /\ request.roots \subseteq selectedIds
    /\ selectedIds \subseteq Wanted(request)
    /\ phase = "select" => edges = <<>>
    /\ phase \in {"walk", "members", "done"} => WalkInv
    /\ phase \in {"members", "done"} => stack = <<>> /\ edges = <<>>
    /\ phase = "done" => MissingMembers = {} /\ ~(request.validate /\ UnknownMember)
    /\ phase = "failed" => Refused(request)

-----------------------------------------------------------------------------
LEMMA EdgePairsType == EdgePairs(request) \subseteq Ids \X Ids
  BY DEF EdgePairs

\* Nothing an accepted request asks for is outside the catalog.
LEMMA WantedKnown ==
    ASSUME request.roots \subseteq Ids
    PROVE  Wanted(request) \subseteq Ids
  BY ReachWithinField DEF Wanted, Field, EdgePairs, MemberPairs

\* A walk from wanted ids stays among the wanted ids.
LEMMA WalkWithinWanted ==
    ASSUME selectedIds \subseteq Wanted(request)
    PROVE  Reach(selectedIds, EdgePairs(request)) \subseteq Wanted(request)
  BY ReachMonotone DEF Wanted

\* A finished walk has visited exactly the ids reachable from its roots.
LEMMA FinishedWalk ==
    ASSUME IInv, phase \in {"members", "done"}
    PROVE  visited = Reach(selectedIds, EdgePairs(request))
  <1>1. Seen = visited /\ Ahead = {}
    BY DEF IInv, Seen, Ahead
  <1>2. Closed(visited, EdgePairs(request)) /\ selectedIds \subseteq visited
    BY <1>1 DEF IInv, WalkInv, Closed
  <1>3. visited \subseteq Reach(selectedIds, EdgePairs(request))
    BY <1>1 DEF IInv, WalkInv
  <1> QED
    BY <1>2, <1>3, ReachLeast

\* When no member is missing, the walk holds everything the request asks for.
LEMMA FinishedClosure ==
    ASSUME IInv, phase \in {"members", "done"}, MissingMembers = {}
    PROVE  visited = Wanted(request)
  <1>1. visited = Reach(selectedIds, EdgePairs(request))
    BY FinishedWalk
  <1>2. visited \subseteq Wanted(request)
    BY <1>1, WalkWithinWanted DEF IInv
  <1>3. selectedIds \subseteq visited
    BY <1>1, ReachHoldsRoots
  <1>4. Closed(visited, EdgePairs(request) \cup MemberPairs(request))
    <2> SUFFICES ASSUME NEW p \in EdgePairs(request) \cup MemberPairs(request),
                        p[1] \in visited
                 PROVE  p[2] \in visited
      BY DEF Closed
    <2>1. CASE p \in EdgePairs(request)
      BY <2>1, <1>1, ReachClosed DEF Closed
    <2>2. CASE p \in MemberPairs(request)
      BY <2>2, <1>3 DEF IInv, MissingMembers, MemberPairs
    <2> QED
      BY <2>1, <2>2
  <1>5. request.roots \subseteq visited
    BY <1>3 DEF IInv
  <1> QED
    BY <1>2, <1>4, <1>5, ReachLeast DEF Wanted

-----------------------------------------------------------------------------
\* Popping takes the top, and only the top, off the stack.
LEMMA PoppedStack ==
    ASSUME NEW s \in Seq(Ids), s # <<>>
    PROVE  /\ s[Len(s)] \in Ids
           /\ SubSeq(s, 1, Len(s) - 1) \in Seq(Ids)
           /\ {s[k] : k \in DOMAIN s} =
                {SubSeq(s, 1, Len(s) - 1)[k] : k \in DOMAIN SubSeq(s, 1, Len(s) - 1)}
                    \cup {s[Len(s)]}
  <1> DEFINE t == SubSeq(s, 1, Len(s) - 1)
  <1>1. Len(s) \in Nat \ {0} /\ DOMAIN s = 1..Len(s) /\ \A k \in 1..Len(s) : s[k] \in Ids
    OBVIOUS
  <1>2. Len(t) = Len(s) - 1 /\ DOMAIN t = 1..(Len(s) - 1) /\ t \in Seq(Ids)
    BY <1>1
  <1>3. \A k \in 1..(Len(s) - 1) : t[k] = s[k]
    BY <1>1
  <1>4. 1..Len(s) = (1..(Len(s) - 1)) \cup {Len(s)}
    BY <1>1
  <1> HIDE DEF t
  <1>5. {s[k] : k \in DOMAIN s} = {t[k] : k \in DOMAIN t} \cup {s[Len(s)]}
    BY <1>1, <1>2, <1>3, <1>4
  <1> QED
    BY <1>1, <1>2, <1>5 DEF t

\* Pushing adds the pushed id, and only that id, to the stack.
LEMMA PushedStack ==
    ASSUME NEW s \in Seq(Ids), NEW id \in Ids
    PROVE  /\ Append(s, id) \in Seq(Ids)
           /\ {Append(s, id)[k] : k \in DOMAIN Append(s, id)} =
                {s[k] : k \in DOMAIN s} \cup {id}
  <1> DEFINE t == Append(s, id)
  <1>1. Len(s) \in Nat /\ DOMAIN s = 1..Len(s)
    OBVIOUS
  <1>2. t \in Seq(Ids) /\ DOMAIN t = 1..(Len(s) + 1) /\ t[Len(s) + 1] = id
    OBVIOUS
  <1>3. \A k \in 1..Len(s) : t[k] = s[k]
    OBVIOUS
  <1>4. 1..(Len(s) + 1) = (1..Len(s)) \cup {Len(s) + 1}
    BY <1>1
  <1> HIDE DEF t
  <1>5. {t[k] : k \in DOMAIN t} = {s[k] : k \in DOMAIN s} \cup {id}
    BY <1>1, <1>2, <1>3, <1>4
  <1> QED
    BY <1>2, <1>5 DEF t

\* An arrangement of a finite set of ids is a sequence of exactly those ids.
LEMMA ArrangedIds ==
    ASSUME NEW S \in SUBSET Ids, NEW s \in Arrangements(S)
    PROVE  s \in Seq(Ids) /\ {s[k] : k \in DOMAIN s} = S
  <1>1. Cardinality(S) \in Nat
    BY NamesAssumption, FS_Subset, FS_CardinalityType
  <1>2. s \in [1..Cardinality(S) -> S] /\ \A x \in S : \E i \in 1..Cardinality(S) : s[i] = x
    BY DEF Arrangements
  <1>3. s \in Seq(S)
    BY <1>1, <1>2
  <1> QED
    BY <1>2, <1>3

-----------------------------------------------------------------------------
LEMMA InitInv == Init => IInv
  <1> SUFFICES ASSUME Init PROVE IInv
    OBVIOUS
  <1>1. request \in Request
    BY RequestsAssumption DEF Init
  <1>2. request.roots \subseteq Names
    BY <1>1 DEF Request
  <1>3. TypeOK
    BY <1>1, <1>2 DEF Init, TypeOK, Phases
  <1>4. selectedIds \subseteq Wanted(request)
    BY ReachHoldsRoots DEF Init, Wanted
  <1> QED
    BY <1>3, <1>4 DEF Init, IInv

\* Following an edge leaves the other edges ahead.
LEMMA FollowedEdge ==
    ASSUME NEW es \in Seq(Edge), es # <<>>
    PROVE  /\ Head(es) \in Edge /\ Tail(es) \in Seq(Edge)
           /\ {es[k] : k \in DOMAIN es} =
                {Tail(es)[k] : k \in DOMAIN Tail(es)} \cup {Head(es)}
  <1> DEFINE t == Tail(es)
  <1>1. Len(es) \in Nat \ {0} /\ DOMAIN es = 1..Len(es) /\ \A k \in 1..Len(es) : es[k] \in Edge
    OBVIOUS
  <1>2. t \in Seq(Edge) /\ DOMAIN t = 1..(Len(es) - 1) /\ \A k \in 1..(Len(es) - 1) : t[k] = es[k + 1]
    BY <1>1
  <1>3. Head(es) = es[1]
    BY <1>1
  <1> HIDE DEF t
  <1>4. ASSUME NEW k \in 1..Len(es), k # 1
        PROVE  es[k] \in {t[j] : j \in DOMAIN t}
    <2>1. k - 1 \in 1..(Len(es) - 1) /\ (k - 1) + 1 = k
      BY <1>1, <1>4
    <2> QED
      BY <2>1, <1>2
  <1>5. \A j \in DOMAIN t : t[j] \in {es[k] : k \in DOMAIN es}
    <2> SUFFICES ASSUME NEW j \in DOMAIN t PROVE t[j] \in {es[k] : k \in DOMAIN es}
      OBVIOUS
    <2>1. j + 1 \in DOMAIN es /\ t[j] = es[j + 1]
      BY <1>1, <1>2
    <2> QED
      BY <2>1
  <1>6. Head(es) \in {es[k] : k \in DOMAIN es} /\ Head(es) \in Edge
    BY <1>1, <1>3
  <1>7. {es[k] : k \in DOMAIN es} = {t[k] : k \in DOMAIN t} \cup {Head(es)}
    BY <1>1, <1>3, <1>4, <1>5, <1>6
  <1> QED
    BY <1>2, <1>6, <1>7 DEF t

-----------------------------------------------------------------------------
\* One lemma per action of the loop: each preserves the inductive invariant.
LEMMA StartWalkInv == IInv /\ StartWalk => IInv'
  <1> SUFFICES ASSUME IInv, StartWalk PROVE IInv'
    OBVIOUS
  <1>1. stack' \in Seq(Ids) /\ {stack'[k] : k \in DOMAIN stack'} = selectedIds
    BY ArrangedIds DEF StartWalk
  <1>2. TypeOK'
    BY <1>1 DEF IInv, TypeOK, StartWalk, Phases
  <1>3. Seen' = selectedIds /\ Ahead' = {}
    BY <1>1 DEF Seen, Ahead, IInv, StartWalk
  <1>4. WalkInv'
    BY <1>3, ReachHoldsRoots DEF WalkInv, IInv, StartWalk
  <1> QED
    BY <1>2, <1>4 DEF IInv, StartWalk

LEMMA RejectUnknownRootInv == IInv /\ RejectUnknownRoot => IInv'
  <1> SUFFICES ASSUME IInv, RejectUnknownRoot PROVE IInv'
    OBVIOUS
  <1>1. TypeOK'
    BY DEF IInv, TypeOK, RejectUnknownRoot, Phases
  <1>2. Refused(request)
    BY WantedKnown DEF IInv, RejectUnknownRoot, Refused
  <1> QED
    BY <1>1, <1>2 DEF IInv, RejectUnknownRoot

LEMMA SkipVisitedInv == IInv /\ SkipVisited => IInv'
  <1> SUFFICES ASSUME IInv, SkipVisited PROVE IInv'
    OBVIOUS
  <1>1. stack \in Seq(Ids) /\ stack # <<>> /\ WalkInv
    BY DEF IInv, TypeOK, SkipVisited
  <1>2. stack' \in Seq(Ids)
    BY <1>1, PoppedStack DEF SkipVisited, Popped
  <1>3. {stack[k] : k \in DOMAIN stack} = {stack'[k] : k \in DOMAIN stack'} \cup {Top}
    BY <1>1, PoppedStack DEF SkipVisited, Popped, Top
  <1>4. Seen' = Seen /\ Ahead' = Ahead
    BY <1>3 DEF Seen, Ahead, SkipVisited
  <1>5. WalkInv'
    BY <1>1, <1>4 DEF WalkInv, SkipVisited
  <1>6. TypeOK'
    BY <1>2 DEF IInv, TypeOK, SkipVisited
  <1> QED
    BY <1>5, <1>6 DEF IInv, SkipVisited

LEMMA VisitInv == IInv /\ Visit => IInv'
  <1> SUFFICES ASSUME IInv, Visit PROVE IInv'
    OBVIOUS
  <1>1. stack \in Seq(Ids) /\ stack # <<>> /\ WalkInv /\ Ahead = {}
    BY DEF IInv, TypeOK, Visit, Ahead
  <1>2. stack' \in Seq(Ids) /\ Top \in Ids
    BY <1>1, PoppedStack DEF Visit, Popped, Top
  <1>3. {stack[k] : k \in DOMAIN stack} = {stack'[k] : k \in DOMAIN stack'} \cup {Top}
    BY <1>1, PoppedStack DEF Visit, Popped, Top
  <1>4. Seen' = Seen
    BY <1>3 DEF Seen, Visit
  <1>5. request.outgoing \in [Ids -> Seq(Edge)]
    BY DEF IInv, TypeOK, Request
  <1>6. edges' \in Seq(Edge)
    BY <1>2, <1>5 DEF Visit
  <1>7. \A k \in DOMAIN edges' : edges'[k].to \in Ids
    <2>1. \A k \in DOMAIN edges' : edges'[k] \in Edge
      BY <1>6
    <2> QED
      BY <2>1 DEF Edge
  <1>8. Ahead' = {q \in Ids : <<Top, q>> \in EdgePairs(request)}
    BY <1>2, <1>7 DEF Ahead, EdgePairs, Visit
  <1>9. Top \in Reach(selectedIds, EdgePairs(request))
    BY <1>1, <1>3 DEF WalkInv, Seen
  <1>10. Ahead' \subseteq Reach(selectedIds, EdgePairs(request))
    <2> SUFFICES ASSUME NEW q \in Ids, <<Top, q>> \in EdgePairs(request)
                 PROVE  q \in Reach(selectedIds, EdgePairs(request))
      BY <1>8
    <2> QED
      BY <1>9, ReachClosed DEF Closed
  <1>11. ASSUME NEW p \in EdgePairs(request), p[1] \in visited'
         PROVE  p[2] \in Seen' \cup Ahead'
    <2>1. CASE p[1] \in visited
      BY <2>1, <1>1, <1>4 DEF WalkInv
    <2>2. CASE p[1] = Top
      <3>1. p = <<Top, p[2]>> /\ p[2] \in Ids
        BY <2>2, EdgePairsType
      <3> QED
        BY <3>1, <1>8
    <2> QED
      BY <2>1, <2>2, <1>11 DEF Visit
  <1>12. WalkInv'
    BY <1>1, <1>4, <1>10, <1>11 DEF WalkInv, Visit
  <1>13. TypeOK'
    BY <1>2, <1>6 DEF IInv, TypeOK, Visit
  <1> QED
    BY <1>12, <1>13 DEF IInv, Visit

LEMMA FollowEdgeInv == IInv /\ FollowEdge => IInv'
  <1> SUFFICES ASSUME IInv, FollowEdge PROVE IInv'
    OBVIOUS
  <1> DEFINE edge == Head(edges)
             allowed == edge.relation \in request.relations
  <1>1. stack \in Seq(Ids) /\ edges \in Seq(Edge) /\ edges # <<>> /\ WalkInv
    BY DEF IInv, TypeOK, FollowEdge
  <1>2. edge \in Edge /\ edges' \in Seq(Edge)
    BY <1>1, FollowedEdge DEF FollowEdge
  <1>3. {edges[k] : k \in DOMAIN edges} = {edges'[k] : k \in DOMAIN edges'} \cup {edge}
    BY <1>1, FollowedEdge DEF FollowEdge
  <1>4. edge.to \in Ids
    BY <1>2 DEF Edge
  <1> HIDE DEF edge
  <1>5. Ahead = Ahead' \cup (IF allowed THEN {edge.to} ELSE {})
    <2>1. Ahead = {e.to : e \in {x \in {edges[k] : k \in DOMAIN edges} : x.relation \in request.relations}}
      BY DEF Ahead
    <2>2. Ahead' = {e.to : e \in {x \in {edges'[k] : k \in DOMAIN edges'} : x.relation \in request.relations}}
      BY DEF Ahead, FollowEdge
    <2> QED
      BY <2>1, <2>2, <1>3
  <1>6. stack' = IF allowed /\ edge.to \notin visited THEN Append(stack, edge.to) ELSE stack
    BY DEF FollowEdge, edge
  <1>7. stack' \in Seq(Ids)
    BY <1>1, <1>4, <1>6, PushedStack
  <1>8. Seen' = Seen \cup (IF allowed THEN {edge.to} ELSE {})
    <2>1. CASE allowed /\ edge.to \notin visited
      <3>1. {stack'[k] : k \in DOMAIN stack'} = {stack[k] : k \in DOMAIN stack} \cup {edge.to}
        BY <2>1, <1>1, <1>4, <1>6, PushedStack
      <3> QED
        BY <2>1, <3>1 DEF Seen, FollowEdge
    <2>2. CASE ~(allowed /\ edge.to \notin visited)
      BY <2>2, <1>6 DEF Seen, FollowEdge
    <2> QED
      BY <2>1, <2>2
  <1>9. Seen' \cup Ahead' = Seen \cup Ahead /\ Seen \subseteq Seen'
    BY <1>5, <1>8
  <1>10. WalkInv'
    BY <1>1, <1>9 DEF WalkInv, FollowEdge
  <1>11. TypeOK'
    BY <1>2, <1>7 DEF IInv, TypeOK, FollowEdge
  <1> QED
    BY <1>10, <1>11 DEF IInv, FollowEdge

LEMMA EndWalkInv == IInv /\ EndWalk => IInv'
  <1> SUFFICES ASSUME IInv, EndWalk PROVE IInv'
    OBVIOUS
  <1>1. TypeOK'
    BY DEF IInv, TypeOK, EndWalk, Phases
  <1>2. WalkInv'
    BY DEF IInv, WalkInv, EndWalk, Seen, Ahead
  <1> QED
    BY <1>1, <1>2 DEF IInv, EndWalk

LEMMA RejectUnknownMemberInv == IInv /\ RejectUnknownMember => IInv'
  <1> SUFFICES ASSUME IInv, RejectUnknownMember PROVE IInv'
    OBVIOUS
  <1>1. TypeOK'
    BY DEF IInv, TypeOK, RejectUnknownMember, Phases
  <1>2. visited \subseteq Wanted(request)
    BY FinishedWalk, WalkWithinWanted DEF IInv, RejectUnknownMember
  <1>3. Refused(request)
    BY <1>2 DEF RejectUnknownMember, UnknownMember, Refused
  <1> QED
    BY <1>1, <1>3 DEF IInv, RejectUnknownMember

LEMMA AddMembersInv == IInv /\ AddMembers => IInv'
  <1> SUFFICES ASSUME IInv, AddMembers PROVE IInv'
    OBVIOUS
  <1>1. MissingMembers \subseteq Names
    BY NamesAssumption DEF MissingMembers
  <1>2. TypeOK'
    BY <1>1 DEF IInv, TypeOK, AddMembers, Phases
  <1>3. visited \subseteq Wanted(request)
    BY FinishedWalk, WalkWithinWanted DEF IInv, AddMembers
  <1>4. ASSUME NEW m \in MissingMembers
        PROVE  m \in Wanted(request)
    <2>1. PICK id \in visited : m \in request.members[id]
      BY DEF MissingMembers
    <2>2. <<id, m>> \in MemberPairs(request)
      BY <2>1 DEF MissingMembers, MemberPairs, IInv, TypeOK
    <2> QED
      BY <2>1, <2>2, <1>3, ReachClosed DEF Wanted, Closed
  <1>5. edges' = <<>>
    BY DEF IInv, AddMembers
  <1> QED
    BY <1>2, <1>4, <1>5 DEF IInv, AddMembers

LEMMA FinishInv == IInv /\ Finish => IInv'
  <1> SUFFICES ASSUME IInv, Finish PROVE IInv'
    OBVIOUS
  <1>1. TypeOK'
    BY DEF IInv, TypeOK, Finish, Phases
  <1>2. WalkInv'
    BY DEF IInv, WalkInv, Finish, Seen, Ahead
  <1>3. MissingMembers' = {} /\ ~(request.validate /\ UnknownMember)'
    BY DEF Finish, MissingMembers, UnknownMember
  <1> QED
    BY <1>1, <1>2, <1>3 DEF IInv, Finish

\* The invariant is inductive.
LEMMA StepInv == IInv /\ [Next]_vars => IInv'
  <1> SUFFICES ASSUME IInv, [Next]_vars PROVE IInv'
    OBVIOUS
  <1>1. CASE Next
    BY <1>1, StartWalkInv, RejectUnknownRootInv, SkipVisitedInv, VisitInv, FollowEdgeInv,
       EndWalkInv, RejectUnknownMemberInv, AddMembersInv, FinishInv DEF Next
  <1>2. CASE UNCHANGED vars
    BY <1>2 DEF vars, IInv, TypeOK, WalkInv, Seen, Ahead, MissingMembers, UnknownMember
  <1> QED
    BY <1>1, <1>2

LEMMA AlwaysIInv == Spec => []IInv
  BY InitInv, StepInv, PTL DEF Spec

-----------------------------------------------------------------------------
\* The control state of the worklist is well typed: only ids the catalog holds
\* are pushed or visited (getTransitiveTargets looks edges up without a check).
THEOREM TypeCorrect == Spec => []TypeOK
  <1>1. IInv => TypeOK
    BY DEF IInv
  <1> QED
    BY <1>1, AlwaysIInv, PTL

\* A finished walk visited exactly the ids reachable from its roots, and membership
\* gathered no id the request does not reach, for every catalog and every policy.
THEOREM WalkIsExact == Spec => []WalkExact
  <1>1. IInv => WalkExact
    BY FinishedWalk DEF IInv, WalkExact
  <1> QED
    BY <1>1, AlwaysIInv, PTL

\* The contract speaks of the same requests, answers and refusals.
LEMMA SameWords ==
    /\ Contract!Request = Request
    /\ Contract!Wanted(request) = Wanted(request)
    /\ Contract!Refused(request) <=> Refused(request)
  <1>1. Contract!Request = Request
    BY DEF Contract!Request, Request, Contract!Edge, Edge
  <1>2. Contract!Wanted(request) = Wanted(request)
    BY DEF Contract!Wanted, Wanted, Contract!Reach, Reach, Contract!ClosedSupersets, ClosedSupersets,
       Contract!Field, Field, Contract!Closed, Closed, Contract!EdgePairs, EdgePairs,
       Contract!MemberPairs, MemberPairs
  <1> QED
    BY <1>1, <1>2 DEF Contract!Refused, Refused

\* The worklist implements the contract: what a caller sees is one step, from no
\* answer to the exact closure, or to a refusal exactly for an unknown id.
THEOREM Refinement == Spec => ImplementsContract
  <1>1. Init => Contract!Init
    BY RequestsAssumption, SameWords DEF Init, Contract!Init, Outcome, Contract!Pending
  <1>2. IInv /\ IInv' /\ [Next]_vars => [Contract!Next]_(Contract!contractVars)
    <2> SUFFICES ASSUME IInv, IInv', [Next]_vars
                 PROVE  [Contract!Next]_(Contract!contractVars)
      OBVIOUS
    <2>1. CASE Finish
      <3>1. phase = "members" /\ phase' = "done" /\ request' = request /\ visited' = visited
        BY <2>1 DEF Finish
      <3>2. visited = Wanted(request)
        BY <2>1, <3>1, FinishedClosure DEF Finish
      <3>3. ~Refused(request)
        <4>1. request.roots \subseteq Ids
          BY <3>1 DEF IInv, WalkInv
        <4> QED
          BY <4>1, <3>2, <2>1 DEF Finish, UnknownMember, Refused
      <3>4. Outcome = Contract!Pending /\ Outcome' = Contract!Resolved(Wanted(request))
        BY <3>1, <3>2 DEF Outcome, Contract!Pending, Contract!Resolved
      <3>5. Contract!Resolve
        BY <3>1, <3>3, <3>4, SameWords DEF Contract!Resolve
      <3> QED
        BY <3>5 DEF Contract!Next
    <2>2. CASE RejectUnknownRoot \/ RejectUnknownMember
      <3>1. phase \in {"select", "members"} /\ phase' = "failed" /\ request' = request
        BY <2>2 DEF RejectUnknownRoot, RejectUnknownMember
      <3>2. Refused(request)
        BY <3>1 DEF IInv
      <3>3. Outcome = Contract!Pending /\ Outcome' = Contract!Refusal
        BY <3>1 DEF Outcome, Contract!Pending, Contract!Refusal
      <3>4. Contract!Refuse
        BY <3>1, <3>2, <3>3, SameWords DEF Contract!Refuse
      <3> QED
        BY <3>4 DEF Contract!Next
    <2>3. CASE StartWalk \/ SkipVisited \/ Visit \/ FollowEdge \/ EndWalk \/ AddMembers
      <3>1. /\ phase \notin {"done", "failed"} /\ phase' \notin {"done", "failed"}
            /\ request' = request
        BY <2>3 DEF StartWalk, SkipVisited, Visit, FollowEdge, EndWalk, AddMembers
      <3> QED
        BY <3>1 DEF Outcome, Contract!contractVars
    <2>4. CASE UNCHANGED vars
      BY <2>4 DEF vars, Outcome, Contract!contractVars
    <2> QED
      BY <2>1, <2>2, <2>3, <2>4 DEF Next
  <1> QED
    BY <1>1, <1>2, AlwaysIInv, PTL DEF Spec, ImplementsContract, Contract!Spec
=============================================================================
