------------------------- MODULE CompositionClosure -------------------------
(***************************************************************************)
(* How a selection is resolved against a descriptor catalog: the depth-    *)
(* first walk of getTransitiveTargets (composition-graph), started by      *)
(* createCompositionSelection after it has checked the roots, inside the   *)
(* loop of resolveWithMembers (descriptor-selection) that adds the members *)
(* of every group the walk reached and walks again from the larger roots.  *)
(*                                                                         *)
(* The stack, the visited set and the edges still to follow are those of   *)
(* the code.  The order in which the roots are pushed is left open: the    *)
(* code sorts them, and the answer does not depend on it.                  *)
(***************************************************************************)
EXTENDS CatalogRequests, Integers

VARIABLES
    request,      \* the arguments, never modified
    selectedIds,  \* resolveWithMembers: the roots plus the members added so far
    stack,        \* getTransitiveTargets: ids still to visit, top at the end
    visited,      \* getTransitiveTargets: ids already visited
    edges,        \* the outgoing edges of the last visited id still to follow
    phase         \* where the control is

vars == <<request, selectedIds, stack, visited, edges, phase>>

Phases == {"select", "walk", "members", "done", "failed"}

\* The answer as the caller sees it.
Outcome ==
    CASE phase = "done"   -> [status |-> "resolved", ids |-> visited]
      [] phase = "failed" -> [status |-> "refused", ids |-> {}]
      [] OTHER            -> [status |-> "pending", ids |-> {}]

Contract == INSTANCE ClosureContract WITH outcome <- Outcome

\* The sequences that list a finite set once each.
Arrangements(S) ==
    {s \in [1..Cardinality(S) -> S] : \A x \in S : \E i \in 1..Cardinality(S) : s[i] = x}

\* Mutated form of MissingMembers: the groups behind the roots are overlooked.
MissingMembersOfRoots ==
    {m \in Ids :
        /\ m \in request.admitted
        /\ m \notin visited \cup selectedIds
        /\ \E id \in selectedIds : m \in request.members[id]}

\* Mutated form of MissingMembers: a member already present counts as missing.
MissingMembersRepeated ==
    {m \in Ids : m \in request.admitted /\ \E id \in visited : m \in request.members[id]}

\* The members the walk's groups still lack.  Providers wait for admission and
\* ids the catalog does not hold are passed over.
MissingMembers ==
    {m \in Ids :
        /\ m \in request.admitted
        /\ m \notin visited \cup selectedIds
        /\ \E id \in visited : m \in request.members[id]}

UnknownMember == \E id \in visited : ~(request.members[id] \subseteq Ids)

-----------------------------------------------------------------------------
Init ==
    /\ request \in Requests
    /\ selectedIds = request.roots
    /\ stack = <<>>
    /\ visited = {}
    /\ edges = <<>>
    /\ phase = "select"

\* createCompositionSelection accepts its ids and the walk starts from them.
StartWalk ==
    /\ phase = "select"
    /\ selectedIds \subseteq Ids
    /\ stack' \in Arrangements(selectedIds)
    /\ visited' = {}
    /\ phase' = "walk"
    /\ UNCHANGED <<request, selectedIds, edges>>

\* assertKnownDescriptorIds throws.
RejectUnknownRoot ==
    /\ phase = "select"
    /\ ~(selectedIds \subseteq Ids)
    /\ phase' = "failed"
    /\ UNCHANGED <<request, selectedIds, stack, visited, edges>>

Top == stack[Len(stack)]
Popped == SubSeq(stack, 1, Len(stack) - 1)

\* An id pushed more than once is dropped the second time it is popped.
SkipVisited ==
    /\ phase = "walk" /\ edges = <<>> /\ stack # <<>>
    /\ Top \in visited
    /\ stack' = Popped
    /\ UNCHANGED <<request, selectedIds, visited, edges, phase>>

Visit ==
    /\ phase = "walk" /\ edges = <<>> /\ stack # <<>>
    /\ Top \notin visited
    /\ stack' = Popped
    /\ visited' = visited \cup {Top}
    /\ edges' = request.outgoing[Top]
    /\ UNCHANGED <<request, selectedIds, phase>>

\* Mutated form of FollowEdge: the relation of the edge is not looked at.
FollowAnyEdge ==
    /\ phase = "walk" /\ edges # <<>>
    /\ stack' = IF Head(edges).to \notin visited THEN Append(stack, Head(edges).to) ELSE stack
    /\ edges' = Tail(edges)
    /\ UNCHANGED <<request, selectedIds, visited, phase>>

\* One turn of the loop over the outgoing edges.
FollowEdge ==
    /\ phase = "walk" /\ edges # <<>>
    /\ LET edge == Head(edges)
       IN  stack' = IF edge.relation \in request.relations /\ edge.to \notin visited
                      THEN Append(stack, edge.to)
                      ELSE stack
    /\ edges' = Tail(edges)
    /\ UNCHANGED <<request, selectedIds, visited, phase>>

EndWalk ==
    /\ phase = "walk" /\ edges = <<>> /\ stack = <<>>
    /\ phase' = "members"
    /\ UNCHANGED <<request, selectedIds, stack, visited, edges>>

\* A resolved group names a member the catalog lacks.
RejectUnknownMember ==
    /\ phase = "members"
    /\ request.validate /\ UnknownMember
    /\ phase' = "failed"
    /\ UNCHANGED <<request, selectedIds, stack, visited, edges>>

\* Some members were missing: walk again, from the larger set of roots.
AddMembers ==
    /\ phase = "members"
    /\ ~(request.validate /\ UnknownMember)
    /\ MissingMembers # {}
    /\ selectedIds' = selectedIds \cup MissingMembers
    /\ phase' = "select"
    /\ UNCHANGED <<request, stack, visited, edges>>

Finish ==
    /\ phase = "members"
    /\ ~(request.validate /\ UnknownMember)
    /\ MissingMembers = {}
    /\ phase' = "done"
    /\ UNCHANGED <<request, selectedIds, stack, visited, edges>>

Next ==
    \/ StartWalk \/ RejectUnknownRoot
    \/ SkipVisited \/ Visit \/ FollowEdge \/ EndWalk
    \/ RejectUnknownMember \/ AddMembers \/ Finish

\* The code is synchronous: once called, it runs until it returns or throws.
Spec == Init /\ [][Next]_vars /\ WF_vars(Next)

-----------------------------------------------------------------------------
TypeOK ==
    /\ request \in Request
    /\ selectedIds \subseteq Names
    /\ stack \in Seq(Ids)
    /\ visited \subseteq Ids
    /\ edges \in Seq(Edge)
    /\ phase \in Phases

\* Every answer of the worklist is the one the contract gives in a single step:
\* the exact closure, or a refusal exactly when the request names an unknown id.
\* (getTransitiveTargets, createCompositionSelection, resolveWithMembers)
ImplementsContract == Contract!Spec

\* A walk that has emptied its stack has followed every allowed edge of every
\* id it visited, also those it met again while they were still on the stack;
\* and no member was gathered that the request does not reach.
\* (getTransitiveTargets: visited check on push and on pop)
WalkExact ==
    phase = "members" =>
        /\ visited = Reach(selectedIds, EdgePairs(request))
        /\ selectedIds \subseteq Wanted(request)

\* The walk always answers, on cyclic graphs and cyclic memberships too.
Terminates == <>(phase \in {"done", "failed"})
=============================================================================
