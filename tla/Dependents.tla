------------------------------ MODULE Dependents ------------------------------
(***************************************************************************)
(* Which ids depend on one (getDependents): a worklist over the incoming   *)
(* edges of some relations, through any number of steps or only one.       *)
(***************************************************************************)
EXTENDS Naturals, Sequences, Reachability

CONSTANTS Names, Ids, Relations, Requests

Edge == [from: Ids, relation: Relations]

Request ==
    [incoming: [Ids -> Seq(Edge)], relations: SUBSET Relations, target: Names, transitive: BOOLEAN]

VARIABLES
    request,     \* never modified
    phase,       \* "start", "walk" the queue, follow the "edges" of one id, "done"
    queue,
    visited,
    rest,        \* the edges to the id still to follow
    dependents   \* the answer

vars == <<request, phase, queue, visited, rest, dependents>>

\* The edges <<from, to>> of the relations.
EdgePairs(r) ==
    {p \in Ids \X Ids :
        \E k \in DOMAIN r.incoming[p[2]] :
            r.incoming[p[2]][k].from = p[1] /\ r.incoming[p[2]][k].relation \in r.relations}

Init ==
    /\ request \in Requests /\ request \in Request
    /\ phase = "start"
    /\ queue = <<>> /\ visited = {} /\ rest = <<>> /\ dependents = {}

RejectUnknown ==
    /\ phase = "start" /\ request.target \notin Ids
    /\ phase' = "done"
    /\ UNCHANGED <<request, queue, visited, rest, dependents>>

Start ==
    /\ phase = "start" /\ request.target \in Ids
    /\ queue' = <<request.target>>
    /\ phase' = "walk"
    /\ UNCHANGED <<request, visited, rest, dependents>>

SkipVisited ==
    /\ phase = "walk" /\ queue # <<>> /\ Head(queue) \in visited
    /\ queue' = Tail(queue)
    /\ UNCHANGED <<request, phase, visited, rest, dependents>>

\* Mutated form of IsExpanded: a direct dependent is expanded too.
IsExpandedTwice(id) ==
    request.transitive \/ id = request.target \/ <<id, request.target>> \in EdgePairs(request)

\* Without transitive only the target's own edges are followed.
IsExpanded(id) == request.transitive \/ id = request.target

Visit ==
    /\ phase = "walk" /\ queue # <<>> /\ Head(queue) \notin visited
    /\ visited' = visited \cup {Head(queue)}
    /\ queue' = Tail(queue)
    /\ rest' = IF IsExpanded(Head(queue)) THEN request.incoming[Head(queue)] ELSE <<>>
    /\ phase' = "edges"
    /\ UNCHANGED <<request, dependents>>

\* The edges not skipped.
Followed(edge) == edge.relation \in request.relations /\ edge.from \notin visited

SkipEdge ==
    /\ phase = "edges" /\ rest # <<>> /\ ~Followed(Head(rest))
    /\ rest' = Tail(rest)
    /\ UNCHANGED <<request, phase, queue, visited, dependents>>

FollowEdge ==
    /\ phase = "edges" /\ rest # <<>> /\ Followed(Head(rest))
    /\ queue' = Append(queue, Head(rest).from)
    /\ rest' = Tail(rest)
    /\ UNCHANGED <<request, phase, visited, dependents>>

EndEdges ==
    /\ phase = "edges" /\ rest = <<>>
    /\ phase' = "walk"
    /\ UNCHANGED <<request, queue, visited, rest, dependents>>

Finish ==
    /\ phase = "walk" /\ queue = <<>>
    /\ dependents' = visited \ {request.target}
    /\ phase' = "done"
    /\ UNCHANGED <<request, queue, visited, rest>>

Next ==
    \/ RejectUnknown \/ Start \/ SkipVisited \/ Visit
    \/ SkipEdge \/ FollowEdge \/ EndEdges \/ Finish

Spec == Init /\ [][Next]_vars

-----------------------------------------------------------------------------
TypeOK ==
    /\ request \in Request
    /\ phase \in {"start", "walk", "edges", "done"}
    /\ queue \in Seq(Ids)
    /\ visited \subseteq Ids
    /\ rest \in Seq(Edge)
    /\ dependents \subseteq Ids
    /\ phase \in {"walk", "edges"} => request.target \in Ids

DependsOn(id) ==
    IF request.transitive
    THEN request.target \in Reach({id}, EdgePairs(request))
    ELSE <<id, request.target>> \in EdgePairs(request)

\* The dependents of an id are exactly the other ids that bring it along: those
\* whose own closure holds it, or those with an edge to it when one step is asked
\* for.  The closure walks the graph forwards and this walks it backwards.
\* (getDependents, getTransitiveTargets)
DependentsExact ==
    phase = "done" =>
        dependents = {id \in Ids : request.target \in Ids /\ id # request.target /\ DependsOn(id)}
=============================================================================
