---------------------------- MODULE GraphQueries ----------------------------
(***************************************************************************)
(* How a composition explains itself (explainPath, explainPathsBatch,      *)
(* getCompositionProvenance): for each pair of ids a breadth-first search  *)
(* over the edges of some relations, pair after pair.  At the end, the     *)
(* other query of the graph, module Dependents over variables of its own.  *)
(***************************************************************************)
EXTENDS Naturals, Sequences, Reachability

CONSTANTS
    Names,       \* every id that can be asked about
    Ids,         \* the ids the graph holds
    Relations,
    EdgeBefore(_, _),    \* the order of sortEdges: by from, to and relation
    Requests,    \* the batches under study
    DependentsRequests   \* the questions for dependents under study

Edge == [from: Ids, to: Ids, relation: Relations]

Path == Seq(Edge)

(***************************************************************************)
(* outgoing     the adjacency lists, sorted                                *)
(* relations    the relations to explain by                                *)
(* pairs        from and to, in the order they are explained               *)
(***************************************************************************)
Request ==
    [outgoing:  [Ids -> Seq(Edge)],
     relations: SUBSET Relations,
     pairs:     Seq(Names \X Names)]

IsRequest(r) ==
    /\ r \in Request
    /\ \A id \in Ids : \A k \in DOMAIN r.outgoing[id] :
        /\ r.outgoing[id][k].from = id
        /\ \A j \in 1..k - 1 : ~EdgeBefore(r.outgoing[id][k], r.outgoing[id][j])

ASSUME IdsAssumption == Ids \subseteq Names
ASSUME EdgeOrderAssumption ==
    \A e, f \in Edge :
        /\ ~(EdgeBefore(e, f) /\ EdgeBefore(f, e))
        /\ e # f => EdgeBefore(e, f) \/ EdgeBefore(f, e)
        /\ \A g \in Edge : EdgeBefore(e, f) /\ EdgeBefore(f, g) => EdgeBefore(e, g)
ASSUME RequestsAssumption == \A r \in Requests : IsRequest(r)

VARIABLES
    request,     \* never modified
    phase,       \* "next" pair, "search" the queue, follow the "edges" of one entry
    visited,
    queue,       \* entries: a node and the path that led to it
    current,     \* the entry whose edges are followed
    rest,        \* its edges still to follow
    answers      \* the paths found, pair by pair

vars == <<request, phase, visited, queue, current, rest, answers>>

Entry == [node: Ids, path: Path]

EdgesOf(r) == UNION {{r.outgoing[id][k] : k \in DOMAIN r.outgoing[id]} : id \in Ids}

\* The pairs of ids the relations connect.
EdgePairs(r) == {<<e.from, e.to>> : e \in {d \in EdgesOf(r) : d.relation \in r.relations}}

Pair == request.pairs[Len(answers) + 1]

Init ==
    /\ request \in Requests
    /\ phase = "next"
    /\ visited = {} /\ queue = <<>> /\ current = <<>> /\ rest = <<>>
    /\ answers = <<>>

Answer(path) ==
    /\ answers' = Append(answers, path)
    /\ phase' = "next"
    /\ visited' = {} /\ queue' = <<>> /\ current' = <<>> /\ rest' = <<>>
    /\ UNCHANGED request

Asked == phase = "next" /\ Len(answers) < Len(request.pairs)

\* An unknown id has no path, an id needs none to itself.
AnswerTrivially ==
    /\ Asked
    /\ ~({Pair[1], Pair[2]} \subseteq Ids) \/ Pair[1] = Pair[2]
    /\ Answer(<<>>)

Begin ==
    /\ Asked
    /\ {Pair[1], Pair[2]} \subseteq Ids /\ Pair[1] # Pair[2]
    /\ visited' = {Pair[1]}
    /\ queue' = <<[node |-> Pair[1], path |-> <<>>]>>
    /\ phase' = "search"
    /\ UNCHANGED <<request, current, rest, answers>>

Shift ==
    /\ phase = "search" /\ queue # <<>>
    /\ current' = Head(queue)
    /\ rest' = request.outgoing[Head(queue).node]
    /\ queue' = Tail(queue)
    /\ phase' = "edges"
    /\ UNCHANGED <<request, visited, answers>>

\* The queue is empty: there is no path.
GiveUp ==
    /\ phase = "search" /\ queue = <<>>
    /\ Answer(<<>>)

\* Mutated form of Followed: the relation of an edge is not looked at.
FollowedUnasked(edge) == edge.to \notin visited

\* The edges not skipped.
Followed(edge) == edge.relation \in request.relations /\ edge.to \notin visited

SkipEdge ==
    /\ phase = "edges" /\ rest # <<>>
    /\ ~Followed(Head(rest))
    /\ rest' = Tail(rest)
    /\ UNCHANGED <<request, phase, visited, queue, current, answers>>

Arrive ==
    /\ phase = "edges" /\ rest # <<>>
    /\ Followed(Head(rest)) /\ Head(rest).to = Pair[2]
    /\ Answer(Append(current.path, Head(rest)))

NextEntry(edge) == [node |-> edge.to, path |-> Append(current.path, edge)]

\* Mutated form of FollowEdge: the entry is put at the front of the queue.
FollowEdgeFirst ==
    /\ phase = "edges" /\ rest # <<>>
    /\ Followed(Head(rest)) /\ Head(rest).to # Pair[2]
    /\ visited' = visited \cup {Head(rest).to}
    /\ queue' = <<NextEntry(Head(rest))>> \o queue
    /\ rest' = Tail(rest)
    /\ UNCHANGED <<request, phase, current, answers>>

FollowEdge ==
    /\ phase = "edges" /\ rest # <<>>
    /\ Followed(Head(rest)) /\ Head(rest).to # Pair[2]
    /\ visited' = visited \cup {Head(rest).to}
    /\ queue' = Append(queue, NextEntry(Head(rest)))
    /\ rest' = Tail(rest)
    /\ UNCHANGED <<request, phase, current, answers>>

EndEdges ==
    /\ phase = "edges" /\ rest = <<>>
    /\ phase' = "search"
    /\ UNCHANGED <<request, visited, queue, current, rest, answers>>

Next ==
    \/ AnswerTrivially \/ Begin \/ Shift \/ GiveUp
    \/ SkipEdge \/ Arrive \/ FollowEdge \/ EndEdges

Spec == Init /\ [][Next]_vars

-----------------------------------------------------------------------------
TypeOK ==
    /\ IsRequest(request)
    /\ phase \in {"next", "search", "edges"}
    /\ visited \subseteq Ids
    /\ queue \in Seq(Entry)
    /\ current \in Entry \cup {<<>>}
    /\ rest \in Path
    /\ answers \in Seq(Path)
    /\ Len(answers) <= Len(request.pairs)
    /\ phase # "next" => Len(answers) < Len(request.pairs)
    /\ phase = "edges" => current \in Entry

\* The steps lead from one id to the other along edges of the relations; no step
\* leads from an id to itself.
Leads(path, from, to) ==
    IF path = <<>> THEN from = to
    ELSE /\ path[1].from = from /\ path[Len(path)].to = to
         /\ \A k \in 1..Len(path) - 1 : path[k].to = path[k + 1].from
         /\ \A k \in DOMAIN path : path[k] \in EdgesOf(request) /\ path[k].relation \in request.relations

\* An answer is a path between its two ids, or empty when there is none: an unknown
\* id, the same id twice, or an id the relations do not reach from the other.
\* (explainPath)
Explains(path, from, to) ==
    IF path = <<>>
    THEN from = to \/ from \notin Ids \/ to \notin Ids \/ to \notin Reach({from}, EdgePairs(request))
    ELSE Leads(path, from, to)

AnswersExplain ==
    \A k \in DOMAIN answers : Explains(answers[k], request.pairs[k][1], request.pairs[k][2])

Done == Len(answers) = Len(request.pairs)

Followable(r) == {e \in EdgesOf(r) : e.relation \in r.relations}

\* The paths of n steps from one id to another.
PathsOf(r, n, from, to) ==
    {p \in [1..n -> Followable(r)] :
        /\ p[1].from = from /\ p[n].to = to
        /\ \A k \in 1..n - 1 : p[k].to = p[k + 1].from}

Precedes(p, q) ==
    \E k \in DOMAIN p :
        /\ \A j \in 1..k - 1 : p[j] = q[j]
        /\ EdgeBefore(p[k], q[k])

\* A non-empty answer is the least of the shortest paths: no shorter one exists, and
\* of those of its length it takes the first edge at every node, so that it does not
\* depend on the order descriptors were declared in.  (explainPath, sortEdges)
LeastOfShortest ==
    Done => \A k \in DOMAIN answers : answers[k] # <<>> =>
        LET p == answers[k]
        IN  /\ \A n \in 1..Len(p) - 1 : PathsOf(request, n, p[1].from, p[Len(p)].to) = {}
            /\ \A q \in PathsOf(request, Len(p), p[1].from, p[Len(p)].to) : ~Precedes(q, p)

-----------------------------------------------------------------------------
VARIABLES query, step, waiting, seen, following, found

queryVars == <<query, step, waiting, seen, following, found>>

D == INSTANCE Dependents WITH
        Requests <- DependentsRequests, request <- query, phase <- step, queue <- waiting,
        visited <- seen, rest <- following, dependents <- found

\* The dependents of an id are exactly the other ids that bring it along: those
\* whose own closure holds it, or those with an edge to it when one step is asked
\* for.  The closure walks the graph forwards and this walks it backwards.
\* (getDependents, getTransitiveTargets)
DependentsExact == D!DependentsExact
=============================================================================
