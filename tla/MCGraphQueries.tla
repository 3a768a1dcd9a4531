--------------------------- MODULE MCGraphQueries ---------------------------
(***************************************************************************)
(* The two queries of the composition graph, one after the other's kind.   *)
(*                                                                         *)
(* The provenance of compositions over four ids: graphs of at most four    *)
(* edges of the provenance relation, and of at most three edges of two     *)
(* relations, one of which is not walked, with one or two roots, an id     *)
(* selected and in the base among them.  The dependents of an id in graphs *)
(* of at most four edges, self-loops and a relation that is not asked for  *)
(* among them.  The ghost is unknown.                                      *)
(***************************************************************************)
EXTENDS GraphQueries, FiniteSets, SequencesExt

MCIds == 1..4
Ghost == 5
MCNames == MCIds \cup {Ghost}
MCRelations == {1, 2}

\* buildDescriptorGraph sorts the edges of a node.
MCEdgeBefore(e, f) ==
    \/ e.from < f.from
    \/ e.from = f.from /\ (e.to < f.to \/ (e.to = f.to /\ e.relation < f.relation))

Outgoing(edges) ==
    [id \in MCIds |-> SetToSortSeq({e \in edges : e.from = id}, MCEdgeBefore)]

Sorted(ids) == SetToSortSeq(ids, <)

\* The ids a composition resolves: through the relations of its resolution.
Resolved(edges, roots) == Reach(roots, {<<e.from, e.to>> : e \in edges})

\* getCompositionProvenance: each resolved id is explained from each other root,
\* the selected ones first and then the base.
ProvenancePairs(resolved, selected, base) ==
    LET sources == Sorted(selected) \o Sorted(base)
        of(d)   == SelectSeq([k \in DOMAIN sources |-> <<sources[k], d>>], LAMBDA p : p[1] # d)
    IN  FlattenSeq([k \in DOMAIN Sorted(resolved) |-> of(Sorted(resolved)[k])])

UpTo(n, S) == UNION {kSubset(k, S) : k \in 0..n}

OneRelation == {e \in Edge : e.relation = 1 /\ e.from # e.to}

\* Edges of both, among the first two ids and on to the third.
BothRelations == {e \in Edge : e.from \in {1, 2} /\ e.to \in {2, 3}}

\* Every pair there is besides.
OtherPairs == <<<<4, 1>>, <<4, 4>>, <<1, Ghost>>, <<Ghost, 1>>>>

Case(edges, selected, base, relations) ==
    [outgoing |-> Outgoing(edges), relations |-> relations,
     pairs |-> ProvenancePairs(Resolved(edges, selected \cup base), selected, base) \o OtherPairs]

MCRequests ==
    {Case(E, {1}, {}, {1}) : E \in UpTo(4, OneRelation)}
    \cup {Case(E, {1, 3}, {1}, {1}) : E \in UpTo(2, OneRelation)}
    \cup {Case(E, {1}, {2}, {1}) : E \in UpTo(3, BothRelations)}

-----------------------------------------------------------------------------
Dependency == [from: MCIds, to: MCIds]

Incoming(edges) ==
    [id \in MCIds |-> SetToSortSeq({e \in edges : e.to = id}, LAMBDA e, f : e.from < f.from)]

\* The last edges of a list may be of the other relation.
Listed(edges, others) ==
    [id \in MCIds |->
        [k \in DOMAIN Incoming(edges)[id] |-> [from |-> Incoming(edges)[id][k].from, relation |-> 1]]
        \o IF id \in others THEN <<[from |-> id + 1, relation |-> 2]>> ELSE <<>>]

DependentsOf(edges, others, target, transitive) ==
    [incoming |-> Listed(edges, others), relations |-> {1}, target |-> target, transitive |-> transitive]

MCDependentsRequests ==
    {DependentsOf(E, {}, 1, t) : E \in UpTo(4, Dependency), t \in BOOLEAN}
    \cup {DependentsOf(E, {1, 2}, x, t) : E \in UpTo(2, Dependency), x \in {1, Ghost}, t \in BOOLEAN}

\* A query of one kind, and none of the other.
MCInit ==
    \/ /\ Init
       /\ query = DependentsOf({}, {}, Ghost, FALSE) /\ step = "done"
       /\ waiting = <<>> /\ seen = {} /\ following = <<>> /\ found = {}
    \/ /\ D!Init
       /\ request = Case({}, {}, {}, {}) /\ phase = "idle"
       /\ visited = {} /\ queue = <<>> /\ current = <<>> /\ rest = <<>> /\ answers = <<>>

MCNext == (Next /\ UNCHANGED queryVars) \/ (D!Next /\ UNCHANGED vars)

MCSpec == MCInit /\ [][MCNext]_<<vars, queryVars>>
=============================================================================
