--------------------------- MODULE CatalogRequests ---------------------------
(***************************************************************************)
(* The requests a descriptor catalog answers, and what each one asks for.  *)
(***************************************************************************)
EXTENDS Sequences, FiniteSets, Reachability

CONSTANTS
    Names,       \* every id a descriptor, a selection or a membership can write
    Ids,         \* the ids the catalog holds (the keys of its descriptor map)
    Relations,   \* relation ids: "dependencies", "defaultProviders", host relations
    Requests     \* the requests under study

Edge == [to: Ids, relation: Relations]

(***************************************************************************)
(* outgoing   the adjacency lists of the graph                             *)
(* relations  the relation ids the policy resolves through                 *)
(* members    the group members an item names; a plain item names none     *)
(* admitted   the ids that membership may bring in: every non-provider,    *)
(*            and the providers the includeProvider callback accepts       *)
(* roots      the selected and the base descriptors                        *)
(* validate   whether a member the catalog lacks is an error               *)
(***************************************************************************)
Request ==
    [outgoing:  [Ids -> Seq(Edge)],
     relations: SUBSET Relations,
     members:   [Ids -> SUBSET Names],
     admitted:  SUBSET Ids,
     roots:     SUBSET Names,
     validate:  BOOLEAN]

ASSUME NamesAssumption == Ids \subseteq Names /\ IsFiniteSet(Names)
ASSUME RequestsAssumption == \A r \in Requests : r \in Request

\* The pairs of ids an allowed relation connects.
EdgePairs(r) ==
    {p \in Ids \X Ids :
        \E k \in DOMAIN r.outgoing[p[1]] :
            /\ r.outgoing[p[1]][k].to = p[2]
            /\ r.outgoing[p[1]][k].relation \in r.relations}

\* The pairs <<group, member>> along which membership activates an id.
MemberPairs(r) ==
    {p \in Ids \X Ids : p[2] \in r.members[p[1]] /\ p[2] \in r.admitted}

\* The ids a request asks for.
Wanted(r) == Reach(r.roots, EdgePairs(r) \cup MemberPairs(r))

\* A request is refused for an unknown root, or, when members are validated,
\* for an unknown member of any group the answer would hold.
Refused(r) ==
    \/ ~(r.roots \subseteq Ids)
    \/ r.validate /\ \E id \in Wanted(r) : ~(r.members[id] \subseteq Ids)
=============================================================================
