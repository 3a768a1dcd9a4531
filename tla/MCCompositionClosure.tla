------------------------ MODULE MCCompositionClosure ------------------------
(***************************************************************************)
(* Two families of requests over three ids, from every interesting set of  *)
(* roots: graphs of at most three edges of an allowed or of another        *)
(* relation without groups, and graphs of at most one edge with at most    *)
(* three group memberships.  "ghost" is a name no descriptor carries.      *)
(***************************************************************************)
EXTENDS CompositionClosure, SequencesExt

MCIds == {"a", "b", "c"}
MCNames == MCIds \cup {"ghost"}
MCRelations == {"dependencies", "other"}

UpToThree(S) == {{}} \cup {{x, y, z} : x, y, z \in S}
UpToOne(S) == {{}} \cup {{x} : x \in S}

AllEdges == MCIds \X MCIds \X MCRelations
AllMemberships == {p \in MCIds \X MCNames : p[1] # p[2]}

AdjacencyLists(E) ==
    [id \in MCIds |-> SetToSeq({[to |-> e[2], relation |-> e[3]] : e \in {x \in E : x[1] = id}})]

MembersOf(M) == [id \in MCIds |-> {p[2] : p \in {x \in M : x[1] = id}}]

RequestsOver(edgeSets, memberSets, admittedSets, rootSets, modes) ==
    {[outgoing |-> AdjacencyLists(E), relations |-> {"dependencies"},
      members |-> MembersOf(M), admitted |-> A, roots |-> R, validate |-> v] :
        E \in edgeSets, M \in memberSets, A \in admittedSets, R \in rootSets, v \in modes}

MCRequests ==
    RequestsOver(UpToThree(AllEdges), {{}}, {MCIds}, {{"a"}, {"a", "c"}, {"a", "ghost"}}, {FALSE})
    \cup
    RequestsOver(UpToOne(AllEdges), UpToThree(AllMemberships), {MCIds, {"a", "b"}},
                 {{"a"}, {"a", "c"}}, BOOLEAN)
=============================================================================
